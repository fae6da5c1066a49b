---------------------------- MODULE GroupProofs ----------------------------
(***************************************************************************)
(* Theorems about module Group, for any set of nodes and any bounds: its   *)
(* types, who can read what, and what all members end with, the admin's    *)
(* version of the membership and the keys of each other; and, while no     *)
(* chain can forget a jumped-over key, which messages may be thrown away.  *)
(***************************************************************************)
EXTENDS Group, FiniteSetTheorems, TLAPS

-----------------------------------------------------------------------------
(* The inductive invariant                                                 *)

\* Nothing is sent to oneself, and only the admin publishes a membership.
WellAddressed ==
  \A e \in queue \cup net :
    /\ e.from # e.to
    /\ e.kind \in {"update", "welcome"} => e.from = Admin
    /\ e.kind = "welcome" => e.to \in e.row.members

AdminStays == Knows(Admin) => Admin \in rec[Admin].members

\* A node's own key is the last one it made, and ahead of what it sent with it.
OwnIsNewest ==
  \A s \in Nodes :
    /\ keys[s][s].key <= made[s]
    /\ keys[s][s].gen = 0 <=> keys[s][s].key = 0
    /\ \A m \in sent : m.from = s =>
         /\ m.from \in m.audience
         /\ m.key \in 1..made[s]
         /\ m.key = keys[s][s].key => m.n < keys[s][s].n

PointsAreMade ==
  \A s, x \in Nodes : s # x => \A d \in Points(x, s) : d.key <= made[s]

\* Whoever has the current key of a node is a member as that node knows the group.
HoldersAreMembers ==
  \A s, x \in Nodes : s # x /\ HasKey(s, s) =>
    \A d \in Points(x, s) : d.key = keys[s][s].key => x \in rec[s].members

IInv ==
  /\ TypeOK /\ WellAddressed /\ AdminStays
  /\ OwnIsNewest /\ PointsAreMade /\ HoldersAreMembers /\ AudienceOnly

-----------------------------------------------------------------------------
(* What a step may do to keys, points and messages.  Every action does no  *)
(* more (GroupStep), and no more is needed (StepKeeps).                    *)

\* s's own key disappears, is replaced by a new one, or moves on; only in the last
\* case do those who have it keep it, and then they are still members.
OwnStep(s) ==
  \/ keys'[s][s].gen = 0 /\ keys'[s][s].key = 0
  \/ keys'[s][s].gen > 0 /\ keys'[s][s].key = made[s] + 1
  \/ /\ keys[s][s].gen > 0 /\ keys'[s][s].gen > 0
     /\ keys'[s][s].key = keys[s][s].key
     /\ keys[s][s].n <= keys'[s][s].n
     /\ rec[s].members \subseteq rec'[s].members

MadeStep(s) == made[s] <= made'[s] /\ keys'[s][s].key <= made'[s]

\* What x holds of s is forgotten, moves forward, or is a point given to x.
HeldStep(x, s) ==
  \/ keys'[x][s] = NoKey
  \/ /\ keys'[x][s].key = keys[x][s].key
     /\ keys[x][s].n <= keys'[x][s].n
     /\ \A i \in keys'[x][s].skipped : i \in keys[x][s].skipped \/ keys[x][s].n <= i
  \/ \E d \in Points(x, s) : keys'[x][s] = NewReceiver(d)

\* A new payload gives a member the sender's own key, where it stands after the step.
Honest(e) ==
  /\ e.kind = "key" =>
       /\ keys'[e.from][e.from].gen > 0
       /\ e.dist = Point(keys'[e.from][e.from])
       /\ e.to \in rec'[e.from].members
  /\ e.kind = "welcome" =>
       /\ e.dists[e.from] = Point(keys'[e.from][e.from])
       /\ e.to \in rec'[e.from].members

SentStep(m) ==
  /\ keys[m.from][m.from].gen > 0
  /\ m.key = keys[m.from][m.from].key /\ m.n = keys[m.from][m.from].n
  /\ keys'[m.from][m.from].key = m.key /\ keys'[m.from][m.from].n = m.n + 1
  /\ m.from \in m.audience /\ m.audience = rec[m.from].members

GroupStep ==
  /\ \A s \in Nodes : OwnStep(s) /\ MadeStep(s)
  /\ \A s, x \in Nodes : s # x => HeldStep(x, s)
  /\ \A e \in (queue \cup net)' : e \in queue \cup net \/ Honest(e)
  /\ \A m \in sent' : m \in sent \/ SentStep(m)

LEMMA PointTypes ==
  /\ NoKey \in Key
  /\ \A k \in Key : Point(k) \in Dist
  /\ \A d \in Dist : NewReceiver(d) \in Key /\ Point(NewReceiver(d)) = d
BY DEF NoKey, Key, Dist, Point, NewReceiver

LEMMA PointsAreDists ==
  ASSUME TypeOK, NEW x \in Nodes, NEW s \in Nodes, NEW d \in Points(x, s)
  PROVE  d \in Dist
<1>1. keys[x][s] \in Key
  BY DEF TypeOK
<1>2. \A e \in queue \cup net : e.kind = "key" => e.dist \in Dist
  BY DEF TypeOK, Payload, Msg
<1>3. \A e \in queue \cup net : e.kind = "welcome" => e.dists[s] \in Dist
  BY DEF TypeOK, Payload, Msg
<1>. QED BY <1>1, <1>2, <1>3, PointTypes DEF Points

LEMMA NextPointsAreDists ==
  ASSUME TypeOK', NEW x \in Nodes, NEW s \in Nodes, NEW d \in Points(x, s)'
  PROVE  d.key \in Nat /\ d.n \in Nat
<1>1. keys'[x][s] \in Key
  BY DEF TypeOK
<1>2. \A e \in (queue \cup net)' : e.kind = "key" => e.dist \in Dist
  BY DEF TypeOK, Payload, Msg
<1>3. \A e \in (queue \cup net)' : e.kind = "welcome" => e.dists[s] \in Dist
  BY DEF TypeOK, Payload, Msg
<1>4. d \in Dist
  BY <1>1, <1>2, <1>3, PointTypes DEF Points
<1>. QED BY <1>4 DEF Dist

\* Where a point comes from.
LEMMA PointOrigin ==
  ASSUME TypeOK, TypeOK', GroupStep,
         NEW x \in Nodes, NEW s \in Nodes, s # x, NEW d \in Points(x, s)'
  PROVE  \/ d.key = 0
         \/ \E d0 \in Points(x, s) : d0.key = d.key /\ d0.n <= d.n
         \/ /\ keys'[s][s].gen > 0 /\ x \in rec'[s].members
            /\ d.key = keys'[s][s].key /\ d.n = keys'[s][s].n
<1>1. \/ d = Point(keys'[x][s])
      \/ \E e \in (queue \cup net)' : e.kind = "key" /\ e.from = s /\ e.to = x /\ d = e.dist
      \/ \E e \in (queue \cup net)' :
           e.kind = "welcome" /\ e.from = s /\ e.to = x /\ d = e.dists[s]
  BY DEF Points
<1>2. \A d0 \in Points(x, s) : d0 \in Dist /\ d0.n <= d0.n
  BY PointsAreDists DEF Dist
<1>3. CASE d = Point(keys'[x][s])
  <2>0. HeldStep(x, s)
    BY DEF GroupStep
  <2>1. CASE keys'[x][s] = NoKey
    BY <1>3, <2>1 DEF Point, NoKey
  <2>2. CASE keys'[x][s].key = keys[x][s].key /\ keys[x][s].n <= keys'[x][s].n
    <3>1. Point(keys[x][s]) \in Points(x, s)
      BY DEF Points
    <3>. QED BY <1>3, <2>2, <3>1 DEF Point
  <2>3. CASE \E d0 \in Points(x, s) : keys'[x][s] = NewReceiver(d0)
    BY <1>2, <1>3, <2>3, PointTypes
  <2>. QED BY <2>0, <2>1, <2>2, <2>3 DEF HeldStep
<1>4. ASSUME NEW e \in (queue \cup net)', e \in queue \cup net \/ Honest(e),
             e.kind = "key", e.from = s, e.to = x, d = e.dist
      PROVE  \/ \E d0 \in Points(x, s) : d0.key = d.key /\ d0.n <= d.n
             \/ /\ keys'[s][s].gen > 0 /\ x \in rec'[s].members
                /\ d.key = keys'[s][s].key /\ d.n = keys'[s][s].n
  <2>1. CASE e \in queue \cup net
    <3>1. d \in Points(x, s)
      BY <1>4, <2>1 DEF Points
    <3>. QED BY <1>2, <3>1
  <2>2. CASE Honest(e)
    BY <1>4, <2>2 DEF Honest, Point
  <2>. QED BY <1>4, <2>1, <2>2
<1>5. ASSUME NEW e \in (queue \cup net)', e \in queue \cup net \/ Honest(e),
             e.kind = "welcome", e.from = s, e.to = x, d = e.dists[s]
      PROVE  \/ d.key = 0
             \/ \E d0 \in Points(x, s) : d0.key = d.key /\ d0.n <= d.n
             \/ /\ keys'[s][s].gen > 0 /\ x \in rec'[s].members
                /\ d.key = keys'[s][s].key /\ d.n = keys'[s][s].n
  <2>1. CASE e \in queue \cup net
    <3>1. d \in Points(x, s)
      BY <1>5, <2>1 DEF Points
    <3>. QED BY <1>2, <3>1
  <2>2. CASE Honest(e)
    <3>1. x \in rec'[s].members /\ d.key = keys'[s][s].key /\ d.n = keys'[s][s].n
      BY <1>5, <2>2 DEF Honest, Point
    <3>2. keys'[s][s].gen > 0 \/ keys'[s][s].key = 0
      BY DEF GroupStep, OwnStep
    <3>. QED BY <3>1, <3>2
  <2>. QED BY <1>5, <2>1, <2>2
<1>. QED BY <1>1, <1>3, <1>4, <1>5 DEF GroupStep

LEMMA StepKeeps ==
  ASSUME IInv, TypeOK', GroupStep
  PROVE  OwnIsNewest' /\ PointsAreMade' /\ HoldersAreMembers' /\ AudienceOnly'
<1>. USE DEF IInv
<1>1. ASSUME NEW s \in Nodes
      PROVE  /\ keys[s][s] \in Key /\ keys'[s][s] \in Key
             /\ made[s] \in Nat /\ made'[s] \in Nat
             /\ OwnStep(s) /\ MadeStep(s)
             /\ keys[s][s].key <= made[s] /\ (keys[s][s].gen = 0 <=> keys[s][s].key = 0)
  BY <1>1 DEF TypeOK, GroupStep, OwnIsNewest
<1>2. ASSUME NEW m \in sent'
      PROVE  /\ m.from \in Nodes /\ m.key \in Nat /\ m.n \in Nat
             /\ m \in sent \/ SentStep(m)
  BY <1>2 DEF TypeOK, GroupStep
\* What a message of s, old or new, says of s's key after the step.
<1>3. ASSUME NEW s \in Nodes, NEW m \in sent', m.from = s
      PROVE  /\ m.from \in m.audience
             /\ m.key \in 1..made'[s]
             /\ m.key = keys'[s][s].key => m.n < keys'[s][s].n
  <2>1. CASE m \in sent
    <3>1. /\ m.from \in m.audience /\ m.key \in 1..made[s]
          /\ m.key = keys[s][s].key => m.n < keys[s][s].n
      BY <1>3, <2>1 DEF OwnIsNewest
    <3>2. /\ keys[s][s].n \in Nat /\ keys'[s][s].n \in Nat
          /\ keys[s][s].key \in Nat /\ keys'[s][s].key \in Nat
      BY <1>1 DEF Key
    <3>. QED BY <1>1, <1>2, <3>1, <3>2 DEF OwnStep, MadeStep
  <2>2. CASE SentStep(m)
    <3>1. /\ keys[s][s].n \in Nat /\ keys'[s][s].n \in Nat /\ keys[s][s].gen \in Nat
          /\ keys[s][s].key \in Nat /\ keys'[s][s].key \in Nat
      BY <1>1 DEF Key
    <3>. QED BY <1>1, <1>2, <1>3, <2>2, <3>1 DEF SentStep, MadeStep
  <2>. QED BY <1>2, <2>1, <2>2
<1>4. OwnIsNewest'
  <2>1. ASSUME NEW s \in Nodes
        PROVE  keys'[s][s].key <= made'[s] /\ (keys'[s][s].gen = 0 <=> keys'[s][s].key = 0)
    <3>1. /\ keys[s][s].key \in Nat /\ keys'[s][s].key \in Nat
          /\ keys[s][s].gen \in Nat /\ keys'[s][s].gen \in Nat
      BY <1>1 DEF Key
    <3>. QED BY <1>1, <3>1 DEF OwnStep, MadeStep
  <2>. QED BY <1>3, <2>1 DEF OwnIsNewest
<1>5. ASSUME NEW s \in Nodes, NEW x \in Nodes, s # x, NEW d \in Points(x, s)'
      PROVE  /\ d.key <= made'[s]
             /\ keys'[s][s].gen > 0 /\ d.key = keys'[s][s].key => x \in rec'[s].members
             /\ \A m \in sent' : m.from = s /\ x \notin m.audience /\ d.key = m.key => d.n > m.n
  <2>0. /\ keys[s][s].n \in Nat /\ keys'[s][s].n \in Nat
        /\ keys[s][s].key \in Nat /\ keys'[s][s].key \in Nat
        /\ keys[s][s].gen \in Nat /\ keys'[s][s].gen \in Nat
    BY <1>1 DEF Key
  <2>1. CASE d.key = 0
    BY <1>1, <1>3, <1>4, <2>0, <2>1 DEF OwnIsNewest
  <2>2. ASSUME NEW d0 \in Points(x, s), d0.key = d.key, d0.n <= d.n
        PROVE  /\ d.key <= made'[s]
               /\ keys'[s][s].gen > 0 /\ d.key = keys'[s][s].key => x \in rec'[s].members
               /\ \A m \in sent' :
                    m.from = s /\ x \notin m.audience /\ d.key = m.key => d.n > m.n
    <3>1. d0.key \in Nat /\ d0.n \in Nat /\ d0.key <= made[s]
      BY <1>5, PointsAreDists DEF Dist, PointsAreMade
    <3>2. d.key <= made'[s]
      BY <1>1, <2>2, <3>1 DEF MadeStep
    <3>3. keys[s][s].gen > 0 /\ d0.key = keys[s][s].key => x \in rec[s].members
      BY <1>5 DEF HoldersAreMembers, HasKey
    <3>4. keys'[s][s].gen > 0 /\ d.key = keys'[s][s].key => x \in rec'[s].members
      BY <1>1, <2>0, <2>2, <3>1, <3>3 DEF OwnStep
    <3>5. ASSUME NEW m \in sent', m.from = s, x \notin m.audience, d.key = m.key
          PROVE  d.n > m.n
      <4>1. m \in sent
        BY <1>2, <2>2, <3>3, <3>5 DEF SentStep
      <4>2. d0.n > m.n
        BY <1>5, <2>2, <3>5, <4>1 DEF AudienceOnly
      <4>3. d.n \in Nat
        BY <1>5, NextPointsAreDists
      <4>. QED BY <1>2, <2>2, <3>1, <4>2, <4>3
    <3>. QED BY <3>2, <3>4, <3>5
  <2>3. CASE /\ keys'[s][s].gen > 0 /\ x \in rec'[s].members
             /\ d.key = keys'[s][s].key /\ d.n = keys'[s][s].n
    BY <1>1, <1>3, <2>0, <2>3 DEF MadeStep
  <2>. QED BY <1>5, <2>1, <2>2, <2>3, PointOrigin
<1>6. PointsAreMade' /\ HoldersAreMembers'
  BY <1>5 DEF PointsAreMade, HoldersAreMembers, HasKey
<1>7. AudienceOnly'
  <2>. SUFFICES ASSUME NEW m \in sent', NEW x \in Nodes \ m.audience
                PROVE  /\ m.n \notin keys'[x][m.from].skipped \/ keys'[x][m.from].key # m.key
                       /\ \A d \in Points(x, m.from)' : d.key = m.key => d.n > m.n
    BY DEF AudienceOnly
  <2>0. m.from \in Nodes /\ m.from # x
    BY <1>2, <1>3
  <2>1. \A d \in Points(x, m.from)' : d.key = m.key => d.n > m.n
    BY <1>5, <2>0
  <2>2. m.n \notin keys'[x][m.from].skipped \/ keys'[x][m.from].key # m.key
    <3>0. HeldStep(x, m.from)
      BY <2>0 DEF GroupStep
    <3>1. CASE keys'[x][m.from].skipped = {}
      BY <3>1
    <3>2. CASE /\ keys'[x][m.from].key = keys[x][m.from].key
               /\ \A i \in keys'[x][m.from].skipped :
                    i \in keys[x][m.from].skipped \/ keys[x][m.from].n <= i
      <4>1. Point(keys[x][m.from]) \in Points(x, m.from)
        BY DEF Points
      <4>2. CASE m \in sent
        <5>1. /\ m.n \notin keys[x][m.from].skipped \/ keys[x][m.from].key # m.key
              /\ keys[x][m.from].key = m.key => keys[x][m.from].n > m.n
          BY <4>1, <4>2 DEF AudienceOnly, Point
        <5>2. keys[x][m.from].n \in Nat
          BY <2>0 DEF TypeOK, Key
        <5>. QED BY <1>2, <3>2, <5>1, <5>2
      <4>3. CASE SentStep(m)
        <5>1. keys[x][m.from].key = m.key => x \in m.audience
          BY <2>0, <4>1, <4>3 DEF SentStep, HoldersAreMembers, HasKey, Point
        <5>. QED BY <3>2, <5>1
      <4>. QED BY <1>2, <4>2, <4>3
    <3>3. keys'[x][m.from] = NoKey => keys'[x][m.from].skipped = {}
      BY DEF NoKey
    <3>4. (\E d \in Points(x, m.from) : keys'[x][m.from] = NewReceiver(d))
            => keys'[x][m.from].skipped = {}
      BY DEF NewReceiver
    <3>. QED BY <3>0, <3>1, <3>2, <3>3, <3>4 DEF HeldStep
  <2>. QED BY <2>1, <2>2
<1>. QED BY <1>4, <1>6, <1>7

-----------------------------------------------------------------------------
(* The actions                                                             *)

Kept == TypeOK /\ WellAddressed /\ AdminStays

LEMMA KeyOps ==
  ASSUME TypeOK, NEW x \in Nodes, NEW ks \in [Nodes -> Key]
  PROVE  /\ \A gone : Without(x, gone) \in [Nodes -> Key]
         /\ Rekeyed(x, ks) \in [Nodes -> Key]
         /\ Rekeyed(x, ks)[x].gen > 0 /\ Rekeyed(x, ks)[x].key = made[x] + 1
         /\ \A p \in Nodes : p # x => Rekeyed(x, ks)[p] = ks[p]
<1>1. keys[x] \in [Nodes -> Key] /\ made[x] \in Nat
  BY DEF TypeOK
<1>2. \A gone : Without(x, gone) \in [Nodes -> Key]
  BY <1>1, PointTypes DEF Without
<1>. DEFINE k == [gen |-> ks[x].gen + 1, key |-> made[x] + 1, n |-> 0, skipped |-> {}]
<1>3. k \in Key /\ k.gen > 0 /\ k.key = made[x] + 1
  BY <1>1 DEF Key
<1>4. Rekeyed(x, ks) = [ks EXCEPT ![x] = k]
  BY DEF Rekeyed
<1>. HIDE DEF k
<1>. QED BY <1>2, <1>3, <1>4

LEMMA DistsType ==
  ASSUME NEW x \in Nodes, NEW ks \in [Nodes -> Key], NEW members \in SUBSET Nodes
  PROVE  /\ Dists(x, ks, members) \in SUBSET Payload
         /\ \A e \in Dists(x, ks, members) :
              /\ e.kind = "key" /\ e.from = x /\ e.to # x /\ e.to \in members
              /\ e.dist = Point(ks[x])
<1>1. Point(ks[x]) \in Dist
  BY PointTypes
<1>. QED BY <1>1 DEF Dists, Payload

LEMMA UpdatesType ==
  ASSUME NEW row \in Row, NEW members \in SUBSET Nodes
  PROVE  /\ Updates(row, members) \in SUBSET Payload
         /\ \A e \in Updates(row, members) :
              e.kind = "update" /\ e.from = Admin /\ e.to # Admin
BY AdminAssumption DEF Updates, Payload

\* A step that saves x's keys and x's row of the group.
LEMMA SaveKeeps ==
  ASSUME IInv, NEW x \in Nodes, NEW ks \in [Nodes -> Key], NEW ps \in SUBSET Payload,
         NEW row \in Row, SetRow(x, row), Save(x, ks, ps),
         net' \subseteq net, sent' = sent, eaten' = eaten, faults' = faults,
         former' \in SUBSET Nodes,
         ks[x].gen > 0 => x \in row.members,
         x = Admin => x \in row.members,
         \/ ks[x].gen = 0 /\ ks[x].key = 0
         \/ ks[x].gen > 0 /\ ks[x].key = made[x] + 1
         \/ ks[x] = keys[x][x] /\ ks[x].gen > 0 /\ rec[x].members \subseteq row.members,
         \A p \in Nodes : p # x =>
           \/ ks[p] = NoKey \/ ks[p] = keys[x][p]
           \/ \E d \in Points(x, p) : ks[p] = NewReceiver(d),
         \A e \in ps :
           \/ e.kind = "update" /\ e.from = Admin /\ e.to # Admin
           \/ /\ e.kind = "key" /\ e.from = x /\ e.to # x /\ e.to \in row.members
              /\ e.dist = Point(ks[x]) /\ ks[x].gen > 0
  PROVE  Kept' /\ GroupStep
<1>. USE DEF IInv
<1>1. /\ rec' \in [Nodes -> Row] /\ rec'[x] = row
      /\ \A y \in Nodes : y # x => rec'[y] = rec[y]
  BY DEF SetRow, TypeOK
<1>2. /\ keys' \in [Nodes -> [Nodes -> Key]] /\ keys'[x] = ks
      /\ \A y \in Nodes : y # x => keys'[y] = keys[y]
  BY DEF Save, TypeOK
<1>3. \A y \in Nodes : /\ keys[y][y] \in Key /\ made[y] \in Nat
                       /\ keys[y][y].key \in Nat /\ keys[y][y].gen \in Nat
                       /\ keys[y][y].n \in Nat
                       /\ keys[y][y].key <= made[y]
                       /\ (keys[y][y].gen = 0 <=> keys[y][y].key = 0)
  BY DEF TypeOK, OwnIsNewest, Key
<1>4. ks[x].key \in Nat /\ ks[x].gen \in Nat /\ ks[x].n \in Nat
  BY DEF Key
<1>5. /\ made' \in [Nodes -> Nat] /\ made[x] <= made'[x] /\ ks[x].key <= made'[x]
      /\ \A y \in Nodes : y # x => made'[y] = made[y]
  BY <1>3, <1>4 DEF Save, TypeOK
<1>6. queue' = queue \cup ps /\ queue' \subseteq Payload /\ net' \subseteq Payload \cup Msg
  BY DEF Save, TypeOK
<1>7. TypeOK'
  BY <1>1, <1>2, <1>5, <1>6 DEF TypeOK
<1>8. WellAddressed'
  BY <1>6 DEF WellAddressed
<1>9. AdminStays'
  BY <1>1, AdminAssumption DEF AdminStays, Knows
<1>10. ASSUME NEW s \in Nodes PROVE OwnStep(s) /\ MadeStep(s)
  <2>1. CASE s = x
    BY <1>1, <1>2, <1>3, <1>4, <1>5, <2>1 DEF OwnStep, MadeStep
  <2>2. CASE s # x
    BY <1>1, <1>2, <1>3, <1>5, <2>2 DEF OwnStep, MadeStep
  <2>. QED BY <2>1, <2>2
<1>11. ASSUME NEW s \in Nodes, NEW y \in Nodes, s # y PROVE HeldStep(y, s)
  <2>0. keys[y][s] \in Key /\ keys[y][s].n <= keys[y][s].n
    BY DEF TypeOK, Key
  <2>1. CASE y = x
    BY <1>2, <1>11, <2>0, <2>1 DEF HeldStep
  <2>2. CASE y # x
    BY <1>2, <2>0, <2>2 DEF HeldStep
  <2>. QED BY <2>1, <2>2
<1>12. ASSUME NEW e \in (queue \cup net)' PROVE e \in queue \cup net \/ Honest(e)
  BY <1>1, <1>2, <1>6 DEF Honest
<1>. QED BY <1>7, <1>8, <1>9, <1>10, <1>11, <1>12 DEF Kept, GroupStep

LEMMA CreateKeeps == IInv /\ Create => Kept' /\ GroupStep
<1>. SUFFICES ASSUME IInv, Create PROVE Kept' /\ GroupStep
  OBVIOUS
<1>. DEFINE row == [ver |-> 1, members |-> {Admin}]
            ks == Rekeyed(Admin, keys[Admin])
<1>0. TypeOK /\ keys[Admin] \in [Nodes -> Key] /\ made[Admin] \in Nat
      /\ keys[Admin][Admin].gen \in Nat
  BY AdminAssumption DEF IInv, TypeOK, Key
<1>1. row \in Row
  BY AdminAssumption DEF Row
<1>2. /\ ks \in [Nodes -> Key] /\ ks[Admin].gen > 0 /\ ks[Admin].key = made[Admin] + 1
      /\ \A p \in Nodes : p # Admin => ks[p] = keys[Admin][p]
  BY <1>0, KeyOps, AdminAssumption
<1>3. Dists(Admin, ks, {}) = {}
  BY DEF Dists
<1>4. /\ SetRow(Admin, row) /\ Save(Admin, ks, {})
      /\ net' \subseteq net /\ sent' = sent /\ eaten' = eaten /\ faults' = faults
      /\ former' \in SUBSET Nodes
  BY <1>0, <1>3 DEF Create, SaveRekeyed, TypeOK
<1>. HIDE DEF ks
<1>. QED BY <1>1, <1>2, <1>4, AdminAssumption, SaveKeeps

LEMMA RemoveKeeps ==
  ASSUME IInv, NEW m \in Nodes, Remove(m) PROVE Kept' /\ GroupStep
<1>. DEFINE row == [ver |-> rec[Admin].ver + 1, members |-> rec[Admin].members \ {m}]
            ks == Rekeyed(Admin, Without(Admin, {m}))
            ps == Updates(row, rec[Admin].members) \cup Dists(Admin, ks, row.members)
<1>0. TypeOK /\ made[Admin] \in Nat /\ rec[Admin] \in Row
  BY AdminAssumption DEF IInv, TypeOK
<1>1. row \in Row /\ Admin \in row.members
  BY <1>0 DEF Row, Remove, IInv, AdminStays
<1>2. Without(Admin, {m}) \in [Nodes -> Key] /\ Without(Admin, {m})[Admin].gen \in Nat
  BY <1>0, KeyOps, AdminAssumption, PointTypes DEF Key, Without, TypeOK
<1>3. /\ ks \in [Nodes -> Key] /\ ks[Admin].gen > 0 /\ ks[Admin].key = made[Admin] + 1
      /\ \A p \in Nodes : p # Admin => ks[p] = Without(Admin, {m})[p]
  BY <1>0, <1>2, KeyOps, AdminAssumption
<1>4. \A p \in Nodes : p # Admin => ks[p] = NoKey \/ ks[p] = keys[Admin][p]
  BY <1>3 DEF Without
<1>5. /\ SetRow(Admin, row) /\ Save(Admin, ks, ps)
      /\ net' \subseteq net /\ sent' = sent /\ eaten' = eaten /\ faults' = faults
      /\ former' \in SUBSET Nodes
  BY <1>0 DEF Remove, SaveRekeyed, TypeOK
<1>. HIDE DEF ks
<1>6. /\ ps \in SUBSET Payload
      /\ \A e \in ps :
           \/ e.kind = "update" /\ e.from = Admin /\ e.to # Admin
           \/ /\ e.kind = "key" /\ e.from = Admin /\ e.to # Admin /\ e.to \in row.members
              /\ e.dist = Point(ks[Admin])
  <2>1. row.members \in SUBSET Nodes /\ rec[Admin].members \in SUBSET Nodes
    BY <1>0, <1>1 DEF Row
  <2>2. /\ Dists(Admin, ks, row.members) \in SUBSET Payload
        /\ \A e \in Dists(Admin, ks, row.members) :
             /\ e.kind = "key" /\ e.from = Admin /\ e.to # Admin /\ e.to \in row.members
             /\ e.dist = Point(ks[Admin])
    BY <1>3, <2>1, DistsType, AdminAssumption
  <2>3. /\ Updates(row, rec[Admin].members) \in SUBSET Payload
        /\ \A e \in Updates(row, rec[Admin].members) :
             e.kind = "update" /\ e.from = Admin /\ e.to # Admin
    BY <1>1, <2>1, UpdatesType
  <2>. QED BY <2>2, <2>3
<1>. HIDE DEF row, ps
<1>. QED BY <1>1, <1>3, <1>4, <1>5, <1>6, AdminAssumption, SaveKeeps

\* The sender keys of x after those of the removed are gone.
LEMMA WithoutGone ==
  ASSUME IInv, NEW x \in Nodes, NEW gone
  PROVE  /\ Without(x, gone) \in [Nodes -> Key]
         /\ \A p \in Nodes : Without(x, gone)[p] = NoKey \/ Without(x, gone)[p] = keys[x][p]
         /\ Without(x, gone)[x].gen = 0 => Without(x, gone)[x].key = 0
<1>1. TypeOK /\ (keys[x][x].gen = 0 => keys[x][x].key = 0)
  BY DEF IInv, OwnIsNewest
<1>2. \A p \in Nodes : Without(x, gone)[p] = NoKey \/ Without(x, gone)[p] = keys[x][p]
  BY DEF Without
<1>3. Without(x, gone) \in [Nodes -> Key]
  BY <1>1, KeyOps, PointTypes DEF TypeOK
<1>4. NoKey.key = 0
  BY DEF NoKey
<1>. QED BY <1>1, <1>2, <1>3, <1>4

LEMMA ApplyKeeps ==
  ASSUME IInv, NEW x \in Nodes, x # Admin, NEW row \in Row, ApplyMembership(x, row),
         net' \subseteq net, sent' = sent, eaten' = eaten, former' = former, faults' = faults
  PROVE  Kept' /\ GroupStep
<1>. DEFINE gone == rec[x].members \ row.members
            added == (row.members \ rec[x].members) \ {x}
            ks == Without(x, gone)
<1>0. /\ TypeOK /\ former' \in SUBSET Nodes /\ SetRow(x, row)
      /\ row.members \in SUBSET Nodes /\ added \in SUBSET Nodes
      /\ keys[x][x] \in Key /\ keys[x][x].gen \in Nat
      /\ keys[x][x].gen > 0 => x \in rec[x].members
  BY DEF IInv, TypeOK, Row, Key, ApplyMembership
<1>1. /\ ks \in [Nodes -> Key]
      /\ \A p \in Nodes : ks[p] = NoKey \/ ks[p] = keys[x][p]
      /\ ks[x].gen = 0 => ks[x].key = 0
      /\ ks[x].gen \in Nat
  BY WithoutGone DEF Key
<1>2. x \in gone => ks[x].gen = 0
  BY DEF Without, NoKey
<1>3. x \notin gone => ks[x] = keys[x][x]
  BY DEF Without
<1>4. CASE x \in row.members /\ gone # {} /\ SaveRekeyed(x, ks, row.members, {})
  <2>. DEFINE new == Rekeyed(x, ks)
  <2>1. /\ new \in [Nodes -> Key] /\ new[x].gen > 0 /\ new[x].key = made[x] + 1
        /\ \A p \in Nodes : p # x => new[p] = ks[p]
    BY <1>0, <1>1, KeyOps
  <2>2. Save(x, new, Dists(x, new, row.members))
    BY <1>4 DEF SaveRekeyed
  <2>. HIDE DEF new
  <2>3. /\ Dists(x, new, row.members) \in SUBSET Payload
        /\ \A e \in Dists(x, new, row.members) :
             /\ e.kind = "key" /\ e.from = x /\ e.to # x /\ e.to \in row.members
             /\ e.dist = Point(new[x])
    BY <1>0, <2>1, DistsType
  <2>. HIDE DEF gone, ks
  <2>. QED BY <1>0, <1>1, <1>4, <2>1, <2>2, <2>3, SaveKeeps
<1>5. CASE x \in row.members /\ gone = {} /\ HasKey(x, x) /\ Save(x, ks, Dists(x, ks, added))
  <2>1. ks[x] = keys[x][x] /\ ks[x].gen > 0 /\ rec[x].members \subseteq row.members
    BY <1>3, <1>5 DEF HasKey
  <2>. HIDE DEF ks
  <2>2. /\ Dists(x, ks, added) \in SUBSET Payload
        /\ \A e \in Dists(x, ks, added) :
             /\ e.kind = "key" /\ e.from = x /\ e.to # x /\ e.to \in added
             /\ e.dist = Point(ks[x])
    BY <1>0, <1>1, DistsType
  <2>3. \A e \in Dists(x, ks, added) : e.to \in row.members
    BY <2>2
  <2>. HIDE DEF gone, added
  <2>. QED BY <1>0, <1>1, <1>5, <2>1, <2>2, <2>3, SaveKeeps
<1>6. CASE x \in row.members /\ gone = {} /\ ~HasKey(x, x) /\ Save(x, ks, {})
  <2>1. ks[x].gen = 0 /\ ks[x].key = 0
    BY <1>0, <1>1, <1>3, <1>6, SMTT(30) DEF HasKey
  <2>. HIDE DEF gone, ks
  <2>. QED BY <1>0, <1>1, <1>6, <2>1, SaveKeeps
<1>7. CASE x \notin row.members /\ Save(x, ks, {})
  <2>1. ks[x].gen = 0 /\ ks[x].key = 0
    BY <1>0, <1>1, <1>2, <1>3, <1>7
  <2>. HIDE DEF gone, ks
  <2>. QED BY <1>0, <1>1, <1>7, <2>1, SaveKeeps
<1>. QED BY <1>4, <1>5, <1>6, <1>7 DEF ApplyMembership

LEMMA JoinKeeps ==
  ASSUME IInv, NEW x \in Nodes, x # Admin, NEW e \in net, e.kind = "welcome", e.to = x,
         Join(x, e),
         net' \subseteq net, sent' = sent, eaten' = eaten, former' = former, faults' = faults
  PROVE  Kept' /\ GroupStep
<1>. DEFINE old == [keys[x] EXCEPT ![e.from] = NewReceiver(e.dists[e.from])]
            new == Rekeyed(x, old)
<1>0. /\ TypeOK /\ former' \in SUBSET Nodes /\ SetRow(x, e.row)
      /\ e.from = Admin /\ x \in e.row.members
      /\ keys[x] \in [Nodes -> Key]
  BY DEF IInv, TypeOK, Join, WellAddressed
<1>1. /\ e.row \in Row /\ e.row.members \in SUBSET Nodes
      /\ e.dists[e.from] \in Dist
  BY <1>0, AdminAssumption DEF TypeOK, Payload, Msg, Row
<1>2. old \in [Nodes -> Key]
  BY <1>0, <1>1, PointTypes, AdminAssumption
<1>3. e.dists[e.from] \in Points(x, e.from)
  BY DEF Points
<1>4. \A p \in Nodes : p # x =>
        old[p] = keys[x][p] \/ \E d \in Points(x, p) : old[p] = NewReceiver(d)
  BY <1>0, <1>3
<1>. HIDE DEF old
<1>5. /\ new \in [Nodes -> Key] /\ new[x].gen > 0 /\ new[x].key = made[x] + 1
      /\ \A p \in Nodes : p # x => new[p] = old[p]
  BY <1>0, <1>2, KeyOps
<1>6. Save(x, new, Dists(x, new, e.row.members))
  BY DEF Join, SaveRekeyed, old
<1>. HIDE DEF new
<1>7. /\ Dists(x, new, e.row.members) \in SUBSET Payload
      /\ \A d \in Dists(x, new, e.row.members) :
           /\ d.kind = "key" /\ d.from = x /\ d.to # x /\ d.to \in e.row.members
           /\ d.dist = Point(new[x])
  BY <1>1, <1>5, DistsType
<1>. QED BY <1>0, <1>1, <1>4, <1>5, <1>6, <1>7, SaveKeeps

\* A step that leaves all keys alone and lets nobody go.
LEMMA QuietKeeps ==
  ASSUME IInv, keys' = keys, made' = made, sent' = sent, former' = former,
         rec' \in [Nodes -> Row], AdminStays',
         \A s \in Nodes : rec[s].members \subseteq rec'[s].members,
         eaten' \in SUBSET Msg, faults' \in Nat,
         queue' \in SUBSET Payload, net' \in SUBSET (Payload \cup Msg),
         \A e \in (queue \cup net)' :
           \/ e \in queue \cup net
           \/ /\ e.from = Admin /\ e.to # Admin
              /\ \/ e.kind = "update"
                 \/ e.kind = "welcome" /\ e.to \in e.row.members /\ Honest(e)
  PROVE  Kept' /\ GroupStep
<1>. USE DEF IInv
<1>1. TypeOK'
  BY DEF TypeOK
<1>2. WellAddressed'
  BY DEF WellAddressed
<1>3. ASSUME NEW s \in Nodes PROVE OwnStep(s) /\ MadeStep(s)
  <2>1. /\ keys[s][s] \in Key /\ keys[s][s].gen \in Nat /\ keys[s][s].n \in Nat
        /\ keys[s][s].key \in Nat /\ made[s] \in Nat
        /\ keys[s][s].key <= made[s] /\ (keys[s][s].gen = 0 <=> keys[s][s].key = 0)
    BY DEF TypeOK, OwnIsNewest, Key
  <2>. QED BY <2>1 DEF OwnStep, MadeStep
<1>4. ASSUME NEW s \in Nodes, NEW x \in Nodes PROVE HeldStep(x, s)
  <2>1. keys[x][s].n \in Nat
    BY DEF TypeOK, Key
  <2>. QED BY <2>1 DEF HeldStep
<1>5. \A e \in (queue \cup net)' : e \in queue \cup net \/ Honest(e)
  BY DEF Honest
<1>. QED BY <1>1, <1>2, <1>3, <1>4, <1>5 DEF Kept, GroupStep

LEMMA AddKeeps ==
  ASSUME IInv, NEW m \in Nodes, Add(m) PROVE Kept' /\ GroupStep
<1>. DEFINE old == rec[Admin]
            row == [ver |-> old.ver + 1, members |-> old.members \cup {m}]
            welcome == [kind |-> "welcome", from |-> Admin, to |-> m, row |-> row,
                        dists |-> CollectDists(old.members)]
<1>0. TypeOK /\ old \in Row /\ old.members \in SUBSET Nodes /\ Admin \in old.members
  BY AdminAssumption DEF IInv, TypeOK, Row, Add, AdminStays
<1>1. row \in Row /\ Admin \in row.members /\ m \in row.members /\ m # Admin
  BY <1>0 DEF Row, Add
<1>2. /\ rec' = [rec EXCEPT ![Admin] = row]
      /\ queue' = queue \cup {welcome} \cup Updates(row, old.members)
      /\ UNCHANGED <<keys, net, made, sent, eaten, former, faults>>
  BY DEF Add, SetRow
<1>3. CollectDists(old.members) \in [Nodes -> Dist]
  <2>1. \A p \in Nodes : Point(IF p \in old.members THEN keys[Admin][p] ELSE NoKey) \in Dist
    BY <1>0, PointTypes, AdminAssumption DEF TypeOK
  <2>. QED BY <2>1 DEF CollectDists
<1>4. welcome \in Payload
  BY <1>1, <1>3, AdminAssumption DEF Payload
<1>5. /\ Updates(row, old.members) \in SUBSET Payload
      /\ \A e \in Updates(row, old.members) :
           e.kind = "update" /\ e.from = Admin /\ e.to # Admin
  BY <1>0, <1>1, UpdatesType
<1>6. CollectDists(old.members)[Admin] = Point(keys[Admin][Admin])
  BY <1>0, AdminAssumption DEF CollectDists
<1>7. rec'[Admin] = row /\ rec' \in [Nodes -> Row]
      /\ \A s \in Nodes : s # Admin => rec'[s] = rec[s]
  BY <1>0, <1>1, <1>2, AdminAssumption DEF TypeOK
<1>8. Honest(welcome) /\ welcome.to \in welcome.row.members
  BY <1>1, <1>2, <1>6, <1>7 DEF Honest
<1>9. \A s \in Nodes : rec[s].members \subseteq rec'[s].members
  BY <1>7
<1>10. AdminStays'
  BY <1>1, <1>7 DEF AdminStays
<1>11. welcome.from = Admin /\ welcome.to # Admin /\ welcome.kind = "welcome"
  BY <1>1
<1>. HIDE DEF welcome
<1>12. /\ queue' \in SUBSET Payload /\ net' \in SUBSET (Payload \cup Msg)
       /\ eaten' \in SUBSET Msg /\ faults' \in Nat
  BY <1>0, <1>2, <1>4, <1>5 DEF TypeOK
<1>13. \A e \in (queue \cup net)' :
         \/ e \in queue \cup net
         \/ /\ e.from = Admin /\ e.to # Admin
            /\ \/ e.kind = "update"
               \/ e.kind = "welcome" /\ e.to \in e.row.members /\ Honest(e)
  BY <1>2, <1>5, <1>8, <1>11
<1>. HIDE DEF row, old
<1>. QED BY <1>2, <1>7, <1>9, <1>10, <1>12, <1>13, QuietKeeps

LEMMA FlushKeeps ==
  ASSUME IInv,
         \/ \E x, p \in Nodes : FlushSealed(x, p)
         \/ \E row \in queue : FlushFails(row)
  PROVE  Kept' /\ GroupStep
<1>1. UNCHANGED <<rec, keys, made, sent, eaten, former>>
  BY DEF FlushSealed, FlushFails, SealedOutboxList
<1>2. /\ queue' \subseteq queue /\ net' \subseteq net \cup queue
      /\ faults' = faults \/ faults' = faults + 1
  BY DEF FlushSealed, FlushFails, SealedOutboxList
<1>3. TypeOK /\ AdminStays
  BY DEF IInv
<1>4. /\ rec' \in [Nodes -> Row] /\ eaten' \in SUBSET Msg /\ faults' \in Nat
      /\ queue' \in SUBSET Payload /\ net' \in SUBSET (Payload \cup Msg)
  BY <1>1, <1>2, <1>3 DEF TypeOK
<1>5. AdminStays'
  BY <1>1, <1>3 DEF AdminStays, Knows
<1>. QED BY <1>1, <1>2, <1>4, <1>5, QuietKeeps

LEMMA SendTextKeeps ==
  ASSUME IInv, NEW x \in Nodes, SendText(x) PROVE Kept' /\ GroupStep
<1>. DEFINE own == keys[x][x]
            text == [from |-> x, key |-> own.key, n |-> own.n, audience |-> rec[x].members]
            copies == {[kind |-> "msg", from |-> x, to |-> p, gen |-> own.gen,
                        key |-> own.key, n |-> own.n] : p \in rec[x].members \ {x}}
<1>0. TypeOK /\ WellAddressed /\ AdminStays
  BY DEF IInv
<1>1. /\ own \in Key /\ own.gen \in Nat /\ own.key \in Nat /\ own.n \in Nat
      /\ own.gen > 0 /\ own.key > 0
      /\ rec[x].members \in SUBSET Nodes /\ x \in rec[x].members
  BY <1>0 DEF TypeOK, Key, Row, SendText, HasKey, IInv, OwnIsNewest
<1>2. /\ UNCHANGED <<rec, queue, made, eaten, former, faults>>
      /\ sent' = sent \cup {text}
      /\ net' = net \cup copies
  BY DEF SendText
<1>3. [own EXCEPT !.n = own.n + 1] \in Key
  BY <1>1 DEF Key
<1>4. /\ keys' \in [Nodes -> [Nodes -> Key]]
      /\ keys'[x][x] = [own EXCEPT !.n = own.n + 1]
      /\ \A y, p \in Nodes : y # x \/ p # x => keys'[y][p] = keys[y][p]
  BY <1>0, <1>3 DEF SendText, TypeOK
<1>5. keys'[x][x].gen = own.gen /\ keys'[x][x].key = own.key /\ keys'[x][x].n = own.n + 1
  BY <1>1, <1>4 DEF Key
<1>6. /\ copies \in SUBSET Msg
      /\ \A e \in copies : e.kind = "msg" /\ e.from # e.to
  BY <1>1 DEF Msg
<1>7. /\ text \in [from : Nodes, key : Nat, n : Nat, audience : SUBSET Nodes]
      /\ text.from = x /\ text.key = own.key /\ text.n = own.n
      /\ text.audience = rec[x].members
  BY <1>1
<1>8. TypeOK'
  <2>1. \A y \in Nodes : keys'[y][y].gen > 0 => y \in rec'[y].members
    BY <1>0, <1>1, <1>2, <1>4 DEF TypeOK
  <2>. HIDE DEF own, text, copies
  <2>. QED BY <1>0, <1>2, <1>4, <1>6, <1>7, <2>1 DEF TypeOK
<1>. HIDE DEF text, copies, own
<1>9. WellAddressed' /\ AdminStays'
  BY <1>0, <1>2, <1>6 DEF WellAddressed, AdminStays, Knows
<1>10. ASSUME NEW s \in Nodes PROVE OwnStep(s) /\ MadeStep(s)
  <2>1. /\ keys[s][s] \in Key /\ keys[s][s].gen \in Nat /\ keys[s][s].n \in Nat
        /\ keys[s][s].key \in Nat /\ made[s] \in Nat
        /\ keys[s][s].key <= made[s] /\ (keys[s][s].gen = 0 <=> keys[s][s].key = 0)
    BY <1>0 DEF IInv, TypeOK, OwnIsNewest, Key
  <2>2. CASE s = x
    BY <1>1, <1>2, <1>5, <2>1, <2>2 DEF OwnStep, MadeStep, own
  <2>3. CASE s # x
    BY <1>2, <1>4, <2>1, <2>3 DEF OwnStep, MadeStep
  <2>. QED BY <2>2, <2>3
<1>11. ASSUME NEW s \in Nodes, NEW y \in Nodes, s # y PROVE HeldStep(y, s)
  <2>1. keys[y][s].n \in Nat
    BY <1>0 DEF TypeOK, Key
  <2>2. keys'[y][s] = keys[y][s]
    BY <1>4, <1>11
  <2>. QED BY <2>1, <2>2 DEF HeldStep
<1>12. \A e \in (queue \cup net)' : e \in queue \cup net \/ Honest(e)
  BY <1>2, <1>6 DEF Honest
<1>13. SentStep(text)
  BY <1>1, <1>5, <1>7 DEF SentStep, own
<1>14. \A m \in sent' : m \in sent \/ SentStep(m)
  BY <1>2, <1>13
<1>. QED BY <1>8, <1>9, <1>10, <1>11, <1>12, <1>14 DEF Kept, GroupStep

\* A step that changes what x holds of another node.
LEMMA SetKeyKeeps ==
  ASSUME IInv, NEW x \in Nodes, NEW p \in Nodes, p # x, NEW k \in Key, SetKey(x, p, k),
         net' \subseteq net, sent' = sent, former' = former, faults' = faults, eaten' = eaten,
         \/ /\ k.key = keys[x][p].key
            /\ keys[x][p].n <= k.n
            /\ \A i \in k.skipped : i \in keys[x][p].skipped \/ keys[x][p].n <= i
         \/ \E d \in Points(x, p) : k = NewReceiver(d)
  PROVE  Kept' /\ GroupStep
<1>0. TypeOK /\ WellAddressed /\ AdminStays
  BY DEF IInv
<1>1. UNCHANGED <<rec, made, queue>>
  BY DEF SetKey
<1>2. /\ keys' \in [Nodes -> [Nodes -> Key]]
      /\ keys'[x][p] = k
      /\ \A y, q \in Nodes : y # x \/ q # p => keys'[y][q] = keys[y][q]
  BY <1>0 DEF SetKey, TypeOK
<1>3. TypeOK'
  <2>1. \A y \in Nodes : keys'[y][y].gen > 0 => y \in rec'[y].members
    BY <1>0, <1>1, <1>2 DEF TypeOK
  <2>. QED BY <1>0, <1>1, <1>2, <2>1 DEF TypeOK
<1>4. WellAddressed' /\ AdminStays'
  BY <1>0, <1>1 DEF WellAddressed, AdminStays, Knows
<1>5. ASSUME NEW s \in Nodes PROVE OwnStep(s) /\ MadeStep(s)
  <2>1. /\ keys[s][s] \in Key /\ keys[s][s].gen \in Nat /\ keys[s][s].n \in Nat
        /\ keys[s][s].key \in Nat /\ made[s] \in Nat
        /\ keys[s][s].key <= made[s] /\ (keys[s][s].gen = 0 <=> keys[s][s].key = 0)
    BY <1>0 DEF IInv, TypeOK, OwnIsNewest, Key
  <2>2. keys'[s][s] = keys[s][s]
    BY <1>2
  <2>. QED BY <1>1, <2>1, <2>2 DEF OwnStep, MadeStep
<1>6. ASSUME NEW s \in Nodes, NEW y \in Nodes, s # y PROVE HeldStep(y, s)
  <2>1. CASE y = x /\ s = p
    BY <1>2, <2>1 DEF HeldStep
  <2>2. CASE y # x \/ s # p
    <3>1. keys[y][s].n \in Nat
      BY <1>0 DEF TypeOK, Key
    <3>2. keys'[y][s] = keys[y][s]
      BY <1>2, <2>2
    <3>. QED BY <3>1, <3>2 DEF HeldStep
  <2>. QED BY <2>1, <2>2
<1>7. \A e \in (queue \cup net)' : e \in queue \cup net \/ Honest(e)
  BY <1>1
<1>. QED BY <1>3, <1>4, <1>5, <1>6, <1>7 DEF Kept, GroupStep

\* A step that only takes an envelope from the net.
LEMMA UnmovedKeeps ==
  ASSUME IInv, Unmoved, net' \subseteq net, sent' = sent, former' = former,
         faults' = faults, eaten' \in SUBSET Msg
  PROVE  Kept' /\ GroupStep
<1>1. TypeOK /\ AdminStays
  BY DEF IInv
<1>2. /\ rec' \in [Nodes -> Row] /\ faults' \in Nat
      /\ queue' \in SUBSET Payload /\ net' \in SUBSET (Payload \cup Msg)
  BY <1>1 DEF TypeOK, Unmoved
<1>3. AdminStays'
  BY <1>1 DEF AdminStays, Knows, Unmoved
<1>4. /\ keys' = keys /\ made' = made
      /\ \A s \in Nodes : rec[s].members \subseteq rec'[s].members
      /\ \A e \in (queue \cup net)' : e \in queue \cup net
  BY DEF Unmoved
<1>. QED BY <1>2, <1>3, <1>4, QuietKeeps

\* The receiver after a message has the same chain, further on.
LEMMA AfterMovesOn ==
  ASSUME NEW r \in Key, NEW n \in Nat
  PROVE  /\ After(r, n) \in Key
         /\ After(r, n).key = r.key
         /\ r.n <= After(r, n).n
         /\ \A i \in After(r, n).skipped : i \in r.skipped \/ r.n <= i
<1>0. r.gen \in Nat /\ r.key \in Nat /\ r.n \in Nat /\ r.skipped \in SUBSET Nat
  BY DEF Key
<1>1. CASE n < r.n
  <2>1. /\ After(r, n).key = r.key /\ After(r, n).n = r.n
        /\ After(r, n).skipped = r.skipped \ {n} /\ After(r, n) \in Key
    BY <1>0, <1>1 DEF After, Key
  <2>. QED BY <1>0, <2>1
<1>2. CASE ~(n < r.n)
  <2>. DEFINE kept == Newest(r.skipped \cup (r.n .. n - 1))
  <2>1. /\ kept \subseteq r.skipped \cup (r.n .. n - 1)
    BY DEF Newest
  <2>2. kept \in SUBSET Nat /\ \A i \in kept : i \in r.skipped \/ r.n <= i
    BY <1>0, <2>1
  <2>. HIDE DEF kept
  <2>3. After(r, n) = [[r EXCEPT !.n = n + 1] EXCEPT !.skipped = kept]
    BY <1>2 DEF After, kept
  <2>. DEFINE moved == [r EXCEPT !.n = n + 1]
  <2>4. moved \in Key /\ moved.key = r.key /\ moved.n = n + 1
    BY <1>0 DEF Key
  <2>. HIDE DEF moved
  <2>5. /\ [moved EXCEPT !.skipped = kept] \in Key
        /\ [moved EXCEPT !.skipped = kept].key = r.key
        /\ [moved EXCEPT !.skipped = kept].n = n + 1
        /\ [moved EXCEPT !.skipped = kept].skipped = kept
    BY <2>2, <2>4 DEF Key
  <2>6. After(r, n) = [moved EXCEPT !.skipped = kept]
    BY <2>3 DEF moved
  <2>7. /\ After(r, n) \in Key /\ After(r, n).key = r.key
        /\ After(r, n).n = n + 1 /\ After(r, n).skipped = kept
    BY <2>5, <2>6
  <2>8. r.n <= n + 1
    BY <1>0, <1>2
  <2>. QED BY <2>2, <2>7, <2>8
<1>. QED BY <1>1, <1>2

LEMMA ReceiveKeeps ==
  ASSUME IInv, NEW e \in net, Receive(e) PROVE Kept' /\ GroupStep
<1>. DEFINE x == e.to
            s == e.from
<1>0. /\ TypeOK /\ x \in Nodes /\ s \in Nodes /\ s # x
      /\ e.kind \in {"welcome", "update"} => s = Admin /\ x # Admin
  BY DEF IInv, TypeOK, WellAddressed, Payload, Msg
<1>1. /\ net' \subseteq net /\ sent' = sent /\ former' = former /\ faults' = faults
      /\ e.kind # "msg" => eaten' = eaten
      /\ eaten \in SUBSET Msg
  BY <1>0 DEF Receive, OnGroupMessage, TypeOK
<1>2. CASE Unmoved /\ eaten' \in SUBSET Msg
  BY <1>1, <1>2, UnmovedKeeps
<1>3. CASE e.kind = "welcome" /\ OnWelcome(x, e)
  <2>0. e.row \in Row
    BY <1>0, <1>3 DEF TypeOK, Payload, Msg
  <2>1. CASE Join(x, e)
    BY <1>0, <1>1, <1>3, <2>1, JoinKeeps
  <2>2. CASE ApplyMembership(x, e.row)
    BY <1>0, <1>1, <1>3, <2>0, <2>2, ApplyKeeps
  <2>. QED BY <1>1, <1>2, <1>3, <2>1, <2>2 DEF OnWelcome
<1>4. CASE e.kind = "update" /\ OnUpdate(x, e)
  <2>0. e.row \in Row
    BY <1>0, <1>4 DEF TypeOK, Payload, Msg
  <2>1. CASE ApplyMembership(x, e.row)
    BY <1>0, <1>1, <1>4, <2>0, <2>1, ApplyKeeps
  <2>. QED BY <1>1, <1>2, <1>4, <2>1 DEF OnUpdate
<1>5. CASE e.kind = "key" /\ OnKey(x, e)
  <2>0. e.dist \in Dist
    BY <1>0, <1>5 DEF TypeOK, Payload, Msg
  <2>1. NewReceiver(e.dist) \in Key /\ e.dist \in Points(x, s)
    BY <1>5, <2>0, PointTypes DEF Points
  <2>2. CASE SetKey(x, s, NewReceiver(e.dist))
    <3>. HIDE DEF x, s
    <3>. QED BY <1>0, <1>1, <1>5, <2>1, <2>2, SetKeyKeeps
  <2>. QED BY <1>1, <1>2, <1>5, <2>2 DEF OnKey
<1>6. CASE e.kind = "msg" /\ OnGroupMessage(x, e)
  <2>0. e \in Msg /\ e.n \in Nat /\ keys[x][s] \in Key
    BY <1>0, <1>6 DEF TypeOK, Payload, Msg
  <2>1. CASE SetKey(x, s, After(keys[x][s], e.n)) /\ UNCHANGED eaten
    <3>1. /\ After(keys[x][s], e.n) \in Key
          /\ After(keys[x][s], e.n).key = keys[x][s].key
          /\ keys[x][s].n <= After(keys[x][s], e.n).n
          /\ \A i \in After(keys[x][s], e.n).skipped :
               i \in keys[x][s].skipped \/ keys[x][s].n <= i
      BY <2>0, AfterMovesOn
    <3>. HIDE DEF x, s
    <3>. QED BY <1>0, <1>1, <2>1, <3>1, SetKeyKeeps
  <2>. QED BY <1>1, <1>2, <1>6, <2>0, <2>1 DEF OnGroupMessage
<1>. QED BY <1>3, <1>4, <1>5, <1>6 DEF Receive

-----------------------------------------------------------------------------
(* The theorems                                                            *)

LEMMA InitHolds == Init => IInv
<1>. SUFFICES ASSUME Init PROVE IInv
  OBVIOUS
<1>1. /\ queue = {} /\ net = {} /\ sent = {} /\ eaten = {} /\ former = {} /\ faults = 0
      /\ \A x \in Nodes : rec[x] = Unknown /\ made[x] = 0
      /\ \A x, p \in Nodes : keys[x][p] = NoKey
  BY DEF Init
<1>2. NoKey.gen = 0 /\ NoKey.key = 0 /\ Unknown.ver = 0 /\ Unknown \in Row
  BY DEF NoKey, Unknown, Row
<1>3. TypeOK
  BY <1>1, <1>2, PointTypes DEF Init, TypeOK
<1>4. WellAddressed /\ AdminStays
  BY <1>1, <1>2, AdminAssumption DEF WellAddressed, AdminStays, Knows
<1>5. OwnIsNewest
  BY <1>1, <1>2 DEF OwnIsNewest
<1>6. ASSUME NEW s \in Nodes, NEW x \in Nodes, NEW d \in Points(x, s)
      PROVE  d.key = 0
  BY <1>1, <1>2, <1>6 DEF Points, Point
<1>7. PointsAreMade
  BY <1>1, <1>6 DEF PointsAreMade
<1>8. HoldersAreMembers
  BY <1>1, <1>2 DEF HoldersAreMembers, HasKey
<1>9. AudienceOnly
  BY <1>1 DEF AudienceOnly
<1>. QED BY <1>3, <1>4, <1>5, <1>7, <1>8, <1>9 DEF IInv

LEMMA StutterKeeps == IInv /\ UNCHANGED vars => Kept' /\ GroupStep
<1>. SUFFICES ASSUME IInv, UNCHANGED vars PROVE Kept' /\ GroupStep
  OBVIOUS
<1>1. /\ Unmoved /\ net' = net /\ sent' = sent /\ former' = former
      /\ faults' = faults /\ eaten' = eaten
  BY DEF vars, Unmoved
<1>2. eaten \in SUBSET Msg
  BY DEF IInv, TypeOK
<1>. QED BY <1>1, <1>2, UnmovedKeeps

LEMMA NextKeeps == IInv /\ [Next]_vars => Kept' /\ GroupStep
BY CreateKeeps, AddKeeps, RemoveKeeps, SendTextKeeps, FlushKeeps, ReceiveKeeps,
   StutterKeeps DEF Next

LEMMA InvariantKept == IInv /\ [Next]_vars => IInv'
<1>. SUFFICES ASSUME IInv, [Next]_vars PROVE IInv'
  OBVIOUS
<1>1. Kept' /\ GroupStep
  BY NextKeeps
<1>2. OwnIsNewest' /\ PointsAreMade' /\ HoldersAreMembers' /\ AudienceOnly'
  BY <1>1, StepKeeps DEF Kept
<1>. QED BY <1>1, <1>2 DEF IInv, Kept

\* The rows, keys and envelopes of a group keep their shape, and a node that has a key
\* of its own is a member of the group it knows (removeSelf in applyMembership).
THEOREM GroupTypeCorrect == Spec => []TypeOK
<1>1. IInv => TypeOK
  BY DEF IInv
<1>. QED BY InitHolds, InvariantKept, <1>1, PTL DEF Spec

\* Whoever was not a member when a message was sent, as its sender knew the group, never
\* gets a key that opens it: Remove and applyMembership make a new key before anything
\* is encrypted, and a key is given away where its chain stands (Sender.Dist).
THEOREM AudienceKept == Spec => []AudienceOnly
<1>1. IInv => AudienceOnly
  BY DEF IInv
<1>. QED BY InitHolds, InvariantKept, <1>1, PTL DEF Spec

\* Whoever holds the current sender key of a node, or will be given it by a payload on
\* its way, is a member of the group as that node knows it: nobody gets a key while he
\* is removed, and the key he had is replaced (rekeyTx, distributeSelfKey, welcome).
THEOREM HoldersKept == Spec => []HoldersAreMembers
<1>1. IInv => HoldersAreMembers
  BY DEF IInv
<1>. QED BY InitHolds, InvariantKept, <1>1, PTL DEF Spec

-----------------------------------------------------------------------------
(* The membership settles                                                  *)

Carrying(kinds, x) == {e \in queue \cup net : e.kind \in kinds /\ e.to = x}

\* The memberships x has or will be told.
Versions(x) == {rec[x]} \cup {e.row : e \in Carrying({"welcome", "update"}, x)}

AdminAhead ==
  /\ Admin \notin former
  /\ \A x \in Nodes : \A q \in Versions(x) :
       q.ver <= rec[Admin].ver /\ (q.ver = 0 => q.members = {})

\* r is the version x will end with.
LastOf(x, r) ==
  /\ r.ver > 0
  /\ \A q \in Versions(x) : q = r \/ q.ver < r.ver
  /\ x \in rec[Admin].members => r = rec[Admin]
  /\ x \notin rec[Admin].members => x \notin r.members

\* Who is a member or was one will be told so, and knows the group or will be welcomed.
NewsComing ==
  \A x \in rec[Admin].members \cup former :
    /\ \E r \in Versions(x) : LastOf(x, r)
    /\ Knows(x) \/ Carrying({"welcome"}, x) # {}

\* A node that was never removed is in every version after the one it came with.
Growing ==
  \A s \in Nodes \ former :
    /\ \A q \in Versions(s) : q.ver > 0 => s \in q.members
    /\ \A x, y \in Nodes : \A q \in Versions(x), r \in Versions(y) :
         s \in q.members /\ q.ver <= r.ver => s \in r.members

RInv == AdminAhead /\ NewsComing /\ Growing

LEMMA VersionTypes ==
  ASSUME TypeOK, NEW x \in Nodes
  PROVE  /\ rec[x] \in Versions(x)
         /\ \A q \in Versions(x) : q \in Row /\ q.ver \in Nat /\ q.members \in SUBSET Nodes
<1>1. rec[x] \in Row
  BY DEF TypeOK
<1>2. \A e \in queue \cup net : e.kind \in {"welcome", "update"} => e.row \in Row
  BY DEF TypeOK, Payload, Msg
<1>3. \A q \in Versions(x) : q \in Row
  BY <1>1, <1>2 DEF Versions, Carrying
<1>. QED BY <1>3 DEF Versions, Row

LEMMA AdminVersions ==
  ASSUME IInv
  PROVE  /\ Versions(Admin) = {rec[Admin]} /\ rec[Admin] \in Row
         /\ former \in SUBSET Nodes /\ rec[Admin].members \in SUBSET Nodes
<1>1. Carrying({"welcome", "update"}, Admin) = {}
  BY DEF IInv, WellAddressed, Carrying
<1>. QED BY <1>1, AdminAssumption DEF IInv, TypeOK, Versions, Row

\* A step that adds nothing to what anyone will be told, and loses nothing that counts.
LEMMA RowsKept ==
  ASSUME IInv, RInv, TypeOK', former' = former, rec'[Admin] = rec[Admin],
         \A x \in Nodes : Versions(x)' \subseteq Versions(x),
         \A x \in Nodes : \A r \in Versions(x) :
           r \in Versions(x)' \/ (\E q \in Versions(x) : q # r /\ r.ver <= q.ver),
         \A x \in Nodes : Knows(x) => Knows(x)',
         \A x \in Nodes : Carrying({"welcome"}, x) # {} =>
           Carrying({"welcome"}, x)' # {} \/ Knows(x)'
  PROVE  RInv'
<1>0. former \in SUBSET Nodes /\ rec[Admin].members \in SUBSET Nodes
  BY AdminVersions
<1>1. AdminAhead'
  BY DEF RInv, AdminAhead
<1>2. Growing'
  BY DEF RInv, Growing
<1>3. NewsComing'
  <2>. SUFFICES ASSUME NEW CONSTANT x \in Nodes, x \in rec[Admin].members \cup former
                PROVE  /\ \E r \in Versions(x)' : LastOf(x, r)'
                       /\ Knows(x)' \/ Carrying({"welcome"}, x)' # {}
    BY <1>0 DEF NewsComing
  <2>1. PICK r \in Versions(x) : LastOf(x, r)
    BY DEF RInv, NewsComing
  <2>2. \A q \in Versions(x) : q.ver \in Nat
    BY VersionTypes DEF IInv
  <2>3. r \in Versions(x)'
    BY <2>1, <2>2 DEF LastOf
  <2>4. LastOf(x, r)'
    BY <2>1 DEF LastOf
  <2>5. Knows(x)' \/ Carrying({"welcome"}, x)' # {}
    BY DEF RInv, NewsComing
  <2>. QED BY <2>3, <2>4, <2>5
<1>. QED BY <1>1, <1>2, <1>3 DEF RInv

\* A step that leaves memberships alone.
LEMMA RowsUntouched ==
  ASSUME IInv, RInv, TypeOK', former' = former, rec' = rec,
         \A e \in (queue \cup net)' : e.kind \in {"welcome", "update"} => e \in queue \cup net,
         \A e \in queue \cup net : e.kind \in {"welcome", "update"} => e \in (queue \cup net)'
  PROVE  RInv'
<1>1. \A x : Carrying({"welcome", "update"}, x)' = Carrying({"welcome", "update"}, x)
  BY DEF Carrying
<1>2. \A x : Carrying({"welcome"}, x)' = Carrying({"welcome"}, x)
  BY DEF Carrying
<1>3. \A x : Versions(x)' = Versions(x)
  BY <1>1 DEF Versions
<1>4. \A x : Knows(x)' <=> Knows(x)
  BY DEF Knows
<1>. QED BY <1>2, <1>3, <1>4, RowsKept

\* x has handled a welcome or an update.
LEMMA RowsReceived ==
  ASSUME IInv, RInv, TypeOK', former' = former,
         NEW e \in net, e.kind \in {"welcome", "update"}, NEW CONSTANT x \in Nodes, e.to = x,
         queue \subseteq queue', net' = net \ {e},
         \A f \in queue' : f \in queue \/ f.kind = "key",
         ~Knows(x) => e.kind = "welcome",
         \/ SetRow(x, e.row) /\ (rec[x].ver < e.row.ver \/ ~Knows(x))
         \/ rec' = rec /\ Knows(x) /\ e.row.ver <= rec[x].ver
  PROVE  RInv'
<1>0. /\ TypeOK /\ x # Admin
      /\ rec[x].ver \in Nat /\ e.row.ver \in Nat /\ e.row \in Versions(x) /\ rec[x] \in Versions(x)
  <2>1. e.from = Admin /\ e.from # e.to
    BY DEF IInv, WellAddressed
  <2>2. e.row \in Versions(x)
    BY DEF Versions, Carrying
  <2>. QED BY <2>1, <2>2, VersionTypes DEF IInv
<1>1. /\ \A y \in Nodes : y # x => rec'[y] = rec[y]
      /\ rec'[x] \in {rec[x], e.row}
  BY <1>0 DEF SetRow, TypeOK
<1>2. e.row.ver > 0 \/ (rec' = rec /\ Knows(x))
  <2>1. CASE e.kind = "welcome"
    <3>1. x \in e.row.members
      BY <2>1 DEF IInv, WellAddressed
    <3>2. e.row.ver = 0 => e.row.members = {}
      BY <1>0 DEF RInv, AdminAhead
    <3>. QED BY <1>0, <3>1, <3>2
  <2>2. CASE Knows(x) /\ rec[x].ver < e.row.ver
    BY <1>0, <2>2 DEF Knows
  <2>. QED BY <2>1, <2>2
<1>3. \A y \in Nodes : Knows(y) => Knows(y)'
  <2>1. Knows(x) => Knows(x)'
    BY <1>0, <1>1, <1>2 DEF Knows
  <2>2. \A y \in Nodes : y # x => (Knows(y)' <=> Knows(y))
    BY <1>1 DEF Knows
  <2>. QED BY <2>1, <2>2
<1>4. ASSUME NEW CONSTANT y \in Nodes, y # x
      PROVE  /\ Carrying({"welcome"}, y)' = Carrying({"welcome"}, y)
             /\ Versions(y)' = Versions(y)
  <2>1. /\ Carrying({"welcome"}, y)' = Carrying({"welcome"}, y)
        /\ Carrying({"welcome", "update"}, y)' = Carrying({"welcome", "update"}, y)
    BY <1>4 DEF Carrying
  <2>. QED BY <1>1, <1>4, <2>1 DEF Versions
<1>5. \A f \in Carrying({"welcome", "update"}, x)' : f \in Carrying({"welcome", "update"}, x)
  BY DEF Carrying
<1>6. \A f \in Carrying({"welcome", "update"}, x) :
        f = e \/ f \in Carrying({"welcome", "update"}, x)'
  BY DEF Carrying
<1>7. Versions(x)' \subseteq Versions(x)
  BY <1>0, <1>1, <1>5 DEF Versions
<1>8. ASSUME NEW r \in Versions(x), r \notin Versions(x)'
      PROVE  \E q \in Versions(x) : q # r /\ r.ver <= q.ver
  <2>1. r = rec[x] \/ r = e.row
    BY <1>6, <1>8 DEF Versions
  <2>2. rec'[x] # r
    BY <1>8 DEF Versions
  <2>3. CASE rec' = rec /\ Knows(x) /\ e.row.ver <= rec[x].ver
    <3>1. r = e.row /\ rec[x] # r
      BY <2>1, <2>2, <2>3
    <3>. QED BY <1>0, <2>3, <3>1
  <2>4. CASE SetRow(x, e.row) /\ (rec[x].ver < e.row.ver \/ ~Knows(x))
    <3>1. rec'[x] = e.row
      BY <1>0, <2>4 DEF SetRow, TypeOK
    <3>2. r = rec[x] /\ rec[x] # e.row
      BY <2>1, <2>2, <3>1
    <3>3. rec[x].ver <= e.row.ver
      BY <1>0, <2>4 DEF Knows
    <3>. QED BY <1>0, <3>2, <3>3
  <2>. QED BY <2>3, <2>4
<1>9. ~Knows(x) => Knows(x)'
  <2>1. ~Knows(x) => SetRow(x, e.row) /\ e.row.ver > 0
    BY <1>2
  <2>2. SetRow(x, e.row) => rec'[x] = e.row
    BY <1>0 DEF SetRow, TypeOK
  <2>. QED BY <2>1, <2>2 DEF Knows
<1>10. rec'[Admin] = rec[Admin]
  BY <1>0, <1>1, AdminAssumption
<1>11. \A y \in Nodes : Versions(y)' \subseteq Versions(y)
  BY <1>4, <1>7
<1>12. \A y \in Nodes : \A r \in Versions(y) :
         r \in Versions(y)' \/ (\E q \in Versions(y) : q # r /\ r.ver <= q.ver)
  BY <1>4, <1>8
<1>13. \A y \in Nodes : Carrying({"welcome"}, y) # {} =>
         Carrying({"welcome"}, y)' # {} \/ Knows(y)'
  BY <1>3, <1>4, <1>9
<1>. QED BY <1>3, <1>10, <1>11, <1>12, <1>13, RowsKept

\* The admin has published row to all of told.
LEMMA Published ==
  ASSUME IInv, RInv, IInv', NEW CONSTANT row \in Row, NEW CONSTANT told \in SUBSET Nodes,
         row.ver = rec[Admin].ver + 1, SetRow(Admin, row),
         told = (row.members \cup rec[Admin].members) \ {Admin},
         Admin \in row.members, Admin \notin former', former \subseteq former',
         former' \subseteq former \cup rec[Admin].members,
         rec[Admin].members \ former' \subseteq row.members,
         queue \cup net \subseteq (queue \cup net)',
         \A e \in (queue \cup net)' :
           \/ e \in queue \cup net \/ e.kind = "key"
           \/ e.kind \in {"welcome", "update"} /\ e.row = row /\ e.to \in told,
         \A y \in told : \E e \in Carrying({"welcome", "update"}, y)' : e.row = row,
         \A y \in row.members \ rec[Admin].members :
           y = Admin \/ Carrying({"welcome"}, y)' # {}
  PROVE  RInv'
<1>0. /\ TypeOK /\ TypeOK' /\ rec'[Admin] = row /\ rec[Admin].ver \in Nat /\ row.ver \in Nat
      /\ row.ver > rec[Admin].ver /\ row.ver > 0
      /\ \A y \in Nodes : y # Admin => rec'[y] = rec[y]
      /\ row.members \in SUBSET Nodes /\ rec[Admin].members \in SUBSET Nodes
  BY AdminAssumption DEF IInv, TypeOK, SetRow, Row
<1>1. Versions(Admin)' = {row} /\ Versions(Admin) = {rec[Admin]}
  <2>1. Versions(Admin) = {rec[Admin]}
    BY AdminVersions
  <2>2. Carrying({"welcome", "update"}, Admin)' = {}
    BY DEF IInv, WellAddressed, Carrying
  <2>. QED BY <1>0, <2>1, <2>2 DEF Versions
<1>2. ASSUME NEW CONSTANT y \in Nodes
      PROVE  /\ \A q \in Versions(y)' : q \in Versions(y) \/ (q = row /\ (y = Admin \/ y \in told))
             /\ y # Admin => \A q \in Versions(y) : q \in Versions(y)'
             /\ y \in told => row \in Versions(y)'
             /\ \A e \in Carrying({"welcome"}, y) : e \in Carrying({"welcome"}, y)'
             /\ Knows(y) => Knows(y)'
  <2>1. \A e \in Carrying({"welcome", "update"}, y) : e \in Carrying({"welcome", "update"}, y)'
    BY DEF Carrying
  <2>2. \A e \in Carrying({"welcome", "update"}, y)' :
          e \in Carrying({"welcome", "update"}, y) \/ (e.row = row /\ y \in told)
    BY DEF Carrying
  <2>3. \A e \in Carrying({"welcome"}, y) : e \in Carrying({"welcome"}, y)'
    BY DEF Carrying
  <2>4. Knows(y) => Knows(y)'
    BY <1>0 DEF Knows
  <2>5. \A q \in Versions(y)' : q \in Versions(y) \/ (q = row /\ (y = Admin \/ y \in told))
    BY <1>0, <1>1, <2>2 DEF Versions
  <2>6. y # Admin => \A q \in Versions(y) : q \in Versions(y)'
    BY <1>0, <2>1 DEF Versions
  <2>7. y \in told => row \in Versions(y)'
    BY DEF Versions
  <2>. QED BY <2>3, <2>4, <2>5, <2>6, <2>7
<1>3. \A y \in Nodes : \A q \in Versions(y) : q.ver \in Nat /\ q.ver <= rec[Admin].ver
  BY <1>0, VersionTypes DEF RInv, AdminAhead
<1>4. AdminAhead'
  <2>. SUFFICES ASSUME NEW CONSTANT y \in Nodes, NEW q \in Versions(y)'
                PROVE  q.ver <= row.ver /\ (q.ver = 0 => q.members = {})
    BY <1>0 DEF AdminAhead
  <2>1. CASE q = row
    BY <1>0, <2>1
  <2>2. CASE q \in Versions(y)
    BY <1>0, <1>3, <2>2 DEF RInv, AdminAhead
  <2>. QED BY <1>2, <2>1, <2>2
<1>5. ASSUME NEW CONSTANT x \in Nodes, x \in row.members \cup former'
      PROVE  /\ \E r \in Versions(x)' : LastOf(x, r)'
             /\ Knows(x)' \/ Carrying({"welcome"}, x)' # {}
  <2>1. CASE x = Admin
    <3>1. LastOf(x, row)' /\ row \in Versions(x)' /\ Knows(x)'
      BY <1>0, <1>1, <2>1 DEF LastOf, Knows
    <3>. QED BY <3>1
  <2>2. CASE x \in told
    <3>1. row \in Versions(x)' /\ \A q \in Versions(x)' : q = row \/ q.ver < row.ver
      BY <1>0, <1>2, <1>3, <2>2
    <3>2. LastOf(x, row)'
      BY <1>0, <3>1 DEF LastOf
    <3>3. CASE x \in rec[Admin].members
      <4>1. Knows(x) \/ Carrying({"welcome"}, x) # {}
        BY <3>3 DEF RInv, NewsComing
      <4>2. Knows(x)' \/ Carrying({"welcome"}, x)' # {}
        BY <1>2, <4>1
      <4>. QED BY <3>1, <3>2, <4>2
    <3>4. CASE x \notin rec[Admin].members
      BY <2>2, <3>1, <3>2, <3>4
    <3>. QED BY <3>3, <3>4
  <2>3. CASE x # Admin /\ x \notin told
    <3>1. x \notin row.members /\ x \notin rec[Admin].members /\ x \in former
      BY <1>5, <2>3
    <3>2. PICK r \in Versions(x) : LastOf(x, r)
      BY <3>1 DEF RInv, NewsComing
    <3>3. Versions(x)' = Versions(x)
      BY <1>2, <2>3
    <3>4. LastOf(x, r)'
      BY <1>0, <3>1, <3>2, <3>3 DEF LastOf
    <3>5. Knows(x) \/ Carrying({"welcome"}, x) # {}
      BY <3>1 DEF RInv, NewsComing
    <3>. QED BY <1>2, <3>2, <3>3, <3>4, <3>5
  <2>. QED BY <2>1, <2>2, <2>3
<1>6. NewsComing'
  <2>1. rec'[Admin].members \cup former' \subseteq Nodes
    BY <1>0 DEF TypeOK
  <2>. QED BY <1>0, <1>5, <2>1 DEF NewsComing
<1>7. ASSUME NEW CONSTANT s \in Nodes \ former', NEW CONSTANT x \in Nodes, NEW q \in Versions(x)'
      PROVE  /\ x = s /\ q.ver > 0 => s \in q.members
             /\ s \in q.members => s \in row.members
  <2>0. s \notin former
    OBVIOUS
  <2>1. CASE q = row
    <3>1. x = s => s = Admin \/ s \in told \/ q \in Versions(s)
      BY <1>2
    <3>2. s \in rec[Admin].members => s \in row.members
      OBVIOUS
    <3>3. x = s /\ q \in Versions(s) => s \in row.members
      BY <1>0, <1>3, <2>1
    <3>. QED BY <2>1, <3>1, <3>2, <3>3
  <2>2. CASE q \in Versions(x)
    <3>1. x = s /\ q.ver > 0 => s \in q.members
      BY <2>0, <2>2 DEF RInv, Growing
    <3>2. s \in q.members => s \in rec[Admin].members
      BY <1>1, <1>3, <2>0, <2>2, AdminAssumption DEF RInv, Growing
    <3>. QED BY <3>1, <3>2
  <2>. QED BY <1>2, <2>1, <2>2
<1>8. ASSUME NEW CONSTANT s \in Nodes \ former', NEW CONSTANT x \in Nodes, NEW CONSTANT y \in Nodes,
             NEW q \in Versions(x)', NEW r \in Versions(y)', s \in q.members, q.ver <= r.ver
      PROVE  s \in r.members
  <2>0. s \notin former
    OBVIOUS
  <2>1. CASE r = row
    BY <1>7, <1>8, <2>1
  <2>2. CASE r # row
    <3>1. r \in Versions(y)
      BY <1>2, <2>2
    <3>2. q # row
      BY <1>0, <1>3, <1>8, <3>1
    <3>3. q \in Versions(x)
      BY <1>2, <3>2
    <3>. QED BY <1>8, <2>0, <3>1, <3>3 DEF RInv, Growing
  <2>. QED BY <2>1, <2>2
<1>9. Growing'
  BY <1>7, <1>8 DEF Growing
<1>. QED BY <1>4, <1>6, <1>9 DEF RInv

LEMMA DistsAreKeys == \A x, ks, members : \A e \in Dists(x, ks, members) : e.kind = "key"
BY DEF Dists

LEMMA UpdatesTell ==
  ASSUME NEW row, NEW members
  PROVE  /\ \A e \in Updates(row, members) :
              e.kind = "update" /\ e.row = row /\ e.to \in members \ {Admin}
         /\ \A p \in members \ {Admin} :
              \E e \in Updates(row, members) : e.kind = "update" /\ e.row = row /\ e.to = p
<1>1. ASSUME NEW p \in members \ {Admin}
      PROVE  \E e \in Updates(row, members) : e.kind = "update" /\ e.row = row /\ e.to = p
  <2>1. [kind |-> "update", from |-> Admin, to |-> p, row |-> row] \in Updates(row, members)
    BY DEF Updates
  <2>. QED BY <2>1
<1>2. \A e \in Updates(row, members) :
        e.kind = "update" /\ e.row = row /\ e.to \in members \ {Admin}
  BY DEF Updates
<1>. QED BY <1>1, <1>2

LEMMA CreateRows == ASSUME IInv, RInv, IInv', Create PROVE RInv'
<1>. DEFINE row == [ver |-> 1, members |-> {Admin}]
            told == {}
<1>1. rec[Admin].ver = 0 /\ rec[Admin].members = {}
  <2>1. rec[Admin].ver = 0
    BY AdminAssumption DEF Create, Knows, IInv, TypeOK, Row
  <2>. QED BY <2>1, AdminVersions, AdminAssumption DEF RInv, AdminAhead
<1>2. row \in Row /\ row.ver = 1 /\ row.members = {Admin}
  BY AdminAssumption DEF Row
<1>3. /\ SetRow(Admin, row) /\ net' = net /\ former' = former
      /\ queue \subseteq queue' /\ \A e \in queue' : e \in queue \/ e.kind = "key"
  BY DistsAreKeys DEF Create, SaveRekeyed, Save
<1>4. Admin \notin former
  BY DEF RInv, AdminAhead
<1>5. told = (row.members \cup rec[Admin].members) \ {Admin}
  BY <1>1
<1>6. row.ver = rec[Admin].ver + 1
  BY <1>1
<1>7. /\ Admin \in row.members /\ former \subseteq former'
      /\ former' \subseteq former \cup rec[Admin].members
      /\ rec[Admin].members \ former' \subseteq row.members
      /\ queue \cup net \subseteq (queue \cup net)' /\ told \in SUBSET Nodes
  BY <1>1, <1>2, <1>3
<1>8. \A e \in (queue \cup net)' :
        \/ e \in queue \cup net \/ e.kind = "key"
        \/ e.kind \in {"welcome", "update"} /\ e.row = row /\ e.to \in told
  BY <1>3
<1>9. \A y \in told : \E e \in Carrying({"welcome", "update"}, y)' : e.row = row
  OBVIOUS
<1>10. \A y \in row.members \ rec[Admin].members : y = Admin \/ Carrying({"welcome"}, y)' # {}
  BY <1>2
<1>. HIDE DEF row, told
<1>. QED BY <1>2, <1>3, <1>4, <1>5, <1>6, <1>7, <1>8, <1>9, <1>10, Published

LEMMA AddRows == ASSUME IInv, RInv, IInv', NEW CONSTANT m \in Nodes, Add(m) PROVE RInv'
<1>. DEFINE old == rec[Admin]
            row == [ver |-> old.ver + 1, members |-> old.members \cup {m}]
            told == (row.members \cup old.members) \ {Admin}
            welcome == [kind |-> "welcome", from |-> Admin, to |-> m, row |-> row,
                        dists |-> CollectDists(old.members)]
<1>1. /\ old \in Row /\ old.members \in SUBSET Nodes /\ Admin \in old.members /\ m # Admin
      /\ m \notin old.members
  BY AdminVersions DEF Add, IInv, AdminStays
<1>2. /\ row \in Row /\ row.ver = old.ver + 1 /\ row.members = old.members \cup {m}
      /\ told \in SUBSET Nodes
  BY <1>1 DEF Row
<1>3. /\ SetRow(Admin, row) /\ net' = net /\ former' = former
      /\ queue' = queue \cup {welcome} \cup Updates(row, old.members)
  BY DEF Add
<1>4. /\ \A e \in Updates(row, old.members) :
           e.kind = "update" /\ e.row = row /\ e.to \in old.members \ {Admin}
      /\ \A p \in old.members \ {Admin} :
           \E e \in Updates(row, old.members) : e.kind = "update" /\ e.row = row /\ e.to = p
  BY UpdatesTell
<1>5. welcome.kind = "welcome" /\ welcome.to = m /\ welcome.row = row
  OBVIOUS
<1>. HIDE DEF welcome, row
<1>6. \A e \in (queue \cup net)' :
        \/ e \in queue \cup net \/ e.kind = "key"
        \/ e.kind \in {"welcome", "update"} /\ e.row = row /\ e.to \in told
  BY <1>1, <1>2, <1>3, <1>4, <1>5
<1>7. \A y \in told : \E e \in Carrying({"welcome", "update"}, y)' : e.row = row
  <2>. SUFFICES ASSUME NEW CONSTANT y \in told
                PROVE  \E e \in Carrying({"welcome", "update"}, y)' : e.row = row
    OBVIOUS
  <2>1. CASE y = m
    BY <1>3, <1>5, <2>1 DEF Carrying
  <2>2. CASE y \in old.members \ {Admin}
    BY <1>3, <1>4, <2>2 DEF Carrying
  <2>. QED BY <1>2, <2>1, <2>2
<1>8. welcome \in Carrying({"welcome"}, m)'
  BY <1>3, <1>5 DEF Carrying
<1>9. Admin \notin former
  BY DEF RInv, AdminAhead
<1>10. \A y \in row.members \ old.members : y = Admin \/ Carrying({"welcome"}, y)' # {}
  BY <1>2, <1>8
<1>11. queue \cup net \subseteq (queue \cup net)'
  BY <1>3
<1>12. /\ Admin \in row.members /\ former \subseteq former'
       /\ former' \subseteq former \cup rec[Admin].members
       /\ rec[Admin].members \ former' \subseteq row.members
  BY <1>1, <1>2, <1>3
<1>13. told = (row.members \cup rec[Admin].members) \ {Admin} /\ row.ver = rec[Admin].ver + 1
  BY <1>2
<1>14. \A y \in row.members \ rec[Admin].members : y = Admin \/ Carrying({"welcome"}, y)' # {}
  BY <1>10
<1>. HIDE DEF welcome, told
<1>. QED BY <1>2, <1>3, <1>6, <1>7, <1>9, <1>11, <1>12, <1>13, <1>14, Published

LEMMA RemoveRows == ASSUME IInv, RInv, IInv', NEW CONSTANT m \in Nodes, Remove(m) PROVE RInv'
<1>. DEFINE old == rec[Admin]
            row == [ver |-> old.ver + 1, members |-> old.members \ {m}]
            told == (row.members \cup old.members) \ {Admin}
            ks == Rekeyed(Admin, Without(Admin, {m}))
            ps == Dists(Admin, ks, row.members)
<1>1. /\ old \in Row /\ old.members \in SUBSET Nodes /\ Admin \in old.members /\ m # Admin
      /\ m \in old.members
  BY AdminVersions DEF Remove, IInv, AdminStays
<1>2. /\ row \in Row /\ row.ver = old.ver + 1 /\ row.members = old.members \ {m}
      /\ told = old.members \ {Admin}
  BY <1>1 DEF Row
<1>3. /\ SetRow(Admin, row) /\ net' = net /\ former' = former \cup {m}
      /\ queue' = queue \cup Updates(row, old.members) \cup ps
  BY DEF Remove, SaveRekeyed, Save
<1>4. /\ \A e \in Updates(row, old.members) :
           e.kind = "update" /\ e.row = row /\ e.to \in old.members \ {Admin}
      /\ \A p \in old.members \ {Admin} :
           \E e \in Updates(row, old.members) : e.kind = "update" /\ e.row = row /\ e.to = p
  BY UpdatesTell
<1>5. \A e \in ps : e.kind = "key"
  BY DistsAreKeys
<1>. HIDE DEF row, ps, ks
<1>6. \A e \in (queue \cup net)' :
        \/ e \in queue \cup net \/ e.kind = "key"
        \/ e.kind \in {"welcome", "update"} /\ e.row = row /\ e.to \in told
  BY <1>2, <1>3, <1>4, <1>5
<1>7. \A y \in told : \E e \in Carrying({"welcome", "update"}, y)' : e.row = row
  <2>. SUFFICES ASSUME NEW CONSTANT y \in told
                PROVE  \E e \in Carrying({"welcome", "update"}, y)' : e.row = row
    OBVIOUS
  <2>. QED BY <1>2, <1>3, <1>4 DEF Carrying
<1>8. Admin \notin former
  BY DEF RInv, AdminAhead
<1>9. queue \cup net \subseteq (queue \cup net)'
  BY <1>3
<1>10. /\ Admin \in row.members /\ former \subseteq former'
       /\ former' \subseteq former \cup rec[Admin].members
       /\ rec[Admin].members \ former' \subseteq row.members
       /\ told \in SUBSET Nodes
  BY <1>1, <1>2, <1>3
<1>11. told = (row.members \cup rec[Admin].members) \ {Admin} /\ row.ver = rec[Admin].ver + 1
  BY <1>2
<1>12. \A y \in row.members \ rec[Admin].members : y = Admin \/ Carrying({"welcome"}, y)' # {}
  BY <1>2
<1>. HIDE DEF told
<1>. QED BY <1>2, <1>3, <1>6, <1>7, <1>8, <1>9, <1>10, <1>11, <1>12, Published

LEMMA FlushSame ==
  ASSUME NEW x, NEW p, FlushSealed(x, p)
  PROVE  (queue \cup net)' = queue \cup net
<1>1. SealedOutboxList(x, p) \subseteq queue
  BY DEF SealedOutboxList
<1>. QED BY <1>1 DEF FlushSealed

\* Any step that is none of these leaves memberships alone.
LEMMA OtherRows ==
  ASSUME IInv, RInv, IInv',
         \/ \E x \in Nodes : SendText(x)
         \/ \E x, p \in Nodes : FlushSealed(x, p)
         \/ \E row \in queue : FlushFails(row)
         \/ UNCHANGED vars
  PROVE  RInv' /\ former' = former /\ rec' = rec
<1>0. TypeOK'
  BY DEF IInv
<1>1. rec' = rec /\ former' = former
  BY DEF SendText, FlushSealed, FlushFails, vars
<1>2. \A e \in (queue \cup net)' : e.kind \in {"welcome", "update"} => e \in queue \cup net
  BY FlushSame DEF SendText, FlushFails, vars
<1>3. queue \cup net \subseteq (queue \cup net)'
  BY FlushSame DEF SendText, FlushFails, vars
<1>. QED BY <1>0, <1>1, <1>2, <1>3, RowsUntouched

\* Who handles a membership, handles it as onWelcome or onUpdate says.
LEMMA ReceiveRows == ASSUME IInv, RInv, IInv', NEW e \in net, Receive(e) PROVE RInv'
<1>. DEFINE x == e.to
<1>0. TypeOK' /\ x \in Nodes /\ former' = former /\ net' = net \ {e}
  BY DEF IInv, TypeOK, Payload, Msg, Receive
<1>1. CASE e.kind \notin {"welcome", "update"}
  <2>1. rec' = rec /\ queue' = queue
    BY <1>1 DEF Receive, OnKey, OnGroupMessage, SetKey, Unmoved
  <2>. QED BY <1>0, <1>1, <2>1, RowsUntouched
<1>2. CASE e.kind \in {"welcome", "update"}
  <2>1. ~Knows(x) => e.kind = "welcome"
    BY <1>2 DEF Receive, Refused
  <2>2. /\ queue \subseteq queue' /\ \A f \in queue' : f \in queue \/ f.kind = "key"
        /\ \/ SetRow(x, e.row) /\ (rec[x].ver < e.row.ver \/ ~Knows(x))
           \/ rec' = rec /\ Knows(x) /\ e.row.ver <= rec[x].ver
    <3>1. e.row.ver \in Nat /\ rec[x].ver \in Nat
      BY <1>2 DEF IInv, TypeOK, Payload, Msg, Row
    <3>2. CASE Unmoved /\ Knows(x) /\ e.row.ver <= rec[x].ver
      BY <3>2 DEF Unmoved
    <3>3. CASE ApplyMembership(x, e.row) /\ rec[x].ver < e.row.ver
      BY <3>3, DistsAreKeys DEF ApplyMembership, SaveRekeyed, Save
    <3>4. CASE Join(x, e) /\ ~Knows(x)
      BY <3>4, DistsAreKeys DEF Join, SaveRekeyed, Save
    <3>5. e.kind = "welcome" => OnWelcome(x, e)
      BY DEF Receive
    <3>6. e.kind = "update" => OnUpdate(x, e) /\ Knows(x)
      BY <2>1 DEF Receive
    <3>7. \/ Unmoved /\ Knows(x) /\ e.row.ver <= rec[x].ver
          \/ ApplyMembership(x, e.row) /\ rec[x].ver < e.row.ver
          \/ Join(x, e) /\ ~Knows(x)
      BY <1>2, <3>1, <3>5, <3>6 DEF OnWelcome, OnUpdate
    <3>. HIDE DEF x
    <3>. QED BY <3>2, <3>3, <3>4, <3>7
  <2>. HIDE DEF x
  <2>. QED BY <1>0, <1>2, <2>1, <2>2, RowsReceived DEF x
<1>. QED BY <1>1, <1>2

LEMMA RInvKept == IInv /\ RInv /\ [Next]_vars => RInv'
<1>. SUFFICES ASSUME IInv, RInv, [Next]_vars PROVE RInv'
  OBVIOUS
<1>0. IInv'
  BY InvariantKept
<1>1. CASE Create
  BY <1>0, <1>1, CreateRows
<1>2. ASSUME NEW CONSTANT m \in Nodes, Add(m) PROVE RInv'
  BY <1>0, <1>2, AddRows
<1>3. ASSUME NEW CONSTANT m \in Nodes, Remove(m) PROVE RInv'
  BY <1>0, <1>3, RemoveRows
<1>4. ASSUME NEW e \in net, Receive(e) PROVE RInv'
  BY <1>0, <1>4, ReceiveRows
<1>5. CASE \/ \E x \in Nodes : SendText(x)
           \/ \E x, p \in Nodes : FlushSealed(x, p)
           \/ \E row \in queue : FlushFails(row)
           \/ UNCHANGED vars
  BY <1>0, <1>5, OtherRows
<1>. QED BY <1>1, <1>2, <1>3, <1>4, <1>5 DEF Next

LEMMA InitRows == Init => RInv
<1>. SUFFICES ASSUME Init PROVE RInv
  OBVIOUS
<1>1. /\ former = {} /\ \A x \in Nodes : rec[x] = Unknown
      /\ \A x, kinds : Carrying(kinds, x) = {}
  BY DEF Init, Carrying
<1>2. \A x \in Nodes : Versions(x) = {Unknown}
  BY <1>1 DEF Versions
<1>3. Unknown.ver = 0 /\ Unknown.members = {}
  BY DEF Unknown
<1>. QED BY <1>1, <1>2, <1>3, AdminAssumption DEF RInv, AdminAhead, NewsComing, Growing

LEMMA RowsInvariant == Spec => [](IInv /\ RInv)
BY InitHolds, InvariantKept, InitRows, RInvKept, PTL DEF Spec

LEMMA RowsSettle == IInv /\ RInv => MembershipSettles
<1>. SUFFICES ASSUME IInv, RInv, AtRest
              PROVE  /\ \A x \in rec[Admin].members : rec[x] = rec[Admin]
                     /\ \A x \in former \ rec[Admin].members : Left(x)
  BY DEF MembershipSettles
<1>1. ASSUME NEW x \in rec[Admin].members \cup former
      PROVE  Knows(x) /\ LastOf(x, rec[x])
  <2>0. x \in Nodes
    BY AdminVersions
  <2>1. Carrying({"welcome"}, x) = {}
    BY DEF AtRest, Carrying, Refused
  <2>2. Knows(x)
    BY <2>1 DEF RInv, NewsComing
  <2>3. Carrying({"welcome", "update"}, x) = {}
    BY <2>2 DEF AtRest, Carrying, Refused
  <2>. QED BY <2>2, <2>3 DEF RInv, NewsComing, Versions
<1>. QED BY <1>1 DEF LastOf, Left

\* When nothing is under way any more, all members have the admin's version of the
\* membership, and whoever was removed knows it, for any number of nodes and versions
\* (onWelcome, onUpdate, applyMembership).
THEOREM MembershipsSettle == Spec => []MembershipSettles
BY RowsInvariant, RowsSettle, PTL

-----------------------------------------------------------------------------
(* Members can talk                                                        *)

NoRowNoKeys == \A x \in Nodes : ~Knows(x) => \A p \in Nodes : keys[x][p] = NoKey

\* The generations of a node that was never removed number all the keys it has made.
GenerationsCount ==
  \A s \in Nodes \ former :
    /\ keys[s][s].gen = made[s] /\ keys[s][s].key = made[s]
    /\ Knows(s) => HasKey(s, s)
    /\ \A x \in Nodes \ {s} : \A d \in Points(x, s) : d.gen = d.key

\* x has the current key of s or will be given it.
KeyComing(s, x) ==
  \/ keys[x][s].key = keys[s][s].key
  \/ \E e \in Carrying({"key"}, x) : e.from = s /\ e.dist.key = keys[s][s].key
  \/ /\ s = Admin /\ ~Knows(x)
     /\ \A e \in Carrying({"welcome"}, x) : e.dists[s].key = keys[s][s].key

KeysCome == \A s, x \in Nodes \ former : s # x /\ x \in rec[s].members => KeyComing(s, x)

KInv == NoRowNoKeys /\ GenerationsCount /\ KeysCome

\* What a step does to keys and their generations.
OwnCount(s) ==
  \/ /\ keys'[s][s].gen = keys[s][s].gen /\ keys'[s][s].key = keys[s][s].key
     /\ made'[s] = made[s] /\ (Knows(s)' => Knows(s))
  \/ /\ keys'[s][s].gen = keys[s][s].gen + 1 /\ keys'[s][s].key = made[s] + 1
     /\ made'[s] = made[s] + 1

HeldCount(x, s) ==
  \/ keys'[x][s] = NoKey
  \/ keys'[x][s].gen = keys[x][s].gen /\ keys'[x][s].key = keys[x][s].key
  \/ \E d \in Points(x, s) : keys'[x][s] = NewReceiver(d)

CountStep ==
  /\ former \subseteq former'
  /\ \A x \in Nodes : (Knows(x) => Knows(x)') /\ (Knows(x)' \/ keys'[x] = keys[x])
  /\ \A s \in Nodes \ former' : OwnCount(s)
  /\ \A s, x \in Nodes : s # x => HeldCount(x, s)

LEMMA CountsKept ==
  ASSUME IInv, TypeOK', GroupStep, CountStep, NoRowNoKeys, GenerationsCount
  PROVE  NoRowNoKeys' /\ GenerationsCount'
<1>1. NoRowNoKeys'
  BY DEF NoRowNoKeys, CountStep
<1>2. ASSUME NEW CONSTANT s \in Nodes \ former', NEW CONSTANT x \in Nodes \ {s},
             NEW d \in Points(x, s)'
      PROVE  d.gen = d.key
  <2>0. /\ s \notin former /\ s # x /\ \A d0 \in Points(x, s) : d0.gen = d0.key
        /\ keys[s][s].gen = made[s] /\ keys[s][s].key = made[s]
        /\ OwnCount(s) /\ HeldCount(x, s)
    BY DEF CountStep, GenerationsCount
  <2>1. keys'[s][s].gen = keys'[s][s].key
    BY <2>0 DEF OwnCount
  <2>2. CASE d = Point(keys'[x][s])
    <3>1. CASE keys'[x][s] = NoKey
      BY <2>2, <3>1 DEF Point, NoKey
    <3>2. CASE keys'[x][s].gen = keys[x][s].gen /\ keys'[x][s].key = keys[x][s].key
      <4>1. Point(keys[x][s]) \in Points(x, s)
        BY DEF Points
      <4>. QED BY <2>0, <2>2, <3>2, <4>1 DEF Point
    <3>3. ASSUME NEW d0 \in Points(x, s), keys'[x][s] = NewReceiver(d0)
          PROVE  d.gen = d.key
      <4>1. d.gen = d0.gen /\ d.key = d0.key
        BY <2>2, <3>3 DEF Point, NewReceiver
      <4>. QED BY <2>0, <4>1
    <3>. QED BY <2>0, <3>1, <3>2, <3>3 DEF HeldCount
  <2>3. ASSUME NEW e \in (queue \cup net)', e.kind = "key", e.from = s, e.to = x, d = e.dist
        PROVE  d.gen = d.key
    <3>1. CASE e \in queue \cup net
      <4>1. d \in Points(x, s)
        BY <2>3, <3>1 DEF Points
      <4>. QED BY <2>0, <4>1
    <3>2. CASE Honest(e)
      BY <2>1, <2>3, <3>2 DEF Honest, Point
    <3>. QED BY <3>1, <3>2 DEF GroupStep
  <2>4. ASSUME NEW e \in (queue \cup net)', e.kind = "welcome", e.from = s, e.to = x,
               d = e.dists[s]
        PROVE  d.gen = d.key
    <3>1. CASE e \in queue \cup net
      <4>1. d \in Points(x, s)
        BY <2>4, <3>1 DEF Points
      <4>. QED BY <2>0, <4>1
    <3>2. CASE Honest(e)
      BY <2>1, <2>4, <3>2 DEF Honest, Point
    <3>. QED BY <3>1, <3>2 DEF GroupStep
  <2>. QED BY <2>2, <2>3, <2>4 DEF Points
<1>3. ASSUME NEW CONSTANT s \in Nodes \ former'
      PROVE  /\ keys'[s][s].gen = made'[s] /\ keys'[s][s].key = made'[s]
             /\ Knows(s)' => HasKey(s, s)'
  <2>1. /\ keys[s][s].gen = made[s] /\ keys[s][s].key = made[s] /\ made[s] \in Nat
        /\ Knows(s) => keys[s][s].gen > 0
        /\ OwnCount(s)
    BY DEF CountStep, GenerationsCount, IInv, TypeOK, HasKey
  <2>. QED BY <2>1 DEF OwnCount, HasKey
<1>4. GenerationsCount'
  BY <1>2, <1>3 DEF GenerationsCount
<1>. QED BY <1>1, <1>4

\* What is coming stays on its way until it is there.
LEMMA ComingKept ==
  ASSUME NEW CONSTANT s, NEW CONSTANT x, KeyComing(s, x),
         keys'[s][s].key = keys[s][s].key,
         keys[x][s].key = keys[s][s].key => keys'[x][s].key = keys[s][s].key,
         \A e \in Carrying({"key"}, x) : e.from = s /\ e.dist.key = keys[s][s].key =>
           e \in (queue \cup net)' \/ keys'[x][s].key = keys[s][s].key,
         s = Admin /\ ~Knows(x)
           /\ (\A e \in Carrying({"welcome"}, x) : e.dists[s].key = keys[s][s].key) =>
             \/ keys'[x][s].key = keys[s][s].key
             \/ /\ ~Knows(x)'
                /\ \A e \in (queue \cup net)' : e.kind = "welcome" /\ e.to = x =>
                     e \in queue \cup net \/ e.dists[s].key = keys[s][s].key
  PROVE  KeyComing(s, x)'
<1>1. CASE keys'[x][s].key = keys[s][s].key
  BY <1>1 DEF KeyComing
<1>2. ASSUME NEW e \in Carrying({"key"}, x), e.from = s, e.dist.key = keys[s][s].key,
             e \in (queue \cup net)'
      PROVE  KeyComing(s, x)'
  <2>1. e \in Carrying({"key"}, x)'
    BY <1>2 DEF Carrying
  <2>. QED BY <1>2, <2>1 DEF KeyComing
<1>3. CASE /\ s = Admin /\ ~Knows(x) /\ ~Knows(x)'
           /\ \A e \in Carrying({"welcome"}, x) : e.dists[s].key = keys[s][s].key
           /\ \A e \in (queue \cup net)' : e.kind = "welcome" /\ e.to = x =>
                e \in queue \cup net \/ e.dists[s].key = keys[s][s].key
  <2>1. \A e \in Carrying({"welcome"}, x)' : e.dists[s].key = keys'[s][s].key
    BY <1>3 DEF Carrying
  <2>. QED BY <1>3, <2>1 DEF KeyComing
<1>. QED BY <1>1, <1>2, <1>3 DEF KeyComing

\* A step that saves x's keys and x's row counts generations on.
LEMMA SaveCounts ==
  ASSUME IInv, NEW CONSTANT x \in Nodes, NEW ks \in [Nodes -> Key], NEW ps,
         NEW row \in Row, row.ver > 0, SetRow(x, row), Save(x, ks, ps), former \subseteq former',
         x \notin former' =>
           \/ ks[x].gen = keys[x][x].gen /\ ks[x].key = keys[x][x].key /\ Knows(x)
           \/ ks[x].gen = keys[x][x].gen + 1 /\ ks[x].key = made[x] + 1,
         \A p \in Nodes : p # x =>
           \/ ks[p] = NoKey \/ ks[p] = keys[x][p]
           \/ \E d \in Points(x, p) : ks[p] = NewReceiver(d)
  PROVE  CountStep
<1>0. TypeOK
  BY DEF IInv
<1>1. /\ rec'[x] = row /\ \A y \in Nodes : y # x => rec'[y] = rec[y]
  BY <1>0 DEF SetRow, TypeOK
<1>2. /\ keys'[x] = ks /\ \A y \in Nodes : y # x => keys'[y] = keys[y]
  BY <1>0 DEF Save, TypeOK
<1>3. /\ keys[x][x].key \in Nat /\ made[x] \in Nat /\ keys[x][x].key <= made[x]
      /\ ks[x].key \in Nat
  BY DEF IInv, TypeOK, Key, OwnIsNewest
<1>4. /\ made'[x] = IF ks[x].key > made[x] THEN ks[x].key ELSE made[x]
      /\ \A y \in Nodes : y # x => made'[y] = made[y]
  BY <1>0 DEF Save, TypeOK
<1>5. \A y \in Nodes : (Knows(y) => Knows(y)') /\ (Knows(y)' \/ keys'[y] = keys[y])
  BY <1>1, <1>2 DEF Knows
<1>6. ASSUME NEW s \in Nodes \ former' PROVE OwnCount(s)
  <2>1. CASE s = x
    BY <1>2, <1>3, <1>4, <2>1 DEF OwnCount
  <2>2. CASE s # x
    <3>1. Knows(s)' => Knows(s)
      BY <1>1, <2>2 DEF Knows
    <3>. QED BY <1>2, <1>4, <2>2, <3>1 DEF OwnCount
  <2>. QED BY <2>1, <2>2
<1>7. ASSUME NEW s \in Nodes, NEW y \in Nodes, s # y PROVE HeldCount(y, s)
  BY <1>2, <1>7 DEF HeldCount
<1>. QED BY <1>5, <1>6, <1>7 DEF CountStep

\* What a step that saves x's keys must show about the keys to come: the members x
\* knows keep x's key or are given the new one, and x keeps theirs.
EnvelopesStay(x) ==
  /\ \A e \in queue \cup net :
       e \in (queue \cup net)' \/ (e.to = x /\ e.kind \in {"welcome", "update"})
  /\ \A e \in (queue \cup net)' : e \in queue \cup net \/ e.kind # "welcome"

OwnGiven(x, ks, ps, members) ==
  \A y \in members \ former' :
    \/ x \in former' \/ y = x
    \/ ks[x].key = keys[x][x].key /\ y \in rec[x].members
    \/ \E e \in ps : e.kind = "key" /\ e.from = x /\ e.to = y /\ e.dist.key = ks[x].key

OthersHeld(x, ks) ==
  /\ \A s \in Nodes \ former' : x \in former' \/ s = x \/ x \notin rec[s].members
       \/ ks[s].key = keys[x][s].key \/ keys[x][s].key # keys[s][s].key
       \/ ks[s].key = keys[s][s].key
  /\ x # Admin /\ ~Knows(x) =>
       \E e \in Carrying({"welcome"}, x) : ks[Admin].key = e.dists[Admin].key

LEMMA SaveComes ==
  ASSUME IInv, KInv, NEW CONSTANT x \in Nodes, NEW ks \in [Nodes -> Key], NEW ps,
         NEW row \in Row, SetRow(x, row), Save(x, ks, ps), former \subseteq former',
         EnvelopesStay(x), OwnGiven(x, ks, ps, row.members), OthersHeld(x, ks)
  PROVE  KeysCome'
<1>. SUFFICES ASSUME NEW CONSTANT s \in Nodes \ former', NEW CONSTANT y \in Nodes \ former',
                     s # y, y \in rec'[s].members
              PROVE  KeyComing(s, y)'
  BY DEF KeysCome
<1>0. TypeOK /\ s \notin former /\ y \notin former
  BY DEF IInv
<1>1. /\ rec'[x] = row /\ \A z \in Nodes : z # x => rec'[z] = rec[z]
  BY <1>0 DEF SetRow, TypeOK
<1>2. /\ keys'[x] = ks /\ \A z \in Nodes : z # x => keys'[z] = keys[z]
  BY <1>0 DEF Save, TypeOK
<1>3. \A e \in queue \cup net : e.kind = "key" => e \in (queue \cup net)'
  BY DEF EnvelopesStay
<1>4. \A e \in (queue \cup net)' : e.kind = "welcome" => e \in queue \cup net
  BY DEF EnvelopesStay
<1>5. CASE s = x
  <2>1. CASE \E e \in ps : e.kind = "key" /\ e.from = x /\ e.to = y /\ e.dist.key = ks[x].key
    <3>1. PICK e \in ps : e.kind = "key" /\ e.from = x /\ e.to = y /\ e.dist.key = ks[x].key
      BY <2>1
    <3>2. e \in Carrying({"key"}, y)'
      BY <3>1 DEF Carrying, Save
    <3>. QED BY <1>2, <1>5, <3>1, <3>2 DEF KeyComing
  <2>2. CASE ks[x].key = keys[x][x].key /\ y \in rec[x].members
    <3>1. KeyComing(s, y)
      BY <1>0, <1>5, <2>2 DEF KInv, KeysCome
    <3>2. keys'[s][s].key = keys[s][s].key /\ keys'[y] = keys[y]
      BY <1>2, <1>5, <2>2
    <3>3. Knows(y)' <=> Knows(y)
      BY <1>1, <1>5 DEF Knows
    <3>4. \A e \in Carrying({"key"}, y) : e \in (queue \cup net)'
      BY <1>3 DEF Carrying
    <3>. QED BY <1>4, <3>1, <3>2, <3>3, <3>4, ComingKept
  <2>. QED BY <1>1, <1>5, <2>1, <2>2 DEF OwnGiven
<1>6. CASE s # x
  <2>1. y \in rec[s].members /\ keys'[s] = keys[s] /\ KeyComing(s, y)
    BY <1>0, <1>1, <1>2, <1>6 DEF KInv, KeysCome
  <2>2. \A e \in Carrying({"key"}, y) : e \in (queue \cup net)'
    BY <1>3 DEF Carrying
  <2>3. CASE y = x
    <3>1. keys[y][s].key = keys[s][s].key => keys'[y][s].key = keys[s][s].key
      BY <1>2, <1>6, <2>1, <2>3 DEF OthersHeld
    <3>2. s = Admin /\ ~Knows(y)
            /\ (\A e \in Carrying({"welcome"}, y) : e.dists[s].key = keys[s][s].key) =>
              keys'[y][s].key = keys[s][s].key
      BY <1>2, <1>6, <2>3 DEF OthersHeld
    <3>. QED BY <2>1, <2>2, <3>1, <3>2, ComingKept
  <2>4. CASE y # x
    <3>1. keys'[y] = keys[y]
      BY <1>2, <2>4
    <3>2. Knows(y)' <=> Knows(y)
      BY <1>1, <2>4 DEF Knows
    <3>. QED BY <1>4, <2>1, <2>2, <3>1, <3>2, ComingKept
  <2>. QED BY <2>3, <2>4
<1>. QED BY <1>5, <1>6

LEMMA CreateComes == ASSUME IInv, RInv, KInv, Create PROVE CountStep /\ KeysCome'
<1>. DEFINE row == [ver |-> 1, members |-> {Admin}]
            ks == Rekeyed(Admin, keys[Admin])
<1>0. TypeOK /\ keys[Admin] \in [Nodes -> Key] /\ keys[Admin][Admin].gen \in Nat
  BY AdminAssumption DEF IInv, TypeOK, Key
<1>1. row \in Row /\ row.ver > 0 /\ row.members = {Admin}
  BY AdminAssumption DEF Row
<1>2. /\ ks \in [Nodes -> Key] /\ ks[Admin].key = made[Admin] + 1
      /\ ks[Admin].gen = keys[Admin][Admin].gen + 1
      /\ \A p \in Nodes : p # Admin => ks[p] = keys[Admin][p]
  BY <1>0, KeyOps, AdminAssumption DEF Rekeyed
<1>3. Dists(Admin, ks, {}) = {}
  BY DEF Dists
<1>4. /\ SetRow(Admin, row) /\ Save(Admin, ks, {}) /\ former \subseteq former'
      /\ net' = net /\ queue' = queue
  BY <1>3 DEF Create, SaveRekeyed, Save
<1>. HIDE DEF ks, row
<1>5. CountStep
  BY <1>1, <1>2, <1>4, SaveCounts, AdminAssumption
<1>6. EnvelopesStay(Admin)
  BY <1>4 DEF EnvelopesStay
<1>7. OthersHeld(Admin, ks)
  BY <1>2 DEF OthersHeld
<1>8. OwnGiven(Admin, ks, {}, row.members)
  BY <1>1 DEF OwnGiven
<1>9. KeysCome'
  BY <1>1, <1>2, <1>4, <1>6, <1>7, <1>8, SaveComes, AdminAssumption
<1>. QED BY <1>5, <1>9

LEMMA RemoveComes ==
  ASSUME IInv, RInv, KInv, NEW CONSTANT m \in Nodes, Remove(m) PROVE CountStep /\ KeysCome'
<1>. DEFINE row == [ver |-> rec[Admin].ver + 1, members |-> rec[Admin].members \ {m}]
            old == Without(Admin, {m})
            ks == Rekeyed(Admin, old)
            ps == Updates(row, rec[Admin].members) \cup Dists(Admin, ks, row.members)
<1>0. /\ TypeOK /\ m # Admin /\ rec[Admin] \in Row /\ rec[Admin].ver \in Nat
      /\ rec[Admin].members \in SUBSET Nodes
  BY AdminAssumption DEF IInv, TypeOK, Remove, Row
<1>1. row \in Row /\ row.ver > 0 /\ row.members \in SUBSET Nodes
  BY <1>0 DEF Row
<1>2. /\ old \in [Nodes -> Key] /\ old[Admin] = keys[Admin][Admin]
      /\ \A p \in Nodes : (p # m => old[p] = keys[Admin][p]) /\ (p = m => old[p] = NoKey)
  <2>1. old \in [Nodes -> Key]
    BY WithoutGone, AdminAssumption
  <2>. QED BY <1>0, <2>1, AdminAssumption DEF Without
<1>. HIDE DEF old
<1>3. /\ ks \in [Nodes -> Key] /\ ks[Admin].key = made[Admin] + 1
      /\ ks[Admin].gen = keys[Admin][Admin].gen + 1
      /\ \A p \in Nodes : p # Admin => ks[p] = old[p]
  BY <1>0, <1>2, KeyOps, AdminAssumption DEF Rekeyed
<1>4. /\ SetRow(Admin, row) /\ Save(Admin, ks, ps) /\ net' = net /\ former' = former \cup {m}
      /\ queue' = queue \cup ps
  BY DEF Remove, SaveRekeyed, Save, old
<1>5. \A e \in ps : e.kind # "welcome"
  BY UpdatesTell, DistsAreKeys
<1>6. ASSUME NEW y \in row.members, y # Admin
      PROVE  \E e \in ps : e.kind = "key" /\ e.from = Admin /\ e.to = y
                           /\ e.dist.key = ks[Admin].key
  <2>1. [kind |-> "key", from |-> Admin, to |-> y, dist |-> Point(ks[Admin])] \in ps
    BY <1>6 DEF Dists
  <2>. QED BY <2>1 DEF Point
<1>. HIDE DEF ks, row, ps
<1>7. CountStep
  BY <1>1, <1>2, <1>3, <1>4, SaveCounts, AdminAssumption
<1>8. EnvelopesStay(Admin) /\ former \subseteq former'
  BY <1>4, <1>5 DEF EnvelopesStay
<1>9. OthersHeld(Admin, ks)
  BY <1>2, <1>3, <1>4 DEF OthersHeld
<1>10. OwnGiven(Admin, ks, ps, row.members)
  BY <1>6 DEF OwnGiven
<1>11. KeysCome'
  BY <1>1, <1>3, <1>4, <1>8, <1>9, <1>10, SaveComes, AdminAssumption
<1>. QED BY <1>7, <1>11

\* A node that was never removed stays in every later version.
LEMMA NobodyGoes ==
  ASSUME IInv, RInv, NEW x \in Nodes, NEW row \in Versions(x), rec[x].ver <= row.ver,
         NEW s \in Nodes \ former, s \in rec[x].members
  PROVE  s \in row.members
BY VersionTypes DEF RInv, Growing, IInv

LEMMA ApplyComes ==
  ASSUME IInv, RInv, KInv, NEW CONSTANT x \in Nodes, x # Admin, Knows(x),
         NEW e \in net, e.kind \in {"welcome", "update"}, e.to = x, rec[x].ver < e.row.ver,
         ApplyMembership(x, e.row), net' = net \ {e}, former' = former
  PROVE  CountStep /\ KeysCome'
<1>. DEFINE row == e.row
            gone == rec[x].members \ row.members
            added == (row.members \ rec[x].members) \ {x}
            ks == Without(x, gone)
<1>0. /\ TypeOK /\ row \in Versions(x) /\ row \in Row /\ row.ver > 0 /\ rec[x].ver <= row.ver
      /\ SetRow(x, row) /\ row.members \in SUBSET Nodes
  <2>1. row \in Versions(x)
    BY DEF Versions, Carrying
  <2>2. row \in Row /\ row.ver \in Nat /\ rec[x].ver \in Nat /\ row.members \in SUBSET Nodes
    BY <2>1, VersionTypes DEF IInv
  <2>. QED BY <2>1, <2>2 DEF IInv, TypeOK, Row, ApplyMembership, Knows
<1>1. /\ x \notin former => x \in row.members /\ HasKey(x, x)
      /\ \A s \in Nodes \ former : s \notin gone
  <2>1. x \notin former => x \in rec[x].members /\ HasKey(x, x)
    BY <1>0, VersionTypes DEF RInv, Growing, KInv, GenerationsCount, IInv, Knows
  <2>. QED BY <1>0, <2>1, NobodyGoes
<1>2. /\ ks \in [Nodes -> Key]
      /\ \A p \in Nodes : ks[p] = NoKey \/ ks[p] = keys[x][p]
      /\ \A p \in Nodes \ former : ks[p] = keys[x][p]
  <2>1. ks \in [Nodes -> Key] /\ \A p \in Nodes : ks[p] = NoKey \/ ks[p] = keys[x][p]
    BY WithoutGone
  <2>2. \A p \in Nodes : p \notin gone => ks[p] = keys[x][p]
    BY DEF Without
  <2>. QED BY <1>1, <2>1, <2>2
<1>. HIDE DEF ks
<1>3. ASSUME NEW new \in [Nodes -> Key], NEW ps, Save(x, new, ps),
             \A p \in Nodes : p # x => new[p] = ks[p],
             \A d \in ps : d.kind = "key",
             x \notin former =>
               \/ new[x] = keys[x][x]
               \/ new[x].gen = keys[x][x].gen + 1 /\ new[x].key = made[x] + 1,
             OwnGiven(x, new, ps, row.members)
      PROVE  CountStep /\ KeysCome'
  <2>1. queue' = queue \cup ps
    BY <1>3 DEF Save
  <2>2. EnvelopesStay(x)
    BY <1>3, <2>1 DEF EnvelopesStay
  <2>3. CountStep
    BY <1>0, <1>2, <1>3, SaveCounts
  <2>4. OthersHeld(x, new)
    BY <1>2, <1>3 DEF OthersHeld
  <2>. HIDE DEF row
  <2>5. KeysCome'
    BY <1>0, <1>3, <2>2, <2>4, SaveComes
  <2>. QED BY <2>3, <2>5
<1>4. CASE x \in row.members /\ gone # {} /\ SaveRekeyed(x, ks, row.members, {})
  <2>. DEFINE new == Rekeyed(x, ks)
              ps == Dists(x, new, row.members)
  <2>1. /\ new \in [Nodes -> Key] /\ new[x].gen = ks[x].gen + 1 /\ new[x].key = made[x] + 1
        /\ \A p \in Nodes : p # x => new[p] = ks[p]
    BY <1>0, <1>2, KeyOps DEF Rekeyed
  <2>2. Save(x, new, ps)
    BY <1>4 DEF SaveRekeyed
  <2>3. ASSUME NEW y \in row.members, y # x
        PROVE  \E d \in ps : d.kind = "key" /\ d.from = x /\ d.to = y /\ d.dist.key = new[x].key
    <3>1. [kind |-> "key", from |-> x, to |-> y, dist |-> Point(new[x])] \in ps
      BY <2>3 DEF Dists
    <3>. QED BY <3>1 DEF Point
  <2>4. \A d \in ps : d.kind = "key"
    BY DistsAreKeys
  <2>5. x \notin former => new[x].gen = keys[x][x].gen + 1 /\ new[x].key = made[x] + 1
    BY <1>2, <2>1
  <2>6. OwnGiven(x, new, ps, row.members)
    BY <2>3 DEF OwnGiven
  <2>. HIDE DEF new, ps, row, gone
  <2>. QED BY <1>3, <2>1, <2>2, <2>4, <2>5, <2>6
<1>5. CASE x \in row.members /\ gone = {} /\ HasKey(x, x) /\ Save(x, ks, Dists(x, ks, added))
  <2>. DEFINE ps == Dists(x, ks, added)
  <2>1. ks[x] = keys[x][x]
    BY <1>5 DEF ks, Without
  <2>2. ASSUME NEW y \in row.members, y # x, y \notin rec[x].members
        PROVE  \E d \in ps : d.kind = "key" /\ d.from = x /\ d.to = y /\ d.dist.key = ks[x].key
    <3>1. [kind |-> "key", from |-> x, to |-> y, dist |-> Point(ks[x])] \in ps
      BY <2>2 DEF Dists
    <3>. QED BY <3>1 DEF Point
  <2>3. \A d \in ps : d.kind = "key"
    BY DistsAreKeys
  <2>4. Save(x, ks, ps)
    BY <1>5
  <2>5. OwnGiven(x, ks, ps, row.members)
    BY <2>1, <2>2 DEF OwnGiven
  <2>. HIDE DEF ps, row, gone, added
  <2>. QED BY <1>2, <1>3, <2>1, <2>3, <2>4, <2>5
<1>6. CASE x \in former /\ Save(x, ks, {})
  <2>1. \A d \in {} : d.kind = "key"
    OBVIOUS
  <2>2. OwnGiven(x, ks, {}, row.members)
    BY <1>6 DEF OwnGiven
  <2>. HIDE DEF row, gone
  <2>. QED BY <1>2, <1>3, <1>6, <2>1, <2>2
<1>. QED BY <1>1, <1>4, <1>5, <1>6 DEF ApplyMembership, ks

LEMMA JoinComes ==
  ASSUME IInv, RInv, KInv, NEW CONSTANT x \in Nodes, x # Admin, ~Knows(x),
         NEW e \in net, e.kind = "welcome", e.to = x,
         Join(x, e), net' = net \ {e}, former' = former
  PROVE  CountStep /\ KeysCome'
<1>. DEFINE row == e.row
            old == [keys[x] EXCEPT ![Admin] = NewReceiver(e.dists[Admin])]
            ks == Rekeyed(x, old)
            ps == Dists(x, ks, row.members)
<1>0. /\ TypeOK /\ e.from = Admin /\ row \in Row /\ row.members \in SUBSET Nodes
      /\ keys[x] \in [Nodes -> Key] /\ SetRow(x, row) /\ e.dists[Admin] \in Dist
      /\ e \in Carrying({"welcome"}, x)
  <2>1. e.from = Admin /\ TypeOK
    BY DEF IInv, WellAddressed
  <2>2. e.row \in Row /\ e.row.members \in SUBSET Nodes /\ e.dists[Admin] \in Dist
    BY <2>1, AdminAssumption DEF TypeOK, Payload, Msg, Row
  <2>3. e \in Carrying({"welcome"}, x)
    BY DEF Carrying
  <2>. QED BY <2>1, <2>2, <2>3 DEF TypeOK, Join
<1>1. row.ver > 0
  <2>1. x \in row.members /\ row \in Versions(x) /\ row.ver \in Nat
    BY <1>0 DEF IInv, WellAddressed, Carrying, Versions, Row
  <2>. QED BY <2>1 DEF RInv, AdminAhead
<1>2. /\ old \in [Nodes -> Key] /\ old[Admin] = NewReceiver(e.dists[Admin])
      /\ \A p \in Nodes : p # Admin => old[p] = keys[x][p]
  BY <1>0, PointTypes, AdminAssumption
<1>3. e.dists[Admin] \in Points(x, Admin)
  BY <1>0 DEF Points, Carrying
<1>. HIDE DEF old
<1>4. /\ ks \in [Nodes -> Key] /\ ks[x].gen = old[x].gen + 1 /\ ks[x].key = made[x] + 1
      /\ \A p \in Nodes : p # x => ks[p] = old[p]
  BY <1>0, <1>2, KeyOps DEF Rekeyed
<1>5. Save(x, ks, ps)
  BY <1>0 DEF Join, SaveRekeyed, old
<1>6. ASSUME NEW y \in row.members, y # x
      PROVE  \E d \in ps : d.kind = "key" /\ d.from = x /\ d.to = y /\ d.dist.key = ks[x].key
  <2>1. [kind |-> "key", from |-> x, to |-> y, dist |-> Point(ks[x])] \in ps
    BY <1>6 DEF Dists
  <2>. QED BY <2>1 DEF Point
<1>7. \A d \in ps : d.kind = "key"
  BY DistsAreKeys
<1>. HIDE DEF ks, ps
<1>8. OwnGiven(x, ks, ps, row.members)
  BY <1>6 DEF OwnGiven
<1>9. EnvelopesStay(x)
  BY <1>5, <1>7 DEF EnvelopesStay, Save
<1>10. ks[Admin].key = e.dists[Admin].key
  BY <1>2, <1>4, AdminAssumption DEF NewReceiver
<1>11. \A s \in Nodes \ former : s = x \/ x \notin rec[s].members
         \/ ks[s].key = keys[x][s].key \/ keys[x][s].key # keys[s][s].key
  <2>. SUFFICES ASSUME Admin \notin former, x \in rec[Admin].members
                PROVE  keys[x][Admin].key # keys[Admin][Admin].key
    BY <1>2, <1>4
  <2>1. rec[Admin].ver > 0
    BY AdminVersions, AdminAssumption, VersionTypes DEF RInv, AdminAhead, IInv
  <2>2. keys[Admin][Admin].gen > 0 /\ keys[Admin][Admin].gen = keys[Admin][Admin].key
    BY <2>1, AdminAssumption DEF KInv, GenerationsCount, Knows, HasKey
  <2>3. keys[x][Admin].key = 0
    BY AdminAssumption DEF KInv, NoRowNoKeys, NoKey
  <2>. QED BY <2>2, <2>3
<1>12. OthersHeld(x, ks)
  BY <1>0, <1>10, <1>11 DEF OthersHeld
<1>13. KeysCome'
  BY <1>0, <1>4, <1>5, <1>8, <1>9, <1>12, SaveComes
<1>14. \A p \in Nodes : p # x =>
         \/ ks[p] = keys[x][p]
         \/ \E d \in Points(x, p) : ks[p] = NewReceiver(d)
  BY <1>2, <1>3, <1>4
<1>15. ks[x].gen = keys[x][x].gen + 1
  BY <1>2, <1>4
<1>16. CountStep
  BY <1>0, <1>1, <1>4, <1>5, <1>14, <1>15, SaveCounts
<1>. QED BY <1>13, <1>16

\* A step that leaves all rows and own keys alone.
LEMMA QuietComes ==
  ASSUME IInv, KInv, former' = former, rec' = rec, made' = made,
         \A s \in Nodes : keys'[s][s].gen = keys[s][s].gen /\ keys'[s][s].key = keys[s][s].key,
         \A s, x \in Nodes : s # x =>
           \/ keys'[x][s].gen = keys[x][s].gen /\ keys'[x][s].key = keys[x][s].key
           \/ \E d \in Points(x, s) : keys'[x][s] = NewReceiver(d),
         \A x \in Nodes : Knows(x) \/ keys'[x] = keys[x],
         \A s, x \in Nodes \ former : s # x /\ keys[x][s].key = keys[s][s].key =>
           keys'[x][s].key = keys[s][s].key,
         \A e \in (queue \cup net)' : e \in queue \cup net \/ e.kind = "msg",
         \A e \in queue \cup net :
           \/ e \in (queue \cup net)' \/ e.kind # "key" \/ e.from \in former \/ e.to \in former
           \/ e.dist.key # keys[e.from][e.from].key
           \/ keys'[e.to][e.from].key = keys[e.from][e.from].key
  PROVE  CountStep /\ KeysCome'
<1>1. \A x \in Nodes : Knows(x)' <=> Knows(x)
  BY DEF Knows
<1>2. CountStep
  BY <1>1 DEF CountStep, OwnCount, HeldCount
<1>3. ASSUME NEW CONSTANT s \in Nodes \ former, NEW CONSTANT x \in Nodes \ former,
             s # x, x \in rec[s].members
      PROVE  KeyComing(s, x)'
  <2>1. KeyComing(s, x)
    BY <1>3 DEF KInv, KeysCome
  <2>2. \A e \in Carrying({"key"}, x) : e.from = s /\ e.dist.key = keys[s][s].key =>
          e \in (queue \cup net)' \/ keys'[x][s].key = keys[s][s].key
    BY DEF Carrying
  <2>. QED BY <1>1, <1>3, <2>1, <2>2, ComingKept
<1>4. KeysCome'
  BY <1>3 DEF KeysCome
<1>. QED BY <1>2, <1>4

LEMMA AddComes ==
  ASSUME IInv, RInv, KInv, NEW CONSTANT m \in Nodes, Add(m) PROVE CountStep /\ KeysCome'
<1>. DEFINE old == rec[Admin]
            row == [ver |-> old.ver + 1, members |-> old.members \cup {m}]
            welcome == [kind |-> "welcome", from |-> Admin, to |-> m, row |-> row,
                        dists |-> CollectDists(old.members)]
            K == keys[Admin][Admin].key
<1>0. /\ TypeOK /\ Admin \in old.members /\ old.ver \in Nat /\ old.ver > 0 /\ m \notin old.members
      /\ Knows(Admin) /\ m # Admin /\ old.members \in SUBSET Nodes
  BY AdminAssumption DEF IInv, TypeOK, Add, AdminStays, Row, Knows
<1>1. /\ keys' = keys /\ made' = made /\ former' = former /\ net' = net
      /\ SetRow(Admin, row) /\ queue' = queue \cup {welcome} \cup Updates(row, old.members)
  BY DEF Add
<1>2. /\ rec'[Admin] = row /\ \A y \in Nodes : y # Admin => rec'[y] = rec[y]
  BY <1>0, <1>1, AdminAssumption DEF SetRow, TypeOK
<1>3. welcome.kind = "welcome" /\ welcome.to = m /\ welcome.dists[Admin].key = K
  BY <1>0, AdminAssumption DEF CollectDists, Point
<1>4. row.ver > 0 /\ row.members = old.members \cup {m}
  BY <1>0
<1>5. /\ \A e \in (queue \cup net)' : e.kind = "welcome" => e \in queue \cup net \/ e = welcome
      /\ \A e \in queue \cup net : e \in (queue \cup net)'
  BY <1>1, UpdatesTell
<1>. HIDE DEF row, welcome
<1>6. \A y \in Nodes : Knows(y)' <=> Knows(y)
  BY <1>0, <1>2, <1>4 DEF Knows
<1>7. CountStep
  BY <1>1, <1>6 DEF CountStep, OwnCount, HeldCount
<1>8. m \notin former => ~Knows(m) /\ Carrying({"welcome"}, m) = {}
  <2>. SUFFICES ASSUME m \notin former PROVE ~Knows(m) /\ Carrying({"welcome"}, m) = {}
    OBVIOUS
  <2>1. \A q \in Versions(m) : m \notin q.members
    <3>1. \A q \in Versions(m) : q.ver <= old.ver /\ old \in Versions(Admin)
      BY AdminAssumption, VersionTypes DEF RInv, AdminAhead, IInv
    <3>. QED BY <1>0, <3>1, AdminAssumption DEF RInv, Growing
  <2>2. ~Knows(m)
    BY <2>1, VersionTypes DEF RInv, Growing, Knows, IInv
  <2>3. \A e \in Carrying({"welcome"}, m) : m \in e.row.members /\ e.row \in Versions(m)
    BY DEF Carrying, Versions, IInv, WellAddressed
  <2>. QED BY <2>1, <2>2, <2>3
<1>9. ASSUME NEW CONSTANT s \in Nodes \ former, NEW CONSTANT x \in Nodes \ former,
             s # x, x \in rec'[s].members
      PROVE  KeyComing(s, x)'
  <2>1. CASE s = Admin /\ x = m
    <3>1. \A e \in Carrying({"welcome"}, m)' : e = welcome
      BY <1>5, <1>8, <1>9, <2>1 DEF Carrying
    <3>. QED BY <1>1, <1>3, <1>6, <1>8, <1>9, <2>1, <3>1 DEF KeyComing
  <2>2. CASE ~(s = Admin /\ x = m)
    <3>1. x \in rec[s].members
      BY <1>2, <1>4, <1>9, <2>2
    <3>2. KeyComing(s, x)
      BY <1>9, <3>1 DEF KInv, KeysCome
    <3>3. /\ \A e \in Carrying({"key"}, x) : e \in (queue \cup net)'
          /\ \A e \in (queue \cup net)' : e.kind = "welcome" /\ e.to = x =>
               e \in queue \cup net \/ s # Admin \/ e.dists[s].key = keys[s][s].key
      BY <1>3, <1>5 DEF Carrying
    <3>. QED BY <1>1, <1>6, <3>2, <3>3, ComingKept
  <2>. QED BY <2>1, <2>2
<1>10. KeysCome'
  BY <1>1, <1>9 DEF KeysCome
<1>. QED BY <1>7, <1>10

LEMMA OtherComes ==
  ASSUME IInv, KInv,
         \/ \E x \in Nodes : SendText(x)
         \/ \E x, p \in Nodes : FlushSealed(x, p)
         \/ \E row \in queue : FlushFails(row)
         \/ UNCHANGED vars
  PROVE  CountStep /\ KeysCome'
<1>0. TypeOK
  BY DEF IInv
<1>1. CASE \E x \in Nodes : SendText(x)
  <2>1. PICK x \in Nodes : SendText(x)
    BY <1>1
  <2>2. /\ Knows(x) /\ rec' = rec /\ made' = made /\ former' = former /\ queue' = queue
        /\ \A e \in net : e \in net'
        /\ \A e \in net' : e \in net \/ e.kind = "msg"
    BY <2>1 DEF SendText
  <2>3. keys' = [keys EXCEPT ![x] =
                  [keys[x] EXCEPT ![x] = [keys[x][x] EXCEPT !.n = keys[x][x].n + 1]]]
    BY <2>1 DEF SendText
  <2>4. /\ keys'[x][x].gen = keys[x][x].gen /\ keys'[x][x].key = keys[x][x].key
        /\ \A y, p \in Nodes : y # x \/ p # x => keys'[y][p] = keys[y][p]
        /\ \A y \in Nodes : y # x => keys'[y] = keys[y]
    BY <1>0, <2>3 DEF TypeOK, Key
  <2>. QED BY <2>2, <2>4, QuietComes
<1>2. CASE \/ \E x, p \in Nodes : FlushSealed(x, p)
           \/ \E row \in queue : FlushFails(row)
           \/ UNCHANGED vars
  <2>1. /\ keys' = keys /\ rec' = rec /\ made' = made /\ former' = former
        /\ (queue \cup net)' = queue \cup net
    BY <1>2, FlushSame DEF FlushSealed, FlushFails, vars
  <2>. QED BY <2>1, QuietComes
<1>. QED BY <1>1, <1>2

\* No point is ahead of the key its owner has.
LEMMA NoneIsAhead ==
  ASSUME IInv, KInv, NEW s \in Nodes \ former, NEW x \in Nodes, s # x, NEW d \in Points(x, s)
  PROVE  /\ d.gen \in Nat /\ d.gen = d.key /\ d.key <= keys[s][s].key
         /\ keys[s][s].key \in Nat
<1>1. d \in Dist
  BY PointsAreDists DEF IInv
<1>2. d.gen = d.key /\ keys[s][s].key = made[s] /\ made[s] \in Nat
  BY DEF KInv, GenerationsCount, IInv, TypeOK
<1>3. d.key <= made[s]
  BY DEF IInv, PointsAreMade
<1>. QED BY <1>1, <1>2, <1>3 DEF Dist

LEMMA UnmovedComes ==
  ASSUME IInv, KInv, NEW CONSTANT e \in net, Unmoved, net' = net \ {e}, former' = former,
         e.kind = "key" => e.dist.gen < keys[e.to][e.from].gen
  PROVE  CountStep /\ KeysCome'
<1>0. TypeOK /\ e.to \in Nodes /\ e.from \in Nodes /\ e.from # e.to
  BY DEF IInv, TypeOK, WellAddressed, Payload, Msg
<1>1. rec' = rec /\ keys' = keys /\ made' = made /\ queue' = queue
  BY DEF Unmoved
<1>2. e.kind # "key" \/ e.from \in former \/ e.dist.key # keys[e.from][e.from].key
  <2>. SUFFICES ASSUME e.kind = "key", e.from \notin former,
                       e.dist.key = keys[e.from][e.from].key
                PROVE  FALSE
    OBVIOUS
  <2>. DEFINE held == Point(keys[e.to][e.from])
  <2>1. e.dist \in Points(e.to, e.from) /\ held \in Points(e.to, e.from)
    BY DEF Points
  <2>2. e.dist.gen = e.dist.key /\ held.gen = held.key /\ held.key <= keys[e.from][e.from].key
        /\ held.gen \in Nat /\ e.dist.gen \in Nat
    BY <1>0, <2>1, NoneIsAhead
  <2>3. held.gen = keys[e.to][e.from].gen
    BY DEF Point
  <2>. QED BY <2>2, <2>3
<1>3. \A f \in queue \cup net : f \in (queue \cup net)' \/ f = e
  BY <1>1
<1>4. \A f \in (queue \cup net)' : f \in queue \cup net
  BY <1>1
<1>. QED BY <1>1, <1>2, <1>3, <1>4, QuietComes

LEMMA SetKeyComes ==
  ASSUME IInv, KInv, NEW CONSTANT e \in net, NEW CONSTANT x \in Nodes, NEW CONSTANT p \in Nodes,
         p # x, e.to = x, e.from = p, Knows(x), NEW k \in Key, SetKey(x, p, k),
         net' = net \ {e}, former' = former,
         \/ e.kind = "msg" /\ k.gen = keys[x][p].gen /\ k.key = keys[x][p].key
         \/ e.kind = "key" /\ k = NewReceiver(e.dist) /\ ~(e.dist.gen < keys[x][p].gen)
  PROVE  CountStep /\ KeysCome'
<1>0. TypeOK
  BY DEF IInv
<1>1. /\ rec' = rec /\ made' = made /\ queue' = queue /\ keys'[x][p] = k
      /\ \A y, q \in Nodes : y # x \/ q # p => keys'[y][q] = keys[y][q]
      /\ \A y \in Nodes : y # x => keys'[y] = keys[y]
  BY <1>0 DEF SetKey, TypeOK
<1>2. e.kind = "key" => e.dist \in Points(x, p)
  BY DEF Points
<1>3. p \notin former /\ keys[x][p].key = keys[p][p].key => k.key = keys[p][p].key
  <2>. SUFFICES ASSUME p \notin former, keys[x][p].key = keys[p][p].key, e.kind = "key"
                PROVE  e.dist.key = keys[p][p].key
    BY DEF NewReceiver
  <2>. DEFINE held == Point(keys[x][p])
  <2>1. held \in Points(x, p)
    BY DEF Points
  <2>2. /\ e.dist.gen = e.dist.key /\ held.gen = held.key /\ e.dist.key <= keys[p][p].key
        /\ held.gen \in Nat /\ e.dist.gen \in Nat /\ keys[p][p].key \in Nat
    BY <1>2, <2>1, NoneIsAhead
  <2>3. held.gen = keys[x][p].gen /\ held.key = keys[x][p].key
    BY DEF Point
  <2>4. ~(e.dist.gen < held.gen)
    BY <2>3
  <2>5. held.gen = keys[p][p].key
    BY <2>2, <2>3
  <2>6. ~(e.dist.gen < keys[p][p].key) /\ e.dist.gen <= keys[p][p].key
    BY <2>2, <2>4, <2>5
  <2>7. e.dist.gen = keys[p][p].key
    BY <2>2, <2>6
  <2>. QED BY <2>2, <2>7
<1>4. e.kind = "key" => k.key = e.dist.key
  BY DEF NewReceiver
<1>5. \A f \in queue \cup net :
        f \in (queue \cup net)' \/ f.kind # "key" \/ keys'[f.to][f.from].key = f.dist.key
  BY <1>1, <1>4
<1>6. \A f \in (queue \cup net)' : f \in queue \cup net
  BY <1>1
<1>7. /\ \A s \in Nodes : keys'[s][s].gen = keys[s][s].gen /\ keys'[s][s].key = keys[s][s].key
      /\ \A y \in Nodes : Knows(y) \/ keys'[y] = keys[y]
  BY <1>1
<1>8. \A s, y \in Nodes : s # y =>
        \/ keys'[y][s].gen = keys[y][s].gen /\ keys'[y][s].key = keys[y][s].key
        \/ \E d \in Points(y, s) : keys'[y][s] = NewReceiver(d)
  <2>1. \/ k.gen = keys[x][p].gen /\ k.key = keys[x][p].key
        \/ \E d \in Points(x, p) : k = NewReceiver(d)
    BY <1>2
  <2>. QED BY <1>1, <2>1
<1>9. \A s, y \in Nodes \ former : s # y /\ keys[y][s].key = keys[s][s].key =>
        keys'[y][s].key = keys[s][s].key
  BY <1>1, <1>3
<1>. QED BY <1>1, <1>5, <1>6, <1>7, <1>8, <1>9, QuietComes

LEMMA AfterSameChain ==
  ASSUME NEW r \in Key, NEW n
  PROVE  After(r, n).gen = r.gen
BY DEF After, Key

LEMMA ReceiveComes ==
  ASSUME IInv, RInv, KInv, NEW CONSTANT e \in net, Receive(e) PROVE CountStep /\ KeysCome'
<1>. DEFINE x == e.to
            s == e.from
<1>0. /\ TypeOK /\ x \in Nodes /\ s \in Nodes /\ s # x
      /\ e.kind \in {"welcome", "update"} => s = Admin /\ x # Admin
      /\ net' = net \ {e} /\ former' = former
      /\ ~Knows(x) => e.kind = "welcome"
  BY DEF IInv, TypeOK, WellAddressed, Payload, Msg, Receive, Refused
<1>1. CASE Unmoved /\ (e.kind = "key" => e.dist.gen < keys[x][s].gen)
  BY <1>0, <1>1, UnmovedComes
<1>2. CASE e.kind \in {"welcome", "update"}
  <2>0. rec[x].ver \in Nat /\ e.row.ver \in Nat
    BY <1>0, <1>2 DEF TypeOK, Payload, Msg, Row
  <2>1. \/ Unmoved
        \/ ApplyMembership(x, e.row) /\ rec[x].ver < e.row.ver /\ Knows(x)
        \/ e.kind = "welcome" /\ ~Knows(x) /\ Join(x, e)
    BY <1>0, <1>2, <2>0 DEF Receive, OnWelcome, OnUpdate
  <2>2. CASE ApplyMembership(x, e.row) /\ rec[x].ver < e.row.ver /\ Knows(x)
    BY <1>0, <1>2, <2>2, ApplyComes
  <2>3. CASE e.kind = "welcome" /\ ~Knows(x) /\ Join(x, e)
    BY <1>0, <2>3, JoinComes
  <2>. QED BY <1>1, <1>2, <2>1, <2>2, <2>3
<1>3. CASE e.kind = "key" /\ OnKey(x, e)
  <2>0. NewReceiver(e.dist) \in Key
    BY <1>0, <1>3, PointTypes DEF TypeOK, Payload, Msg
  <2>1. CASE ~(e.dist.gen < keys[x][s].gen) /\ SetKey(x, s, NewReceiver(e.dist))
    <3>. HIDE DEF x, s
    <3>. QED BY <1>0, <1>3, <2>0, <2>1, SetKeyComes DEF x, s
  <2>. QED BY <1>1, <1>3, <2>1 DEF OnKey
<1>4. CASE e.kind = "msg" /\ OnGroupMessage(x, e)
  <2>0. e.n \in Nat /\ keys[x][s] \in Key
    BY <1>0, <1>4 DEF TypeOK, Payload, Msg
  <2>1. CASE SetKey(x, s, After(keys[x][s], e.n))
    <3>1. /\ After(keys[x][s], e.n) \in Key
          /\ After(keys[x][s], e.n).key = keys[x][s].key
          /\ After(keys[x][s], e.n).gen = keys[x][s].gen
      BY <2>0, AfterMovesOn, AfterSameChain
    <3>. HIDE DEF x, s
    <3>. QED BY <1>0, <1>4, <2>1, <3>1, SetKeyComes DEF x, s
  <2>. QED BY <1>1, <1>4, <2>1 DEF OnGroupMessage
<1>. QED BY <1>2, <1>3, <1>4 DEF Receive

LEMMA NextComes ==
  ASSUME IInv, RInv, KInv, [Next]_vars PROVE CountStep /\ KeysCome'
<1>1. CASE Create
  BY <1>1, CreateComes
<1>2. ASSUME NEW CONSTANT m \in Nodes, Add(m) PROVE CountStep /\ KeysCome'
  BY <1>2, AddComes
<1>3. ASSUME NEW CONSTANT m \in Nodes, Remove(m) PROVE CountStep /\ KeysCome'
  BY <1>3, RemoveComes
<1>4. ASSUME NEW CONSTANT e \in net, Receive(e) PROVE CountStep /\ KeysCome'
  BY <1>4, ReceiveComes
<1>5. CASE \/ \E x \in Nodes : SendText(x)
           \/ \E x, p \in Nodes : FlushSealed(x, p)
           \/ \E row \in queue : FlushFails(row)
           \/ UNCHANGED vars
  BY <1>5, OtherComes
<1>. QED BY <1>1, <1>2, <1>3, <1>4, <1>5 DEF Next

LEMMA KInvKept == IInv /\ RInv /\ KInv /\ [Next]_vars => KInv'
<1>. SUFFICES ASSUME IInv, RInv, KInv, [Next]_vars PROVE KInv'
  OBVIOUS
<1>1. Kept' /\ GroupStep
  BY NextKeeps
<1>2. CountStep /\ KeysCome'
  BY NextComes
<1>. QED BY <1>1, <1>2, CountsKept DEF KInv, Kept

LEMMA InitKeys == Init => KInv
<1>. SUFFICES ASSUME Init PROVE KInv
  OBVIOUS
<1>1. /\ queue = {} /\ net = {} /\ \A x \in Nodes : rec[x] = Unknown /\ made[x] = 0
      /\ \A x, p \in Nodes : keys[x][p] = NoKey
  BY DEF Init
<1>2. NoKey.gen = 0 /\ NoKey.key = 0 /\ Unknown.ver = 0 /\ Unknown.members = {}
  BY DEF NoKey, Unknown
<1>3. NoRowNoKeys
  BY <1>1 DEF NoRowNoKeys
<1>4. \A s, x \in Nodes : Points(x, s) = {Point(NoKey)}
  BY <1>1 DEF Points
<1>5. Point(NoKey).gen = 0 /\ Point(NoKey).key = 0
  BY <1>2 DEF Point
<1>6. GenerationsCount
  BY <1>1, <1>2, <1>4, <1>5 DEF GenerationsCount, Knows
<1>7. KeysCome
  BY <1>1, <1>2 DEF KeysCome
<1>. QED BY <1>3, <1>6, <1>7 DEF KInv

LEMMA KeysInvariant == Spec => [](IInv /\ RInv /\ KInv)
BY InitHolds, InvariantKept, InitRows, RInvKept, InitKeys, KInvKept, PTL DEF Spec

LEMMA KeysSettle == IInv /\ RInv /\ KInv => MembersCanTalk
<1>. SUFFICES ASSUME IInv, RInv, KInv, AtRest,
                     NEW s \in rec[Admin].members \ former, NEW x \in rec[Admin].members \ former
              PROVE  HasKey(s, s) /\ Point(keys[x][s]).key = keys[s][s].key
  BY DEF MembersCanTalk, CanTalk
<1>0. s \in Nodes /\ x \in Nodes
  BY AdminVersions
<1>1. rec[s] = rec[Admin] /\ rec[x] = rec[Admin]
  BY RowsSettle DEF MembershipSettles
<1>2. Knows(s) /\ Knows(x)
  BY <1>0, <1>1, VersionTypes DEF RInv, AdminAhead, Knows, IInv
<1>3. HasKey(s, s)
  BY <1>0, <1>2 DEF KInv, GenerationsCount
<1>4. s # x => keys[x][s].key = keys[s][s].key
  <2>1. s # x => KeyComing(s, x)
    BY <1>0, <1>1 DEF KInv, KeysCome
  <2>2. ASSUME NEW e \in Carrying({"key"}, x), e.from = s
        PROVE  FALSE
    BY <1>1, <1>2, <2>2 DEF Carrying, AtRest, Refused, IsMember
  <2>. QED BY <1>2, <2>1, <2>2 DEF KeyComing
<1>. QED BY <1>3, <1>4 DEF Point

\* When nothing is under way any more, every member has the current sender key of every
\* other, unless one of them was removed before: a new key is given to all its owner
\* knows, a newcomer is given the key of everyone who learns of it, and a replayed or
\* late key never takes the place of a newer one (rekeyTx, distributeSelfKey, onKey,
\* onWelcome).
THEOREM MembersTalk == Spec => []MembersCanTalk
BY KeysInvariant, KeysSettle, PTL

-----------------------------------------------------------------------------
(* Current messages are read                                               *)

\* The chain points of s that are on their way to x.
ComingPoints(x, s) ==
  {e.dist : e \in {e \in queue \cup net : e.kind = "key" /\ e.from = s /\ e.to = x}} \cup
  {e.dists[s] : e \in {e \in queue \cup net :
                         e.kind = "welcome" /\ e.from = s /\ e.to = x}}

SkippedBehind ==
  \A s, x \in Nodes : s # x => \A i \in keys[x][s].skipped : i < keys[x][s].n

\* A chain is no longer than what was ever sent.
SentCounted ==
  /\ IsFiniteSet(sent) /\ Events <= MaxEvents
  /\ \A s \in Nodes : keys[s][s].n <= Events

\* Nobody is given a point ahead of the chain it is of.
PointsBehind ==
  \A s \in Nodes \ former : \A x \in Nodes \ {s} : \A d \in Points(x, s) :
    HasKey(s, s) /\ d.key = keys[s][s].key => d.n <= keys[s][s].n

\* x has kept what it needs to read e, and nothing on its way will make it forget.
Awaits(x, s, e) ==
  /\ e.gen = e.key /\ e.n < keys[s][s].n /\ x \in rec[s].members
  /\ \A d \in ComingPoints(x, s) : d.key = e.key => d.n <= e.n
  /\ keys[x][s].key = e.key => e.n \in keys[x][s].skipped \/ keys[x][s].n <= e.n

CurrentIsAwaited ==
  \A e \in net : e.kind = "msg" /\ e.from \notin former /\ e.key = keys[e.from][e.from].key =>
    Awaits(e.to, e.from, e)

KeysWereMade == \A e \in net \cup eaten : e.kind = "msg" => e.key \in 1..made[e.from]

EInv ==
  /\ SkippedBehind /\ SentCounted /\ PointsBehind /\ CurrentIsAwaited /\ KeysWereMade
  /\ EatenIsReplaced

\* What x holds of s is forgotten, given to x, left alone, or reads a message.
HeldMsg(x, s) ==
  \/ keys'[x][s] = NoKey
  \/ \E d \in ComingPoints(x, s) : keys'[x][s] = NewReceiver(d)
  \/ keys'[x][s] = keys[x][s]
  \/ \E f \in net \ net' :
       /\ f.kind = "msg" /\ f.from = s /\ f.to = x /\ Decrypts(x, f)
       /\ keys'[x][s] = After(keys[x][s], f.n)

\* Who has been given the current key is not given it again.
NewGiven ==
  \A e \in (queue \cup net)' :
    \/ e \in queue \cup net
    \/ e.kind = "key" /\ (e.to \notin rec[e.from].members \/ e.dist.key > made[e.from])
    \/ e.kind = "welcome" /\ e.to \notin rec[e.from].members
    \/ e.kind \notin {"key", "welcome"}

Sending(s, e) ==
  /\ e.from = s /\ e.to \in rec[s].members /\ rec' = rec /\ queue' = queue
  /\ e.gen = keys[s][s].gen /\ e.key = keys[s][s].key /\ e.n = keys[s][s].n
  /\ keys'[s][s].key = keys[s][s].key /\ keys'[s][s].n = keys[s][s].n + 1 /\ HasKey(s, s)
  /\ \A x \in Nodes : x # s => keys'[x] = keys[x]

Eating(e) ==
  /\ e \in net /\ e.kind = "msg" /\ ~Refused(e) /\ ~Left(e.to) /\ ~Decrypts(e.to, e)

MsgStep ==
  /\ \A s, x \in Nodes : s # x => HeldMsg(x, s)
  /\ NewGiven
  /\ \A e \in net' : e \in net \/ e.kind # "msg" \/ Sending(e.from, e)
  /\ \A e \in eaten' : e \in eaten \/ Eating(e)

LEMMA AfterBehind ==
  ASSUME NEW r \in Key, NEW n \in Nat, \A i \in r.skipped : i < r.n
  PROVE  /\ After(r, n).n \in {r.n, n + 1}
         /\ \A i \in After(r, n).skipped : i < After(r, n).n
<1>0. r.n \in Nat /\ r.skipped \in SUBSET Nat
  BY DEF Key
<1>1. CASE n < r.n
  <2>1. After(r, n).n = r.n /\ After(r, n).skipped = r.skipped \ {n}
    BY <1>1 DEF After, Key
  <2>. QED BY <1>0, <2>1
<1>2. CASE ~(n < r.n)
  <2>1. After(r, n).n = n + 1 /\ After(r, n).skipped = Newest(r.skipped \cup (r.n .. n - 1))
    BY <1>2 DEF After, Key
  <2>2. \A i \in Newest(r.skipped \cup (r.n .. n - 1)) : i < n + 1
    BY <1>0, <1>2 DEF Newest
  <2>. QED BY <2>1, <2>2
<1>. QED BY <1>1, <1>2

\* Reading message n loses no other of the first MaxSkip.
LEMMA AfterAwaits ==
  ASSUME NEW r \in Key, NEW n \in Nat, NEW i \in Nat, i # n, n <= MaxSkip,
         \A j \in r.skipped : j < r.n, i \in r.skipped \/ r.n <= i
  PROVE  i \in After(r, n).skipped \/ After(r, n).n <= i
<1>0. r.n \in Nat /\ r.skipped \in SUBSET Nat /\ MaxSkip \in Nat
  BY GroupBoundsAssumption DEF Key
<1>1. CASE n < r.n
  <2>1. After(r, n).n = r.n /\ After(r, n).skipped = r.skipped \ {n}
    BY <1>1 DEF After, Key
  <2>. QED BY <2>1
<1>2. CASE ~(n < r.n)
  <2>. DEFINE all == r.skipped \cup (r.n .. n - 1)
              later == {j \in all : j > i}
  <2>1. After(r, n).n = n + 1 /\ After(r, n).skipped = Newest(all)
    BY <1>2 DEF After, Key
  <2>2. CASE i < n
    <3>1. i \in all
      BY <1>0, <2>2
    <3>2. later \subseteq (i + 1) .. (n - 1)
      <4>1. \A j \in all : j \in Nat /\ j < n
        BY <1>0, <1>2
      <4>. SUFFICES ASSUME NEW j \in later PROVE j \in (i + 1) .. (n - 1)
        OBVIOUS
      <4>2. j \in Nat /\ j < n /\ j > i
        BY <4>1
      <4>. QED BY <4>2
    <3>3. /\ IsFiniteSet((i + 1) .. (n - 1))
          /\ Cardinality((i + 1) .. (n - 1)) = IF i + 1 > n - 1 THEN 0 ELSE (n - 1) - (i + 1) + 1
      <4>1. i + 1 \in Int /\ n - 1 \in Int
        OBVIOUS
      <4>. QED BY <4>1, FS_Interval
    <3>4. Cardinality(later) \in Nat /\ Cardinality(later) <= Cardinality((i + 1) .. (n - 1))
      BY <3>2, <3>3, FS_Subset, FS_CardinalityType
    <3>5. Cardinality(later) < MaxSkip
      BY <1>0, <2>2, <3>3, <3>4
    <3>. QED BY <2>1, <3>1, <3>5 DEF Newest
  <2>3. CASE i > n
    BY <2>1, <2>3
  <2>. QED BY <2>2, <2>3
<1>. QED BY <1>1, <1>2

\* The own key of a node that was never removed moves on or is replaced.
LEMMA OwnMovesOn ==
  ASSUME IInv, TypeOK', GenerationsCount, GroupStep, CountStep, NEW s \in Nodes \ former'
  PROVE  /\ s \notin former /\ s \in Nodes
         /\ keys[s][s].key \in Nat /\ keys[s][s].n \in Nat /\ keys'[s][s].n \in Nat
         /\ made[s] \in Nat /\ keys[s][s].key = made[s]
         /\ \/ keys'[s][s].key = made[s] + 1
            \/ /\ keys'[s][s].key = keys[s][s].key
               /\ HasKey(s, s)' => HasKey(s, s)
               /\ HasKey(s, s) => /\ keys[s][s].n <= keys'[s][s].n
                                  /\ rec[s].members \subseteq rec'[s].members
<1>1. s \notin former /\ OwnCount(s)
  BY DEF CountStep
<1>2. /\ keys[s][s].key \in Nat /\ keys[s][s].n \in Nat /\ keys[s][s].gen \in Nat
      /\ keys'[s][s].n \in Nat /\ made[s] \in Nat
  BY DEF IInv, TypeOK, Key
<1>3. keys[s][s].key = made[s] /\ keys[s][s].gen = made[s]
  BY <1>1 DEF GenerationsCount
<1>4. OwnStep(s)
  BY DEF GroupStep
<1>. QED BY <1>1, <1>2, <1>3, <1>4 DEF OwnCount, OwnStep, HasKey

\* Whoever handles a current message reads it.
LEMMA CurrentNotEaten ==
  ASSUME IInv, GenerationsCount, EInv, MaxEvents <= MaxSkip, NEW e, Eating(e), e.from \notin former
  PROVE  e.key # keys[e.from][e.from].key
<1>. DEFINE x == e.to
            s == e.from
            r == keys[x][s]
<1>0. /\ TypeOK /\ e \in Msg /\ x \in Nodes /\ s \in Nodes /\ s # x
      /\ e.key \in Nat /\ e.gen \in Nat /\ e.n \in Nat
      /\ made[s] \in Nat /\ keys[s][s].n \in Nat
  BY DEF IInv, TypeOK, WellAddressed, Payload, Msg, Eating, Key
<1>. SUFFICES ASSUME e.key = keys[s][s].key PROVE FALSE
  OBVIOUS
<1>1. r \in Key /\ r.gen \in Nat /\ r.n \in Nat
  BY <1>0 DEF TypeOK, Key
<1>2. Awaits(x, s, e)
  BY DEF EInv, CurrentIsAwaited, Eating
<1>3. e.key = made[s] /\ e.gen = made[s]
  BY <1>0, <1>2 DEF GenerationsCount, Awaits
<1>4. r.gen = r.key /\ r.key <= made[s]
  <2>1. Point(r) \in Points(x, s)
    BY DEF Points
  <2>2. Point(r).gen = Point(r).key /\ Point(r).key <= made[s]
    BY <1>0, <2>1 DEF GenerationsCount, IInv, PointsAreMade
  <2>. QED BY <2>2 DEF Point
<1>5. e.gen <= r.gen
  BY <1>0, <1>1 DEF Eating, Refused
<1>6. e.gen = r.gen /\ r.key = e.key
  BY <1>0, <1>1, <1>3, <1>4, <1>5
<1>7. e.n <= r.n + MaxSkip
  <2>1. keys[s][s].n <= Events /\ Events <= MaxEvents /\ Events \in Nat
    BY <1>0, FS_CardinalityType DEF EInv, SentCounted, Events, TypeOK
  <2>2. MaxEvents \in Nat /\ MaxSkip \in Nat
    BY GroupBoundsAssumption
  <2>3. e.n < keys[s][s].n
    BY <1>2 DEF Awaits
  <2>. QED BY <1>0, <1>1, <2>1, <2>2, <2>3
<1>8. e.n \in r.skipped \/ e.n >= r.n
  BY <1>0, <1>1, <1>2, <1>6 DEF Awaits
<1>9. Decrypts(x, e)
  BY <1>6, <1>7, <1>8 DEF Decrypts, Readable
<1>. QED BY <1>9 DEF Eating

LEMMA ComingArePoints ==
  ASSUME NEW x, NEW s PROVE ComingPoints(x, s) \subseteq Points(x, s)
BY DEF ComingPoints, Points

\* A message read by x of a key that is current.
LEMMA ReadIsCurrent ==
  ASSUME IInv, EInv, MaxEvents <= MaxSkip, NEW s \in Nodes \ former, NEW x \in Nodes, s # x,
         NEW f \in net, f.kind = "msg", f.from = s, f.to = x, Decrypts(x, f),
         keys[x][s].key = keys[s][s].key
  PROVE  /\ Awaits(x, s, f) /\ f.key = keys[x][s].key /\ f.gen = keys[x][s].gen
         /\ f.n \in Nat /\ f.n <= MaxSkip /\ f.n < keys[s][s].n
<1>0. TypeOK /\ f \in Msg /\ f.n \in Nat /\ keys[s][s].n \in Nat
  BY DEF IInv, TypeOK, Payload, Msg, Key
<1>1. f.key = keys[x][s].key /\ f.gen = keys[x][s].gen
  BY DEF Decrypts, Readable
<1>2. Awaits(x, s, f)
  BY <1>1 DEF EInv, CurrentIsAwaited
<1>3. keys[s][s].n <= Events /\ Events <= MaxEvents /\ Events \in Nat
  BY <1>0, FS_CardinalityType DEF EInv, SentCounted, Events, TypeOK
<1>4. MaxEvents \in Nat /\ MaxSkip \in Nat
  BY GroupBoundsAssumption
<1>5. f.n < keys[s][s].n
  BY <1>2 DEF Awaits
<1>6. f.n <= MaxSkip
  BY <1>0, <1>3, <1>4, <1>5
<1>. QED BY <1>0, <1>1, <1>2, <1>5, <1>6

LEMMA BehindKept ==
  ASSUME IInv, EInv, TypeOK', MsgStep
  PROVE  SkippedBehind'
<1>. SUFFICES ASSUME NEW s \in Nodes, NEW x \in Nodes, s # x, NEW i \in keys'[x][s].skipped
              PROVE  i < keys'[x][s].n
  BY DEF SkippedBehind
<1>0. keys[x][s] \in Key /\ \A j \in keys[x][s].skipped : j < keys[x][s].n
  BY DEF IInv, TypeOK, EInv, SkippedBehind
<1>1. CASE keys'[x][s] = NoKey \/ \E d \in ComingPoints(x, s) : keys'[x][s] = NewReceiver(d)
  <2>1. NoKey.skipped = {} /\ \A d : NewReceiver(d).skipped = {}
    BY DEF NoKey, NewReceiver
  <2>2. keys'[x][s].skipped = {}
    BY <1>1, <2>1
  <2>. QED BY <2>2
<1>2. CASE keys'[x][s] = keys[x][s]
  BY <1>0, <1>2
<1>3. ASSUME NEW f \in net, f.kind = "msg", keys'[x][s] = After(keys[x][s], f.n)
      PROVE  i < keys'[x][s].n
  <2>1. f.n \in Nat
    BY <1>3 DEF IInv, TypeOK, Payload, Msg
  <2>. QED BY <1>0, <1>3, <2>1, AfterBehind
<1>. QED BY <1>1, <1>2, <1>3 DEF MsgStep, HeldMsg

LEMMA PointsBehindKept ==
  ASSUME IInv, EInv, GenerationsCount, MaxEvents <= MaxSkip, TypeOK', GroupStep, CountStep, MsgStep
  PROVE  PointsBehind'
<1>. SUFFICES ASSUME NEW CONSTANT s \in Nodes \ former', NEW CONSTANT x \in Nodes \ {s},
                     NEW d \in Points(x, s)', HasKey(s, s)', d.key = keys'[s][s].key
              PROVE  d.n <= keys'[s][s].n
  BY DEF PointsBehind
<1>0. /\ s \notin former /\ s \in Nodes /\ s # x
      /\ keys[s][s].key \in Nat /\ keys[s][s].n \in Nat /\ keys'[s][s].n \in Nat
      /\ made[s] \in Nat /\ keys[s][s].key = made[s]
      /\ \/ keys'[s][s].key = made[s] + 1
         \/ /\ keys'[s][s].key = keys[s][s].key /\ HasKey(s, s)
            /\ keys[s][s].n <= keys'[s][s].n
  BY OwnMovesOn
\* A point that was there before.
<1>1. ASSUME NEW d0 \in Points(x, s), d0.key = d.key
      PROVE  keys'[s][s].key = keys[s][s].key /\ d0.n <= keys'[s][s].n /\ d0.n \in Nat
  <2>1. d0.key <= made[s] /\ d0.key \in Nat /\ d0.n \in Nat
    BY <1>0, PointsAreDists DEF IInv, PointsAreMade, Dist
  <2>2. keys'[s][s].key = keys[s][s].key /\ HasKey(s, s) /\ keys[s][s].n <= keys'[s][s].n
    BY <1>0, <1>1, <2>1
  <2>3. d0.n <= keys[s][s].n
    BY <1>0, <1>1, <2>2 DEF EInv, PointsBehind
  <2>. QED BY <1>0, <2>1, <2>2, <2>3
<1>2. CASE d = Point(keys'[x][s])
  <2>0. HeldMsg(x, s) /\ keys[x][s] \in Key /\ keys[x][s].n \in Nat /\ d.key = keys'[x][s].key
        /\ d.n = keys'[x][s].n
    BY <1>0, <1>2 DEF MsgStep, IInv, TypeOK, Key, Point
  <2>1. CASE keys'[x][s] = NoKey
    BY <1>0, <2>0, <2>1 DEF NoKey
  <2>2. ASSUME NEW d0 \in ComingPoints(x, s), keys'[x][s] = NewReceiver(d0)
        PROVE  d.n <= keys'[s][s].n
    BY <1>1, <2>0, <2>2, ComingArePoints DEF NewReceiver
  <2>3. Point(keys[x][s]) \in Points(x, s)
    BY DEF Points
  <2>4. CASE keys'[x][s] = keys[x][s]
    BY <1>1, <2>0, <2>3, <2>4 DEF Point
  <2>5. ASSUME NEW f \in net, f.kind = "msg", f.from = s, f.to = x, Decrypts(x, f),
               keys'[x][s] = After(keys[x][s], f.n)
        PROVE  d.n <= keys'[s][s].n
    <3>1. f.n \in Nat
      BY <2>5 DEF IInv, TypeOK, Payload, Msg
    <3>2. d.key = keys[x][s].key /\ d.n \in {keys[x][s].n, f.n + 1}
      <4>1. \A i \in keys[x][s].skipped : i < keys[x][s].n
        BY <1>0 DEF EInv, SkippedBehind
      <4>2. After(keys[x][s], f.n).n \in {keys[x][s].n, f.n + 1}
        BY <2>0, <3>1, <4>1, AfterBehind
      <4>3. After(keys[x][s], f.n).key = keys[x][s].key
        BY <2>0, <3>1, AfterMovesOn
      <4>. QED BY <2>0, <2>5, <4>2, <4>3
    <3>3. Point(keys[x][s]).key = d.key /\ Point(keys[x][s]).n = keys[x][s].n
      BY <3>2 DEF Point
    <3>4. keys'[s][s].key = keys[s][s].key /\ keys[x][s].n <= keys'[s][s].n
      BY <1>1, <2>3, <3>3
    <3>5. f.n < keys[s][s].n
      <4>1. keys[x][s].key = keys[s][s].key /\ x \in Nodes /\ s \in Nodes \ former
        BY <1>0, <3>2, <3>4
      <4>. QED BY <1>0, <2>5, <4>1, ReadIsCurrent
    <3>6. keys[s][s].n <= keys'[s][s].n
      BY <1>0, <3>4
    <3>. QED BY <1>0, <3>1, <3>2, <3>4, <3>5, <3>6
  <2>. QED BY <2>0, <2>1, <2>2, <2>4, <2>5 DEF HeldMsg
<1>3. ASSUME NEW e \in (queue \cup net)', e.from = s, e.to = x,
             \/ e.kind = "key" /\ d = e.dist
             \/ e.kind = "welcome" /\ d = e.dists[s]
      PROVE  d.n <= keys'[s][s].n
  <2>1. CASE e \in queue \cup net
    <3>1. d \in Points(x, s)
      BY <1>3, <2>1 DEF Points
    <3>. QED BY <1>1, <3>1
  <2>2. CASE Honest(e)
    BY <1>0, <1>3, <2>2 DEF Honest, Point
  <2>. QED BY <2>1, <2>2 DEF GroupStep
<1>. QED BY <1>2, <1>3 DEF Points

\* What is awaited is awaited until it is read.
LEMMA AwaitsKept ==
  ASSUME IInv, EInv, GenerationsCount, MaxEvents <= MaxSkip, TypeOK', GroupStep, CountStep,
         MsgStep, NEW CONSTANT s \in Nodes \ former', NEW CONSTANT x \in Nodes, s # x,
         NEW CONSTANT e \in net, e \in net', e.kind = "msg", e.from = s, e.to = x,
         e.key = keys'[s][s].key
  PROVE  Awaits(x, s, e)'
<1>0. e \in Msg /\ e.n \in Nat /\ e.key \in 1..made[s]
  BY DEF IInv, TypeOK, Payload, Msg, EInv, KeysWereMade
<1>1. /\ s \notin former /\ s \in Nodes
      /\ keys[s][s].n \in Nat /\ keys'[s][s].n \in Nat /\ made[s] \in Nat
      /\ keys[s][s].key = made[s] /\ keys'[s][s].key = keys[s][s].key /\ e.key = keys[s][s].key
      /\ HasKey(s, s) => /\ keys[s][s].n <= keys'[s][s].n
                         /\ rec[s].members \subseteq rec'[s].members
  BY <1>0, OwnMovesOn
<1>2. HasKey(s, s)
  BY <1>0, <1>1 DEF GenerationsCount, HasKey
<1>3. Awaits(x, s, e)
  BY <1>1 DEF EInv, CurrentIsAwaited
<1>4. e.gen = e.key /\ e.n < keys'[s][s].n /\ x \in rec'[s].members
  BY <1>0, <1>1, <1>2, <1>3 DEF Awaits
<1>5. ASSUME NEW d \in ComingPoints(x, s)', d.key = e.key
      PROVE  d.n <= e.n
  <2>1. PICK f \in (queue \cup net)' :
          /\ f.from = s /\ f.to = x
          /\ \/ f.kind = "key" /\ d = f.dist
             \/ f.kind = "welcome" /\ d = f.dists[s]
    BY DEF ComingPoints
  <2>2. CASE f \in queue \cup net
    <3>1. d \in ComingPoints(x, s)
      BY <2>1, <2>2 DEF ComingPoints
    <3>. QED BY <1>3, <1>5, <3>1 DEF Awaits
  <2>3. CASE f \notin queue \cup net
    <3>1. x \in rec[s].members /\ ~(d.key > made[s])
      BY <1>0, <1>1, <1>3, <1>5 DEF Awaits
    <3>. QED BY <2>1, <2>3, <3>1 DEF MsgStep, NewGiven
  <2>. QED BY <2>2, <2>3
<1>6. ASSUME keys'[x][s].key = e.key
      PROVE  e.n \in keys'[x][s].skipped \/ keys'[x][s].n <= e.n
  <2>0. HeldMsg(x, s) /\ keys[x][s] \in Key /\ \A i \in keys[x][s].skipped : i < keys[x][s].n
    BY <1>1 DEF MsgStep, IInv, TypeOK, EInv, SkippedBehind
  <2>1. CASE keys'[x][s] = NoKey
    BY <1>0, <1>6, <2>1 DEF NoKey
  <2>2. ASSUME NEW d \in ComingPoints(x, s), keys'[x][s] = NewReceiver(d)
        PROVE  keys'[x][s].n <= e.n
    <3>1. d.key = e.key /\ keys'[x][s].n = d.n
      BY <1>6, <2>2 DEF NewReceiver
    <3>. QED BY <1>3, <3>1 DEF Awaits
  <2>3. CASE keys'[x][s] = keys[x][s]
    BY <1>3, <1>6, <2>3 DEF Awaits
  <2>4. ASSUME NEW f \in net \ net', f.kind = "msg", f.from = s, f.to = x, Decrypts(x, f),
               keys'[x][s] = After(keys[x][s], f.n)
        PROVE  e.n \in keys'[x][s].skipped \/ keys'[x][s].n <= e.n
    <3>1. f \in Msg /\ f.n \in Nat
      BY <2>4 DEF IInv, TypeOK, Payload, Msg
    <3>2. keys[x][s].key = e.key
      BY <1>6, <2>0, <2>4, <3>1, AfterMovesOn
    <3>3. Awaits(x, s, f) /\ f.key = e.key /\ f.n <= MaxSkip
      BY <1>1, <2>4, <3>2, ReadIsCurrent
    <3>4. f.gen = e.gen /\ f # e
      BY <1>4, <2>4, <3>3 DEF Awaits
    <3>5. f.n # e.n
      BY <1>0, <2>4, <3>1, <3>3, <3>4 DEF Msg
    <3>6. e.n \in keys[x][s].skipped \/ keys[x][s].n <= e.n
      BY <1>3, <3>2 DEF Awaits
    <3>. QED BY <1>0, <2>0, <2>4, <3>1, <3>3, <3>5, <3>6, AfterAwaits
  <2>. QED BY <2>0, <2>1, <2>2, <2>3, <2>4 DEF HeldMsg
<1>. QED BY <1>4, <1>5, <1>6 DEF Awaits

LEMMA SendingAwaited ==
  ASSUME IInv, EInv, GenerationsCount, GroupStep, CountStep, MsgStep,
         NEW CONSTANT s \in Nodes \ former', NEW CONSTANT x \in Nodes, s # x,
         NEW CONSTANT e \in net', e \in Msg, e.from = s, e.to = x, Sending(s, e)
  PROVE  Awaits(x, s, e)'
<1>0. /\ s \notin former /\ s \in Nodes /\ x \in rec'[s].members /\ keys'[x] = keys[x]
      /\ keys[s][s].n \in Nat /\ e.n = keys[s][s].n /\ e.key = keys[s][s].key /\ e.gen = e.key
      /\ keys'[s][s].n = e.n + 1
  BY DEF Sending, CountStep, IInv, TypeOK, Key, GenerationsCount
<1>1. \A d \in Points(x, s) : d.key = e.key => d.n <= e.n
  BY <1>0 DEF Sending, EInv, PointsBehind
<1>2. ASSUME NEW d \in ComingPoints(x, s)', d.key = e.key
      PROVE  d.n <= e.n
  <2>1. PICK f \in (queue \cup net)' :
          /\ f.from = s /\ f.to = x
          /\ \/ f.kind = "key" /\ d = f.dist
             \/ f.kind = "welcome" /\ d = f.dists[s]
    BY DEF ComingPoints
  <2>2. CASE f \in queue \cup net
    <3>1. d \in ComingPoints(x, s)
      BY <2>1, <2>2 DEF ComingPoints
    <3>. QED BY <1>1, <1>2, <3>1, ComingArePoints
  <2>3. CASE f \notin queue \cup net
    <3>1. x \in rec[s].members /\ ~(d.key > made[s])
      BY <1>0, <1>2 DEF Sending, GenerationsCount, IInv, TypeOK
    <3>. QED BY <2>1, <2>3, <3>1 DEF MsgStep, NewGiven
  <2>. QED BY <2>2, <2>3
<1>3. keys[x][s].key = e.key => keys[x][s].n <= e.n
  <2>1. Point(keys[x][s]) \in Points(x, s)
    BY DEF Points
  <2>. QED BY <1>1, <2>1 DEF Point
<1>. QED BY <1>0, <1>2, <1>3 DEF Awaits

LEMMA MsgInvKept ==
  ASSUME IInv, EInv, GenerationsCount, MaxEvents <= MaxSkip, TypeOK', WellAddressed',
         GroupStep, CountStep, MsgStep, SentCounted'
  PROVE  EInv'
<1>0. \A e \in net' : e \in net \/ e.kind # "msg" \/ Sending(e.from, e)
  BY DEF MsgStep
<1>1. CurrentIsAwaited'
  <2>. SUFFICES ASSUME NEW CONSTANT e \in net', e.kind = "msg", e.from \notin former',
                       e.key = keys'[e.from][e.from].key
                PROVE  Awaits(e.to, e.from, e)'
    BY DEF CurrentIsAwaited
  <2>1. e \in Msg /\ e.from \in Nodes \ former' /\ e.to \in Nodes /\ e.from # e.to
    BY DEF TypeOK, WellAddressed, Payload, Msg
  <2>2. CASE e \in net
    BY <2>1, <2>2, AwaitsKept
  <2>3. CASE Sending(e.from, e)
    BY <2>1, <2>3, SendingAwaited
  <2>. QED BY <1>0, <2>2, <2>3
<1>2. ASSUME NEW e, e \in net \cup eaten, e.kind = "msg"
      PROVE  e.from \in Nodes /\ e.key \in 1..made[e.from] /\ e.key \in 1..made'[e.from]
  <2>1. e.from \in Nodes /\ e.key \in 1..made[e.from]
    BY <1>2 DEF IInv, TypeOK, Payload, Msg, EInv, KeysWereMade
  <2>2. made[e.from] \in Nat /\ made'[e.from] \in Nat /\ made[e.from] <= made'[e.from]
    BY <2>1 DEF IInv, TypeOK, GroupStep, MadeStep
  <2>. QED BY <2>1, <2>2
<1>3. KeysWereMade'
  <2>. SUFFICES ASSUME NEW e \in net' \cup eaten', e.kind = "msg"
                PROVE  e.key \in 1..made'[e.from]
    BY DEF KeysWereMade
  <2>1. CASE e \in net \cup eaten
    BY <1>2, <2>1
  <2>2. CASE e \in net' /\ Sending(e.from, e)
    <3>1. e.from \in Nodes /\ e.from # e.to
      BY <2>2 DEF TypeOK, WellAddressed, Payload, Msg
    <3>2. /\ keys[e.from][e.from].gen \in Nat /\ keys[e.from][e.from].key \in Nat
          /\ made[e.from] \in Nat /\ made'[e.from] \in Nat
          /\ keys[e.from][e.from].key <= made[e.from] /\ made[e.from] <= made'[e.from]
          /\ keys[e.from][e.from].gen = 0 <=> keys[e.from][e.from].key = 0
      BY <3>1 DEF IInv, TypeOK, Key, OwnIsNewest, GroupStep, MadeStep
    <3>. QED BY <2>2, <3>2 DEF Sending, HasKey
  <2>. QED BY <1>0, <2>1, <2>2 DEF MsgStep, Eating
<1>4. EatenIsReplaced'
  <2>. SUFFICES ASSUME NEW e \in eaten', e.from \notin former'
                PROVE  keys'[e.from][e.from].key # e.key
    BY DEF EatenIsReplaced
  <2>1. e \in Msg /\ e.from \in Nodes \ former' /\ e.from \notin former
    BY DEF TypeOK, Msg, CountStep
  <2>2. e \in net \cup eaten /\ e.kind = "msg"
    BY <2>1 DEF MsgStep, Eating, Msg
  <2>3. keys[e.from][e.from].key # e.key
    <3>1. CASE e \in eaten
      BY <2>1, <3>1 DEF EInv, EatenIsReplaced
    <3>2. CASE Eating(e)
      BY <2>1, <3>2, CurrentNotEaten
    <3>. QED BY <3>1, <3>2 DEF MsgStep
  <2>4. /\ made[e.from] \in Nat
        /\ keys'[e.from][e.from].key \in {made[e.from] + 1, keys[e.from][e.from].key}
    BY <2>1, OwnMovesOn
  <2>5. e.key \in 1..made[e.from]
    BY <1>2, <2>2
  <2>. QED BY <2>3, <2>4, <2>5
<1>5. SkippedBehind'
  BY BehindKept
<1>6. PointsBehind'
  BY PointsBehindKept
<1>. QED BY <1>1, <1>3, <1>4, <1>5, <1>6 DEF EInv

\* A step that sends no message.
NothingSent ==
  /\ sent' = sent /\ faults' \in {faults, faults + 1}
  /\ faults' = faults + 1 => Events < MaxEvents
  /\ \A s \in Nodes : keys'[s][s].n <= keys[s][s].n

LEMMA NothingSentCounted ==
  ASSUME TypeOK, TypeOK', SentCounted, NothingSent
  PROVE  SentCounted'
<1>1. /\ IsFiniteSet(sent') /\ Cardinality(sent) \in Nat /\ Cardinality(sent') = Cardinality(sent)
      /\ faults \in Nat /\ MaxEvents \in Nat
  BY FS_CardinalityType, GroupBoundsAssumption DEF SentCounted, NothingSent, TypeOK
<1>2. Events' <= MaxEvents /\ Events <= Events' /\ Events \in Nat /\ Events' \in Nat
  BY <1>1 DEF SentCounted, NothingSent, Events
<1>3. ASSUME NEW s \in Nodes PROVE keys'[s][s].n <= Events'
  <2>1. keys[s][s].n \in Nat /\ keys'[s][s].n \in Nat
    BY DEF TypeOK, Key
  <2>. QED BY <1>2, <2>1 DEF SentCounted, NothingSent
<1>. QED BY <1>1, <1>2, <1>3 DEF SentCounted

\* A step that saves x's keys.
LEMMA SaveMsgs ==
  ASSUME IInv, NEW x \in Nodes, NEW ks \in [Nodes -> Key], NEW ps, Save(x, ks, ps),
         net' \subseteq net, sent' = sent, eaten' = eaten, faults' = faults,
         ks[x].n <= keys[x][x].n,
         \A p \in Nodes : p # x =>
           \/ ks[p] = NoKey \/ ks[p] = keys[x][p]
           \/ \E d \in ComingPoints(x, p) : ks[p] = NewReceiver(d),
         \A e \in ps :
           \/ e.kind = "update"
           \/ /\ e.kind = "key" /\ e.from = x
              /\ e.to \notin rec[x].members \/ e.dist.key > made[x]
  PROVE  MsgStep /\ NothingSent
<1>0. TypeOK
  BY DEF IInv
<1>1. /\ keys'[x] = ks /\ \A y \in Nodes : y # x => keys'[y] = keys[y]
      /\ queue' = queue \cup ps
  BY <1>0 DEF Save, TypeOK
<1>2. \A y \in Nodes : keys[y][y].n \in Nat /\ faults \in Nat
  BY <1>0 DEF TypeOK, Key
<1>3. NothingSent
  BY <1>1, <1>2 DEF NothingSent
<1>4. NewGiven
  BY <1>1 DEF NewGiven
<1>5. ASSUME NEW s \in Nodes, NEW y \in Nodes, s # y PROVE HeldMsg(y, s)
  <2>1. CASE y = x
    BY <1>1, <1>5, <2>1 DEF HeldMsg
  <2>2. CASE y # x
    BY <1>1, <2>2 DEF HeldMsg
  <2>. QED BY <2>1, <2>2
<1>. QED BY <1>3, <1>4, <1>5 DEF MsgStep

LEMMA CreateMsgs == ASSUME IInv, Create PROVE MsgStep /\ NothingSent
<1>. DEFINE ks == Rekeyed(Admin, keys[Admin])
<1>0. TypeOK /\ keys[Admin] \in [Nodes -> Key] /\ keys[Admin][Admin].n \in Nat
  BY AdminAssumption DEF IInv, TypeOK, Key
<1>1. /\ ks \in [Nodes -> Key] /\ ks[Admin].n = 0
      /\ \A p \in Nodes : p # Admin => ks[p] = keys[Admin][p]
  BY <1>0, KeyOps, AdminAssumption DEF Rekeyed
<1>2. Dists(Admin, ks, {}) = {}
  BY DEF Dists
<1>3. /\ Save(Admin, ks, {}) /\ net' = net /\ sent' = sent /\ eaten' = eaten /\ faults' = faults
  BY <1>2 DEF Create, SaveRekeyed, Save
<1>. HIDE DEF ks
<1>. QED BY <1>0, <1>1, <1>3, SaveMsgs, AdminAssumption

LEMMA RemoveMsgs ==
  ASSUME IInv, NEW m \in Nodes, Remove(m) PROVE MsgStep /\ NothingSent
<1>. DEFINE row == [ver |-> rec[Admin].ver + 1, members |-> rec[Admin].members \ {m}]
            old == Without(Admin, {m})
            ks == Rekeyed(Admin, old)
            ps == Updates(row, rec[Admin].members) \cup Dists(Admin, ks, row.members)
<1>0. TypeOK /\ keys[Admin][Admin].n \in Nat /\ made[Admin] \in Nat
  BY AdminAssumption DEF IInv, TypeOK, Key
<1>1. /\ old \in [Nodes -> Key]
      /\ \A p \in Nodes : old[p] = NoKey \/ old[p] = keys[Admin][p]
  BY WithoutGone, AdminAssumption
<1>2. /\ Save(Admin, ks, ps) /\ net' = net /\ sent' = sent /\ eaten' = eaten /\ faults' = faults
  BY DEF Remove, SaveRekeyed
<1>. HIDE DEF old
<1>3. /\ ks \in [Nodes -> Key] /\ ks[Admin].n = 0 /\ ks[Admin].key = made[Admin] + 1
      /\ \A p \in Nodes : p # Admin => ks[p] = old[p]
  BY <1>0, <1>1, KeyOps, AdminAssumption DEF Rekeyed
<1>4. \A e \in ps :
        \/ e.kind = "update"
        \/ /\ e.kind = "key" /\ e.from = Admin
           /\ e.to \notin rec[Admin].members \/ e.dist.key > made[Admin]
  <2>1. \A e \in Dists(Admin, ks, row.members) :
          e.kind = "key" /\ e.from = Admin /\ e.dist.key = ks[Admin].key
    BY DEF Dists, Point
  <2>. QED BY <1>0, <1>3, <2>1, UpdatesTell
<1>. HIDE DEF ks, ps
<1>. QED BY <1>0, <1>1, <1>2, <1>3, <1>4, SaveMsgs, AdminAssumption

LEMMA ApplyMsgs ==
  ASSUME IInv, NEW x \in Nodes, NEW row \in Row, ApplyMembership(x, row),
         net' \subseteq net, sent' = sent, eaten' = eaten, faults' = faults
  PROVE  MsgStep /\ NothingSent
<1>. DEFINE gone == rec[x].members \ row.members
            added == (row.members \ rec[x].members) \ {x}
            ks == Without(x, gone)
<1>0. TypeOK /\ keys[x][x].n \in Nat /\ made[x] \in Nat
  BY DEF IInv, TypeOK, Key
<1>1. /\ ks \in [Nodes -> Key]
      /\ \A p \in Nodes : ks[p] = NoKey \/ ks[p] = keys[x][p]
  BY WithoutGone
<1>2. ks[x].n <= keys[x][x].n
  <2>1. NoKey.n = 0
    BY DEF NoKey
  <2>2. ks[x] = NoKey \/ ks[x] = keys[x][x]
    BY <1>1
  <2>. HIDE DEF ks
  <2>. QED BY <1>0, <2>1, <2>2
<1>. HIDE DEF ks
<1>3. CASE SaveRekeyed(x, ks, row.members, {})
  <2>. DEFINE new == Rekeyed(x, ks)
              ps == Dists(x, new, row.members)
  <2>1. /\ new \in [Nodes -> Key] /\ new[x].n = 0 /\ new[x].key = made[x] + 1
        /\ \A p \in Nodes : p # x => new[p] = ks[p]
    BY <1>0, <1>1, KeyOps DEF Rekeyed
  <2>2. \A e \in ps : e.kind = "key" /\ e.from = x /\ e.dist.key = new[x].key
    BY DEF Dists, Point
  <2>3. Save(x, new, ps)
    BY <1>3 DEF SaveRekeyed
  <2>. HIDE DEF new, ps
  <2>4. new[x].key > made[x]
    BY <1>0, <2>1
  <2>5. \A e \in ps : e.kind = "key" /\ e.from = x /\ e.dist.key > made[x]
    BY <2>2, <2>4
  <2>. QED BY <1>0, <1>1, <2>1, <2>3, <2>5, SaveMsgs
<1>4. CASE Save(x, ks, Dists(x, ks, added))
  <2>. DEFINE ps == Dists(x, ks, added)
  <2>1. \A e \in ps : e.kind = "key" /\ e.from = x /\ e.to \notin rec[x].members
    BY DEF Dists
  <2>2. Save(x, ks, ps) /\ ks[x].n <= keys[x][x].n
    BY <1>2, <1>4
  <2>. HIDE DEF ps
  <2>. QED BY <1>1, <2>1, <2>2, SaveMsgs
<1>5. CASE Save(x, ks, {})
  BY <1>1, <1>2, <1>5, SaveMsgs
<1>. QED BY <1>3, <1>4, <1>5 DEF ApplyMembership, ks

LEMMA JoinMsgs ==
  ASSUME IInv, NEW x \in Nodes, x # Admin, NEW e \in net, e.kind = "welcome", e.to = x,
         Join(x, e), net' \subseteq net, sent' = sent, eaten' = eaten, faults' = faults
  PROVE  MsgStep /\ NothingSent
<1>. DEFINE old == [keys[x] EXCEPT ![e.from] = NewReceiver(e.dists[e.from])]
            new == Rekeyed(x, old)
            ps == Dists(x, new, e.row.members)
<1>0. /\ TypeOK /\ keys[x] \in [Nodes -> Key] /\ e.from = Admin /\ keys[x][x].n \in Nat
      /\ made[x] \in Nat
  BY DEF IInv, TypeOK, WellAddressed, Key
<1>1. e.dists[e.from] \in Dist
  BY <1>0, AdminAssumption DEF TypeOK, Payload, Msg
<1>2. old \in [Nodes -> Key]
  BY <1>0, <1>1, PointTypes, AdminAssumption
<1>3. e.dists[e.from] \in ComingPoints(x, e.from)
  BY DEF ComingPoints
<1>4. \A p \in Nodes : p # x =>
        old[p] = keys[x][p] \/ \E d \in ComingPoints(x, p) : old[p] = NewReceiver(d)
  BY <1>0, <1>3
<1>5. Save(x, new, ps)
  BY DEF Join, SaveRekeyed
<1>. HIDE DEF old
<1>6. /\ new \in [Nodes -> Key] /\ new[x].n = 0 /\ new[x].key = made[x] + 1
      /\ \A p \in Nodes : p # x => new[p] = old[p]
  BY <1>0, <1>2, KeyOps DEF Rekeyed
<1>7. \A d \in ps : d.kind = "key" /\ d.from = x /\ d.dist.key = new[x].key
  BY DEF Dists, Point
<1>8. \A d \in ps : d.kind = "key" /\ d.from = x /\ d.dist.key > made[x]
  BY <1>0, <1>6, <1>7
<1>. HIDE DEF new, ps
<1>. QED BY <1>0, <1>4, <1>5, <1>6, <1>8, SaveMsgs

\* A step that leaves all keys alone.
LEMMA QuietMsgs ==
  ASSUME IInv, keys' = keys, sent' = sent, faults' \in {faults, faults + 1},
         faults' = faults + 1 => Events < MaxEvents,
         \A e \in net' : e \in net \/ e.kind # "msg",
         \A e \in eaten' : e \in eaten \/ Eating(e),
         \A e \in (queue \cup net)' :
           \/ e \in queue \cup net \/ e.kind = "update"
           \/ e.kind = "welcome" /\ e.to \notin rec[e.from].members
  PROVE  MsgStep /\ NothingSent
<1>1. \A s \in Nodes : keys[s][s].n \in Nat
  BY DEF IInv, TypeOK, Key
<1>2. NothingSent
  BY <1>1 DEF NothingSent
<1>3. NewGiven
  BY DEF NewGiven
<1>. QED BY <1>2, <1>3 DEF MsgStep, HeldMsg

LEMMA FaultsType == IInv => faults \in Nat /\ faults # faults + 1
BY DEF IInv, TypeOK

LEMMA QuietActionsMsgs ==
  ASSUME IInv,
         \/ \E m \in Nodes : Add(m)
         \/ \E x, p \in Nodes : FlushSealed(x, p)
         \/ \E row \in queue : FlushFails(row)
         \/ UNCHANGED vars
  PROVE  MsgStep /\ NothingSent
<1>0. \A e \in queue : e.kind # "msg"
  BY DEF IInv, TypeOK, Payload
<1>1. ASSUME NEW m \in Nodes, Add(m) PROVE MsgStep /\ NothingSent
  <2>. DEFINE row == [ver |-> rec[Admin].ver + 1, members |-> rec[Admin].members \cup {m}]
              welcome == [kind |-> "welcome", from |-> Admin, to |-> m, row |-> row,
                          dists |-> CollectDists(rec[Admin].members)]
  <2>1. /\ keys' = keys /\ sent' = sent /\ faults' = faults /\ eaten' = eaten /\ net' = net
        /\ m \notin rec[Admin].members
        /\ queue' = queue \cup {welcome} \cup Updates(row, rec[Admin].members)
    BY <1>1 DEF Add
  <2>2. welcome.kind = "welcome" /\ welcome.from = Admin /\ welcome.to = m
    OBVIOUS
  <2>. HIDE DEF welcome, row
  <2>3. \A e \in (queue \cup net)' :
          \/ e \in queue \cup net \/ e.kind = "update"
          \/ e.kind = "welcome" /\ e.to \notin rec[e.from].members
    BY <2>1, <2>2, UpdatesTell
  <2>. QED BY <2>1, <2>3, FaultsType, QuietMsgs
<1>2. CASE \/ \E x, p \in Nodes : FlushSealed(x, p)
           \/ UNCHANGED vars
  <2>1. /\ keys' = keys /\ sent' = sent /\ faults' = faults /\ eaten' = eaten
        /\ (queue \cup net)' = queue \cup net /\ net' \subseteq queue \cup net
    BY <1>2, FlushSame DEF FlushSealed, vars
  <2>. QED BY <1>0, <2>1, FaultsType, QuietMsgs
<1>3. CASE \E row \in queue : FlushFails(row)
  <2>1. /\ keys' = keys /\ sent' = sent /\ eaten' = eaten /\ faults' = faults + 1
        /\ Events < MaxEvents /\ net' \subseteq queue \cup net
        /\ (queue \cup net)' = queue \cup net
    BY <1>3 DEF FlushFails
  <2>. QED BY <1>0, <2>1, QuietMsgs
<1>. QED BY <1>1, <1>2, <1>3

LEMMA SetKeyMsgs ==
  ASSUME IInv, NEW e \in net, NEW x \in Nodes, NEW p \in Nodes, p # x, e.to = x, e.from = p,
         NEW k \in Key, SetKey(x, p, k), net' = net \ {e}, sent' = sent, eaten' = eaten,
         faults' = faults,
         \/ e.kind = "msg" /\ Decrypts(x, e) /\ k = After(keys[x][p], e.n)
         \/ e.kind = "key" /\ k = NewReceiver(e.dist)
  PROVE  MsgStep /\ NothingSent
<1>0. TypeOK /\ \A s \in Nodes : keys[s][s].n \in Nat
  BY DEF IInv, TypeOK, Key
<1>1. /\ queue' = queue /\ keys'[x][p] = k
      /\ \A y, q \in Nodes : y # x \/ q # p => keys'[y][q] = keys[y][q]
  BY <1>0 DEF SetKey, TypeOK
<1>2. HeldMsg(x, p)
  <2>1. e.kind = "key" => e.dist \in ComingPoints(x, p)
    BY DEF ComingPoints
  <2>. QED BY <1>1, <2>1 DEF HeldMsg
<1>3. \A s, y \in Nodes : s # y => HeldMsg(y, s)
  BY <1>1, <1>2 DEF HeldMsg
<1>4. NewGiven
  BY <1>1 DEF NewGiven
<1>5. NothingSent
  BY <1>0, <1>1, FaultsType DEF NothingSent
<1>. QED BY <1>3, <1>4, <1>5 DEF MsgStep

LEMMA ReceiveMsgs == ASSUME IInv, NEW e \in net, Receive(e) PROVE MsgStep /\ NothingSent
<1>. DEFINE x == e.to
            s == e.from
<1>0. /\ TypeOK /\ x \in Nodes /\ s \in Nodes /\ s # x
      /\ e.kind \in {"welcome", "update"} => s = Admin /\ x # Admin
      /\ net' = net \ {e} /\ sent' = sent /\ faults' = faults
      /\ ~Refused(e)
      /\ e.kind # "msg" => eaten' = eaten
  BY DEF IInv, TypeOK, WellAddressed, Payload, Msg, Receive
<1>1. CASE Unmoved /\ \A f \in eaten' : f \in eaten \/ Eating(f)
  BY <1>0, <1>1, FaultsType, QuietMsgs DEF Unmoved
<1>2. CASE e.kind \in {"welcome", "update"}
  <2>0. e.row \in Row /\ eaten' = eaten
    BY <1>0, <1>2 DEF TypeOK, Payload, Msg
  <2>1. CASE Unmoved
    BY <1>1, <2>0, <2>1
  <2>2. CASE ApplyMembership(x, e.row)
    BY <1>0, <2>0, <2>2, ApplyMsgs
  <2>3. CASE e.kind = "welcome" /\ Join(x, e)
    BY <1>0, <2>0, <2>3, JoinMsgs
  <2>. QED BY <1>2, <2>1, <2>2, <2>3 DEF Receive, OnWelcome, OnUpdate
<1>3. CASE e.kind = "key" /\ OnKey(x, e)
  <2>0. NewReceiver(e.dist) \in Key /\ eaten' = eaten
    BY <1>0, <1>3, PointTypes DEF TypeOK, Payload, Msg
  <2>1. CASE SetKey(x, s, NewReceiver(e.dist))
    <3>. HIDE DEF x, s
    <3>. QED BY <1>0, <1>3, <2>0, <2>1, SetKeyMsgs DEF x, s
  <2>. QED BY <1>1, <1>3, <2>0, <2>1 DEF OnKey
<1>4. CASE e.kind = "msg" /\ OnGroupMessage(x, e)
  <2>0. e.n \in Nat /\ keys[x][s] \in Key
    BY <1>0, <1>4 DEF TypeOK, Payload, Msg
  <2>1. CASE Decrypts(x, e) /\ SetKey(x, s, After(keys[x][s], e.n)) /\ eaten' = eaten
    <3>1. After(keys[x][s], e.n) \in Key
      BY <2>0, AfterMovesOn
    <3>. HIDE DEF x, s
    <3>. QED BY <1>0, <1>4, <2>1, <3>1, SetKeyMsgs DEF x, s
  <2>2. CASE Unmoved /\ eaten' = eaten
    BY <1>1, <2>2
  <2>3. CASE ~Left(x) /\ ~Decrypts(x, e) /\ Unmoved /\ eaten' = eaten \cup {e}
    BY <1>0, <1>1, <1>4, <2>3 DEF Eating
  <2>. QED BY <1>4, <2>1, <2>2, <2>3 DEF OnGroupMessage
<1>. QED BY <1>2, <1>3, <1>4 DEF Receive

LEMMA SendTextMsgs ==
  ASSUME IInv, EInv, TypeOK', NEW x \in Nodes, SendText(x) PROVE MsgStep /\ SentCounted'
<1>. DEFINE own == keys[x][x]
            m == [from |-> x, key |-> own.key, n |-> own.n, audience |-> rec[x].members]
<1>0. TypeOK /\ own \in Key /\ own.n \in Nat
  BY DEF IInv, TypeOK, Key
<1>1. /\ rec' = rec /\ queue' = queue /\ eaten' = eaten /\ faults' = faults /\ HasKey(x, x)
      /\ sent' = sent \cup {m} /\ Events < MaxEvents
      /\ net' = net \cup {[kind |-> "msg", from |-> x, to |-> p, gen |-> own.gen,
                           key |-> own.key, n |-> own.n] : p \in rec[x].members \ {x}}
      /\ keys' = [keys EXCEPT ![x] = [keys[x] EXCEPT ![x] = [own EXCEPT !.n = own.n + 1]]]
  BY DEF SendText
<1>2. /\ keys'[x][x].key = own.key /\ keys'[x][x].n = own.n + 1
      /\ \A y, p \in Nodes : y # x \/ p # x => keys'[y][p] = keys[y][p]
      /\ \A y \in Nodes : y # x => keys'[y] = keys[y]
  BY <1>0, <1>1 DEF TypeOK, Key
<1>. HIDE DEF own, m
<1>3. ASSUME NEW e \in net', e \notin net
      PROVE  Sending(x, e) /\ e.kind = "msg" /\ e.from = x
  <2>1. PICK p \in rec[x].members \ {x} :
          e = [kind |-> "msg", from |-> x, to |-> p, gen |-> own.gen, key |-> own.key, n |-> own.n]
    BY <1>1, <1>3
  <2>2. /\ e.kind = "msg" /\ e.from = x /\ e.to = p
        /\ e.gen = own.gen /\ e.key = own.key /\ e.n = own.n
    BY <2>1
  <2>. QED BY <1>1, <1>2, <2>2 DEF Sending, own
<1>4. MsgStep
  <2>1. NewGiven
    BY <1>1, <1>3 DEF NewGiven
  <2>. QED BY <1>1, <1>2, <1>3, <2>1 DEF MsgStep, HeldMsg
<1>5. m \notin sent
  <2>1. \A q \in sent : q.from = x /\ q.key = own.key => q.n < own.n
    BY DEF IInv, OwnIsNewest, own
  <2>2. m.from = x /\ m.key = own.key /\ m.n = own.n
    BY DEF m
  <2>. QED BY <1>0, <2>1, <2>2
<1>6. /\ IsFiniteSet(sent') /\ Cardinality(sent') = Cardinality(sent) + 1
      /\ Cardinality(sent) \in Nat
  BY <1>1, <1>5, FS_AddElement, FS_CardinalityType DEF EInv, SentCounted
<1>7. Events' = Events + 1 /\ Events \in Nat /\ MaxEvents \in Nat
  <2>1. faults' = faults /\ faults \in Nat
    BY <1>0, <1>1 DEF TypeOK
  <2>. QED BY <1>6, <2>1, GroupBoundsAssumption DEF Events
<1>8. ASSUME NEW s \in Nodes PROVE keys'[s][s].n <= Events'
  <2>1. keys[s][s].n \in Nat /\ keys[s][s].n <= Events
    BY <1>0 DEF TypeOK, Key, EInv, SentCounted
  <2>2. keys'[s][s].n \in {keys[s][s].n, keys[s][s].n + 1}
    BY <1>2 DEF own
  <2>. QED BY <1>7, <2>1, <2>2
<1>9. Events' <= MaxEvents
  BY <1>1, <1>7
<1>10. SentCounted'
  BY <1>6, <1>8, <1>9 DEF SentCounted
<1>. QED BY <1>4, <1>10

LEMMA EInvKept ==
  ASSUME MaxEvents <= MaxSkip, IInv, RInv, KInv, EInv, [Next]_vars
  PROVE  EInv'
<1>1. Kept' /\ GroupStep
  BY NextKeeps
<1>2. CountStep
  BY NextComes
<1>3. MsgStep /\ SentCounted'
  <2>0. TypeOK /\ TypeOK' /\ SentCounted
    BY <1>1 DEF Kept, IInv, EInv
  <2>1. CASE MsgStep /\ NothingSent
    BY <2>0, <2>1, NothingSentCounted
  <2>2. ASSUME NEW x \in Nodes, SendText(x) PROVE MsgStep /\ SentCounted'
    BY <2>0, <2>2, SendTextMsgs
  <2>3. CASE Create
    BY <2>1, <2>3, CreateMsgs
  <2>4. ASSUME NEW m \in Nodes, Remove(m) PROVE MsgStep /\ SentCounted'
    BY <2>1, <2>4, RemoveMsgs
  <2>5. ASSUME NEW e \in net, Receive(e) PROVE MsgStep /\ SentCounted'
    BY <2>1, <2>5, ReceiveMsgs
  <2>6. CASE \/ \E m \in Nodes : Add(m)
             \/ \E x, p \in Nodes : FlushSealed(x, p)
             \/ \E row \in queue : FlushFails(row)
             \/ UNCHANGED vars
    BY <2>1, <2>6, QuietActionsMsgs
  <2>. QED BY <2>2, <2>3, <2>4, <2>5, <2>6 DEF Next
<1>4. GenerationsCount
  BY DEF KInv
<1>. QED BY <1>1, <1>2, <1>3, <1>4, MsgInvKept DEF Kept

LEMMA InitMsgs == Init => EInv
<1>. SUFFICES ASSUME Init PROVE EInv
  OBVIOUS
<1>1. /\ queue = {} /\ net = {} /\ sent = {} /\ eaten = {} /\ faults = 0
      /\ \A x, p \in Nodes : keys[x][p] = NoKey
  BY DEF Init
<1>2. NoKey.gen = 0 /\ NoKey.n = 0 /\ NoKey.skipped = {}
  BY DEF NoKey
<1>3. IsFiniteSet(sent) /\ Cardinality(sent) = 0
  BY <1>1, FS_EmptySet
<1>4. SentCounted
  BY <1>1, <1>2, <1>3, GroupBoundsAssumption DEF SentCounted, Events
<1>5. SkippedBehind /\ PointsBehind
  BY <1>1, <1>2 DEF SkippedBehind, PointsBehind, HasKey
<1>6. CurrentIsAwaited /\ KeysWereMade /\ EatenIsReplaced
  BY <1>1 DEF CurrentIsAwaited, KeysWereMade, EatenIsReplaced
<1>. QED BY <1>4, <1>5, <1>6 DEF EInv

\* As long as no more than MaxSkip messages are ever sent or sent twice, a member throws
\* a message away only when its sender has replaced the key or was removed before: every
\* other one is within what its receiver has kept of the chain, whatever was overtaken,
\* replayed or given twice.  A chain can lose one that MaxSkip others have overtaken
\* (Receiver.Decrypt, onGroupMessage, onKey, distributeSelfKey).
THEOREM EatenIsOld == MaxEvents <= MaxSkip => (Spec => []EatenIsReplaced)
<1>. SUFFICES ASSUME MaxEvents <= MaxSkip PROVE Spec => []EatenIsReplaced
  OBVIOUS
<1>1. Init => IInv /\ RInv /\ KInv /\ EInv
  BY InitHolds, InitRows, InitKeys, InitMsgs
<1>2. IInv /\ RInv /\ KInv /\ EInv /\ [Next]_vars => (IInv /\ RInv /\ KInv /\ EInv)'
  BY InvariantKept, RInvKept, KInvKept, EInvKept
<1>3. EInv => EatenIsReplaced
  BY DEF EInv
<1>. QED BY <1>1, <1>2, <1>3, PTL DEF Spec

====
