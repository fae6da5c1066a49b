------------------------------- MODULE Group -------------------------------
(***************************************************************************)
(* One group (group/manager.go, senderkey): the signed, versioned          *)
(* membership its admin publishes, the sender key every member encrypts    *)
(* with, and the race between membership, keys and messages.               *)
(*                                                                         *)
(* A command or a handler is one transaction, hence one action.  A payload *)
(* for a peer waits in sealed_outbox (queue) until flushSealed hands it to *)
(* chat; from then on, and a message from the start, it is in the net: an  *)
(* envelope of module Outbox, handled exactly once, in any order.  A       *)
(* handler that returns an error leaves its envelope in the net, to be     *)
(* tried again.                                                            *)
(*                                                                         *)
(* Abstractions.  A sender key is known by the number it has among those   *)
(* its owner has made, which stands for its chain and its signature keys:  *)
(* generations may repeat, keys do not.  A point of a chain is its index.  *)
(* Names of groups, limits of size, forged and malformed input, and the    *)
(* history of messages are left out; so is a payload that chat eats when   *)
(* the session below was replaced (module Session).                        *)
(***************************************************************************)
EXTENDS Naturals, FiniteSets

CONSTANTS
  Nodes, Admin,
  MaxSkip,      \* senderkey.MaxSkip
  MaxVersion,   \* bound: versions of the membership
  MaxEvents     \* bound: messages, and payloads sent twice

ASSUME AdminAssumption == Admin \in Nodes
ASSUME GroupBoundsAssumption == {MaxSkip, MaxVersion, MaxEvents} \subseteq Nat

VARIABLES
  rec,      \* rec[x]: x's row of the group, version 0 when x does not know it
  keys,     \* keys[x][p]: x's row of sender_keys for p; keys[x][x] is x's own Sender
  queue,    \* sealed_outbox of all nodes
  net,      \* envelopes not yet handled
  made,     \* made[x]: how many sender keys x has made
  sent,     \* history: the messages, with the members they were sent to
  eaten,    \* history: messages a member could not decrypt and acknowledged
  former,   \* history: nodes that were removed
  faults    \* history: how many payloads were sent twice

vars == <<rec, keys, queue, net, made, sent, eaten, former, faults>>

Unknown == [ver |-> 0, members |-> {}]
NoKey == [gen |-> 0, key |-> 0, n |-> 0, skipped |-> {}]

Row == [ver : Nat, members : SUBSET Nodes]
Key == [gen : Nat, key : Nat, n : Nat, skipped : SUBSET Nat]
Dist == [gen : Nat, key : Nat, n : Nat]

Msg == [kind : {"msg"}, from : Nodes, to : Nodes, gen : Nat, key : Nat, n : Nat]
Payload ==
  [kind : {"update"}, from : Nodes, to : Nodes, row : Row] \cup
  [kind : {"welcome"}, from : Nodes, to : Nodes, row : Row, dists : [Nodes -> Dist]] \cup
  [kind : {"key"}, from : Nodes, to : Nodes, dist : Dist]

TypeOK ==
  /\ rec \in [Nodes -> Row]
  /\ keys \in [Nodes -> [Nodes -> Key]]
  /\ \A x \in Nodes : keys[x][x].gen > 0 => x \in rec[x].members
  /\ queue \subseteq Payload
  /\ net \subseteq Payload \cup Msg
  /\ made \in [Nodes -> Nat]
  /\ sent \subseteq [from : Nodes, key : Nat, n : Nat, audience : SUBSET Nodes]
  /\ eaten \subseteq Msg
  /\ former \subseteq Nodes
  /\ faults \in Nat

Init ==
  /\ rec = [x \in Nodes |-> Unknown]
  /\ keys = [x \in Nodes |-> [p \in Nodes |-> NoKey]]
  /\ queue = {} /\ net = {}
  /\ made = [x \in Nodes |-> 0]
  /\ sent = {} /\ eaten = {} /\ former = {}
  /\ faults = 0

-----------------------------------------------------------------------------
(* The rows of one node                                                    *)

Knows(x) == rec[x].ver > 0
Left(x) == Knows(x) /\ x \notin rec[x].members
IsMember(x, p) == p \in rec[x].members
HasKey(x, p) == keys[x][p].gen > 0

\* The point of a chain that is given away: what comes after it can be read.
Point(k) == [gen |-> k.gen, key |-> k.key, n |-> k.n]

NewReceiver(d) == [gen |-> d.gen, key |-> d.key, n |-> d.n, skipped |-> {}]

BugKeepSelf(x, gone) == [p \in Nodes |-> IF p \in gone \ {x} THEN NoKey ELSE keys[x][p]]

\* x's sender keys without those of the members that are gone.
Without(x, gone) == [p \in Nodes |-> IF p \in gone THEN NoKey ELSE keys[x][p]]

\* A new key of x's own among ks, of the next generation: of the first if x has none.
Rekeyed(x, ks) ==
  [ks EXCEPT ![x] = [gen |-> ks[x].gen + 1, key |-> made[x] + 1, n |-> 0, skipped |-> {}]]

\* x's own key among ks, for each of members.
Dists(x, ks, members) ==
  {[kind |-> "key", from |-> x, to |-> p, dist |-> Point(ks[x])] : p \in members \ {x}}

Updates(row, members) ==
  {[kind |-> "update", from |-> Admin, to |-> p, row |-> row] : p \in members \ {Admin}}

\* x's keys become ks, and payloads are queued.
Save(x, ks, payloads) ==
  /\ keys' = [keys EXCEPT ![x] = ks]
  /\ made' = [made EXCEPT ![x] = IF ks[x].key > made[x] THEN ks[x].key ELSE made[x]]
  /\ queue' = queue \cup payloads

SaveRekeyed(x, ks, members, payloads) ==
  Save(x, Rekeyed(x, ks), payloads \cup Dists(x, Rekeyed(x, ks), members))

SetRow(x, row) == rec' = [rec EXCEPT ![x] = row]

Events == Cardinality(sent) + faults

-----------------------------------------------------------------------------
(* Commands                                                                *)

Create ==
  /\ ~Knows(Admin)
  /\ SetRow(Admin, [ver |-> 1, members |-> {Admin}])
  /\ SaveRekeyed(Admin, keys[Admin], {}, {})
  /\ UNCHANGED <<net, sent, eaten, former, faults>>

\* The keys a welcome carries; a member without one in it has the point of NoKey.
CollectDists(members) ==
  [p \in Nodes |-> Point(IF p \in members THEN keys[Admin][p] ELSE NoKey)]

\* The newcomer is welcomed with the keys the admin has; the others get an update.
Add(m) ==
  LET old == rec[Admin]
      next == [ver |-> old.ver + 1, members |-> old.members \cup {m}]
      welcome == [kind |-> "welcome", from |-> Admin, to |-> m, row |-> next,
                  dists |-> CollectDists(old.members)]
  IN
  /\ Knows(Admin) /\ old.ver < MaxVersion
  /\ m \notin old.members
  /\ SetRow(Admin, next)
  /\ queue' = queue \cup {welcome} \cup Updates(next, old.members)
  /\ UNCHANGED <<keys, net, made, sent, eaten, former, faults>>

BugTellOthers(m) ==
  LET old == rec[Admin]
      next == [ver |-> old.ver + 1, members |-> old.members \ {m}]
  IN
  /\ Knows(Admin) /\ old.ver < MaxVersion
  /\ m \in old.members \ {Admin}
  /\ SetRow(Admin, next)
  /\ SaveRekeyed(Admin, Without(Admin, {m}), next.members, Updates(next, next.members))
  /\ former' = former \cup {m}
  /\ UNCHANGED <<net, sent, eaten, faults>>

\* Those who stay get the admin's new key; the removed member is told too.
Remove(m) ==
  LET old == rec[Admin]
      next == [ver |-> old.ver + 1, members |-> old.members \ {m}]
  IN
  /\ Knows(Admin) /\ old.ver < MaxVersion
  /\ m \in old.members \ {Admin}
  /\ SetRow(Admin, next)
  /\ SaveRekeyed(Admin, Without(Admin, {m}), next.members, Updates(next, old.members))
  /\ former' = former \cup {m}
  /\ UNCHANGED <<net, sent, eaten, faults>>

\* One ciphertext for all members x knows of.
SendText(x) ==
  LET own == keys[x][x]
      audience == rec[x].members
  IN
  /\ Events < MaxEvents
  /\ Knows(x) /\ ~Left(x) /\ HasKey(x, x)
  /\ keys' = [keys EXCEPT ![x] = [keys[x] EXCEPT ![x] = [own EXCEPT !.n = own.n + 1]]]
  /\ sent' = sent \cup {[from |-> x, key |-> own.key, n |-> own.n, audience |-> audience]}
  /\ net' = net \cup {[kind |-> "msg", from |-> x, to |-> p, gen |-> own.gen,
                       key |-> own.key, n |-> own.n] : p \in audience \ {x}}
  /\ UNCHANGED <<rec, queue, made, eaten, former, faults>>

-----------------------------------------------------------------------------
(* sealed_outbox                                                           *)

\* The rows of x that wait for p.
SealedOutboxList(x, p) == {r \in queue : r.from = x /\ r.to = p}

\* A pass of flushSealed when x has a session with p: each payload goes, and then its
\* row.  Without a session the rows stay.
FlushSealed(x, p) ==
  LET rows == SealedOutboxList(x, p) IN
  /\ rows # {}
  /\ net' = net \cup rows
  /\ queue' = queue \ rows
  /\ UNCHANGED <<rec, keys, made, sent, eaten, former, faults>>

\* The row of a payload that has gone is not deleted: a store error, or a crash.  The
\* next pass sends it again.
FlushFails(row) ==
  /\ row \in queue
  /\ Events < MaxEvents
  /\ faults' = faults + 1
  /\ net' = net \cup {row}
  /\ UNCHANGED <<rec, keys, queue, made, sent, eaten, former>>

-----------------------------------------------------------------------------
(* Handlers                                                                *)

\* The handler returns an error: what e needs may be still on its way.
Refused(e) ==
  LET x == e.to IN
  \/ e.kind \in {"update", "key", "msg"} /\ ~Knows(x)
  \/ e.kind = "key" /\ ~IsMember(x, e.from)
  \/ /\ e.kind = "msg" /\ ~Left(x)
     /\ \/ ~IsMember(x, e.from)
        \/ ~HasKey(x, e.from)
        \/ e.gen > keys[x][e.from].gen

Unmoved == UNCHANGED <<rec, keys, made, queue>>

BugNoRekey(x, row) ==
  LET added == (row.members \ rec[x].members) \ {x}
      ks == Without(x, rec[x].members \ row.members)
  IN
  /\ SetRow(x, row)
  /\ Save(x, ks, IF HasKey(x, x) THEN Dists(x, ks, added) ELSE {})

\* A newer membership: the keys of who is gone go, and x, if it stays, replaces its
\* own; if nobody is gone it gives its key to the newcomers.
ApplyMembership(x, row) ==
  LET gone == rec[x].members \ row.members
      added == (row.members \ rec[x].members) \ {x}
      ks == Without(x, gone)
      stays == x \in row.members
  IN
  /\ SetRow(x, row)
  /\ \/ stays /\ gone # {} /\ SaveRekeyed(x, ks, row.members, {})
     \/ stays /\ gone = {} /\ HasKey(x, x) /\ Save(x, ks, Dists(x, ks, added))
     \/ stays /\ gone = {} /\ ~HasKey(x, x) /\ Save(x, ks, {})
     \/ ~stays /\ Save(x, ks, {})

\* Of the keys in a welcome only its sender's own is taken.
Join(x, e) ==
  /\ SetRow(x, e.row)
  /\ SaveRekeyed(x, [keys[x] EXCEPT ![e.from] = NewReceiver(e.dists[e.from])], e.row.members, {})

OnWelcome(x, e) ==
  \/ ~Knows(x) /\ Join(x, e)
  \/ Knows(x) /\ e.row.ver > rec[x].ver /\ ApplyMembership(x, e.row)
  \/ Knows(x) /\ e.row.ver <= rec[x].ver /\ Unmoved

OnUpdate(x, e) ==
  \/ e.row.ver > rec[x].ver /\ ApplyMembership(x, e.row)
  \/ e.row.ver <= rec[x].ver /\ Unmoved

SetKey(x, p, k) ==
  /\ keys' = [keys EXCEPT ![x] = [keys[x] EXCEPT ![p] = k]]
  /\ UNCHANGED <<rec, made, queue>>

BugAnyGeneration(x, e) == SetKey(x, e.from, NewReceiver(e.dist))

\* A replay of an old generation changes nothing.
OnKey(x, e) ==
  IF e.dist.gen < keys[x][e.from].gen
  THEN Unmoved
  ELSE SetKey(x, e.from, NewReceiver(e.dist))

\* Receiver.Decrypt
Readable(r, key, n) == r.key = key /\ (n \in r.skipped \/ (n >= r.n /\ n <= r.n + MaxSkip))

Newest(s) == {i \in s : Cardinality({j \in s : j > i}) < MaxSkip}

BugNoSkipped(r, n) == IF n < r.n THEN r ELSE [r EXCEPT !.n = n + 1]

\* The receiver after message n; the keys of those it has jumped over are kept.
After(r, n) ==
  IF n < r.n
  THEN [r EXCEPT !.skipped = r.skipped \ {n}]
  ELSE [r EXCEPT !.n = n + 1, !.skipped = Newest(r.skipped \cup (r.n .. n - 1))]

Decrypts(x, e) ==
  LET r == keys[x][e.from] IN e.gen = r.gen /\ Readable(r, e.key, e.n)

OnGroupMessage(x, e) ==
  \/ Left(x) /\ Unmoved /\ UNCHANGED eaten
  \/ ~Left(x) /\ Decrypts(x, e) /\ SetKey(x, e.from, After(keys[x][e.from], e.n))
     /\ UNCHANGED eaten
  \/ ~Left(x) /\ ~Decrypts(x, e) /\ Unmoved /\ eaten' = eaten \cup {e}

Receive(e) ==
  /\ e \in net /\ ~Refused(e)
  /\ \/ e.kind = "welcome" /\ OnWelcome(e.to, e) /\ UNCHANGED eaten
     \/ e.kind = "update" /\ OnUpdate(e.to, e) /\ UNCHANGED eaten
     \/ e.kind = "key" /\ OnKey(e.to, e) /\ UNCHANGED eaten
     \/ e.kind = "msg" /\ OnGroupMessage(e.to, e)
  /\ net' = net \ {e}
  /\ UNCHANGED <<sent, former, faults>>

Next ==
  \/ Create
  \/ \E m \in Nodes : Add(m) \/ Remove(m) \/ SendText(m)
  \/ \E x, p \in Nodes : FlushSealed(x, p)
  \/ \E row \in queue : FlushFails(row)
  \/ \E e \in net : Receive(e)

Spec == Init /\ [][Next]_vars

-----------------------------------------------------------------------------
(* Properties                                                              *)

\* The chain points of s that x has, or that are on their way to it.
Points(x, s) ==
  {Point(keys[x][s])} \cup
  {e.dist : e \in {e \in queue \cup net : e.kind = "key" /\ e.from = s /\ e.to = x}} \cup
  {e.dists[s] : e \in {e \in queue \cup net :
                         e.kind = "welcome" /\ e.from = s /\ e.to = x}}

\* A removed member reads nothing that was sent after its sender applied the removal,
\* and a newcomer nothing from before: whoever was not a member, as the sender knew
\* the group, neither has nor will be given a key that opens the message (the
\* mandatory rekey of Remove and applyMembership, and Dist of Sender).
AudienceOnly ==
  \A m \in sent : \A x \in Nodes \ m.audience :
    /\ m.n \notin keys[x][m.from].skipped \/ keys[x][m.from].key # m.key
    /\ \A d \in Points(x, m.from) : d.key = m.key => d.n > m.n

\* A member throws a message away only when its sender has replaced the key it was
\* encrypted with: neither reordering nor a replayed key makes a current message
\* undecryptable; unless its sender was removed before: a member that returns counts its
\* generations from one again (Receiver.Decrypt, onGroupMessage, onKey, rekeyTx).
EatenIsReplaced ==
  \A e \in eaten : e.from \in former \/ keys[e.from][e.from].key # e.key

\* Nothing is left that could change anything: what is in the net is refused.
AtRest == queue = {} /\ \A e \in net : Refused(e)

\* All members end with the membership of the admin, and who was removed knows it,
\* in whatever order welcomes and updates come (onWelcome, onUpdate).
MembershipSettles ==
  AtRest =>
    /\ \A x \in rec[Admin].members : rec[x] = rec[Admin]
    /\ \A x \in former \ rec[Admin].members : Left(x)

\* Every one of who has the key of every other.
CanTalk(who) ==
  \A s, x \in who : HasKey(s, s) /\ Point(keys[x][s]).key = keys[s][s].key

\* All members can read each other in the end, unless they were removed before
\* (rekeyTx, distributeSelfKey, onKey).
MembersCanTalk ==
  AtRest => CanTalk(rec[Admin].members \ former)

\* What Add promises its newcomer, whom it welcomes with the current keys: also one
\* that was a member before can talk in the end.
ReturnedCanTalk ==
  AtRest => CanTalk(rec[Admin].members)

=============================================================================
