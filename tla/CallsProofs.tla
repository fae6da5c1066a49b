---------------------------- MODULE CallsProofs ----------------------------
(***************************************************************************)
(* Theorems about Calls: its types, that consent follows the user of the   *)
(* callee, that a call its caller has ended stays ended, and that a caller *)
(* is not left alone in a call no fault has touched.                       *)
(*                                                                         *)
(* The first invariant, IInv, adds to the types who may say what: an offer *)
(* is made by the caller of its call and goes to the other node            *)
(* (OfferGoesOut), and an accept, sent or about to be sent, is of an       *)
(* accepted call (AcceptIsMeant).  The second, SInv, says where a call may *)
(* be that its caller still holds (Served).                                *)
(***************************************************************************)
EXTENDS Calls, TLAPS

\* Whoever offers a call has started it, and its offers go to the other node.
OfferGoesOut ==
  /\ \A c \in CallIds : waiter[c] # "none" => caller[c] \in Nodes
  /\ \A n \in Nodes : cmd[n].op = "offer" => caller[cmd[n].call] = n
  /\ \A e \in net : e.kind = "offer" => caller[e.call] \in Nodes /\ e.to = Other(caller[e.call])

\* An accept that is sent, or about to be, is of a call its callee accepted.
AcceptIsMeant ==
  /\ \A n \in Nodes : cmd[n].op = "accept" => cmd[n].call \in accepted
  /\ \A e \in net : e.kind = "accept" => e.call \in accepted

IInv == TypeOK /\ OfferGoesOut /\ AcceptIsMeant /\ ActiveWasAccepted

-----------------------------------------------------------------------------

LEMMA OtherNode == \A n \in Nodes : Other(n) \in Nodes /\ Other(n) # n /\ Other(Other(n)) = n
  BY DEF Nodes, Other

LEMMA CallsInit == Init => IInv
<1> SUFFICES ASSUME Init  PROVE IInv
  OBVIOUS
<1>1. TypeOK
  BY MaxFaultsAssumption DEF Init, TypeOK, Nodes, CallState
<1>2. OfferGoesOut /\ AcceptIsMeant
  BY DEF Init, OfferGoesOut, AcceptIsMeant, NoCmd
<1>3. ActiveWasAccepted
  BY DEF Init, ActiveWasAccepted, Started
<1> QED BY <1>1, <1>2, <1>3 DEF IInv

\* Setting one record of a call: the types, and which records are active after.
LEMMA SetCallEffect ==
  ASSUME TypeOK, NEW n \in Nodes, NEW c \in CallIds, NEW s \in CallState, SetCall(n, c, s)
  PROVE  /\ call' \in [Nodes -> [CallIds -> CallState]]
         /\ call'[n][c] = s
         /\ \A m \in Nodes, d \in CallIds : m # n \/ d # c => call'[m][d] = call[m][d]
<1>1. call[n] \in [CallIds -> CallState]
  BY DEF TypeOK
<1>2. [call[n] EXCEPT ![c] = s] \in [CallIds -> CallState]
  BY <1>1
<1> QED BY <1>1, <1>2 DEF SetCall, TypeOK

\* What a handler may leave: the record of the call and whether it is current agree.
LEMMA HandleOutcome ==
  ASSUME TypeOK, NEW n \in Nodes, NEW e \in net
  PROVE  /\ e.call \in CallIds
         /\ Handle(n, e).state \in CallState
         /\ Handle(n, e).cur \in CallIds \cup {NoCall}
         /\ \/ Handle(n, e).cur = cur[n] /\ Handle(n, e).state = call[n][e.call]
            \/ Handle(n, e).cur = e.call /\ Handle(n, e).state = "in" /\ e.kind = "offer"
            \/ /\ Handle(n, e).cur = e.call /\ Handle(n, e).state = "active"
               /\ e.kind = "accept" /\ call[n][e.call] = "out"
            \/ /\ Handle(n, e).cur = NoCall /\ Handle(n, e).state = "ended"
               /\ cur[n] = e.call
<1> DEFINE c == e.call
<1>1. /\ e \in Envelope /\ c \in CallIds /\ call[n][c] \in CallState
      /\ cur[n] \in CallIds \cup {NoCall}
  BY DEF TypeOK, Envelope
<1>2. CASE e.kind = "offer"
  BY <1>1, <1>2 DEF Handle, OnOffer, Outcome, Unmoved, CallState
<1>3. CASE e.kind \in {"accept", "reject"}
  BY <1>1, <1>3 DEF Handle, OnAnswer, Outcome, Unmoved, CallState
<1>4. CASE e.kind \in {"hangup", "cancel"}
  BY <1>1, <1>4 DEF Handle, OnHangup, Outcome, Unmoved, CallState
<1> QED BY <1>1, <1>2, <1>3, <1>4 DEF Envelope

\* A step of the delivery loop that leaves the outcome of e in the memory keeps
\* the parts of the invariant that speak of the memory.
LEMMA RememberKeeps ==
  ASSUME IInv, NEW n \in Nodes, NEW e \in net, e.to = n, Remember(n, e.call, Handle(n, e)),
         UNCHANGED <<caller, accepted>>
  PROVE  /\ cur' \in [Nodes -> CallIds \cup {NoCall}]
         /\ call' \in [Nodes -> [CallIds -> CallState]]
         /\ \A m \in Nodes : cur'[m] # NoCall => call'[m][cur'[m]] \in {"out", "in", "active"}
         /\ ActiveWasAccepted'
         /\ \A c \in Started : call[caller[c]][c] = "ended" => call'[caller[c]][c] = "ended"
<1> DEFINE c == e.call  o == Handle(n, e)
<1>1. TypeOK /\ OfferGoesOut /\ AcceptIsMeant /\ ActiveWasAccepted
  BY DEF IInv
<1>2. /\ c \in CallIds /\ o.state \in CallState /\ o.cur \in CallIds \cup {NoCall}
      /\ \/ o.cur = cur[n] /\ o.state = call[n][c]
         \/ o.cur = c /\ o.state = "in" /\ e.kind = "offer"
         \/ o.cur = c /\ o.state = "active" /\ e.kind = "accept" /\ call[n][c] = "out"
         \/ o.cur = NoCall /\ o.state = "ended" /\ cur[n] = c
  BY <1>1, HandleOutcome
<1>3. SetCall(n, c, o.state) /\ cur' = [cur EXCEPT ![n] = o.cur]
  BY DEF Remember
<1> HIDE DEF c, o
<1>4. /\ call' \in [Nodes -> [CallIds -> CallState]]
      /\ call'[n][c] = o.state
      /\ \A m \in Nodes, d \in CallIds : m # n \/ d # c => call'[m][d] = call[m][d]
  BY <1>1, <1>2, <1>3, SetCallEffect
<1>5. cur' \in [Nodes -> CallIds \cup {NoCall}]
  BY <1>1, <1>2, <1>3 DEF TypeOK
<1>6. ASSUME NEW m \in Nodes, cur'[m] # NoCall
      PROVE  call'[m][cur'[m]] \in {"out", "in", "active"}
  <2>1. cur[m] \in CallIds \cup {NoCall} /\ cur'[m] \in CallIds
    BY <1>1, <1>5, <1>6 DEF TypeOK
  <2>2. CASE m # n
    BY <1>1, <1>3, <1>4, <1>6, <2>1, <2>2 DEF TypeOK
  <2>3. CASE m = n
    <3>1. cur'[n] = o.cur
      BY <1>1, <1>3 DEF TypeOK
    <3> QED BY <1>1, <1>2, <1>4, <1>6, <2>1, <2>3, <3>1 DEF TypeOK
  <2> QED BY <2>2, <2>3
<1>7. ASSUME NEW d \in Started  PROVE d \in CallIds /\ caller[d] \in Nodes
  BY <1>1, <1>7 DEF Started, TypeOK, Nodes
<1>8. ActiveWasAccepted'
  <2> SUFFICES ASSUME NEW d \in Started, call'[caller[d]][d] = "active"  PROVE d \in accepted
    BY DEF ActiveWasAccepted, Started
  <2>1. CASE call[caller[d]][d] = "active"
    BY <1>1, <2>1 DEF ActiveWasAccepted
  <2>2. CASE call[caller[d]][d] # "active"
    <3>1. n = caller[d] /\ d = c /\ o.state = "active"
      BY <1>4, <1>7, <2>2
    <3>2. e.kind = "accept"
      BY <1>2, <2>2, <3>1
    <3> QED BY <1>1, <3>1, <3>2 DEF AcceptIsMeant, c
  <2> QED BY <2>1, <2>2
<1>9. ASSUME NEW d \in Started, call[caller[d]][d] = "ended"
      PROVE  call'[caller[d]][d] = "ended"
  <2>1. CASE n # caller[d] \/ d # c
    BY <1>4, <1>7, <1>9, <2>1
  <2>2. CASE n = caller[d] /\ d = c
    <3>1. e.kind # "offer"
      BY <1>1, <1>7, <2>2, OtherNode DEF OfferGoesOut, c
    <3>2. cur[n] # c
      BY <1>1, <1>2, <1>9, <2>2, NoCallAssumption DEF TypeOK
    <3>3. o.state = "ended"
      BY <1>2, <1>9, <2>2, <3>1, <3>2
    <3> QED BY <1>4, <2>2, <3>3
  <2> QED BY <2>1, <2>2
<1> QED BY <1>4, <1>5, <1>6, <1>8, <1>9

-----------------------------------------------------------------------------

\* What a step does to a history that only faults touch.
LEMMA FaultType ==
  ASSUME TypeOK, NEW S, Fault(S), S \subseteq CallIds \cup {NoCall}
  PROVE  spoiled' \subseteq CallIds /\ faults' \in 0..MaxFaults
  BY MaxFaultsAssumption DEF Fault, TypeOK

\* An envelope put in the net.
LEMMA SendType ==
  ASSUME TypeOK, NEW n \in Nodes, NEW c \in CallIds,
         NEW k \in {"offer", "accept", "reject", "hangup", "cancel"}, Send(k, c, n)
  PROVE  net' \subseteq Envelope
  BY OtherNode DEF Send, Envelope, TypeOK

\* The commands keep the invariant, one step per action.
LEMMA CommandsKeep ==
  ASSUME IInv, NEW n \in Nodes, Commands(n)
  PROVE  IInv'
<1> USE DEF IInv
<1>1. ASSUME NEW c \in CallIds, Start(n, c)  PROVE IInv'
  <2>1. "out" \in CallState
    BY DEF CallState
  <2>2. /\ call' \in [Nodes -> [CallIds -> CallState]]
        /\ call'[n][c] = "out"
        /\ \A m \in Nodes, d \in CallIds : m # n \/ d # c => call'[m][d] = call[m][d]
    BY <1>1, <2>1, SetCallEffect DEF Start
  <2>3. /\ caller' \in [CallIds -> Nodes \cup {0}] /\ caller'[c] = n /\ caller[c] = 0
        /\ \A d \in CallIds \ {c} : caller'[d] = caller[d]
    BY <1>1 DEF Start, TypeOK
  <2>4. /\ cur' \in [Nodes -> CallIds \cup {NoCall}] /\ cur'[n] = c
        /\ \A m \in Nodes \ {n} : cur'[m] = cur[m]
    BY <1>1 DEF Start, TypeOK
  <2>5. /\ cmd' \in [Nodes -> {NoCmd} \cup Command]
        /\ cmd'[n] = [op |-> "offer", call |-> c]
        /\ \A m \in Nodes \ {n} : cmd'[m] = cmd[m]
    BY <1>1 DEF Start, Issue, Command, TypeOK
  <2>6. \A m \in Nodes : cur'[m] # NoCall => call'[m][cur'[m]] \in {"out", "in", "active"}
    BY <2>2, <2>4 DEF TypeOK
  <2>7. TypeOK'
    BY <1>1, <2>2, <2>3, <2>4, <2>5, <2>6 DEF Start, TypeOK
  <2>8. 0 \notin Nodes
    BY DEF Nodes
  <2>9. OfferGoesOut'
    <3>1. \A d \in CallIds : waiter'[d] # "none" => caller'[d] \in Nodes
      BY <1>1, <2>3, <2>8 DEF Start, OfferGoesOut
    <3>2. \A m \in Nodes : cmd'[m].op = "offer" => caller'[cmd'[m].call] = m
      <4> SUFFICES ASSUME NEW m \in Nodes, m # n, cmd[m].op = "offer"
                   PROVE  caller'[cmd[m].call] = m
        BY <2>3, <2>5
      <4>1. caller[cmd[m].call] = m /\ cmd[m].call \in CallIds
        BY DEF OfferGoesOut, TypeOK, Command, NoCmd
      <4> QED BY <2>3, <2>8, <4>1
    <3>3. \A e \in net' : e.kind = "offer" =>
                          caller'[e.call] \in Nodes /\ e.to = Other(caller'[e.call])
      <4> SUFFICES ASSUME NEW e \in net, e.kind = "offer"
                   PROVE  caller'[e.call] = caller[e.call]
        BY <1>1 DEF Start, OfferGoesOut
      <4>1. e.call \in CallIds /\ caller[e.call] \in Nodes
        BY DEF OfferGoesOut, TypeOK, Envelope
      <4> QED BY <2>3, <2>8, <4>1
    <3> QED BY <3>1, <3>2, <3>3 DEF OfferGoesOut
  <2>10. AcceptIsMeant'
    BY <1>1, <2>5 DEF Start, AcceptIsMeant
  <2>11. ActiveWasAccepted'
    BY <1>1, <2>2, <2>3, <2>8 DEF Start, ActiveWasAccepted, Started, TypeOK
  <2> QED BY <2>7, <2>9, <2>10, <2>11
<1>2. ASSUME NEW c \in CallIds, Accept(n, c) \/ Reject(n, c) \/ Hangup(n, c)  PROVE IInv'
  <2> DEFINE s == IF Accept(n, c) THEN "active" ELSE "ended"
  <2>0. s \in CallState /\ s \in {"active", "ended"}
    BY DEF CallState
  <2>1. SetCall(n, c, s) /\ cur[n] = c /\ (s = "active" => c \in accepted')
    BY <1>2 DEF Accept, Reject, Hangup, EndCall
  <2>2. PICK op \in {"accept", "reject", "hangup"} :
          Issue(n, op, c) /\ (op = "accept" => c \in accepted')
    BY <1>2 DEF Accept, Reject, Hangup
  <2>3. /\ UNCHANGED <<caller, waiter, busy, ready, net, spoiled, faults>>
        /\ accepted \subseteq accepted' /\ accepted' \subseteq CallIds
    BY <1>2 DEF Accept, Reject, Hangup, TypeOK
  <2>4. cur' = IF s = "active" THEN cur ELSE [cur EXCEPT ![n] = NoCall]
    BY <1>2 DEF Accept, Reject, Hangup, EndCall
  <2> HIDE DEF s
  <2>5. /\ call' \in [Nodes -> [CallIds -> CallState]]
        /\ call'[n][c] = s
        /\ \A m \in Nodes, d \in CallIds : m # n \/ d # c => call'[m][d] = call[m][d]
    BY <2>0, <2>1, SetCallEffect
  <2>6. /\ cmd' \in [Nodes -> {NoCmd} \cup Command]
        /\ cmd'[n] = [op |-> op, call |-> c]
        /\ \A m \in Nodes \ {n} : cmd'[m] = cmd[m]
    BY <2>2 DEF Issue, Command, TypeOK
  <2>7. /\ cur' \in [Nodes -> CallIds \cup {NoCall}]
        /\ \A m \in Nodes : cur'[m] # NoCall => call'[m][cur'[m]] \in {"out", "in", "active"}
    BY <2>0, <2>1, <2>4, <2>5 DEF TypeOK
  <2>8. TypeOK'
    BY <2>3, <2>5, <2>6, <2>7 DEF TypeOK
  <2>9. OfferGoesOut'
    BY <2>3, <2>6 DEF OfferGoesOut
  <2>10. AcceptIsMeant'
    BY <2>2, <2>3, <2>6 DEF AcceptIsMeant
  <2>11. ActiveWasAccepted'
    BY <2>1, <2>3, <2>5 DEF ActiveWasAccepted, Started, TypeOK
  <2> QED BY <2>8, <2>9, <2>10, <2>11
<1>3. CASE SendCmd(n)
  <2> DEFINE c == cmd[n].call
  <2>1. cmd[n] \in Command /\ c \in CallIds
    BY <1>3 DEF SendCmd, TypeOK, Command
  <2>2. /\ cmd' \in [Nodes -> {NoCmd} \cup Command] /\ cmd'[n] = NoCmd
        /\ \A m \in Nodes \ {n} : cmd'[m] = cmd[m]
    BY <1>3 DEF SendCmd, TypeOK
  <2>3. UNCHANGED <<caller, cur, call, busy, ready, accepted, spoiled, faults>>
    BY <1>3 DEF SendCmd
  <2>4. net' \subseteq Envelope
    BY <1>3, <2>1, SendType DEF SendCmd, Command, TypeOK
  <2>5. waiter' = waiter \/ (cmd[n].op = "offer" /\ waiter' = [waiter EXCEPT ![c] = "sleep"])
    BY <1>3 DEF SendCmd
  <2>6. waiter' \in [CallIds -> {"none", "sleep", "checked", "sent"}]
    BY <2>1, <2>5 DEF TypeOK
  <2>7. TypeOK'
    BY <2>2, <2>3, <2>4, <2>6 DEF TypeOK
  <2>8. \A e \in net' : e \in net \/ e = [kind |-> cmd[n].op, call |-> c, to |-> Other(n)]
    BY <1>3 DEF SendCmd, Send
  <2>9. OfferGoesOut'
    <3>1. \A d \in CallIds : waiter'[d] # "none" => caller'[d] \in Nodes
      BY <2>1, <2>3, <2>5 DEF OfferGoesOut, TypeOK
    <3>2. \A m \in Nodes : cmd'[m].op = "offer" => caller'[cmd'[m].call] = m
      BY <2>2, <2>3 DEF OfferGoesOut, NoCmd
    <3>3. \A e \in net' : e.kind = "offer" =>
                          caller'[e.call] \in Nodes /\ e.to = Other(caller'[e.call])
      BY <2>3, <2>8 DEF OfferGoesOut
    <3> QED BY <3>1, <3>2, <3>3 DEF OfferGoesOut
  <2>10. AcceptIsMeant'
    BY <2>2, <2>3, <2>8 DEF AcceptIsMeant, NoCmd
  <2>11. ActiveWasAccepted'
    BY <2>3 DEF ActiveWasAccepted, Started
  <2> QED BY <2>7, <2>9, <2>10, <2>11
<1>4. CASE SendCmdFails(n)
  <2>1. cmd[n].call \in CallIds
    BY <1>4 DEF SendCmdFails, TypeOK, Command
  <2>2. /\ cmd' \in [Nodes -> {NoCmd} \cup Command] /\ cmd'[n] = NoCmd
        /\ \A m \in Nodes \ {n} : cmd'[m] = cmd[m]
    BY <1>4 DEF SendCmdFails, TypeOK
  <2>3. UNCHANGED <<caller, call, waiter, busy, ready, net, accepted>>
    BY <1>4 DEF SendCmdFails
  <2>4. spoiled' \subseteq CallIds /\ faults' \in 0..MaxFaults
    BY <1>4, <2>1, FaultType DEF SendCmdFails
  <2>5. cur' = cur \/ cur' = [cur EXCEPT ![n] = NoCall]
    BY <1>4 DEF SendCmdFails
  <2>6. TypeOK'
    BY <2>2, <2>3, <2>4, <2>5 DEF TypeOK
  <2>7. OfferGoesOut' /\ AcceptIsMeant'
    BY <2>2, <2>3 DEF OfferGoesOut, AcceptIsMeant, NoCmd
  <2>8. ActiveWasAccepted'
    BY <2>3 DEF ActiveWasAccepted, Started
  <2> QED BY <2>6, <2>7, <2>8
<1> QED BY <1>1, <1>2, <1>3, <1>4 DEF Commands

\* offerWhenReady keeps the invariant.
LEMMA WaitingKeeps ==
  ASSUME IInv, NEW c \in CallIds, Waiting(c)
  PROVE  IInv'
<1> DEFINE n == caller[c]
<1> USE DEF IInv
<1>1. /\ UNCHANGED <<caller, cmd, busy, ready, accepted>>
      /\ n \in Nodes
    BY DEF Waiting, WaiterCheck, WaiterSend, WaiterCancel, WaiterDeadline, WaiterFails, OfferGoesOut
<1>2. \E pc \in {"none", "sleep", "checked", "sent"} : SetWaiter(c, pc)
  BY DEF Waiting, WaiterCheck, WaiterSend, WaiterCancel, WaiterDeadline, WaiterFails, GiveUp
<1>3. /\ waiter' \in [CallIds -> {"none", "sleep", "checked", "sent"}]
      /\ \A d \in CallIds \ {c} : waiter'[d] = waiter[d]
  BY <1>2 DEF SetWaiter, TypeOK
<1>4. net' = net \/ Send("offer", c, n) \/ Send("cancel", c, n)
  BY DEF Waiting, WaiterCheck, WaiterSend, WaiterCancel, WaiterDeadline, WaiterFails
<1>5. net' \subseteq Envelope
  BY <1>1, <1>4, SendType DEF TypeOK
<1>6. spoiled' \subseteq CallIds /\ faults' \in 0..MaxFaults
  <2>1. UNCHANGED <<spoiled, faults>> \/ Fault({c})
    BY DEF Waiting, WaiterCheck, WaiterSend, WaiterCancel, WaiterDeadline, WaiterFails
  <2> QED BY <2>1, FaultType DEF TypeOK
<1>7. UNCHANGED <<cur, call>> \/ (cur[n] = c /\ EndCall(n, c))
  BY DEF Waiting, WaiterCheck, WaiterSend, WaiterCancel, WaiterDeadline, WaiterFails, GiveUp
<1>8. /\ cur' \in [Nodes -> CallIds \cup {NoCall}]
      /\ call' \in [Nodes -> [CallIds -> CallState]]
      /\ \A m \in Nodes : cur'[m] # NoCall => call'[m][cur'[m]] \in {"out", "in", "active"}
      /\ \A m \in Nodes, d \in CallIds : call'[m][d] = "active" => call[m][d] = "active"
  <2>1. CASE UNCHANGED <<cur, call>>
    BY <2>1 DEF TypeOK
  <2>2. CASE EndCall(n, c)
    <3>1. "ended" \in CallState
      BY DEF CallState
    <3>2. SetCall(n, c, "ended") /\ cur' = [cur EXCEPT ![n] = NoCall]
      BY <2>2 DEF EndCall
    <3>3. /\ call' \in [Nodes -> [CallIds -> CallState]]
          /\ call'[n][c] = "ended"
          /\ \A m \in Nodes, d \in CallIds : m # n \/ d # c => call'[m][d] = call[m][d]
      BY <1>1, <3>1, <3>2, SetCallEffect
    <3>4. \A m \in Nodes : cur'[m] # NoCall => m # n /\ cur'[m] = cur[m] /\ cur[m] \in CallIds
      BY <1>1, <3>2 DEF TypeOK
    <3>5. cur' \in [Nodes -> CallIds \cup {NoCall}]
      BY <1>1, <3>2 DEF TypeOK
    <3>6. ASSUME NEW m \in Nodes, cur'[m] # NoCall
          PROVE  call'[m][cur'[m]] \in {"out", "in", "active"}
      <4>1. call'[m][cur'[m]] = call[m][cur[m]] /\ cur[m] # NoCall
        BY <3>3, <3>4, <3>6
      <4> QED BY <4>1 DEF TypeOK
    <3>7. \A m \in Nodes, d \in CallIds : call'[m][d] = "active" => call[m][d] = "active"
      BY <3>3
    <3> QED BY <3>3, <3>5, <3>6, <3>7
  <2> QED BY <1>7, <2>1, <2>2
<1>9. TypeOK'
  BY <1>1, <1>3, <1>5, <1>6, <1>8 DEF TypeOK
<1>10. OfferGoesOut'
  <2>1. \A d \in CallIds : waiter'[d] # "none" => caller'[d] \in Nodes
    BY <1>1, <1>3 DEF OfferGoesOut
  <2>2. \A e \in net' : e.kind = "offer" =>
                        caller'[e.call] \in Nodes /\ e.to = Other(caller'[e.call])
    BY <1>1, <1>4 DEF OfferGoesOut, Send
  <2> QED BY <1>1, <2>1, <2>2 DEF OfferGoesOut
<1>11. AcceptIsMeant'
  BY <1>1, <1>4 DEF AcceptIsMeant, Send
<1>12. ActiveWasAccepted'
  BY <1>1, <1>8 DEF ActiveWasAccepted, Started, TypeOK
<1> QED BY <1>9, <1>10, <1>11, <1>12

\* The delivery loop keeps the invariant.
LEMMA DeliveryKeeps ==
  ASSUME IInv, NEW n \in Nodes, Delivery(n)
  PROVE  IInv'
<1> USE DEF IInv
<1>1. ASSUME NEW e \in net, Receive(n, e) \/ RolledBack(n, e)  PROVE IInv'
  <2>1. /\ e.to = n /\ Remember(n, e.call, Handle(n, e))
        /\ UNCHANGED <<caller, cmd, waiter, accepted>>
    BY <1>1 DEF Receive, RolledBack, Takes
  <2>2. /\ cur' \in [Nodes -> CallIds \cup {NoCall}]
        /\ call' \in [Nodes -> [CallIds -> CallState]]
        /\ \A m \in Nodes : cur'[m] # NoCall => call'[m][cur'[m]] \in {"out", "in", "active"}
        /\ ActiveWasAccepted'
    BY <2>1, RememberKeeps
  <2>3. e.call \in CallIds
    BY DEF TypeOK, Envelope
  <2>4. net' \subseteq net /\ ready' \subseteq Nodes
    BY <1>1 DEF Receive, RolledBack, TypeOK
  <2>5. busy' \in [Nodes -> CallIds \cup {NoCall}]
    BY <1>1, <2>3 DEF Receive, RolledBack, TypeOK
  <2>6. spoiled' \subseteq CallIds /\ faults' \in 0..MaxFaults
    <3>1. UNCHANGED <<spoiled, faults>> \/ Fault({e.call})
      BY <1>1 DEF Receive, RolledBack
    <3> QED BY <2>3, <3>1, FaultType DEF TypeOK
  <2>7. TypeOK'
    BY <2>1, <2>2, <2>4, <2>5, <2>6 DEF TypeOK
  <2> QED BY <2>1, <2>2, <2>4, <2>7 DEF OfferGoesOut, AcceptIsMeant
<1>2. CASE AutoReject(n) \/ AutoRejectFails(n)
  <2>1. /\ busy[n] \in CallIds /\ busy' = [busy EXCEPT ![n] = NoCall]
        /\ UNCHANGED <<caller, cur, call, cmd, waiter, ready, accepted>>
    BY <1>2 DEF AutoReject, AutoRejectFails, TypeOK
  <2>2. net' = net \/ Send("reject", busy[n], n)
    BY <1>2 DEF AutoReject, AutoRejectFails
  <2>3. net' \subseteq Envelope
    BY <2>1, <2>2, SendType DEF TypeOK
  <2>4. spoiled' \subseteq CallIds /\ faults' \in 0..MaxFaults
    <3>1. UNCHANGED <<spoiled, faults>> \/ Fault({busy[n]})
      BY <1>2 DEF AutoReject, AutoRejectFails
    <3> QED BY <2>1, <3>1, FaultType DEF TypeOK
  <2>5. TypeOK'
    BY <2>1, <2>3, <2>4 DEF TypeOK
  <2>6. OfferGoesOut' /\ AcceptIsMeant'
    BY <2>1, <2>2 DEF OfferGoesOut, AcceptIsMeant, Send
  <2>7. ActiveWasAccepted'
    BY <2>1 DEF ActiveWasAccepted, Started
  <2> QED BY <2>5, <2>6, <2>7
<1> QED BY <1>1, <1>2 DEF Delivery

\* The world keeps the invariant.
LEMMA WorldKeeps ==
  ASSUME IInv, NEW n \in Nodes, SessionReady(n) \/ Restart(n)
  PROVE  IInv'
<1> USE DEF IInv
<1>1. CASE SessionReady(n)
  BY <1>1 DEF SessionReady, TypeOK, OfferGoesOut, AcceptIsMeant, ActiveWasAccepted, Started
<1>2. CASE Restart(n)
  <2> DEFINE S == {cur[n], cmd[n].call, busy[n]}
                    \cup {c \in CallIds : caller[c] = n /\ waiter[c] # "none"}
  <2>1. S \subseteq CallIds \cup {NoCall}
    BY DEF TypeOK, Command, NoCmd
  <2>2. spoiled' \subseteq CallIds /\ faults' \in 0..MaxFaults
    <3>1. Fault(S)
      BY <1>2 DEF Restart
    <3> HIDE DEF S
    <3> QED BY <2>1, <3>1, FaultType
  <2>3. UNCHANGED <<caller, call, ready, net, accepted>>
    BY <1>2 DEF Restart
  <2>4. /\ cmd' \in [Nodes -> {NoCmd} \cup Command] /\ cmd'[n] = NoCmd
        /\ \A m \in Nodes \ {n} : cmd'[m] = cmd[m]
    BY <1>2 DEF Restart, TypeOK
  <2>5. /\ waiter' \in [CallIds -> {"none", "sleep", "checked", "sent"}]
        /\ \A c \in CallIds : waiter'[c] # "none" => waiter[c] # "none"
    BY <1>2 DEF Restart, TypeOK
  <2>6. /\ cur' \in [Nodes -> CallIds \cup {NoCall}] /\ busy' \in [Nodes -> CallIds \cup {NoCall}]
        /\ \A m \in Nodes : cur'[m] # NoCall => cur'[m] = cur[m]
    BY <1>2 DEF Restart, TypeOK
  <2>7. TypeOK'
    BY <2>2, <2>3, <2>4, <2>5, <2>6 DEF TypeOK
  <2>8. OfferGoesOut' /\ AcceptIsMeant'
    BY <2>3, <2>4, <2>5 DEF OfferGoesOut, AcceptIsMeant, NoCmd
  <2>9. ActiveWasAccepted'
    BY <2>3 DEF ActiveWasAccepted, Started
  <2> QED BY <2>7, <2>8, <2>9
<1> QED BY <1>1, <1>2

LEMMA CallsStep == IInv /\ [Next]_vars => IInv'
<1> SUFFICES ASSUME IInv, [Next]_vars  PROVE IInv'
  OBVIOUS
<1>1. CASE UNCHANGED vars
  BY <1>1 DEF vars, IInv, TypeOK, OfferGoesOut, AcceptIsMeant, ActiveWasAccepted, Started
<1>2. CASE Next
  BY <1>2, CommandsKeep, DeliveryKeeps, WorldKeeps, WaitingKeeps DEF Next
<1> QED BY <1>1, <1>2

LEMMA CallsInvariant == Spec => []IInv
  BY CallsInit, CallsStep, PTL DEF Spec

-----------------------------------------------------------------------------

\* Type correctness; among other things the current call is never one that is over.
THEOREM CallsTypeCorrect == Spec => []TypeOK
<1>1. IInv => TypeOK
  BY DEF IInv
<1> QED BY <1>1, CallsInvariant, PTL

\* A call is active at its caller only after the callee's user accepted it: whatever
\* is lost, repeated after a rollback or forgotten in a restart, Consent of the caller
\* is not given for somebody who did not answer.
THEOREM ConsentIsMeant == Spec => []ActiveWasAccepted
<1>1. IInv => ActiveWasAccepted
  BY DEF IInv
<1> QED BY <1>1, CallsInvariant, PTL

\* No answer, however late, and no run of offerWhenReady revives a call that its
\* caller has ended.
THEOREM EndStays == Spec => EndIsFinal
<1>1. ASSUME IInv, [Next]_vars, NEW c \in Started, call[caller[c]][c] = "ended"
      PROVE  call'[caller[c]][c] = "ended"
  <2>1. TypeOK /\ OfferGoesOut
    BY <1>1 DEF IInv
  <2>2. c \in CallIds /\ caller[c] \in Nodes
    BY <1>1, <2>1 DEF Started, TypeOK, Nodes
  <2>3. ASSUME NEW n \in Nodes, NEW d \in CallIds, NEW s \in CallState, SetCall(n, d, s),
               n # caller[c] \/ d # c \/ s = "ended"
        PROVE  call'[caller[c]][c] = "ended"
    BY <1>1, <2>1, <2>2, <2>3, SetCallEffect
  <2>4. "ended" \in CallState /\ "out" \in CallState /\ "active" \in CallState
    BY DEF CallState
  <2>5. ASSUME NEW n \in Nodes, Commands(n)  PROVE call'[caller[c]][c] = "ended"
    <3>1. ASSUME NEW d \in CallIds, Start(n, d)  PROVE d # c /\ SetCall(n, d, "out")
      BY <1>1, <3>1 DEF Start, Started
    <3>2. ASSUME NEW d \in CallIds, Accept(n, d)
          PROVE  (n # caller[c] \/ d # c) /\ SetCall(n, d, "active")
      BY <1>1, <3>2 DEF Accept
    <3>3. ASSUME NEW d \in CallIds, Reject(n, d) \/ Hangup(n, d)  PROVE SetCall(n, d, "ended")
      BY <3>3 DEF Reject, Hangup, EndCall
    <3>4. CASE SendCmd(n) \/ SendCmdFails(n)
      BY <1>1, <3>4 DEF SendCmd, SendCmdFails
    <3> QED BY <2>3, <2>4, <2>5, <3>1, <3>2, <3>3, <3>4 DEF Commands
  <2>6. ASSUME NEW n \in Nodes, Delivery(n)  PROVE call'[caller[c]][c] = "ended"
    <3>1. ASSUME NEW e \in net, Receive(n, e) \/ RolledBack(n, e)
          PROVE  call'[caller[c]][c] = "ended"
      <4>1. e.to = n /\ Remember(n, e.call, Handle(n, e)) /\ UNCHANGED <<caller, accepted>>
        BY <3>1 DEF Receive, RolledBack, Takes
      <4> QED BY <1>1, <4>1, RememberKeeps
    <3>2. CASE AutoReject(n) \/ AutoRejectFails(n)
      BY <1>1, <3>2 DEF AutoReject, AutoRejectFails
    <3> QED BY <2>6, <3>1, <3>2 DEF Delivery
  <2>7. ASSUME NEW n \in Nodes, SessionReady(n) \/ Restart(n)
        PROVE  call'[caller[c]][c] = "ended"
    BY <1>1, <2>7 DEF SessionReady, Restart
  <2>8. ASSUME NEW d \in CallIds, Waiting(d)  PROVE call'[caller[c]][c] = "ended"
    <3>1. UNCHANGED call \/ SetCall(caller[d], d, "ended")
      BY <2>8 DEF Waiting, WaiterCheck, WaiterSend, WaiterCancel, WaiterDeadline, WaiterFails,
                  GiveUp, EndCall
    <3>2. caller[d] \in Nodes
      BY <2>1, <2>8 DEF Waiting, WaiterCheck, WaiterSend, WaiterCancel, WaiterDeadline, WaiterFails,
                        OfferGoesOut
    <3> QED BY <1>1, <2>3, <2>4, <3>1, <3>2
  <2>9. CASE UNCHANGED vars
    BY <1>1, <2>9 DEF vars
  <2> QED BY <1>1, <2>5, <2>6, <2>7, <2>8, <2>9 DEF Next
<1>2. IInv /\ [Next]_vars =>
        [\A c \in Started : call[caller[c]][c] = "ended" => call'[caller[c]][c] = "ended"]_vars
  BY <1>1
<1> QED BY <1>2, CallsInvariant, PTL DEF Spec, EndIsFinal

-----------------------------------------------------------------------------
(* The caller is served                                                    *)

\* Only calls that were started are known to anybody, and a call never rings at its caller.
CallsAreStarted ==
  /\ \A n \in Nodes : {cur[n], cmd[n].call, busy[n]} \subseteq Started \cup {NoCall}
  /\ \A e \in net : e.call \in Started

OwnNeverRings == \A c \in Started : call[caller[c]][c] # "in"

\* An envelope about c is on its way, or about to be sent.
Coming(k, c, from, to) ==
  \/ [kind |-> k, call |-> c, to |-> to] \in net
  \/ cmd[from] = [op |-> k, call |-> c]

\* Where a call may be that its caller n still holds; m is its callee.
Offering(c, n, m) == Coming("offer", c, n, m) \/ waiter[c] \in {"sleep", "checked"}
Rings(c, m) == cur[m] = c /\ call[m][c] = "in"
Talks(c, m) == cur[m] = c /\ call[m][c] = "active"
Accepting(c, n, m) == Coming("accept", c, m, n)
Refusing(c, n, m) == Coming("reject", c, m, n) \/ busy[m] = c
Leaving(c, n, m) == Coming("hangup", c, m, n)

\* The callee can answer, and the caller has not taken the call back; an accepted call
\* is the callee's too, or its hangup follows; a call that rings out is offered, rings
\* at the callee, or its answer is on the way.
Served(c, n, m) ==
  /\ m \notin ready => cur[m] # c /\ cmd[m].call # c
  /\ ~Coming("hangup", c, n, m)
  /\ [kind |-> "cancel", call |-> c, to |-> m] \notin net
  /\ call[n][c] = "active" \/ Accepting(c, n, m) => Talks(c, m) \/ Leaving(c, n, m)
  /\ call[n][c] = "out" =>
       \/ Offering(c, n, m) \/ Rings(c, m)
       \/ Accepting(c, n, m) \/ Refusing(c, n, m) \/ Leaving(c, n, m)

\* The calls that Served is about.
Held(c) == c \in Started \ spoiled /\ cur[caller[c]] = c

HeldAreServed == \A c \in CallIds : Held(c) => Served(c, caller[c], Callee(c))

SInv == IInv /\ CallsAreStarted /\ OwnNeverRings /\ HeldAreServed

\* Who is who in a started call.
LEMMA Parties ==
  ASSUME TypeOK, NEW c \in Started
  PROVE  /\ c \in CallIds /\ c # NoCall
         /\ caller[c] \in Nodes /\ Callee(c) \in Nodes
         /\ Callee(c) # caller[c] /\ Other(Callee(c)) = caller[c] /\ Other(caller[c]) = Callee(c)
         /\ Nodes = {caller[c], Callee(c)}
BY NoCallAssumption, OtherNode DEF TypeOK, Started, Nodes, Callee, Other

\* At rest nothing is on its way, and what is left of Served is what the user sees.
LEMMA ServedMeans == SInv => CallerIsServed
<1> SUFFICES ASSUME SInv, AtRest, NEW c \in Started \ spoiled, cur[caller[c]] = c
             PROVE  /\ cur[Callee(c)] = c
                    /\ call[caller[c]][c] = "out" <=> call[Callee(c)][c] = "in"
  BY DEF CallerIsServed
<1> DEFINE n == caller[c]  m == Callee(c)
<1>1. /\ c \in CallIds /\ c # NoCall /\ n \in Nodes /\ m \in Nodes
      /\ call[n][c] \in {"out", "active"}
  BY Parties DEF SInv, IInv, TypeOK, OwnNeverRings
<1>2. Served(c, n, m)
  BY <1>1 DEF SInv, HeldAreServed, Held
<1>3. \A k \in {"offer", "accept", "reject", "hangup"}, v, w \in Nodes : ~Coming(k, c, v, w)
  BY <1>1 DEF AtRest, Coming, NoCmd
<1>4. ~Offering(c, n, m) /\ ~Accepting(c, n, m) /\ ~Refusing(c, n, m) /\ ~Leaving(c, n, m)
  BY <1>1, <1>3 DEF Offering, Accepting, Refusing, Leaving, AtRest
<1> QED BY <1>1, <1>2, <1>4 DEF Served, Rings, Talks

LEMMA ServedInit == Init => SInv
<1> SUFFICES ASSUME Init  PROVE SInv
  OBVIOUS
<1>1. Started = {}
  BY DEF Init, Started
<1>2. CallsAreStarted /\ OwnNeverRings /\ HeldAreServed
  BY <1>1 DEF Init, CallsAreStarted, OwnNeverRings, HeldAreServed, Held, NoCmd
<1> QED BY <1>2, CallsInit DEF SInv

-----------------------------------------------------------------------------

\* How a step keeps the invariant when no call starts: whatever becomes known was
\* started, and each call that is still held is still served.
LEMMA SameCallsKeep ==
  ASSUME SInv, IInv', UNCHANGED caller, spoiled \subseteq spoiled',
         \A n \in Nodes : {cur'[n], cmd'[n].call, busy'[n]} \subseteq Started \cup {NoCall},
         \A e \in net' : e.call \in Started,
         \A c \in Started : /\ call'[caller[c]][c] # "in"
                            /\ cur'[caller[c]] = c => cur[caller[c]] = c,
         \A c \in Started \ spoiled', n, m \in Nodes :
           n = caller[c] /\ m = Callee(c) /\ Served(c, n, m) /\ cur'[n] = c => Served(c, n, m)'
  PROVE  SInv'
<1>1. Started' = Started /\ \A c : Callee(c)' = Callee(c)
  BY DEF Started, Callee
<1>2. CallsAreStarted' /\ OwnNeverRings'
  BY <1>1 DEF CallsAreStarted, OwnNeverRings
<1>3. ASSUME NEW c \in CallIds, Held(c)'  PROVE Served(c, caller[c], Callee(c))'
  <2>1. c \in Started \ spoiled' /\ cur'[caller[c]] = c /\ cur[caller[c]] = c
    BY <1>1, <1>3 DEF Held
  <2>2. PICK n \in Nodes, m \in Nodes : n = caller[c] /\ m = Callee(c)
    BY <2>1, Parties DEF SInv, IInv
  <2>3. Served(c, n, m)
    BY <2>1, <2>2 DEF SInv, HeldAreServed, Held
  <2>4. Served(c, n, m)' /\ n = caller'[c] /\ m = Callee(c)'
    BY <1>1, <2>1, <2>2, <2>3
  <2> QED BY <2>4
<1>4. HeldAreServed'
  BY <1>3 DEF HeldAreServed
<1> QED BY <1>2, <1>4 DEF SInv

LEMMA StartServes ==
  ASSUME SInv, IInv', NEW v \in Nodes, NEW d \in CallIds, Start(v, d)
  PROVE  SInv'
<1>1. TypeOK /\ CallsAreStarted /\ OwnNeverRings /\ HeldAreServed /\ d \notin Started
  BY DEF SInv, IInv, Start, Started
<1>2. /\ caller' = [caller EXCEPT ![d] = v] /\ cur' = [cur EXCEPT ![v] = d] /\ cur[v] = NoCall
      /\ cmd' = [cmd EXCEPT ![v] = [op |-> "offer", call |-> d]] /\ cmd[v] = NoCmd
      /\ SetCall(v, d, "out")
      /\ UNCHANGED <<waiter, busy, ready, net, spoiled>>
  BY DEF Start, Issue, InCall
<1>3. /\ call'[v][d] = "out"
      /\ \A n \in Nodes, c \in CallIds : n # v \/ c # d => call'[n][c] = call[n][c]
  BY <1>1, <1>2, SetCallEffect DEF CallState
<1>4. Started' = Started \cup {d} /\ caller'[d] = v /\ \A c \in Started : caller'[c] = caller[c]
  BY <1>1, <1>2 DEF Started, TypeOK, Nodes
<1>5. \A n \in Nodes : {cur'[n], cmd'[n].call, busy'[n]} \subseteq Started' \cup {NoCall}
  BY <1>1, <1>2, <1>4 DEF CallsAreStarted, TypeOK
<1>6. CallsAreStarted'
  BY <1>1, <1>2, <1>4, <1>5 DEF CallsAreStarted
<1>7. OwnNeverRings'
  BY <1>1, <1>3, <1>4, Parties DEF OwnNeverRings
<1>8. ASSUME NEW c \in Started, c \notin spoiled, cur'[caller[c]] = c
      PROVE  Served(c, caller[c], Callee(c))'
  <2>1. PICK n \in Nodes, m \in Nodes : n = caller[c] /\ m = Callee(c) /\ n # m
    BY <1>1, Parties
  <2>2. /\ c \in CallIds /\ c # NoCall /\ c # d
        /\ caller'[c] = n /\ Callee(c)' = m
    BY <1>1, <1>4, <2>1, Parties DEF Callee
  <2>3. n # v /\ m = v /\ cur[n] = c
    BY <1>1, <1>2, <1>8, <2>1, <2>2, Parties DEF TypeOK
  <2>4. Served(c, n, m)
    BY <1>1, <1>8, <2>1, <2>2, <2>3 DEF HeldAreServed, Held
  <2>5. /\ cur'[n] = cur[n] /\ cmd'[n] = cmd[n] /\ cur[m] = NoCall /\ cur'[m] = d
        /\ cmd[m] = NoCmd /\ cmd'[m] = [op |-> "offer", call |-> d]
        /\ call'[n][c] = call[n][c] /\ call'[m][c] = call[m][c]
    BY <1>1, <1>2, <1>3, <2>1, <2>2, <2>3 DEF TypeOK
  <2>6. Served(c, n, m)'
    BY <1>2, <2>1, <2>2, <2>4, <2>5
       DEF Served, Coming, Offering, Rings, Talks, Accepting, Refusing, Leaving, NoCmd
  <2> QED BY <2>2, <2>6
<1>9. Served(d, caller[d], Callee(d))'
  <2>1. PICK m \in Nodes : caller'[d] = v /\ Callee(d)' = m /\ m # v
    BY <1>4, OtherNode DEF Callee
  <2>2. /\ \A e \in net' : e.call # d
        /\ cur'[m] # d /\ cmd'[m].call # d
        /\ cmd'[v] = [op |-> "offer", call |-> d]
    BY <1>1, <1>2, <2>1, NoCallAssumption DEF CallsAreStarted, TypeOK
  <2>3. Served(d, v, m)'
    BY <1>3, <2>2 DEF Served, Coming, Offering, Accepting
  <2> QED BY <2>1, <2>3
<1>10. HeldAreServed'
  BY <1>2, <1>4, <1>8, <1>9 DEF HeldAreServed, Held
<1> QED BY <1>6, <1>7, <1>10 DEF SInv

\* A user's answer or hangup: the memory changes and the envelope is about to be sent.
LEMMA AnswerServes ==
  ASSUME SInv, IInv', NEW v \in Nodes, NEW d \in CallIds,
         Accept(v, d) \/ Reject(v, d) \/ Hangup(v, d)
  PROVE  SInv'
<1>1. TypeOK /\ CallsAreStarted /\ OwnNeverRings
  BY DEF SInv, IInv
<1>2. /\ cmd[v] = NoCmd /\ cur[v] = d
      /\ UNCHANGED <<caller, waiter, busy, ready, net, spoiled>>
  BY DEF Accept, Reject, Hangup
<1>3. d \in Started
  BY <1>1, <1>2, NoCallAssumption DEF CallsAreStarted
<1>4. PICK s \in {"active", "ended"}, op \in {"accept", "reject", "hangup"} :
        /\ SetCall(v, d, s) /\ cmd' = [cmd EXCEPT ![v] = [op |-> op, call |-> d]]
        /\ \/ s = "active" /\ op = "accept" /\ cur' = cur /\ call[v][d] = "in"
           \/ s = "ended" /\ op # "accept" /\ cur' = [cur EXCEPT ![v] = NoCall]
        /\ op = "reject" => call[v][d] = "in"
  BY DEF Accept, Reject, Hangup, EndCall, Issue
<1>5. /\ call'[v][d] = s
      /\ \A n \in Nodes, c \in CallIds : n # v \/ c # d => call'[n][c] = call[n][c]
  BY <1>1, <1>4, SetCallEffect DEF CallState
<1>6. /\ cmd'[v] = [op |-> op, call |-> d]
      /\ \A n \in Nodes : n # v => cmd'[n] = cmd[n] /\ cur'[n] = cur[n]
      /\ \A n \in Nodes : cur'[n] = cur[n] \/ cur'[n] = NoCall
      /\ s = "active" => cur'[v] = d
      /\ s = "ended" => cur'[v] = NoCall
  BY <1>1, <1>2, <1>4 DEF TypeOK
<1>7. \A n \in Nodes : {cur'[n], cmd'[n].call, busy'[n]} \subseteq Started \cup {NoCall}
  BY <1>1, <1>2, <1>3, <1>6 DEF CallsAreStarted
<1>8. \A e \in net' : e.call \in Started
  BY <1>1, <1>2 DEF CallsAreStarted
<1>9. ASSUME NEW c \in Started
      PROVE  /\ call'[caller[c]][c] # "in"
             /\ cur'[caller[c]] = c => cur[caller[c]] = c
  BY <1>1, <1>5, <1>6, Parties DEF OwnNeverRings
<1>10. ASSUME NEW c \in Started \ spoiled', NEW n \in Nodes, NEW m \in Nodes,
              n = caller[c], m = Callee(c), Served(c, n, m), cur'[n] = c
       PROVE  Served(c, n, m)'
  <2>1. c \in CallIds /\ c # NoCall /\ n # m /\ cur[n] = c
    BY <1>1, <1>9, <1>10, Parties
  <2>2. v = n => FALSE \/ c # d \/ s = "active"
    BY <1>6, <1>10, <2>1
  <2>3. v = n /\ c = d => FALSE
    BY <1>1, <1>3, <1>4, <1>10, <2>2 DEF OwnNeverRings
  <2>4. v # n
    BY <1>2, <2>1, <2>3
  <2>5. v = m /\ cur'[n] = cur[n] /\ cmd'[n] = cmd[n] /\ call'[n][c] = call[n][c]
    BY <1>1, <1>5, <1>6, <1>10, <2>1, <2>4, Parties
  <2>6. CASE c # d
    <3>1. call'[m][c] = call[m][c] /\ cmd'[m] = [op |-> op, call |-> d] /\ cur[m] = d
      BY <1>2, <1>5, <1>6, <2>1, <2>5, <2>6
    <3>2. cur'[m] # c
      BY <1>6, <2>1, <2>5, <2>6, <3>1
    <3> QED BY <1>2, <1>10, <2>1, <2>5, <2>6, <3>1, <3>2
            DEF Served, Coming, Offering, Rings, Talks, Accepting, Refusing, Leaving, NoCmd
  <2>7. CASE c = d
    <3>1. cmd'[m] = [op |-> op, call |-> c] /\ cur[m] = c /\ m \in ready
      BY <1>2, <1>6, <1>10, <2>5, <2>7 DEF Served
    <3>2. /\ s = "active" => op = "accept" /\ call[m][c] = "in" /\ cur'[m] = c
          /\ s = "ended" => op \in {"reject", "hangup"}
          /\ op = "reject" => call[m][c] = "in" /\ s = "ended"
          /\ call'[m][c] = s
      BY <1>4, <1>5, <1>6, <2>5, <2>7
    <3> QED BY <1>2, <1>10, <2>1, <2>5, <2>7, <3>1, <3>2
            DEF Served, Coming, Offering, Rings, Talks, Accepting, Refusing, Leaving, NoCmd
  <2> QED BY <2>6, <2>7
<1> QED
  BY <1>2, <1>7, <1>8, <1>9, <1>10, SameCallsKeep

\* The command sends: what was about to be sent is on its way, or offerWhenReady has it.
LEMMA SendServes ==
  ASSUME SInv, IInv', NEW v \in Nodes, SendCmd(v)
  PROVE  SInv'
<1>1. TypeOK /\ CallsAreStarted /\ OwnNeverRings /\ OfferGoesOut
  BY DEF SInv, IInv
<1>2. PICK op \in {"offer", "accept", "reject", "hangup"}, d \in CallIds :
        cmd[v] = [op |-> op, call |-> d]
  BY <1>1 DEF SendCmd, TypeOK, Command
<1>3. d \in Started
  BY <1>1, <1>2, NoCallAssumption DEF CallsAreStarted
<1>4. /\ cmd' = [cmd EXCEPT ![v] = NoCmd]
      /\ UNCHANGED <<caller, cur, call, busy, ready, spoiled>>
      /\ \/ /\ v \in ready /\ waiter' = waiter
            /\ net' = net \cup {[kind |-> op, call |-> d, to |-> Other(v)]}
         \/ /\ v \notin ready /\ op = "offer" /\ net' = net
            /\ waiter' = [waiter EXCEPT ![d] = "sleep"]
         \/ v \notin ready /\ op = "hangup" /\ waiter' = waiter /\ net' = net
  BY <1>2 DEF SendCmd, Send
<1>5. cmd'[v] = NoCmd /\ \A n \in Nodes : n # v => cmd'[n] = cmd[n]
  BY <1>1, <1>4 DEF TypeOK
<1>6. \A n \in Nodes : {cur'[n], cmd'[n].call, busy'[n]} \subseteq Started \cup {NoCall}
  BY <1>1, <1>4, <1>5 DEF CallsAreStarted, NoCmd
<1>7. \A e \in net' : e.call \in Started
  BY <1>1, <1>3, <1>4 DEF CallsAreStarted
<1>8. \A c \in Started : call'[caller[c]][c] # "in" /\ cur'[caller[c]] = cur[caller[c]]
  BY <1>1, <1>4 DEF OwnNeverRings
<1>9. ASSUME NEW c \in Started \ spoiled', NEW n \in Nodes, NEW m \in Nodes,
              n = caller[c], m = Callee(c), Served(c, n, m), cur'[n] = c
      PROVE  Served(c, n, m)'
  <2>1. /\ c \in CallIds /\ c # NoCall /\ n # m /\ Other(n) = m /\ Other(m) = n
        /\ v = n \/ v = m
    BY <1>1, <1>9, Parties
  <2>2. waiter[c] \in {"sleep", "checked"} => waiter'[c] \in {"sleep", "checked"}
    BY <1>1, <1>4, <2>1 DEF TypeOK
  <2>3. CASE c # d
    <3>1. \A k, w : [kind |-> k, call |-> c, to |-> w] \in net' <=>
                    [kind |-> k, call |-> c, to |-> w] \in net
      BY <1>4, <2>3
    <3>2. \A k \in {"offer", "accept", "reject", "hangup"}, w \in Nodes :
            cmd'[w] = [op |-> k, call |-> c] <=> cmd[w] = [op |-> k, call |-> c]
      BY <1>2, <1>5, <2>1, <2>3 DEF NoCmd
    <3>3. cmd'[m].call = c => cmd[m].call = c
      BY <1>5, <2>1 DEF NoCmd
    <3> QED BY <1>4, <1>9, <2>1, <2>2, <3>1, <3>2, <3>3
            DEF Served, Coming, Offering, Rings, Talks, Accepting, Refusing, Leaving
  <2>4. CASE c = d /\ v = n
    <3>1. /\ op # "hangup"
          /\ v \in ready \/ (op = "offer" /\ waiter'[c] = "sleep")
      BY <1>1, <1>2, <1>4, <1>9, <2>1, <2>4 DEF Served, Coming, TypeOK
    <3>2. cmd'[m] = cmd[m] /\ cmd'[n] = NoCmd
      BY <1>5, <2>1, <2>4
    <3>3. /\ \A k, w : [kind |-> k, call |-> c, to |-> w] \in net =>
                      [kind |-> k, call |-> c, to |-> w] \in net'
          /\ \A k, w : [kind |-> k, call |-> c, to |-> w] \in net' =>
                      \/ [kind |-> k, call |-> c, to |-> w] \in net
                      \/ k = op /\ w = m
          /\ v \in ready => [kind |-> op, call |-> c, to |-> m] \in net'
      BY <1>4, <2>1, <2>4
    <3> QED BY <1>2, <1>4, <1>9, <2>1, <2>2, <2>4, <3>1, <3>2, <3>3
            DEF Served, Coming, Offering, Rings, Talks, Accepting, Refusing, Leaving, NoCmd
  <2>5. CASE c = d /\ v = m
    <3>1. v \in ready
      BY <1>2, <1>9, <2>5 DEF Served
    <3>2. cmd'[n] = cmd[n] /\ cmd'[m] = NoCmd
      BY <1>5, <2>1, <2>5
    <3>3. /\ \A k, w : [kind |-> k, call |-> c, to |-> w] \in net =>
                      [kind |-> k, call |-> c, to |-> w] \in net'
          /\ \A k, w : [kind |-> k, call |-> c, to |-> w] \in net' =>
                      \/ [kind |-> k, call |-> c, to |-> w] \in net
                      \/ k = op /\ w = n
          /\ [kind |-> op, call |-> c, to |-> n] \in net'
      BY <1>4, <2>1, <2>5, <3>1
    <3> QED BY <1>2, <1>4, <1>9, <2>1, <2>2, <2>5, <3>1, <3>2, <3>3
            DEF Served, Coming, Offering, Rings, Talks, Accepting, Refusing, Leaving, NoCmd
  <2> QED BY <2>1, <2>3, <2>4, <2>5
<1>10. caller' = caller /\ spoiled' = spoiled
  BY <1>4
<1> QED BY <1>6, <1>7, <1>8, <1>9, <1>10, SameCallsKeep

\* The command fails: its call is spoiled, and the others do not notice.
LEMMA SendFailsServes ==
  ASSUME SInv, IInv', NEW v \in Nodes, SendCmdFails(v)
  PROVE  SInv'
<1>1. TypeOK /\ CallsAreStarted /\ OwnNeverRings
  BY DEF SInv, IInv
<1>2. PICK d \in CallIds : cmd[v].call = d
  BY <1>1 DEF SendCmdFails, TypeOK, Command
<1>3. /\ cmd' = [cmd EXCEPT ![v] = NoCmd] /\ d \in spoiled' /\ spoiled \subseteq spoiled'
      /\ UNCHANGED <<caller, call, waiter, busy, ready, net>>
      /\ cur' = cur \/ (cur[v] = d /\ cur' = [cur EXCEPT ![v] = NoCall])
  BY <1>2, NoCallAssumption DEF SendCmdFails, Fault
<1>4. /\ cmd'[v] = NoCmd /\ \A n \in Nodes : n # v => cmd'[n] = cmd[n]
      /\ \A n \in Nodes : cur'[n] = cur[n] \/ (cur[n] = d /\ cur'[n] = NoCall)
  BY <1>1, <1>3 DEF TypeOK
<1>5. \A n \in Nodes : {cur'[n], cmd'[n].call, busy'[n]} \subseteq Started \cup {NoCall}
  BY <1>1, <1>3, <1>4 DEF CallsAreStarted, NoCmd
<1>6. \A e \in net' : e.call \in Started
  BY <1>1, <1>3 DEF CallsAreStarted
<1>7. ASSUME NEW c \in Started
      PROVE  call'[caller[c]][c] # "in" /\ (cur'[caller[c]] = c => cur[caller[c]] = c)
  BY <1>1, <1>3, <1>4, Parties DEF OwnNeverRings
<1>8. ASSUME NEW c \in Started \ spoiled', NEW n \in Nodes, NEW m \in Nodes,
              n = caller[c], m = Callee(c), Served(c, n, m), cur'[n] = c
      PROVE  Served(c, n, m)'
  <2>1. c # d /\ c # NoCall /\ cur[n] = c
    BY <1>1, <1>3, <1>7, <1>8, Parties
  <2>2. \A k \in {"offer", "accept", "reject", "hangup"}, w \in Nodes :
          cmd'[w] = [op |-> k, call |-> c] <=> cmd[w] = [op |-> k, call |-> c]
    BY <1>2, <1>4, <2>1 DEF NoCmd
  <2>3. /\ cmd'[m].call = c => cmd[m].call = c
        /\ cur'[m] = c <=> cur[m] = c
    BY <1>4, <2>1 DEF NoCmd
  <2> QED BY <1>3, <1>8, <2>1, <2>2, <2>3
          DEF Served, Coming, Offering, Rings, Talks, Accepting, Refusing, Leaving
<1>9. caller' = caller /\ spoiled \subseteq spoiled'
  BY <1>3
<1> QED BY <1>5, <1>6, <1>7, <1>8, <1>9, SameCallsKeep

\* offerWhenReady leaves its call held and offered, or gives it up.
LEMMA WaitingServes ==
  ASSUME SInv, IInv', NEW d \in CallIds, Waiting(d)
  PROVE  SInv'
<1> USE DEF Waiting, WaiterCheck, WaiterSend, WaiterCancel, WaiterDeadline, WaiterFails
<1>1. TypeOK /\ CallsAreStarted /\ OwnNeverRings /\ OfferGoesOut
  BY DEF SInv, IInv
<1>2. caller[d] \in Nodes /\ d \in Started /\ waiter[d] # "none"
  BY <1>1 DEF OfferGoesOut, Started, Nodes
<1>3. PICK v \in Nodes : v = caller[d]
  BY <1>2
<1>4. /\ UNCHANGED <<caller, cmd, busy, ready>> /\ spoiled \subseteq spoiled'
      /\ \E pc : waiter' = [waiter EXCEPT ![d] = pc]
  BY DEF SetWaiter, GiveUp, Fault
<1>5. /\ \/ net' = net
         \/ net' = net \cup {[kind |-> "offer", call |-> d, to |-> Other(v)]}
         \/ /\ net' = net \cup {[kind |-> "cancel", call |-> d, to |-> Other(v)]}
            /\ cur[v] # d /\ UNCHANGED <<cur, call>>
      /\ \/ UNCHANGED <<cur, call>>
         \/ cur[v] = d /\ EndCall(v, d)
  BY <1>3 DEF Send, GiveUp
<1>6. /\ \A n \in Nodes : cur'[n] = cur[n] \/ (n = v /\ cur[n] = d /\ cur'[n] = NoCall)
      /\ \A n \in Nodes, c \in CallIds :
           call'[n][c] = call[n][c] \/ (n = v /\ c = d /\ call'[n][c] = "ended")
      /\ UNCHANGED <<cur, call>> \/ cur'[v] = NoCall
  <2>1. CASE UNCHANGED <<cur, call>>
    BY <2>1
  <2>2. CASE cur[v] = d /\ EndCall(v, d)
    <3>1. cur' = [cur EXCEPT ![v] = NoCall] /\ SetCall(v, d, "ended")
      BY <2>2 DEF EndCall
    <3>2. \A n \in Nodes, c \in CallIds :
            call'[n][c] = call[n][c] \/ (n = v /\ c = d /\ call'[n][c] = "ended")
      BY <1>1, <3>1, SetCallEffect DEF CallState
    <3>3. cur'[v] = NoCall /\ \A n \in Nodes : n # v => cur'[n] = cur[n]
      BY <1>1, <3>1 DEF TypeOK
    <3> QED BY <2>2, <3>2, <3>3
  <2> QED BY <1>5, <2>1, <2>2
<1>7. \A n \in Nodes : {cur'[n], cmd'[n].call, busy'[n]} \subseteq Started \cup {NoCall}
  BY <1>1, <1>4, <1>6 DEF CallsAreStarted
<1>8. \A e \in net' : e.call \in Started
  BY <1>1, <1>2, <1>5 DEF CallsAreStarted
<1>9. ASSUME NEW c \in Started
      PROVE  call'[caller[c]][c] # "in" /\ (cur'[caller[c]] = c => cur[caller[c]] = c)
  BY <1>1, <1>6, <1>9, Parties DEF OwnNeverRings
<1>10. ASSUME NEW c \in Started \ spoiled', NEW n \in Nodes, NEW m \in Nodes,
              n = caller[c], m = Callee(c), Served(c, n, m), cur'[n] = c
       PROVE  Served(c, n, m)'
  <2>1. /\ c \in CallIds /\ c # NoCall /\ n # m /\ Other(n) = m /\ Other(m) = n
        /\ cur[n] = c
    BY <1>1, <1>9, <1>10, Parties
  <2>2. CASE c # d
    <3>1. /\ waiter'[c] = waiter[c]
          /\ \A w \in Nodes : call'[w][c] = call[w][c] /\ (cur'[w] = c <=> cur[w] = c)
      BY <1>1, <1>4, <1>6, <2>1, <2>2 DEF TypeOK
    <3>2. \A k, w : [kind |-> k, call |-> c, to |-> w] \in net' <=>
                    [kind |-> k, call |-> c, to |-> w] \in net
      BY <1>5, <2>2
    <3> QED BY <1>4, <1>10, <2>1, <3>1, <3>2
            DEF Served, Coming, Offering, Rings, Talks, Accepting, Refusing, Leaving
  <2>3. CASE c = d
    <3>1. v = n /\ UNCHANGED <<cur, call>> /\ cur[n] = c
      BY <1>3, <1>5, <1>6, <1>10, <2>1, <2>3
    <3>2. /\ net' = net \/ net' = net \cup {[kind |-> "offer", call |-> c, to |-> m]}
          /\ net \subseteq net'
      BY <1>5, <2>1, <2>3, <3>1
    <3>3. /\ \A k, w : [kind |-> k, call |-> c, to |-> w] \in net =>
                      [kind |-> k, call |-> c, to |-> w] \in net'
          /\ \A k, w : [kind |-> k, call |-> c, to |-> w] \in net' =>
                      [kind |-> k, call |-> c, to |-> w] \in net \/ k = "offer"
      BY <3>2
    <3>4. call[n][c] = "out" /\ waiter[c] \in {"sleep", "checked"} =>
            \/ waiter'[c] \in {"sleep", "checked"}
            \/ [kind |-> "offer", call |-> c, to |-> m] \in net'
      <4>1. ~GiveUp(c)
        BY <1>1, <1>10, <2>1, <3>1, NoCallAssumption DEF GiveUp, EndCall, TypeOK
      <4>2. CASE WaiterCheck(c)
        BY <1>1, <1>10, <2>1, <3>1, <4>2 DEF SetWaiter, TypeOK
      <4>3. CASE WaiterSend(c)
        BY <1>1, <1>10, <2>1, <3>1, <4>3 DEF SetWaiter, Send, TypeOK
      <4>4. CASE WaiterCancel(c)
        BY <4>4
      <4>5. ~WaiterDeadline(c) /\ ~WaiterFails(c)
        BY <4>1
      <4> QED BY <2>3, <4>2, <4>3, <4>4, <4>5
    <3> QED BY <1>4, <1>10, <2>1, <3>1, <3>3, <3>4
            DEF Served, Coming, Offering, Rings, Talks, Accepting, Refusing, Leaving
  <2> QED BY <2>2, <2>3
<1>11. caller' = caller /\ spoiled \subseteq spoiled'
  BY <1>4
<1> HIDE DEF Waiting, WaiterCheck, WaiterSend, WaiterCancel, WaiterDeadline, WaiterFails
<1> QED BY <1>7, <1>8, <1>9, <1>10, <1>11, SameCallsKeep

\* The hook of a refused offer sends its reject, or the call is spoiled.
LEMMA BusyServes ==
  ASSUME SInv, IInv', NEW v \in Nodes, AutoReject(v) \/ AutoRejectFails(v)
  PROVE  SInv'
<1>1. TypeOK /\ CallsAreStarted /\ OwnNeverRings
  BY DEF SInv, IInv
<1>2. PICK d \in CallIds : busy[v] = d
  BY <1>1 DEF AutoReject, AutoRejectFails, TypeOK
<1>3. /\ UNCHANGED <<caller, cur, call, cmd, waiter, ready>> /\ spoiled \subseteq spoiled'
      /\ busy' = [busy EXCEPT ![v] = NoCall]
      /\ \/ net' = net \cup {[kind |-> "reject", call |-> d, to |-> Other(v)]}
         \/ net' = net /\ d \in spoiled'
  BY <1>2, NoCallAssumption DEF AutoReject, AutoRejectFails, Send, Fault
<1>4. d \in Started
  BY <1>1, <1>2, NoCallAssumption DEF CallsAreStarted
<1>5. busy'[v] = NoCall /\ \A n \in Nodes : n # v => busy'[n] = busy[n]
  BY <1>1, <1>3 DEF TypeOK
<1>6. \A n \in Nodes : {cur'[n], cmd'[n].call, busy'[n]} \subseteq Started \cup {NoCall}
  BY <1>1, <1>3, <1>5 DEF CallsAreStarted
<1>7. \A e \in net' : e.call \in Started
  BY <1>1, <1>3, <1>4 DEF CallsAreStarted
<1>8. \A c \in Started : call'[caller[c]][c] # "in" /\ cur'[caller[c]] = cur[caller[c]]
  BY <1>1, <1>3 DEF OwnNeverRings
<1>9. ASSUME NEW c \in Started \ spoiled', NEW n \in Nodes, NEW m \in Nodes,
              n = caller[c], m = Callee(c), Served(c, n, m), cur'[n] = c
      PROVE  Served(c, n, m)'
  <2>1. n # m /\ Other(m) = n
    BY <1>1, <1>9, Parties
  <2>2. /\ \A k, w : [kind |-> k, call |-> c, to |-> w] \in net =>
                    [kind |-> k, call |-> c, to |-> w] \in net'
        /\ \A k, w : [kind |-> k, call |-> c, to |-> w] \in net' =>
                    [kind |-> k, call |-> c, to |-> w] \in net \/ k = "reject"
    BY <1>3
  <2>3. busy[m] = c => busy'[m] = c \/ [kind |-> "reject", call |-> c, to |-> n] \in net'
    BY <1>2, <1>3, <1>5, <1>9, <2>1
  <2> QED BY <1>3, <1>9, <2>2, <2>3
          DEF Served, Coming, Offering, Rings, Talks, Accepting, Refusing, Leaving
<1>10. caller' = caller /\ spoiled \subseteq spoiled'
  BY <1>3
<1> QED BY <1>6, <1>7, <1>8, <1>9, <1>10, SameCallsKeep

\* What each handler makes of its envelope.
LEMMA HandleCases ==
  ASSUME TypeOK, NEW v \in Nodes, NEW e \in net, NEW d, d = e.call, NEW o, o = Handle(v, e)
  PROVE  /\ e.kind \in {"offer", "accept", "reject", "hangup", "cancel"}
         /\ \/ /\ o = Unmoved(v, d)
               /\ e.kind = "offer" => Refuses(v)
               /\ e.kind \in {"hangup", "cancel"} => cur[v] # d
               /\ e.kind \in {"accept", "reject"} => cur[v] # d \/ call[v][d] # "out"
            \/ e.kind = "offer" /\ o = Outcome(d, "in") /\ ~Refuses(v)
            \/ /\ e.kind = "accept" /\ o = Outcome(d, "active")
               /\ cur[v] = d /\ call[v][d] = "out"
            \/ /\ e.kind = "reject" /\ o = Outcome(NoCall, "ended")
               /\ cur[v] = d /\ call[v][d] = "out"
            \/ /\ e.kind \in {"hangup", "cancel"} /\ o = Outcome(NoCall, "ended")
               /\ cur[v] = d
<1>1. e.kind \in {"offer", "accept", "reject", "hangup", "cancel"}
  BY DEF TypeOK, Envelope
<1>2. CASE e.kind = "offer"
  BY <1>2 DEF Handle, OnOffer
<1>3. CASE e.kind = "accept"
  BY <1>3 DEF Handle, OnAnswer
<1>4. CASE e.kind = "reject"
  BY <1>4 DEF Handle, OnAnswer
<1>5. CASE e.kind \in {"hangup", "cancel"}
  BY <1>5 DEF Handle, OnHangup
<1> QED BY <1>1, <1>2, <1>3, <1>4, <1>5

\* The delivery loop handles an envelope: the last thing it takes from a held call's
\* envelopes is replaced by what the handler leaves in the memory or in the hook.
LEMMA ReceiveServes ==
  ASSUME SInv, IInv', NEW v \in Nodes, NEW e \in net, Receive(v, e) \/ RolledBack(v, e)
  PROVE  SInv'
<1>1. TypeOK /\ CallsAreStarted /\ OwnNeverRings /\ OfferGoesOut
  BY DEF SInv, IInv
<1>2. PICK d \in Started : d = e.call
  BY <1>1 DEF CallsAreStarted
<1>3. PICK o : o = Handle(v, e)
  OBVIOUS
<1>4. /\ e.to = v /\ busy[v] = NoCall /\ ready \subseteq ready'
      /\ UNCHANGED <<caller, cmd, waiter>> /\ spoiled \subseteq spoiled'
      /\ SetCall(v, d, o.state) /\ cur' = [cur EXCEPT ![v] = o.cur]
      /\ \/ /\ net' = net \ {e} /\ v \in ready'
            /\ busy' = [busy EXCEPT ![v] =
                           IF e.kind = "offer" /\ Refuses(v) THEN d ELSE NoCall]
         \/ net' = net /\ d \in spoiled' /\ busy' = busy
  BY <1>1, <1>2, <1>3, NoCallAssumption DEF Receive, RolledBack, Takes, Remember, Fault, Started
<1>5. /\ e.kind \in {"offer", "accept", "reject", "hangup", "cancel"}
      /\ e.kind = "offer" => v # caller[d]
  BY <1>1, <1>2, <1>4, Parties, OtherNode DEF OfferGoesOut, TypeOK, Envelope
<1>6. \/ /\ o.cur = cur[v] /\ o.state = call[v][d]
         /\ e.kind = "offer" => Refuses(v)
         /\ e.kind \in {"hangup", "cancel"} => cur[v] # d
         /\ e.kind \in {"accept", "reject"} => cur[v] # d \/ call[v][d] # "out"
      \/ e.kind = "offer" /\ o.cur = d /\ o.state = "in" /\ ~Refuses(v)
      \/ e.kind = "accept" /\ o.cur = d /\ o.state = "active" /\ cur[v] = d /\ call[v][d] = "out"
      \/ /\ e.kind = "reject" /\ o.cur = NoCall /\ o.state = "ended"
         /\ cur[v] = d /\ call[v][d] = "out"
      \/ e.kind \in {"hangup", "cancel"} /\ o.cur = NoCall /\ o.state = "ended" /\ cur[v] = d
  BY <1>1, <1>2, <1>3, HandleCases DEF Unmoved, Outcome
<1>7. /\ call'[v][d] = o.state
      /\ \A n \in Nodes, c \in CallIds : n # v \/ c # d => call'[n][c] = call[n][c]
      /\ cur'[v] = o.cur /\ \A n \in Nodes : n # v => cur'[n] = cur[n]
  <2>1. d \in CallIds /\ o.state \in CallState
    BY <1>1, <1>2, <1>3, HandleOutcome
  <2> QED BY <1>1, <1>4, <2>1, SetCallEffect DEF TypeOK
<1>8. \A n \in Nodes : {cur'[n], cmd'[n].call, busy'[n]} \subseteq Started \cup {NoCall}
  <2>1. \A n \in Nodes : cur'[n] \in Started \cup {NoCall}
    BY <1>1, <1>6, <1>7 DEF CallsAreStarted
  <2>2. \A n \in Nodes : busy'[n] \in Started \cup {NoCall}
    BY <1>1, <1>4 DEF CallsAreStarted, TypeOK
  <2> QED BY <1>1, <1>4, <2>1, <2>2 DEF CallsAreStarted
<1>9. \A f \in net' : f.call \in Started
  BY <1>1, <1>4 DEF CallsAreStarted
<1>10. ASSUME NEW c \in Started
       PROVE  call'[caller[c]][c] # "in" /\ (cur'[caller[c]] = c => cur[caller[c]] = c)
  <2>1. c \in CallIds /\ caller[c] \in Nodes /\ c # NoCall /\ call[caller[c]][c] # "in"
    BY <1>1, Parties DEF OwnNeverRings
  <2> QED BY <1>5, <1>6, <1>7, <2>1
<1>11. ASSUME NEW c \in Started \ spoiled', NEW n \in Nodes, NEW m \in Nodes,
              n = caller[c], m = Callee(c), Served(c, n, m), cur'[n] = c
       PROVE  Served(c, n, m)'
  <2>1. /\ c \in CallIds /\ c # NoCall /\ n # m /\ cur[n] = c
        /\ v = n \/ v = m
    BY <1>1, <1>10, <1>11, Parties
  <2>2. CASE c # d
    <3>1. \A k, w : [kind |-> k, call |-> c, to |-> w] \in net' <=>
                    [kind |-> k, call |-> c, to |-> w] \in net
      BY <1>2, <1>4, <2>2
    <3>2. \A w \in Nodes : call'[w][c] = call[w][c]
      BY <1>7, <2>1, <2>2
    <3>3. cur'[m] = c => cur[m] = c
      BY <1>6, <1>7, <2>1, <2>2
    <3>4. cur[m] = c /\ call[m][c] # "out" => cur'[m] = c
      BY <1>6, <1>7, <2>1, <2>2 DEF Refuses, Yields, InCall
    <3>5. busy[m] = c => busy'[m] = c
      BY <1>1, <1>4, <2>1 DEF TypeOK
    <3>6. m \notin ready' => m \notin ready
      BY <1>4
    <3> QED BY <1>4, <1>11, <2>1, <3>1, <3>2, <3>3, <3>4, <3>5, <3>6
            DEF Served, Coming, Offering, Rings, Talks, Accepting, Refusing, Leaving
  <2>3. CASE c = d /\ v = n
    <3>1. /\ \A k, w : [kind |-> k, call |-> c, to |-> w] \in net' =>
                      [kind |-> k, call |-> c, to |-> w] \in net
          /\ \A k, w : [kind |-> k, call |-> c, to |-> w] \in net /\ k # e.kind =>
                      [kind |-> k, call |-> c, to |-> w] \in net'
          /\ \A k : [kind |-> k, call |-> c, to |-> m] \in net =>
                  [kind |-> k, call |-> c, to |-> m] \in net'
      BY <1>4, <2>1, <2>3
    <3>2. call'[m][c] = call[m][c] /\ cur'[m] = cur[m] /\ busy'[m] = busy[m]
      BY <1>1, <1>4, <1>7, <2>1, <2>3 DEF TypeOK
    <3>3. e.kind \in {"accept", "reject"}
      BY <1>5, <1>6, <1>7, <1>11, <2>1, <2>3
    <3>4. e = [kind |-> e.kind, call |-> c, to |-> n]
      BY <1>1, <1>2, <1>4, <2>3 DEF TypeOK, Envelope
    <3>5. call[n][c] = "active" \/ Accepting(c, n, m)
      <4>1. CASE e.kind = "accept"
        BY <3>4, <4>1 DEF Accepting, Coming
      <4>2. CASE e.kind = "reject"
        <5>1. call[n][c] # "out"
          BY <1>6, <1>7, <1>11, <2>1, <2>3, <4>2
        <5> QED BY <1>1, <1>11, <2>1, <5>1 DEF TypeOK, OwnNeverRings
      <4> QED BY <3>3, <4>1, <4>2
    <3>6. call'[n][c] # "out"
      BY <1>6, <1>7, <1>11, <2>1, <2>3, <3>3
    <3>7. m \notin ready' => m \notin ready
      BY <1>4
    <3> QED BY <1>4, <1>11, <2>1, <2>3, <3>1, <3>2, <3>3, <3>5, <3>6, <3>7
            DEF Served, Coming, Offering, Rings, Talks, Accepting, Refusing, Leaving
  <2>4. CASE c = d /\ v = m
    <3>1. /\ \A k, w : [kind |-> k, call |-> c, to |-> w] \in net' =>
                      [kind |-> k, call |-> c, to |-> w] \in net
          /\ \A k : [kind |-> k, call |-> c, to |-> n] \in net =>
                  [kind |-> k, call |-> c, to |-> n] \in net'
          /\ \A k, w : [kind |-> k, call |-> c, to |-> w] \in net /\ k # e.kind =>
                      [kind |-> k, call |-> c, to |-> w] \in net'
      BY <1>4, <2>1, <2>4
    <3>2. call'[n][c] = call[n][c]
      BY <1>7, <2>1, <2>4
    <3>3. m \in ready'
      BY <1>4, <1>11, <2>4
    <3>4. e = [kind |-> e.kind, call |-> c, to |-> m]
      BY <1>1, <1>2, <1>4, <2>4 DEF TypeOK, Envelope
    <3>5. e.kind \in {"offer", "accept", "reject"}
      BY <1>5, <1>11, <3>4 DEF Served, Coming
    <3>6. busy[m] # c
      BY <1>4, <2>1, <2>4
    <3>7. CASE e.kind = "offer"
      <4>1. /\ Refuses(m) => busy'[m] = c /\ cur'[m] = cur[m] /\ call'[m][c] = call[m][c]
            /\ ~Refuses(m) => cur'[m] = c /\ call'[m][c] = "in" /\ ~Talks(c, m)
        BY <1>1, <1>4, <1>6, <1>7, <1>11, <2>1, <2>4, <3>7
           DEF Refuses, Yields, InCall, Talks, TypeOK
      <4> QED BY <1>4, <1>11, <2>1, <3>1, <3>2, <3>3, <3>7, <4>1
              DEF Served, Coming, Offering, Rings, Talks, Accepting, Refusing, Leaving
    <3>8. CASE e.kind \in {"accept", "reject"}
      <4>1. cur[m] = c /\ call[m][c] # "out" => cur'[m] = c /\ call'[m][c] = call[m][c]
        BY <1>6, <1>7, <2>1, <2>4, <3>8
      <4> QED BY <1>4, <1>11, <2>1, <3>1, <3>2, <3>3, <3>6, <3>8, <4>1
              DEF Served, Coming, Offering, Rings, Talks, Accepting, Refusing, Leaving
    <3> QED BY <3>5, <3>7, <3>8
  <2> QED BY <2>1, <2>2, <2>3, <2>4
<1>12. caller' = caller /\ spoiled \subseteq spoiled'
  BY <1>4
<1> QED BY <1>8, <1>9, <1>10, <1>11, <1>12, SameCallsKeep

\* A new session only adds who can send; a restart spoils what it forgets.
LEMMA WorldServes ==
  ASSUME SInv, IInv', NEW v \in Nodes, SessionReady(v) \/ Restart(v)
  PROVE  SInv'
<1>1. TypeOK /\ CallsAreStarted /\ OwnNeverRings
  BY DEF SInv, IInv
<1>2. /\ UNCHANGED <<caller, call, net>> /\ ready \subseteq ready' /\ spoiled \subseteq spoiled'
      /\ \A n \in Nodes :
           /\ cur'[n] = cur[n] \/ (n = v /\ cur'[n] = NoCall)
           /\ cmd'[n] = cmd[n] \/ (n = v /\ cmd'[n] = NoCmd)
           /\ busy'[n] = busy[n] \/ (n = v /\ busy'[n] = NoCall)
      /\ \A c \in Started \ spoiled' :
           /\ waiter'[c] = waiter[c]
           /\ \A n \in Nodes :
                /\ cur[n] = c <=> cur'[n] = c
                /\ cmd[n].call = c \/ cmd'[n].call = c => cmd'[n] = cmd[n]
                /\ busy[n] = c <=> busy'[n] = c
  <2>1. CASE SessionReady(v)
    BY <2>1 DEF SessionReady
  <2>2. CASE Restart(v)
    <3>1. /\ UNCHANGED <<caller, call, ready, net>>
          /\ spoiled' = spoiled \cup
               (({cur[v], cmd[v].call, busy[v]}
                   \cup {c \in CallIds : caller[c] = v /\ waiter[c] # "none"}) \ {NoCall})
          /\ cur' = [cur EXCEPT ![v] = NoCall] /\ cmd' = [cmd EXCEPT ![v] = NoCmd]
          /\ waiter' = [c \in CallIds |-> IF caller[c] = v THEN "none" ELSE waiter[c]]
          /\ busy' = [busy EXCEPT ![v] = NoCall]
      BY <2>2 DEF Restart, Fault
    <3>2. /\ cur'[v] = NoCall /\ cmd'[v] = NoCmd /\ busy'[v] = NoCall
          /\ \A n \in Nodes : n # v =>
               cur'[n] = cur[n] /\ cmd'[n] = cmd[n] /\ busy'[n] = busy[n]
      BY <1>1, <3>1 DEF TypeOK
    <3>3. ASSUME NEW c \in Started \ spoiled'
          PROVE  /\ waiter'[c] = waiter[c]
                 /\ \A n \in Nodes :
                      /\ cur[n] = c <=> cur'[n] = c
                      /\ cmd[n].call = c \/ cmd'[n].call = c => cmd'[n] = cmd[n]
                      /\ busy[n] = c <=> busy'[n] = c
      <4>1. /\ c \in CallIds /\ c # NoCall
            /\ cur[v] # c /\ cmd[v].call # c /\ busy[v] # c
            /\ caller[c] = v => waiter[c] = "none"
        BY <1>1, <3>1, Parties
      <4>2. waiter'[c] = waiter[c]
        BY <3>1, <4>1
      <4> QED BY <3>2, <4>1, <4>2 DEF NoCmd
    <3> QED BY <3>1, <3>2, <3>3
  <2> QED BY <2>1, <2>2
<1>3. ASSUME NEW n \in Nodes
      PROVE  /\ cur'[n] = cur[n] \/ cur'[n] = NoCall
             /\ cmd'[n].call = cmd[n].call \/ cmd'[n].call = NoCall
             /\ busy'[n] = busy[n] \/ busy'[n] = NoCall
  BY <1>2 DEF NoCmd
<1>4. \A n \in Nodes : {cur'[n], cmd'[n].call, busy'[n]} \subseteq Started \cup {NoCall}
  BY <1>1, <1>3 DEF CallsAreStarted
<1>5. \A e \in net' : e.call \in Started
  BY <1>1, <1>2 DEF CallsAreStarted
<1>6. ASSUME NEW c \in Started
      PROVE  call'[caller[c]][c] # "in" /\ (cur'[caller[c]] = c => cur[caller[c]] = c)
  <2>1. call'[caller[c]][c] # "in"
    BY <1>1, <1>2 DEF OwnNeverRings
  <2>2. caller[c] \in Nodes /\ c # NoCall
    BY <1>1, Parties
  <2> QED BY <1>3, <2>1, <2>2
<1>7. ASSUME NEW c \in Started \ spoiled', NEW n \in Nodes, NEW m \in Nodes,
             n = caller[c], m = Callee(c), Served(c, n, m), cur'[n] = c
      PROVE  Served(c, n, m)'
  <2>1. \A k \in {"offer", "accept", "reject", "hangup"}, w \in Nodes :
          cmd'[w] = [op |-> k, call |-> c] <=> cmd[w] = [op |-> k, call |-> c]
    BY <1>2, <1>7
  <2>2. /\ m \notin ready' => m \notin ready
        /\ cmd'[m].call = c => cmd[m].call = c
    BY <1>2, <1>7
  <2> QED BY <1>2, <1>7, <2>1, <2>2
          DEF Served, Coming, Offering, Rings, Talks, Accepting, Refusing, Leaving
<1>8. caller' = caller /\ spoiled \subseteq spoiled'
  BY <1>2
<1> QED BY <1>4, <1>5, <1>6, <1>7, <1>8, SameCallsKeep

LEMMA ServedStep == SInv /\ [Next]_vars => SInv'
<1> SUFFICES ASSUME SInv, [Next]_vars  PROVE SInv'
  OBVIOUS
<1>1. IInv'
  BY CallsStep DEF SInv
<1>2. CASE UNCHANGED vars
  <2>1. \A c : Held(c)' = Held(c) /\ Callee(c)' = Callee(c) /\ Started' = Started
    BY <1>2 DEF vars, Held, Callee, Started
  <2>2. \A c, n, m : Served(c, n, m)' = Served(c, n, m)
    BY <1>2 DEF vars, Served, Coming, Offering, Rings, Talks, Accepting, Refusing, Leaving
  <2>3. CallsAreStarted' /\ OwnNeverRings' /\ HeldAreServed'
    BY <1>2, <2>1, <2>2 DEF vars, SInv, CallsAreStarted, OwnNeverRings, HeldAreServed
  <2> QED BY <1>1, <2>3 DEF SInv
<1>3. ASSUME NEW v \in Nodes, Commands(v)  PROVE SInv'
  BY <1>1, <1>3, StartServes, AnswerServes, SendServes, SendFailsServes DEF Commands
<1>4. ASSUME NEW v \in Nodes, Delivery(v)  PROVE SInv'
  BY <1>1, <1>4, ReceiveServes, BusyServes DEF Delivery
<1> QED
  BY <1>1, <1>2, <1>3, <1>4, WorldServes, WaitingServes DEF Next

\* A caller is never left alone: once nothing is under way, the call it makes rings at
\* the callee and the call it talks in is the callee's too, however commands, answers,
\* hangups and colliding offers crossed, unless a fault touched the call.
THEOREM CallersServed == Spec => []CallerIsServed
  BY ServedInit, ServedStep, ServedMeans, PTL DEF Spec

============================================================================
