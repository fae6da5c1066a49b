----------------------------- MODULE DeskProofs -----------------------------
(***************************************************************************)
(* Theorems about Desk.                                                    *)
(***************************************************************************)
EXTENDS Desk, TLAPS

-----------------------------------------------------------------------------
(* Types                                                                   *)

LEMMA CallEventTyped ==
  ASSUME NEW c \in CallIds, NEW s \in CallState
  PROVE  CallEvent(c, s) \in Event /\ CallEvent(c, s).kind = "call"
  BY DEF CallEvent, Event

LEMMA PresenceEventTyped ==
  ASSUME NEW p \in Peers, NEW b \in BOOLEAN
  PROVE  PresenceEvent(p, b) \in Event
  BY DEF PresenceEvent, Event

LEMMA ResultTyped ==
  ASSUME NEW op \in Ops, NEW done \in BOOLEAN, NEW s \in SUBSET Peers
  PROVE  /\ Result(op, done, s) \in Event
         /\ [pc |-> "reply", result |-> Result(op, done, s)] \in Job
  BY DEF Result, Event, Job

LEMMA CarriesTyped == \A ev \in Event : Carries(ev) \subseteq {"call", "presence"}
  BY DEF Carries

LEMMA CrossesTyped ==
  ASSUME NEW g, NEW kind \in {"call", "presence"}
  PROVE  Crosses(g, kind) \subseteq {"call", "presence"}
  BY DEF Crosses

\* What a push may do to the queues.
LEMMA PushTyped ==
  ASSUME IpcTypeOK, NEW k \in Conns, NEW ev \in Event, Push(k, ev)
  PROVE  /\ sendq' \in [Conns -> Seq(Event)] /\ \A j \in Conns : Len(sendq'[j]) <= EventQueue
         /\ blur' \subseteq {"call", "presence"}
<1>1. CASE /\ Len(sendq[k]) < EventQueue
           /\ sendq' = [sendq EXCEPT ![k] = Append(@, ev)] /\ blur' = blur
  <2>1. /\ sendq[k] \in Seq(Event) /\ Append(sendq[k], ev) \in Seq(Event)
        /\ Len(Append(sendq[k], ev)) = Len(sendq[k]) + 1 /\ Len(sendq[k]) \in Nat
    BY DEF IpcTypeOK
  <2>2. Len(Append(sendq[k], ev)) <= EventQueue
    BY <1>1, <2>1, QueuesAssumption
  <2>. QED BY <1>1, <2>1, <2>2 DEF IpcTypeOK
<1>2. CASE sendq' = sendq /\ blur' = IF k = view.conn THEN blur \cup Carries(ev) ELSE blur
  BY <1>2, CarriesTyped DEF IpcTypeOK
<1>. QED BY <1>1, <1>2 DEF Push

\* The loop of k takes the first command.
LEMMA GoesTyped ==
  ASSUME IpcTypeOK, NEW k \in Conns, cmdq[k] # <<>>, NEW j \in Job, Goes(k, j)
  PROVE  /\ cmdq' \in [Conns -> Seq(Command)] /\ \A i \in Conns : Len(cmdq'[i]) <= CmdQueue
         /\ job' \in [Conns -> Job]
         /\ Head(cmdq[k]) \in Command
<1>1. /\ cmdq[k] \in Seq(Command) /\ Tail(cmdq[k]) \in Seq(Command) /\ Head(cmdq[k]) \in Command
      /\ Len(Tail(cmdq[k])) = Len(cmdq[k]) - 1 /\ Len(cmdq[k]) \in Nat
  BY DEF IpcTypeOK
<1>2. Len(Tail(cmdq[k])) <= CmdQueue
  BY <1>1, QueuesAssumption DEF IpcTypeOK
<1>. QED BY <1>1, <1>2 DEF Goes, IpcTypeOK

LEMMA CommandOp == \A c \in Command : c.op \in Ops
  BY DEF Command, Ops

LEMMA AnswerTyped ==
  ASSUME IpcTypeOK, NEW k \in Conns, cmdq[k] # <<>>, NEW done \in BOOLEAN, NEW s \in SUBSET Peers,
         Answer(k, done, s)
  PROVE  /\ cmdq' \in [Conns -> Seq(Command)] /\ \A i \in Conns : Len(cmdq'[i]) <= CmdQueue
         /\ job' \in [Conns -> Job]
<1>1. Head(cmdq[k]) \in Command
  BY DEF IpcTypeOK
<1>. QED BY <1>1, CommandOp, ResultTyped, GoesTyped DEF Answer

LEMMA EmitTyped ==
  ASSUME IpcTypeOK, NEW g \in Emitters, NEW ev \in Event, Emit(g, ev)
  PROVE  out' \in [Emitters -> Emission]
  BY DEF IpcTypeOK, Emit, Emission

LEMMA EmitOutTyped ==
  ASSUME IpcTypeOK, NEW g \in Emitters, EmitOut(g)
  PROVE  IpcTypeOK'
<1>1. out[g] \in Emission /\ out[g].event \in Event
  BY DEF EmitOut, IpcTypeOK, Emission, NoOut
<1>2. out' \in [Emitters -> Emission]
  BY <1>1 DEF EmitOut, IpcTypeOK, Emission
<1>3. /\ sendq' \in [Conns -> Seq(Event)] /\ \A j \in Conns : Len(sendq'[j]) <= EventQueue
      /\ blur' \subseteq {"call", "presence"}
  <2>1. CASE active = NoConn
    BY <2>1 DEF EmitOut, IpcTypeOK
  <2>2. CASE active # NoConn
    <3>1. active \in Conns /\ Push(active, out[g].event)
      BY <2>2 DEF EmitOut, IpcTypeOK
    <3>. QED BY <1>1, <3>1, PushTyped
  <2>. QED BY <2>1, <2>2
<1>. QED BY <1>2, <1>3 DEF EmitOut, IpcTypeOK

LEMMA NotifyTyped == ASSUME IpcTypeOK, Notify PROVE IpcTypeOK'
<1>1. active \in Conns /\ Note \in Event /\ Push(active, Note)
  BY DEF Notify, IpcTypeOK, Event
<1>2. /\ sendq' \in [Conns -> Seq(Event)] /\ \A j \in Conns : Len(sendq'[j]) <= EventQueue
      /\ blur' \subseteq {"call", "presence"}
  BY <1>1, PushTyped
<1>. QED BY <1>2 DEF Notify, IpcTypeOK

LEMMA OpenTyped == ASSUME IpcTypeOK, NEW k \in Conns, Open(k) PROVE IpcTypeOK'
<1>1. /\ Cmd("chats", NoCall) \in Command
      /\ <<Cmd("chats", NoCall)>> \in Seq(Command) /\ Len(<<Cmd("chats", NoCall)>>) = 1
  BY DEF Cmd, Command
<1>2. cmdq' \in [Conns -> Seq(Command)] /\ \A i \in Conns : Len(cmdq'[i]) <= CmdQueue
  BY <1>1, QueuesAssumption DEF Open, IpcTypeOK
<1>. QED BY <1>2 DEF Open, IpcTypeOK

LEMMA PageLostTyped == ASSUME IpcTypeOK, PageLost PROVE IpcTypeOK'
<1>1. <<>> \in Seq(Event) /\ Len(<<>>) = 0
  OBVIOUS
<1>2. sendq' \in [Conns -> Seq(Event)] /\ \A i \in Conns : Len(sendq'[i]) <= EventQueue
  BY <1>1, QueuesAssumption DEF PageLost, IpcTypeOK
<1>3. view' \in [conn : Conns \cup {NoConn}, call : CallIds \cup {NoCall},
                 state : CallState, online : SUBSET Peers]
  BY DEF PageLost, IpcTypeOK, CallState
<1>. QED BY <1>2, <1>3 DEF PageLost, IpcTypeOK

LEMMA ConnectionTyped == ASSUME IpcTypeOK, NEW k \in Conns, Connection(k) PROVE IpcTypeOK'
<1>1. CASE Swap(k)
  <2>1. blur' \subseteq {"call", "presence"}
    BY <1>1, CrossesTyped DEF Swap, IpcTypeOK
  <2>. QED BY <1>1, <2>1 DEF Swap, IpcTypeOK
<1>2. CASE AuthFails(k)
  BY <1>2 DEF AuthFails, IpcTypeOK
<1>3. CASE ResyncPush(k)
  <2>1. snap[k] \in Event /\ Note \in Event /\ Push(k, snap[k])
    BY <1>3 DEF ResyncPush, IpcTypeOK, Event
  <2>2. /\ sendq' \in [Conns -> Seq(Event)] /\ \A j \in Conns : Len(sendq'[j]) <= EventQueue
        /\ blur' \subseteq {"call", "presence"}
    BY <2>1, PushTyped
  <2>. QED BY <1>3, <2>2 DEF ResyncPush, IpcTypeOK
<1>4. CASE ReadFails(k)
  BY <1>4 DEF ReadFails, IpcTypeOK
<1>. QED BY <1>1, <1>2, <1>3, <1>4 DEF Connection

LEMMA ResyncReadTyped ==
  ASSUME IpcTypeOK, NEW k \in Conns,
         NEW ev \in {Note} \cup [kind : {"call"}, call : CallIds, state : CallState],
         ResyncRead(k, ev)
  PROVE  IpcTypeOK'
<1>1. blur' \subseteq {"call", "presence"}
  BY CrossesTyped DEF ResyncRead, IpcTypeOK
<1>. DEFINE Snaps == {Note} \cup [kind : {"call"}, call : CallIds, state : CallState]
<1>2. /\ snap' \in [Conns -> Snaps]
      /\ conn' \in [Conns -> {"none", "hello", "swapped", "snapped", "open", "closed"}]
  <2>1. snap \in [Conns -> Snaps] /\ ev \in Snaps
    BY DEF IpcTypeOK
  <2>. HIDE DEF Snaps
  <2>2. \/ snap' = snap /\ conn' = [conn EXCEPT ![k] = "open"]
        \/ snap' = [snap EXCEPT ![k] = ev] /\ conn' = [conn EXCEPT ![k] = "snapped"]
    BY DEF ResyncRead
  <2>3. snap' \in [Conns -> Snaps]
    BY <2>1, <2>2
  <2>. QED BY <2>2, <2>3 DEF IpcTypeOK
<1>. QED BY <1>1, <1>2 DEF ResyncRead, IpcTypeOK

LEMMA LoopTyped == ASSUME IpcTypeOK, NEW k \in Conns, Loop(k) PROVE IpcTypeOK'
<1>1. CASE RunOther(k)
  <2>1. /\ cmdq' \in [Conns -> Seq(Command)] /\ \A i \in Conns : Len(cmdq'[i]) <= CmdQueue
        /\ job' \in [Conns -> Job]
    BY <1>1, AnswerTyped DEF RunOther, Runs
  <2>. QED BY <1>1, <2>1 DEF RunOther, IpcTypeOK
<1>2. CASE Reply(k)
  <2>1. job[k].result \in Event /\ Push(k, job[k].result)
    <3>1. job[k] \in Job /\ job[k].pc = "reply"
      BY <1>2 DEF Reply, IpcTypeOK
    <3>2. job[k].result \in [kind : {"result"}, op : Ops, done : BOOLEAN, online : SUBSET Peers]
      BY <3>1 DEF Job, NoJob
    <3>. QED BY <1>2, <3>2 DEF Reply, Event
  <2>2. /\ sendq' \in [Conns -> Seq(Event)] /\ \A j \in Conns : Len(sendq'[j]) <= EventQueue
        /\ blur' \subseteq {"call", "presence"}
    BY <2>1, PushTyped
  <2>3. job' \in [Conns -> Job]
    BY <1>2 DEF Reply, IpcTypeOK, Job
  <2>. QED BY <1>2, <2>2, <2>3 DEF Reply, IpcTypeOK
<1>. QED BY <1>1, <1>2 DEF Loop

LEMMA ClickTyped ==
  ASSUME IpcTypeOK, NEW op \in Ops \ {"chats"}, NEW p \in Peers, Click(op, p)
  PROVE  IpcTypeOK'
<1>. DEFINE k == view.conn
            c == Cmd(op, IF op \in {"start", "block", "unblock"} THEN p ELSE view.call)
<1>1. k \in Conns /\ c \in Command /\ c.op \in Ops /\ Read(k, c)
  BY DEF Click, IpcTypeOK, Cmd, Command, Ops
<1>2. CASE /\ Len(cmdq[k]) < CmdQueue
           /\ cmdq' = [cmdq EXCEPT ![k] = Append(@, c)] /\ UNCHANGED <<sendq, blur>>
  <2>. HIDE DEF c
  <2>1. /\ cmdq[k] \in Seq(Command) /\ Append(cmdq[k], c) \in Seq(Command)
        /\ Len(Append(cmdq[k], c)) = Len(cmdq[k]) + 1 /\ Len(cmdq[k]) \in Nat
    BY <1>1 DEF IpcTypeOK
  <2>2. Len(Append(cmdq[k], c)) <= CmdQueue
    BY <1>2, <2>1, QueuesAssumption
  <2>3. cmdq' \in [Conns -> Seq(Command)] /\ \A i \in Conns : Len(cmdq'[i]) <= CmdQueue
    BY <1>2, <2>1, <2>2 DEF IpcTypeOK
  <2>. QED BY <1>2, <2>3 DEF Click, IpcTypeOK
<1>3. CASE Push(k, Result(c.op, FALSE, {})) /\ cmdq' = cmdq
  <2>. HIDE DEF c
  <2>1. /\ sendq' \in [Conns -> Seq(Event)] /\ \A j \in Conns : Len(sendq'[j]) <= EventQueue
        /\ blur' \subseteq {"call", "presence"}
    BY <1>1, <1>3, ResultTyped, PushTyped
  <2>. QED BY <1>3, <2>1 DEF Click, IpcTypeOK
<1>. QED BY <1>1, <1>2, <1>3 DEF Read

LEMMA ShownTyped ==
  ASSUME IpcTypeOK, NEW ev \in Event
  PROVE  Shown(ev) \in [conn : Conns \cup {NoConn}, call : CallIds \cup {NoCall},
                        state : CallState, online : SUBSET Peers]
<1>1. CASE ev \in [kind : {"call"}, call : CallIds, state : CallState]
  <2>1. /\ ev.kind = "call"
        /\ Bar(ev).call \in CallIds \cup {NoCall} /\ Bar(ev).state \in CallState
    BY <1>1 DEF Bar, CallState
  <2>. QED BY <2>1 DEF Shown, IpcTypeOK
<1>2. CASE ev \in [kind : {"presence"}, peer : Peers, online : BOOLEAN]
  BY <1>2 DEF Shown, IpcTypeOK
<1>3. CASE ev \in [kind : {"result"}, op : Ops, done : BOOLEAN, online : SUBSET Peers]
  BY <1>3 DEF Shown, IpcTypeOK
<1>4. CASE ev = Note
  BY <1>4 DEF Shown, IpcTypeOK, Note
<1>. QED BY <1>1, <1>2, <1>3, <1>4 DEF Event

LEMMA ReceiveTyped == ASSUME IpcTypeOK, Receive PROVE IpcTypeOK'
<1>. DEFINE k == view.conn
            ev == Head(sendq[k])
            rest == Tail(sendq[k])
            asked == Follows(ev) /\ Len(cmdq[k]) < CmdQueue
<1>1. /\ k \in Conns /\ sendq[k] \in Seq(Event) /\ ev \in Event /\ rest \in Seq(Event)
      /\ Len(rest) = Len(sendq[k]) - 1 /\ Len(sendq[k]) \in Nat /\ Len(sendq[k]) <= EventQueue
  BY DEF Receive, IpcTypeOK
<1>2. view' \in [conn : Conns \cup {NoConn}, call : CallIds \cup {NoCall},
                 state : CallState, online : SUBSET Peers]
  BY <1>1, ShownTyped DEF Receive
<1>3. cmdq' \in [Conns -> Seq(Command)] /\ \A i \in Conns : Len(cmdq'[i]) <= CmdQueue
  <2>1. Cmd("chats", NoCall) \in Command
    BY DEF Cmd, Command
  <2>. DEFINE more == Append(cmdq[k], Cmd("chats", NoCall))
  <2>2. more \in Seq(Command) /\ Len(more) = Len(cmdq[k]) + 1 /\ Len(cmdq[k]) \in Nat
    BY <1>1, <2>1 DEF IpcTypeOK
  <2>3. CASE asked
    <3>1. Len(more) <= CmdQueue
      BY <2>2, <2>3, QueuesAssumption
    <3>2. cmdq' = [cmdq EXCEPT ![k] = more]
      BY <2>3 DEF Receive
    <3>. QED BY <1>1, <2>2, <3>1, <3>2 DEF IpcTypeOK
  <2>4. CASE ~asked
    BY <2>4 DEF Receive, IpcTypeOK
  <2>. QED BY <2>3, <2>4
<1>4. sendq' \in [Conns -> Seq(Event)] /\ \A i \in Conns : Len(sendq'[i]) <= EventQueue
  <2>. DEFINE answer == Result("chats", FALSE, {})
              more == Append(rest, answer)
              next == IF Follows(ev) /\ ~asked THEN more ELSE rest
  <2>1. answer \in Event
    BY ResultTyped DEF Ops
  <2>2. more \in Seq(Event) /\ Len(more) = Len(sendq[k]) /\ Len(rest) <= EventQueue
    <3>. HIDE DEF ev, rest, answer, k
    <3>. QED BY <1>1, <2>1, QueuesAssumption
  <2>3. next \in Seq(Event) /\ Len(next) <= EventQueue
    <3>. HIDE DEF ev, rest, more, asked, k
    <3>. QED BY <1>1, <2>2
  <2>4. sendq' = [sendq EXCEPT ![k] = next]
    BY DEF Receive
  <2>. QED BY <1>1, <2>3, <2>4 DEF IpcTypeOK
<1>. QED BY <1>2, <1>3, <1>4 DEF Receive, IpcTypeOK

\* A call that takes a state other than none keeps the types of the call manager.
LEMMA PutTyped ==
  ASSUME MediaTypeOK, NEW c \in CallIds, NEW s \in {"out", "in", "active", "ended"}, Put(c, s),
         party' \in [CallIds -> Peers \cup {NoPeer}], party'[c] \in Peers,
         UNCHANGED <<waiters, session, opening, checked, inbound, dying>>,
         torn' \subseteq CallIds, stray' \in BOOLEAN
  PROVE  MediaTypeOK'
<1>1. call' \in [CallIds -> CallState] /\ call'[c] = s
  BY DEF Put, MediaTypeOK, CallState
<1>2. /\ cur' \in CallIds \cup {NoCall}
      /\ cur' # NoCall => call'[cur'] \in {"out", "in", "active"} /\ party'[cur'] \in Peers
  BY <1>1 DEF Put
<1>3. raced' \subseteq CallIds
  BY DEF Put, MediaTypeOK
<1>. QED BY <1>1, <1>2, <1>3 DEF MediaTypeOK

LEMMA CallOpsAreOps == CallOps \subseteq Ops
  BY DEF CallOps, Ops

LEMMA SendJobTyped ==
  ASSUME NEW op \in CallOps, NEW c \in CallIds
  PROVE  [pc |-> "send", op |-> op, call |-> c] \in Job
  BY DEF Job

\* The first command of k, if it is one on the current call.
LEMMA SubjectTyped ==
  ASSUME IpcTypeOK, NEW k \in Conns, NEW op, Runs(k, op)
  PROVE  /\ cmdq[k] # <<>> /\ Head(cmdq[k]) \in Command /\ Head(cmdq[k]).op = op
         /\ op \in {"start", "block", "unblock"} => Subject(k) \in Peers
<1>1. cmdq[k] \in Seq(Command) /\ cmdq[k] # <<>> /\ Head(cmdq[k]).op = op
  BY DEF Runs, IpcTypeOK
<1>2. Head(cmdq[k]) \in Command
  BY <1>1
<1>. QED BY <1>1, <1>2 DEF Subject, Command

LEMMA MutateTyped ==
  ASSUME IpcTypeOK, MediaTypeOK, NEW k \in Conns, Mutate(k)
  PROVE  IpcTypeOK' /\ MediaTypeOK'
<1>1. ASSUME Refused(k), cmdq[k] # <<>> PROVE IpcTypeOK' /\ MediaTypeOK'
  <2>1. /\ cmdq' \in [Conns -> Seq(Command)] /\ \A i \in Conns : Len(cmdq'[i]) <= CmdQueue
        /\ job' \in [Conns -> Job]
    BY <1>1, AnswerTyped DEF Refused
  <2>2. IpcTypeOK'
    BY <1>1, <2>1 DEF Refused, Mutate, IpcTypeOK
  <2>3. MediaTypeOK'
    BY <1>1 DEF Refused, Mutate, MediaTypeOK
  <2>. QED BY <2>2, <2>3
<1>2. ASSUME NEW c \in CallIds, NEW s \in {"out", "active", "ended"}, NEW op \in CallOps,
             Runs(k, op), Changed(k, c, s),
             party' \in [CallIds -> Peers \cup {NoPeer}], party'[c] \in Peers
      PROVE  IpcTypeOK' /\ MediaTypeOK'
  <2>1. cmdq[k] # <<>> /\ Head(cmdq[k]).op = op
    BY <1>2, SubjectTyped
  <2>2. /\ cmdq' \in [Conns -> Seq(Command)] /\ \A i \in Conns : Len(cmdq'[i]) <= CmdQueue
        /\ job' \in [Conns -> Job]
    BY <1>2, <2>1, GoesTyped, SendJobTyped DEF Changed
  <2>3. blur' \subseteq {"call", "presence"}
    BY <1>2, CrossesTyped DEF Changed, IpcTypeOK
  <2>4. MediaTypeOK'
    <3>1. torn' \subseteq CallIds /\ stray' \in BOOLEAN
      BY DEF Mutate, MediaTypeOK
    <3>. QED BY <1>2, <3>1, PutTyped DEF Changed, Mutate
  <2>. QED BY <2>2, <2>3, <2>4 DEF Mutate, IpcTypeOK
<1>3. CASE Start(k)
  <2>1. cmdq[k] # <<>> /\ Subject(k) \in Peers /\ Runs(k, "start")
    BY <1>3, SubjectTyped DEF Start
  <2>2. ASSUME NEW c \in Ours, Changed(k, c, "out"), party' = [party EXCEPT ![c] = Subject(k)]
        PROVE  IpcTypeOK' /\ MediaTypeOK'
    <3>1. c \in CallIds /\ "start" \in CallOps
      BY OursAssumption DEF CallOps
    <3>2. party' \in [CallIds -> Peers \cup {NoPeer}] /\ party'[c] \in Peers
      BY <2>1, <2>2, <3>1 DEF MediaTypeOK
    <3>. QED BY <1>2, <2>1, <2>2, <3>1, <3>2
  <2>. QED BY <1>1, <1>3, <2>1, <2>2 DEF Start
<1>4. CASE \E op \in DOMAIN Decides : Decide(k, op)
  <2>1. PICK op \in DOMAIN Decides : Decide(k, op)
    BY <1>4
  <2>2. op \in CallOps /\ Decides[op] \in {"active", "ended"} /\ Runs(k, op) /\ cmdq[k] # <<>>
    BY <2>1, SubjectTyped DEF Decide, Decides, CallOps
  <2>3. CASE Refused(k)
    BY <1>1, <2>2, <2>3
  <2>4. CASE cur # NoCall /\ Changed(k, cur, Decides[op]) /\ party' = party
    <3>1. cur \in CallIds /\ party'[cur] \in Peers /\ party' \in [CallIds -> Peers \cup {NoPeer}]
      BY <2>4 DEF MediaTypeOK
    <3>. QED BY <1>2, <2>2, <2>4, <3>1
  <2>. QED BY <2>1, <2>3, <2>4 DEF Decide
<1>. QED BY <1>3, <1>4 DEF Mutate

\* The job of a loop that sends or tells.
LEMMA JobAt ==
  ASSUME IpcTypeOK, NEW k \in Conns, job[k].pc \in {"send", "tell"}
  PROVE  /\ job[k] \in [pc : {"send", "tell"}, op : CallOps, call : CallIds]
         /\ [job[k] EXCEPT !.pc = "tell"] \in Job
         /\ [job[k] EXCEPT !.pc = "tell"].call = job[k].call
<1>1. job[k] \in Job
  BY DEF IpcTypeOK
<1>2. job[k] \in [pc : {"send", "tell"}, op : CallOps, call : CallIds]
  BY <1>1 DEF Job, NoJob
<1>. QED BY <1>2 DEF Job

LEMMA RepliesTyped ==
  ASSUME IpcTypeOK, NEW k \in Conns, NEW done \in BOOLEAN, job[k].pc \in {"send", "tell"},
         Replies(k, done)
  PROVE  job' \in [Conns -> Job]
<1>1. job[k].op \in Ops
  BY JobAt, CallOpsAreOps
<1>2. [pc |-> "reply", result |-> Result(job[k].op, done, {})] \in Job
  BY <1>1, ResultTyped
<1>. QED BY <1>2 DEF Replies, IpcTypeOK

LEMMA SentTyped ==
  ASSUME IpcTypeOK, MediaTypeOK, NEW k \in Conns, Sent(k),
         job[k].op = "start" => job[k].call \in Ours
  PROVE  IpcTypeOK' /\ MediaTypeOK'
<1>1. job' \in [Conns -> Job]
  BY JobAt DEF Sent, IpcTypeOK
<1>2. IpcTypeOK'
  BY <1>1 DEF Sent, IpcTypeOK
<1>3. waiters' \subseteq Ours
  BY DEF Sent, MediaTypeOK
<1>4. MediaTypeOK'
  BY <1>3 DEF Sent, MediaTypeOK
<1>. QED BY <1>2, <1>4

LEMMA TellTyped ==
  ASSUME IpcTypeOK, MediaTypeOK, NEW k \in Conns, Tell(k)
  PROVE  IpcTypeOK' /\ MediaTypeOK'
<1>1. job[k].op \in CallOps /\ job[k].call \in CallIds
  BY JobAt DEF Tell
<1>2. Told(k) \in CallState
  BY <1>1 DEF Told, CallOps, Decides, CallState, MediaTypeOK
<1>3. out' \in [Emitters -> Emission]
  BY <1>1, <1>2, CallEventTyped, EmitTyped DEF Tell, Emitters
<1>4. job' \in [Conns -> Job]
  BY RepliesTyped DEF Tell
<1>5. IpcTypeOK'
  BY <1>3, <1>4 DEF Tell, IpcTypeOK
<1>6. MediaTypeOK'
  BY DEF Tell, mediaVars, MediaTypeOK
<1>. QED BY <1>5, <1>6

LEMMA SendFailsTyped ==
  ASSUME IpcTypeOK, MediaTypeOK, NEW k \in Conns, SendFails(k)
  PROVE  IpcTypeOK' /\ MediaTypeOK'
<1>1. job' \in [Conns -> Job]
  BY RepliesTyped DEF SendFails
<1>2. blur' \subseteq {"call", "presence"} /\ stray' \in BOOLEAN
  BY DEF SendFails, Unreported, IpcTypeOK, MediaTypeOK
<1>3. cur' = cur \/ cur' = NoCall
  BY DEF SendFails
<1>. QED BY <1>1, <1>2, <1>3 DEF SendFails, IpcTypeOK, MediaTypeOK

LEMMA WaiterTyped ==
  ASSUME IpcTypeOK, MediaTypeOK, NEW c \in CallIds, WaiterEnds(c) \/ WaiterGivesUp(c)
  PROVE  IpcTypeOK' /\ MediaTypeOK'
<1>1. CASE WaiterEnds(c)
  <2>1. IpcTypeOK'
    BY <1>1 DEF WaiterEnds, ipcVars, IpcTypeOK
  <2>2. MediaTypeOK'
    BY <1>1 DEF WaiterEnds, MediaTypeOK
  <2>. QED BY <2>1, <2>2
<1>2. CASE WaiterGivesUp(c)
  <2>1. out' \in [Emitters -> Emission]
    BY <1>2, CallEventTyped, EmitTyped DEF WaiterGivesUp, Emitters, Core, CallState
  <2>2. blur' \subseteq {"call", "presence"}
    BY <1>2, CrossesTyped DEF WaiterGivesUp, IpcTypeOK
  <2>3. call' \in [CallIds -> CallState] /\ cur' = NoCall
    BY <1>2 DEF WaiterGivesUp, Put, MediaTypeOK, CallState
  <2>4. raced' \subseteq CallIds
    BY <1>2 DEF WaiterGivesUp, Put, MediaTypeOK
  <2>5. waiters' \subseteq Ours
    BY <1>2 DEF WaiterGivesUp, MediaTypeOK
  <2>. QED BY <1>2, <2>1, <2>2, <2>3, <2>4, <2>5 DEF WaiterGivesUp, IpcTypeOK, MediaTypeOK
<1>. QED BY <1>1, <1>2

\* What a handler decides is a state of a call that the envelope names.
LEMMA OutcomeTyped ==
  ASSUME NEW e \in Envelope, NEW smaller, Outcome(e, smaller) # "none"
  PROVE  /\ Outcome(e, smaller) \in {"in", "active", "ended"}
         /\ e.kind \in {"offer", "answer", "hangup"} /\ e.call \in CallIds /\ e.from \in Peers
<1>1. CASE e \in [kind : {"offer", "hangup"}, call : CallIds, from : Peers]
  BY <1>1 DEF Outcome
<1>2. CASE e \in [kind : {"answer"}, call : CallIds, from : Peers, accept : BOOLEAN]
  BY <1>2 DEF Outcome
<1>3. CASE e \in [kind : {"pong"}, from : Peers]
  BY <1>3 DEF Outcome
<1>. QED BY <1>1, <1>2, <1>3 DEF Envelope

\* The handler's change of the current call.
LEMMA PartyTyped ==
  ASSUME MediaTypeOK, NEW c \in CallIds, NEW p \in Peers, party' = [party EXCEPT ![c] = p]
  PROVE  party' \in [CallIds -> Peers \cup {NoPeer}] /\ party'[c] = p
  BY DEF MediaTypeOK

LEMMA HandleTyped ==
  ASSUME IpcTypeOK, MediaTypeOK, deliv.env \in Envelope, NEW smaller, Handle(smaller)
  PROVE  IpcTypeOK' /\ MediaTypeOK'
<1>. DEFINE e == deliv.env
            s == IF e.from \in contact THEN Outcome(e, smaller) ELSE "none"
<1>1. Handled(e, s)
  BY DEF Handle
<1>2. CASE s = "none"
  <2>1. IpcTypeOK'
    BY <1>1, <1>2 DEF Handle, Handled, IpcTypeOK
  <2>2. MediaTypeOK'
    BY <1>1, <1>2 DEF Handle, Handled, MediaTypeOK
  <2>. QED BY <2>1, <2>2
<1>3. CASE s # "none"
  <2>1. s \in {"in", "active", "ended"} /\ e.call \in CallIds /\ e.from \in Peers
    BY <1>3, OutcomeTyped
  <2>. HIDE DEF s, e
  <2>2. /\ Put(e.call, s) /\ party' = [party EXCEPT ![e.call] = e.from]
        /\ Emit("delivery", CallEvent(e.call, s)) /\ blur' = blur \cup Crosses("delivery", "call")
    BY <1>1, <1>3 DEF Handled
  <2>3. out' \in [Emitters -> Emission]
    BY <2>1, <2>2, CallEventTyped, EmitTyped DEF Emitters, Core, CallState
  <2>4. blur' \subseteq {"call", "presence"}
    BY <2>2, CrossesTyped DEF IpcTypeOK
  <2>5. UNCHANGED <<waiters, session, opening, checked, inbound, dying, torn, stray>>
    BY DEF Handle
  <2>6. MediaTypeOK'
    <3>1. torn' \subseteq CallIds /\ stray' \in BOOLEAN
      BY <2>5 DEF MediaTypeOK
    <3>2. party' \in [CallIds -> Peers \cup {NoPeer}] /\ party'[e.call] \in Peers
      BY <2>1, <2>2, PartyTyped
    <3>. QED BY <2>1, <2>2, <2>5, <3>1, <3>2, PutTyped
  <2>. QED BY <2>3, <2>4, <2>6 DEF Handle, IpcTypeOK
<1>. QED BY <1>2, <1>3

LEMMA HandleFailsTyped ==
  ASSUME IpcTypeOK, MediaTypeOK, deliv.env \in Envelope, NEW smaller, HandleFails(smaller)
  PROVE  IpcTypeOK' /\ MediaTypeOK'
<1>. DEFINE e == deliv.env
            s == Outcome(e, smaller)
<1>1. RolledBack(e, s)
  BY DEF HandleFails
<1>2. s \in {"in", "active", "ended"} /\ e.call \in CallIds /\ e.from \in Peers
  BY <1>1, OutcomeTyped DEF RolledBack
<1>3. UNCHANGED <<waiters, session, opening, checked, inbound, dying>>
  BY DEF HandleFails
<1>. HIDE DEF e, s
<1>4. MediaTypeOK'
  <2>1. torn' \subseteq CallIds /\ stray' \in BOOLEAN
    BY <1>1, <1>2 DEF RolledBack, Unreported, MediaTypeOK
  <2>2. Put(e.call, s) /\ party' = [party EXCEPT ![e.call] = e.from]
    BY <1>1 DEF RolledBack
  <2>3. party' \in [CallIds -> Peers \cup {NoPeer}] /\ party'[e.call] \in Peers
    BY <1>2, <2>2, PartyTyped
  <2>. QED BY <1>2, <1>3, <2>1, <2>2, <2>3, PutTyped
<1>5. blur' \subseteq {"call", "presence"}
  BY <1>1 DEF RolledBack, Unreported, IpcTypeOK
<1>. QED BY <1>4, <1>5 DEF HandleFails, IpcTypeOK

LEMMA ActTyped ==
  ASSUME IpcTypeOK, MediaTypeOK, NEW g \in Emitters, Act(g)
  PROVE  IpcTypeOK' /\ MediaTypeOK'
<1>1. out[g].event \in Event
  BY DEF Act, IpcTypeOK, Emission, NoOut
<1>2. out' \in [Emitters -> Emission]
  BY DEF Act, IpcTypeOK, Emission
<1>3. opening' \in [CallIds -> Nat]
  <2>. DEFINE ev == out[g].event
  <2>1. \/ opening' = opening
        \/ ev.call \in Ours /\ opening' = [opening EXCEPT ![ev.call] = @ + 1]
    BY DEF Act
  <2>2. CASE ev.call \in Ours /\ opening' = [opening EXCEPT ![ev.call] = @ + 1]
    <3>. HIDE DEF ev
    <3>. QED BY <2>2, OursAssumption DEF MediaTypeOK
  <2>. QED BY <2>1, <2>2 DEF MediaTypeOK
<1>4. session' \in Peers \cup {NoPeer} /\ stray' \in BOOLEAN /\ torn' \subseteq CallIds
  BY DEF Act, MediaTypeOK
<1>. QED BY <1>2, <1>3, <1>4 DEF Act, IpcTypeOK, MediaTypeOK

LEMMA OpeningTyped ==
  ASSUME IpcTypeOK, MediaTypeOK, NEW c \in CallIds, Opened(c) \/ OpenFails(c) \/ AttachOpened(c)
  PROVE  IpcTypeOK' /\ MediaTypeOK'
<1>1. UNCHANGED ipcVars
  BY DEF Opened, OpenFails, AttachOpened
<1>2. opening' \in [CallIds -> Nat] /\ checked' \in [CallIds -> Nat]
  BY DEF Opened, OpenFails, AttachOpened, MediaTypeOK
<1>3. session' \in Peers \cup {NoPeer} /\ stray' \in BOOLEAN /\ torn' \subseteq CallIds
  <2>1. CASE Opened(c)
    BY <2>1 DEF Opened, MediaTypeOK
  <2>2. CASE OpenFails(c)
    BY <2>2 DEF OpenFails, MediaTypeOK
  <2>3. CASE AttachOpened(c)
    <3>1. party[c] \in Peers \cup {NoPeer}
      BY DEF MediaTypeOK
    <3>2. session' = party[c] /\ stray' = (c \in raced) /\ torn' = torn
      BY <2>3 DEF AttachOpened, Attach
    <3>. QED BY <3>1, <3>2 DEF MediaTypeOK
  <2>. QED BY <2>1, <2>2, <2>3
<1>4. UNCHANGED <<cur, call, party, waiters, inbound, dying, raced>>
  BY DEF Opened, OpenFails, AttachOpened
<1>5. IpcTypeOK'
  BY <1>1 DEF ipcVars, IpcTypeOK
<1>. QED BY <1>2, <1>3, <1>4, <1>5 DEF MediaTypeOK

LEMMA InboundTyped ==
  ASSUME IpcTypeOK, MediaTypeOK,
         (\E p \in Peers : InboundArrives(p)) \/ InboundChecked \/ AttachInbound
  PROVE  IpcTypeOK' /\ MediaTypeOK'
<1>1. UNCHANGED ipcVars
  BY DEF InboundArrives, InboundChecked, AttachInbound
<1>2. IpcTypeOK'
  BY <1>1 DEF ipcVars, IpcTypeOK
<1>. DEFINE Inbounds == {NoInbound} \cup [pc : {"arrived"}, peer : Peers]
                          \cup [pc : {"checked"}, peer : Peers, call : CallIds]
<1>3. UNCHANGED <<cur, call, party, waiters, opening, checked, dying, torn, raced>>
  BY DEF InboundArrives, InboundChecked, AttachInbound
<1>4. CASE \E p \in Peers : InboundArrives(p)
  <2>1. inbound' \in Inbounds
    BY <1>4 DEF InboundArrives
  <2>2. UNCHANGED <<session, stray>>
    BY <1>4 DEF InboundArrives
  <2>. QED BY <1>2, <1>3, <2>1, <2>2 DEF MediaTypeOK
<1>5. CASE InboundChecked
  <2>1. inbound.peer \in Peers
    BY <1>5 DEF InboundChecked, MediaTypeOK, NoInbound
  <2>2. inbound' \in Inbounds
    BY <1>5, <2>1 DEF InboundChecked, MediaTypeOK, Active
  <2>3. UNCHANGED <<session, stray>>
    BY <1>5 DEF InboundChecked
  <2>. QED BY <1>2, <1>3, <2>2, <2>3 DEF MediaTypeOK
<1>6. CASE AttachInbound
  <2>1. inbound.peer \in Peers
    BY <1>6 DEF AttachInbound, MediaTypeOK, NoInbound
  <2>2. inbound' \in Inbounds /\ session' \in Peers \cup {NoPeer} /\ stray' \in BOOLEAN
    BY <1>6, <2>1 DEF AttachInbound, Attach
  <2>. QED BY <1>2, <1>3, <2>2 DEF MediaTypeOK
<1>. QED BY <1>4, <1>5, <1>6

LEMMA DeathTyped ==
  ASSUME IpcTypeOK, MediaTypeOK, SessionDies \/ OnMediaClosed
  PROVE  IpcTypeOK' /\ MediaTypeOK'
<1>1. CASE SessionDies
  BY <1>1 DEF SessionDies, ipcVars, IpcTypeOK, MediaTypeOK
<1>2. CASE OnMediaClosed
  <2>1. out' \in [Emitters -> Emission]
    <3>1. CASE cur # NoCall /\ call[cur] = "active"
      <4>1. cur \in CallIds /\ Emit("media", CallEvent(cur, "active"))
        BY <1>2, <3>1 DEF OnMediaClosed, MediaTypeOK
      <4>. QED BY <4>1, CallEventTyped, EmitTyped DEF Emitters, Core, CallState
    <3>2. CASE ~(cur # NoCall /\ call[cur] = "active")
      BY <1>2, <3>2 DEF OnMediaClosed, IpcTypeOK
    <3>. QED BY <3>1, <3>2
  <2>2. blur' \subseteq {"call", "presence"}
    BY <1>2, CrossesTyped DEF OnMediaClosed, IpcTypeOK
  <2>3. IpcTypeOK'
    BY <1>2, <2>1, <2>2 DEF OnMediaClosed, IpcTypeOK
  <2>4. MediaTypeOK'
    BY <1>2 DEF OnMediaClosed, MediaTypeOK
  <2>. QED BY <2>3, <2>4
<1>. QED BY <1>1, <1>2

-----------------------------------------------------------------------------
(* The inductive invariant                                                 *)

\* A goroutine makes one event at a time: a loop answers its command after the event has
\* left, and onMediaClosed runs in the goroutine whose session has died.
OneEventEach ==
  /\ \A k \in Conns : out[k] # NoOut => job[k].pc = "reply"
  /\ dying => out["media"] = NoOut

\* Ids are made by one of the two sides, and records keep what they were made with.
Records ==
  \A c \in CallIds : /\ call[c] = "in" => c \notin Ours
                     /\ call[c] = "none" => party[c] = NoPeer

\* Start works on a call of ours, which cannot be answered before its offer is sent.
Starting ==
  \A k \in Conns :
    job[k].pc \in {"send", "tell"} /\ job[k].op = "start" =>
      /\ job[k].call \in Ours
      /\ job[k].pc = "send" => call[job[k].call] \in {"out", "ended"}

\* The envelope at the gate is one that its sender could send.
Delivered ==
  deliv.pc = "gate" =>
    /\ deliv.env.kind = "offer" => deliv.env.call \notin Ours
    /\ deliv.env.kind = "answer" => ~Unsent(deliv.env.call) /\ call[deliv.env.call] # "none"

\* A session on its way to the bridge belongs to the active call, or to one that ended
\* while it was on its way.
CheckedIsCurrent ==
  /\ \A c \in CallIds : checked[c] > 0 =>
       party[c] \in Peers /\ (c \in raced \/ (cur = c /\ call[c] = "active"))
  /\ inbound.pc = "checked" =>
       inbound.call \in raced \/ (cur = inbound.call /\ Active(inbound.peer))

Settled ==
  Records /\ Starting /\ Delivered /\ CheckedIsCurrent /\ MediaIsComing /\ NoStraySession

Inductive == TypeOK /\ OneEventEach /\ Settled

\* An event that a goroutine without one makes joins those that are in flight.
LEMMA EmitNews ==
  ASSUME NEW g \in Emitters, out \in [Emitters -> Emission], out[g] = NoOut, NEW ev, Emit(g, ev),
         NEW c, NEW s
  PROVE  InFlight(c, s)' <=> InFlight(c, s) \/ ev = CallEvent(c, s)
  BY DEF Emit, InFlight, NoOut

LEMMA SameOutSameNews ==
  ASSUME UNCHANGED out, NEW c, NEW s
  PROVE  InFlight(c, s)' <=> InFlight(c, s)
  BY DEF InFlight

\* The loops that are in the middle of a command are where they were.
SameWork ==
  \A k \in Conns : \/ job'[k] = job[k]
                   \/ job[k].pc \notin {"send", "tell"} /\ job'[k].pc \notin {"send", "tell"}

SameNews ==
  \A c \in CallIds : /\ InFlight(c, "active")' <=> InFlight(c, "active")
                     /\ InFlight(c, "ended")' <=> InFlight(c, "ended")

LEMMA SameWorkSameJobs ==
  ASSUME SameWork, NEW k \in Conns, job'[k].pc \in {"send", "tell"}
  PROVE  job'[k] = job[k]
  BY DEF SameWork

\* What does not touch the call, the media session or the news of them keeps what is
\* said of them.
LEMMA Frame ==
  ASSUME MediaTypeOK, Settled, UNCHANGED <<mediaVars, deliv>>, SameWork, SameNews
  PROVE  Settled'
<1>1. UNCHANGED <<cur, call, party, waiters, session, opening, checked, inbound, dying, torn,
                  raced, stray, deliv>>
  BY DEF mediaVars
<1>2. Records' /\ CheckedIsCurrent'
  BY <1>1 DEF Settled, Records, CheckedIsCurrent, Active
<1>3. Starting'
  BY <1>1, SameWorkSameJobs DEF Settled, Starting
<1>4. Delivered'
  <2>1. ASSUME NEW c, Unsent(c)' PROVE Unsent(c)
    BY <1>1, <2>1, SameWorkSameJobs DEF Unsent
  <2>. QED BY <1>1, <2>1 DEF Settled, Delivered
<1>5. MediaIsComing'
  <2>1. cur # NoCall => cur \in CallIds
    BY DEF MediaTypeOK
  <2>. QED BY <1>1, <2>1 DEF Settled, MediaIsComing, SameNews
<1>6. NoStraySession'
  <2>1. ASSUME NEW k \in Conns, job[k].pc \in {"send", "tell"} PROVE job'[k] = job[k]
    BY <2>1 DEF SameWork
  <2>. QED BY <1>1, <2>1 DEF Settled, NoStraySession, SameNews, Active
<1>. QED BY <1>2, <1>3, <1>4, <1>5, <1>6 DEF Settled

-----------------------------------------------------------------------------
(* The current call changes                                                *)

\* An active call is current until it ends.
ActiveUntil(s) == cur # NoCall /\ call[cur] = "active" => s = "ended"

LEMMA PutChecked ==
  ASSUME MediaTypeOK, CheckedIsCurrent, NEW c \in CallIds, NEW s, Put(c, s), ActiveUntil(s),
         UNCHANGED <<checked, inbound>>,
         \A x \in CallIds : party[x] \in Peers => party'[x] \in Peers
  PROVE  CheckedIsCurrent'
<1>1. ASSUME cur # NoCall, call[cur] = "active", Checked PROVE cur \in raced'
  BY <1>1 DEF Put, ActiveUntil
<1>2. raced \subseteq raced'
  BY DEF Put
<1>3. ASSUME NEW x \in CallIds, checked'[x] > 0 PROVE party'[x] \in Peers /\ x \in raced'
  <2>1. checked[x] > 0 /\ x # NoCall
    BY <1>3, CallsAssumption
  <2>2. party[x] \in Peers /\ (x \in raced \/ (cur = x /\ call[x] = "active"))
    BY <2>1 DEF CheckedIsCurrent
  <2>. QED BY <1>1, <1>2, <2>1, <2>2 DEF Checked
<1>4. ASSUME inbound'.pc = "checked" PROVE inbound'.call \in raced'
  <2>1. inbound.pc = "checked" /\ inbound' = inbound
    BY <1>4
  <2>. QED BY <1>1, <1>2, <2>1 DEF Checked, CheckedIsCurrent, Active
<1>. QED BY <1>3, <1>4 DEF CheckedIsCurrent

LEMMA PutStray ==
  ASSUME NoStraySession, NEW c \in CallIds, NEW s, Put(c, s), ActiveUntil(s),
         UNCHANGED session, stray => stray',
         \A x \in CallIds : InFlight(x, "ended") => InFlight(x, "ended")',
         \A k \in Conns : job[k].pc \in {"send", "tell"} => job'[k] = job[k],
         s = "ended" /\ session # NoPeer =>
           \/ stray'
           \/ \E x \in CallIds : InFlight(x, "ended")'
           \/ \E k \in Conns : job'[k].pc \in {"send", "tell"} /\ job'[k].op \in {"reject", "hangup"}
  PROVE  NoStraySession'
<1>. SUFFICES ASSUME session' # NoPeer, ~stray', \A x \in CallIds : ~InFlight(x, "ended")',
                     \A k \in Conns : job'[k].pc \in {"send", "tell"} =>
                                        job'[k].op \notin {"reject", "hangup"}
              PROVE  FALSE
  BY DEF NoStraySession
<1>1. Active(session)
  BY DEF NoStraySession
<1>. QED BY <1>1 DEF Active, ActiveUntil

LEMMA PutComing ==
  ASSUME NEW c \in CallIds, NEW s, Put(c, s), call \in [CallIds -> CallState],
         s = "active" /\ c \in Ours => c \in torn' \/ InFlight(c, "active")'
  PROVE  MediaIsComing'
  BY DEF Put, MediaIsComing

LEMMA PutRecords ==
  ASSUME MediaTypeOK, Records, NEW c \in CallIds, NEW s, Put(c, s), s # "none",
         s = "in" => c \notin Ours,
         party' = party \/ \E p \in Peers : party' = [party EXCEPT ![c] = p]
  PROVE  Records'
  BY DEF Put, Records, MediaTypeOK

LEMMA PutStarting ==
  ASSUME MediaTypeOK, Starting, NEW c \in CallIds, NEW s, Put(c, s),
         \A k \in Conns : job'[k].pc \in {"send", "tell"} /\ job'[k].op = "start" => job'[k] = job[k],
         s \in {"out", "ended"} \/ ~Unsent(c)
  PROVE  Starting'
<1>. SUFFICES ASSUME NEW k \in Conns, job'[k].pc \in {"send", "tell"}, job'[k].op = "start"
              PROVE  /\ job'[k].call \in Ours
                     /\ job'[k].pc = "send" => call'[job'[k].call] \in {"out", "ended"}
  BY DEF Starting
<1>1. job'[k] = job[k] /\ job[k].call \in Ours
  BY DEF Starting
<1>. QED BY <1>1, OursAssumption DEF Starting, Put, MediaTypeOK, Unsent

-----------------------------------------------------------------------------
(* The steps of the server, the page and the presence                      *)

LEMMA LoopIsEmitter == ASSUME NEW k \in Conns PROVE k \in Emitters /\ k \notin Core
  BY ConnsAssumption DEF Emitters

\* An event of a contact is not one of a call.
LEMMA PresenceNews ==
  ASSUME IpcTypeOK, NEW g \in Core, out[g] = NoOut, NEW p, NEW b, Emit(g, PresenceEvent(p, b))
  PROVE  SameNews /\ \A h \in Emitters : h # g => out'[h] = out[h]
<1>1. g \in Emitters /\ out \in [Emitters -> Emission]
  BY DEF Emitters, IpcTypeOK
<1>2. ASSUME NEW c, NEW s PROVE PresenceEvent(p, b) # CallEvent(c, s)
  <2>1. PresenceEvent(p, b).kind # CallEvent(c, s).kind
    BY DEF PresenceEvent, CallEvent
  <2>. QED BY <2>1
<1>3. SameNews
  BY <1>1, <1>2, EmitNews DEF SameNews
<1>. QED BY <1>1, <1>3 DEF Emit

LEMMA EmitOutKeeps ==
  ASSUME IpcTypeOK, OneEventEach, NEW g \in Emitters, EmitOut(g), UNCHANGED dying
  PROVE  OneEventEach' /\ SameWork /\ SameNews
<1>1. job' = job /\ out \in [Emitters -> Emission] /\ out[g].step = "emit"
  BY DEF EmitOut, IpcTypeOK
<1>2. \A h \in Emitters : h # g => out'[h] = out[h]
  BY <1>1 DEF EmitOut
<1>3. out[g] # NoOut
  BY <1>1 DEF NoOut
<1>4. OneEventEach'
  <2>1. "media" \in Emitters
    BY DEF Emitters, Core
  <2>. QED BY <1>1, <1>2, <1>3, <2>1, LoopIsEmitter DEF OneEventEach
<1>5. ASSUME NEW c, NEW s \in {"active", "ended"} PROVE InFlight(c, s)' <=> InFlight(c, s)
  <2>1. CASE Matters(out[g].event)
    <3>1. out'[g].step # "none" /\ out'[g].event = out[g].event
      BY <1>1, <2>1 DEF EmitOut
    <3>. QED BY <1>1, <1>2, <3>1 DEF InFlight
  <2>2. CASE ~Matters(out[g].event)
    <3>1. out'[g].step = "none"
      BY <1>1, <2>2 DEF EmitOut, NoOut
    <3>2. out[g].event # CallEvent(c, s)
      BY <2>2 DEF Matters, CallEvent
    <3>. QED BY <1>2, <3>1, <3>2 DEF InFlight
  <2>. QED BY <2>1, <2>2
<1>. QED BY <1>1, <1>4, <1>5 DEF SameWork, SameNews

\* The steps that leave out and job alone.
LEMMA StillKeeps ==
  ASSUME OneEventEach, UNCHANGED <<out, job, dying>>
  PROVE  OneEventEach' /\ SameWork /\ SameNews
  BY DEF OneEventEach, SameWork, SameNews, InFlight

\* A command that is carried out in one step.
LEMMA AnswerKeeps ==
  ASSUME IpcTypeOK, OneEventEach, NEW k \in Conns, NEW op, Runs(k, op), NEW done, NEW s,
         Answer(k, done, s), UNCHANGED <<out, dying>>
  PROVE  OneEventEach' /\ SameWork /\ SameNews
<1>1. /\ job[k] = NoJob /\ job'[k].pc = "reply"
      /\ \A i \in Conns : i # k => job'[i] = job[i]
  BY DEF Runs, Answer, Goes, IpcTypeOK
<1>2. job[k].pc \notin {"send", "tell"}
  BY <1>1 DEF NoJob
<1>3. SameWork
  BY <1>1, <1>2 DEF SameWork
<1>4. OneEventEach'
  BY <1>1 DEF OneEventEach
<1>. QED BY <1>3, <1>4 DEF SameNews, InFlight

LEMMA ReplyKeeps ==
  ASSUME IpcTypeOK, OneEventEach, NEW k \in Conns, Reply(k), UNCHANGED dying
  PROVE  OneEventEach' /\ SameWork /\ SameNews
<1>1. /\ job[k].pc = "reply" /\ out[k] = NoOut /\ job'[k] = NoJob /\ out' = out
      /\ \A i \in Conns : i # k => job'[i] = job[i]
  BY DEF Reply, IpcTypeOK
<1>2. SameWork
  BY <1>1 DEF SameWork, NoJob
<1>3. OneEventEach'
  BY <1>1 DEF OneEventEach
<1>. QED BY <1>1, <1>2, <1>3 DEF SameNews, InFlight

LEMMA OfIpcKeeps ==
  ASSUME IpcTypeOK, OneEventEach, OfIpc, UNCHANGED dying
  PROVE  OneEventEach' /\ SameWork /\ SameNews
<1>1. CASE Receive
  BY <1>1, StillKeeps DEF Receive
<1>2. ASSUME NEW k \in Conns, Open(k) PROVE OneEventEach' /\ SameWork /\ SameNews
  BY <1>2, StillKeeps DEF Open
<1>3. ASSUME NEW k \in Conns, Connection(k) PROVE OneEventEach' /\ SameWork /\ SameNews
  BY <1>3, StillKeeps DEF Connection, Swap, AuthFails, ResyncPush, ReadFails
<1>4. ASSUME NEW k \in Conns, Loop(k) PROVE OneEventEach' /\ SameWork /\ SameNews
  <2>1. CASE RunOther(k)
    BY <2>1, AnswerKeeps DEF RunOther
  <2>2. CASE Reply(k)
    BY <2>2, ReplyKeeps
  <2>. QED BY <1>4, <2>1, <2>2 DEF Loop
<1>5. ASSUME NEW g \in Emitters, EmitOut(g) PROVE OneEventEach' /\ SameWork /\ SameNews
  BY <1>5, EmitOutKeeps
<1>. QED BY <1>1, <1>2, <1>3, <1>4, <1>5 DEF OfIpc

LEMMA OfIpcTyped == ASSUME IpcTypeOK, OfIpc PROVE IpcTypeOK'
<1>1. CASE Receive
  BY <1>1, ReceiveTyped
<1>2. CASE \E k \in Conns : Open(k) \/ Connection(k) \/ Loop(k)
  BY <1>2, OpenTyped, ConnectionTyped, LoopTyped
<1>3. CASE \E g \in Emitters : EmitOut(g)
  BY <1>3, EmitOutTyped
<1>. QED BY <1>1, <1>2, <1>3 DEF OfIpc

\* The presence reports by goroutines of its own.
LEMMA OfPresenceKeeps ==
  ASSUME IpcTypeOK, PresenceTypeOK, OneEventEach, OfPresence, UNCHANGED dying
  PROVE  OneEventEach' /\ SameWork /\ SameNews /\ IpcTypeOK' /\ PresenceTypeOK'
<1>1. CASE Sweep
  <2>1. blur' \subseteq {"call", "presence"}
    BY <1>1, CrossesTyped DEF Sweep, IpcTypeOK
  <2>2. UNCHANGED <<out, job>>
    BY <1>1 DEF Sweep
  <2>3. IpcTypeOK' /\ PresenceTypeOK'
    BY <1>1, <2>1 DEF Sweep, Expired, IpcTypeOK, PresenceTypeOK
  <2>. QED BY <2>2, <2>3, StillKeeps
<1>2. ASSUME NEW p \in Peers, Report(p)
      PROVE  OneEventEach' /\ SameWork /\ SameNews /\ IpcTypeOK' /\ PresenceTypeOK'
  <2>1. "presence" \in Core /\ "presence" \in Emitters /\ job' = job
    BY <1>2 DEF Core, Emitters, Report
  <2>2. SameNews /\ \A h \in Emitters : h # "presence" => out'[h] = out[h]
    BY <1>2, <2>1, PresenceNews DEF Report
  <2>3. OneEventEach'
    <3>1. "media" \in Emitters /\ \A k \in Conns : k \in Emitters /\ k # "presence"
      BY LoopIsEmitter DEF Emitters, Core
    <3>. QED BY <2>1, <2>2, <3>1 DEF OneEventEach
  <2>4. out' \in [Emitters -> Emission]
    BY <1>2, <2>1, PresenceEventTyped, EmitTyped DEF Report
  <2>5. IpcTypeOK' /\ PresenceTypeOK'
    BY <1>2, <2>4 DEF Report, IpcTypeOK, PresenceTypeOK
  <2>. QED BY <2>1, <2>2, <2>3, <2>5 DEF SameWork
<1>. QED BY <1>1, <1>2 DEF OfPresence

\* attach, ListChats, Block and Unblock.
LEMMA MeetKeeps ==
  ASSUME IpcTypeOK, MediaTypeOK, PresenceTypeOK, OneEventEach, NEW k \in Conns,
         Resync(k) \/ ListChats(k) \/ Block(k) \/ Unblock(k)
  PROVE  /\ OneEventEach' /\ SameWork /\ SameNews /\ IpcTypeOK' /\ PresenceTypeOK'
         /\ UNCHANGED <<mediaVars, deliv, again>>
<1>. UNCHANGED <<mediaVars, deliv, again>>
  BY DEF Resync, ListChats, Block, Unblock
<1>. dying' = dying
  BY DEF mediaVars
<1>1. CASE Resync(k)
  <2>. DEFINE ev == IF cur = NoCall THEN Note ELSE CallEvent(cur, call[cur])
  <2>1. ev \in {Note} \cup [kind : {"call"}, call : CallIds, state : CallState]
    BY DEF MediaTypeOK, CallEvent
  <2>2. ResyncRead(k, ev) /\ UNCHANGED presenceVars
    BY <1>1 DEF Resync
  <2>. HIDE DEF ev
  <2>3. UNCHANGED <<out, job>>
    BY <2>2 DEF ResyncRead
  <2>4. IpcTypeOK' /\ PresenceTypeOK'
    BY <2>1, <2>2, ResyncReadTyped DEF presenceVars, PresenceTypeOK
  <2>. QED BY <2>3, <2>4, StillKeeps
<1>2. ASSUME NEW op, NEW s \in SUBSET Peers, Runs(k, op), Answer(k, TRUE, s), UNCHANGED out,
             UNCHANGED <<conn, active, snap, sendq, view>>, blur' \subseteq {"call", "presence"}
      PROVE  OneEventEach' /\ SameWork /\ SameNews /\ IpcTypeOK'
  <2>1. /\ cmdq' \in [Conns -> Seq(Command)] /\ \A i \in Conns : Len(cmdq'[i]) <= CmdQueue
        /\ job' \in [Conns -> Job]
    BY <1>2, AnswerTyped DEF Runs
  <2>2. IpcTypeOK'
    BY <1>2, <2>1 DEF IpcTypeOK
  <2>. QED BY <1>2, <2>2, AnswerKeeps
<1>3. CASE ListChats(k)
  <2>1. blur' \subseteq {"call", "presence"}
    BY <1>3, CrossesTyped DEF ListChats, ReadOnline, IpcTypeOK
  <2>2. PresenceTypeOK'
    BY <1>3 DEF ListChats, ReadOnline, presenceVars, PresenceTypeOK
  <2>. QED BY <1>2, <1>3, <2>1, <2>2 DEF ListChats, ReadOnline
<1>4. CASE Block(k)
  <2>1. blur' \subseteq {"call", "presence"}
    BY <1>4 DEF Block, IpcTypeOK
  <2>2. PresenceTypeOK'
    BY <1>4 DEF Block, Forget, PresenceTypeOK
  <2>. QED BY <1>2, <1>4, <2>1, <2>2 DEF Block
<1>5. CASE Unblock(k)
  <2>1. Subject(k) \in Peers
    BY <1>5, SubjectTyped DEF Unblock
  <2>2. PresenceTypeOK' /\ blur' \subseteq {"call", "presence"}
    BY <1>5, <2>1 DEF Unblock, PresenceTypeOK, IpcTypeOK
  <2>. QED BY <1>2, <1>5, <2>2 DEF Unblock
<1>. QED BY <1>1, <1>3, <1>4, <1>5

\* A delivery arrives: a sign of life of a contact.
LEMMA ArriveKeeps ==
  ASSUME IpcTypeOK, PresenceTypeOK, OneEventEach, NEW e \in Envelope, Arrive(e)
  PROVE  /\ OneEventEach' /\ SameWork /\ SameNews /\ IpcTypeOK' /\ PresenceTypeOK'
         /\ job' = job /\ UNCHANGED mediaVars
<1>1. UNCHANGED mediaVars /\ dying' = dying
  BY DEF Arrive, mediaVars
<1>2. CASE UNCHANGED ipcVars /\ UNCHANGED presenceVars
  BY <1>1, <1>2, StillKeeps DEF ipcVars, presenceVars, IpcTypeOK, PresenceTypeOK
<1>3. CASE SignOfLife(e.from) /\ UNCHANGED <<conn, active, snap, sendq, cmdq, job, view>>
  <2>1. /\ "delivery" \in Core /\ "delivery" \in Emitters /\ job' = job /\ e.from \in Peers
        /\ out["delivery"] = NoOut
    BY <1>3 DEF Core, Emitters, Envelope, Arrive
  <2>2. CASE UNCHANGED <<out, blur>>
    <3>1. IpcTypeOK'
      BY <1>3, <2>2 DEF IpcTypeOK
    <3>2. PresenceTypeOK'
      BY <1>3, <2>1 DEF SignOfLife, PresenceTypeOK
    <3>. QED BY <1>1, <1>3, <2>2, <3>1, <3>2, StillKeeps
  <2>3. CASE Emit("delivery", PresenceEvent(e.from, TRUE)) /\ blur' \subseteq {"call", "presence"}
    <3>1. SameNews /\ \A h \in Emitters : h # "delivery" => out'[h] = out[h]
      BY <2>1, <2>3, PresenceNews
    <3>2. OneEventEach'
      <4>1. "media" \in Emitters /\ \A k \in Conns : k \in Emitters /\ k # "delivery"
        BY LoopIsEmitter DEF Emitters, Core
      <4>. QED BY <1>1, <2>1, <3>1, <4>1 DEF OneEventEach
    <3>3. out' \in [Emitters -> Emission]
      BY <2>1, <2>3, PresenceEventTyped, EmitTyped
    <3>4. IpcTypeOK'
      BY <1>3, <2>3, <3>3 DEF IpcTypeOK
    <3>5. PresenceTypeOK'
      BY <1>3, <2>1 DEF SignOfLife, PresenceTypeOK
    <3>. QED BY <1>1, <2>1, <3>1, <3>2, <3>4, <3>5 DEF SameWork
  <2>. QED BY <1>3, <2>2, <2>3, CrossesTyped DEF SignOfLife, IpcTypeOK
<1>. QED BY <1>1, <1>2, <1>3 DEF Arrive

-----------------------------------------------------------------------------
(* The steps of the call and the media session                             *)

Tuned == OneEventEach /\ Settled

\* A loop takes a command and leaves the call alone.
LEMMA RefusedKeeps ==
  ASSUME IpcTypeOK, MediaTypeOK, Tuned, NEW k \in Conns, NEW op, Runs(k, op), Refused(k), Mutate(k),
         UNCHANGED deliv
  PROVE  Tuned'
<1>1. UNCHANGED <<mediaVars, deliv>> /\ UNCHANGED <<out, dying>>
  BY DEF Refused, Mutate, mediaVars
<1>2. OneEventEach' /\ SameWork /\ SameNews
  BY <1>1, AnswerKeeps DEF Refused, Tuned
<1>. QED BY <1>1, <1>2, Frame DEF Tuned

\* A loop takes a command that changes the current call.
LEMMA ChangedJob ==
  ASSUME IpcTypeOK, NEW k \in Conns, NEW op, Runs(k, op), NEW c, NEW s, Changed(k, c, s)
  PROVE  /\ job[k] = NoJob
         /\ job'[k] = [pc |-> "send", op |-> op, call |-> c]
         /\ \A i \in Conns : i # k => job'[i] = job[i]
  BY DEF Runs, Changed, Goes, IpcTypeOK

LEMMA ChangedKeeps ==
  ASSUME IpcTypeOK, MediaTypeOK, Tuned, NEW k \in Conns, NEW op, Runs(k, op), Mutate(k),
         NEW c \in CallIds, NEW s \in {"out", "active", "ended"}, Changed(k, c, s), UNCHANGED deliv,
         ActiveUntil(s), s = "active" => c \notin Ours,
         s = "ended" => op \in {"reject", "hangup"},
         op = "start" => c \in Ours /\ call[c] = "none" /\ s = "out",
         party' = party \/ \E p \in Peers : party' = [party EXCEPT ![c] = p]
  PROVE  Tuned'
<1>1. /\ Put(c, s) /\ job[k] = NoJob
      /\ job'[k] = [pc |-> "send", op |-> op, call |-> c]
      /\ \A i \in Conns : i # k => job'[i] = job[i]
  BY ChangedJob DEF Changed
<1>2. UNCHANGED <<out, deliv, waiters, session, opening, checked, inbound, dying, torn, stray>>
  BY DEF Mutate
<1>3. ASSUME NEW x, NEW t PROVE InFlight(x, t)' <=> InFlight(x, t)
  BY <1>2, SameOutSameNews
<1>4. OneEventEach'
  BY <1>1, <1>2 DEF Tuned, OneEventEach, NoJob
<1>5. Records'
  BY <1>1, PutRecords DEF Tuned, Settled
<1>6. \A x \in CallIds : party[x] \in Peers => party'[x] \in Peers
  BY DEF MediaTypeOK
<1>7. CheckedIsCurrent'
  BY <1>1, <1>2, <1>6, PutChecked DEF Tuned, Settled
<1>8. Starting'
  <2>. SUFFICES ASSUME NEW i \in Conns, job'[i].pc \in {"send", "tell"}, job'[i].op = "start"
                PROVE  /\ job'[i].call \in Ours
                       /\ job'[i].pc = "send" => call'[job'[i].call] \in {"out", "ended"}
    BY DEF Starting
  <2>1. call'[c] = s /\ \A x \in CallIds : x # c => call'[x] = call[x]
    BY <1>1 DEF Put, MediaTypeOK
  <2>2. CASE i = k
    BY <1>1, <2>1, <2>2
  <2>3. CASE i # k
    <3>1. job'[i] = job[i] /\ job[i].call \in Ours /\ job[i].call \in CallIds
      BY <1>1, <2>3, OursAssumption DEF Tuned, Settled, Starting
    <3>2. job[i].pc = "send" => call[job[i].call] \in {"out", "ended"}
      BY <3>1 DEF Tuned, Settled, Starting
    <3>. QED BY <2>1, <3>1, <3>2
  <2>. QED BY <2>2, <2>3
<1>9. Delivered'
  <2>. SUFFICES ASSUME deliv.pc = "gate"
                PROVE  /\ deliv.env.kind = "offer" => deliv.env.call \notin Ours
                       /\ deliv.env.kind = "answer" => ~Unsent(deliv.env.call)'
                                                       /\ call'[deliv.env.call] # "none"
    BY <1>2 DEF Delivered
  <2>1. deliv.env.kind = "offer" => deliv.env.call \notin Ours
    BY DEF Tuned, Settled, Delivered
  <2>2. ASSUME deliv.env.kind = "answer"
        PROVE  ~Unsent(deliv.env.call)' /\ call'[deliv.env.call] # "none"
    <3>1. ~Unsent(deliv.env.call) /\ call[deliv.env.call] # "none"
      BY <2>2 DEF Tuned, Settled, Delivered
    <3>2. call'[deliv.env.call] # "none"
      BY <1>1, <3>1 DEF Put, MediaTypeOK
    <3>3. ASSUME Unsent(deliv.env.call)' PROVE FALSE
      <4>1. deliv.env.call \notin waiters'
        BY <1>2, <3>1 DEF Unsent
      <4>2. PICK i \in Conns : job'[i].pc = "send" /\ job'[i].op = "start"
                               /\ job'[i].call = deliv.env.call
        BY <3>3, <4>1, <1>2 DEF Unsent
      <4>3. CASE i = k
        BY <1>1, <3>1, <4>2, <4>3
      <4>4. CASE i # k
        BY <1>1, <3>1, <4>2, <4>4 DEF Unsent
      <4>. QED BY <4>3, <4>4
    <3>. QED BY <3>2, <3>3
  <2>. QED BY <2>1, <2>2
<1>10. MediaIsComing'
  BY <1>1, PutComing DEF MediaTypeOK
<1>11. NoStraySession'
  <2>1. \A i \in Conns : job[i].pc \in {"send", "tell"} => job'[i] = job[i]
    BY <1>1 DEF NoJob
  <2>2. s = "ended" => \E i \in Conns : job'[i].pc \in {"send", "tell"} /\ job'[i].op \in {"reject", "hangup"}
    BY <1>1
  <2>3. UNCHANGED session /\ stray => stray'
    BY <1>2
  <2>4. \A x \in CallIds : InFlight(x, "ended") => InFlight(x, "ended")'
    BY <1>3
  <2>. QED BY <1>1, <2>1, <2>2, <2>3, <2>4, <1>2, PutStray DEF Tuned, Settled
<1>. QED BY <1>4, <1>5, <1>7, <1>8, <1>9, <1>10, <1>11 DEF Tuned, Settled

LEMMA MutateKeeps ==
  ASSUME IpcTypeOK, MediaTypeOK, Tuned, NEW k \in Conns, Mutate(k), UNCHANGED deliv
  PROVE  Tuned'
<1>1. CASE Start(k)
  <2>1. Runs(k, "start") /\ Subject(k) \in Peers
    BY <1>1, SubjectTyped DEF Start
  <2>2. CASE Refused(k)
    BY <2>1, <2>2, RefusedKeeps
  <2>3. ASSUME cur = NoCall, NEW c \in Ours, call[c] = "none", Changed(k, c, "out"),
               party' = [party EXCEPT ![c] = Subject(k)]
        PROVE  Tuned'
    <3>1. ActiveUntil("out") /\ c \in CallIds
      BY <2>3, OursAssumption DEF ActiveUntil
    <3>. QED BY <2>1, <2>3, <3>1, ChangedKeeps
  <2>. QED BY <1>1, <2>2, <2>3 DEF Start
<1>2. CASE \E op \in DOMAIN Decides : Decide(k, op)
  <2>1. PICK op \in DOMAIN Decides : Decide(k, op)
    BY <1>2
  <2>2. Runs(k, op) /\ op \in {"accept", "reject", "hangup"}
    BY <2>1 DEF Decide, Decides
  <2>3. CASE Refused(k)
    BY <2>2, <2>3, RefusedKeeps
  <2>4. CASE /\ cur # NoCall /\ (op = "hangup" \/ call[cur] = "in")
             /\ Changed(k, cur, Decides[op]) /\ party' = party
    <3>1. PICK s : s = Decides[op]
      OBVIOUS
    <3>2. s \in {"active", "ended"} /\ (s = "ended" <=> op \in {"reject", "hangup"})
      BY <2>2, <3>1 DEF Decides
    <3>3. PICK c \in CallIds : c = cur
      BY <2>4 DEF MediaTypeOK
    <3>4. s = "active" => c \notin Ours /\ call[c] = "in"
      BY <2>2, <2>4, <3>2, <3>3 DEF Tuned, Settled, Records
    <3>5. ActiveUntil(s)
      BY <3>2, <3>3, <3>4 DEF ActiveUntil
    <3>6. Changed(k, c, s)
      BY <2>4, <3>1, <3>3
    <3>. QED BY <2>2, <2>4, <3>2, <3>4, <3>5, <3>6, ChangedKeeps
  <2>. QED BY <2>1, <2>3, <2>4 DEF Decide
<1>. QED BY <1>1, <1>2 DEF Mutate

LEMMA SentKeeps ==
  ASSUME IpcTypeOK, MediaTypeOK, Tuned, NEW k \in Conns, Sent(k), UNCHANGED deliv
  PROVE  Tuned' /\ (job[k].op = "start" => job[k].call \in Ours)
<1>1. /\ job[k].pc = "send" /\ job'[k].pc = "tell"
      /\ job'[k].op = job[k].op /\ job'[k].call = job[k].call
      /\ \A i \in Conns : i # k => job'[i] = job[i]
  <2>1. job[k].pc = "send" /\ job' = [job EXCEPT ![k].pc = "tell"]
    BY DEF Sent
  <2>2. job'[k] = [job[k] EXCEPT !.pc = "tell"] /\ \A i \in Conns : i # k => job'[i] = job[i]
    BY <2>1 DEF IpcTypeOK
  <2>3. job[k] \in [pc : {"send", "tell"}, op : CallOps, call : CallIds]
    BY <2>1, JobAt
  <2>. QED BY <2>1, <2>2, <2>3
<1>2. UNCHANGED <<out, deliv, cur, call, party, session, opening, checked, inbound, dying, torn, raced, stray>>
  BY DEF Sent
<1>3. OneEventEach'
  BY <1>1, <1>2 DEF Tuned, OneEventEach
<1>4. Records' /\ CheckedIsCurrent'
  BY <1>2 DEF Tuned, Settled, Records, CheckedIsCurrent, Active
<1>5. \A i \in Conns : job'[i].pc \in {"send", "tell"} =>
        /\ job[i].pc \in {"send", "tell"} /\ job'[i].op = job[i].op /\ job'[i].call = job[i].call
        /\ job'[i].pc = "send" => job[i].pc = "send"
  BY <1>1
<1>6. Starting'
  BY <1>2, <1>5 DEF Tuned, Settled, Starting
<1>7. Delivered'
  <2>1. \/ waiters' = waiters
        \/ job[k].op = "start" /\ waiters' = waiters \cup {job[k].call}
    BY DEF Sent
  <2>2. ASSUME NEW x, Unsent(x)' PROVE Unsent(x)
    BY <1>1, <1>5, <2>1, <2>2 DEF Unsent
  <2>. QED BY <1>2, <2>2 DEF Tuned, Settled, Delivered
<1>8. MediaIsComing'
  BY <1>2 DEF Tuned, Settled, MediaIsComing, InFlight
<1>9. NoStraySession'
  <2>1. \A i \in Conns : job[i].pc \in {"send", "tell"} =>
          job'[i].pc \in {"send", "tell"} /\ job'[i].op = job[i].op
    BY <1>1
  <2>. QED BY <1>2, <2>1 DEF Tuned, Settled, NoStraySession, Active, InFlight
<1>10. job[k].op = "start" => job[k].call \in Ours
  BY <1>1 DEF Tuned, Settled, Starting
<1>. QED BY <1>3, <1>4, <1>6, <1>7, <1>8, <1>9, <1>10 DEF Tuned, Settled

LEMMA TellKeeps ==
  ASSUME IpcTypeOK, MediaTypeOK, Tuned, NEW k \in Conns, Tell(k), UNCHANGED deliv
  PROVE  Tuned'
<1>1. /\ job[k].pc = "tell" /\ job'[k].pc = "reply"
      /\ \A i \in Conns : i # k => job'[i] = job[i]
  BY DEF Tell, Replies, IpcTypeOK
<1>2. UNCHANGED <<mediaVars, deliv>>
  BY DEF Tell
<1>3. UNCHANGED <<cur, call, party, waiters, session, opening, checked, inbound, dying, torn, raced, stray>>
  BY <1>2 DEF mediaVars
<1>4. out[k] = NoOut /\ k \in Emitters /\ out \in [Emitters -> Emission] /\ job[k].call \in CallIds
  BY <1>1, LoopIsEmitter, JobAt DEF Tuned, OneEventEach, IpcTypeOK
<1>5. PICK c, s : c = job[k].call /\ s = Told(k)
  BY <1>4
<1>6. Emit(k, CallEvent(c, s))
  BY <1>5 DEF Tell
<1>7. ASSUME NEW x, NEW t PROVE InFlight(x, t)' <=> InFlight(x, t) \/ CallEvent(c, s) = CallEvent(x, t)
  BY <1>4, <1>6, EmitNews
<1>8. OneEventEach'
  <2>1. \A h \in Emitters : h # k => out'[h] = out[h]
    BY <1>6 DEF Emit
  <2>2. "media" \in Emitters /\ "media" # k /\ \A i \in Conns : i \in Emitters
    BY LoopIsEmitter DEF Emitters, Core
  <2>. QED BY <1>1, <1>3, <2>1, <2>2 DEF Tuned, OneEventEach
<1>9. Records' /\ CheckedIsCurrent'
  BY <1>3 DEF Tuned, Settled, Records, CheckedIsCurrent, Active
<1>10. \A i \in Conns : job'[i].pc \in {"send", "tell"} => job'[i] = job[i]
  BY <1>1
<1>11. Starting'
  BY <1>3, <1>10 DEF Tuned, Settled, Starting
<1>12. Delivered'
  <2>1. ASSUME NEW x, Unsent(x)' PROVE Unsent(x)
    BY <1>3, <1>10, <2>1 DEF Unsent
  <2>. QED BY <1>2, <1>3, <2>1 DEF Tuned, Settled, Delivered
<1>13. MediaIsComing'
  BY <1>3, <1>7 DEF Tuned, Settled, MediaIsComing
<1>14. NoStraySession'
  <2>1. job[k].op \in {"reject", "hangup"} => s = "ended"
    BY <1>5 DEF Told, Decides
  <2>2. job[k].op \in {"reject", "hangup"} => InFlight(c, "ended")'
    BY <1>7, <2>1
  <2>3. \A i \in Conns : job[i].pc \in {"send", "tell"} => job'[i] = job[i] \/ i = k
    BY <1>1
  <2>4. \A x \in CallIds : InFlight(x, "ended") => InFlight(x, "ended")'
    BY <1>7
  <2>. QED BY <1>3, <1>4, <1>5, <2>2, <2>3, <2>4 DEF Tuned, Settled, NoStraySession, Active
<1>. QED BY <1>8, <1>9, <1>11, <1>12, <1>13, <1>14 DEF Tuned, Settled

\* A failed send: what Start takes back was not active.
LEMMA SendFailsKeeps ==
  ASSUME IpcTypeOK, MediaTypeOK, Tuned, NEW k \in Conns, SendFails(k), UNCHANGED deliv
  PROVE  Tuned'
<1>1. /\ job[k].pc = "send" /\ job'[k].pc = "reply"
      /\ \A i \in Conns : i # k => job'[i] = job[i]
  BY DEF SendFails, Replies, IpcTypeOK
<1>2. UNCHANGED <<out, deliv, call, party, waiters, session, opening, checked, inbound, dying, torn, raced>>
  BY DEF SendFails
<1>3. \/ cur' = cur
      \/ /\ job[k].op = "start" /\ cur = job[k].call /\ cur' = NoCall
  BY DEF SendFails
<1>4. job[k].op = "start" => call[job[k].call] \in {"out", "ended"}
  BY <1>1 DEF Tuned, Settled, Starting
<1>5. cur # NoCall /\ call[cur] = "active" => cur' = cur
  BY <1>3, <1>4
<1>6. OneEventEach'
  BY <1>1, <1>2 DEF Tuned, OneEventEach
<1>7. Records'
  BY <1>2 DEF Tuned, Settled, Records
<1>8. CheckedIsCurrent'
  BY <1>2, <1>5, CallsAssumption DEF Tuned, Settled, CheckedIsCurrent, Active
<1>9. \A i \in Conns : job'[i].pc \in {"send", "tell"} => job'[i] = job[i]
  BY <1>1
<1>10. Starting'
  BY <1>2, <1>9 DEF Tuned, Settled, Starting
<1>11. Delivered'
  <2>1. ASSUME NEW x, Unsent(x)' PROVE Unsent(x)
    BY <1>2, <1>9, <2>1 DEF Unsent
  <2>. QED BY <1>2, <2>1 DEF Tuned, Settled, Delivered
<1>12. MediaIsComing'
  BY <1>2, <1>3 DEF Tuned, Settled, MediaIsComing, InFlight
<1>13. NoStraySession'
  <2>1. ASSUME job[k].op \in {"reject", "hangup"}, session # NoPeer PROVE stray'
    <3>1. Decides[job[k].op] = "ended" /\ Unreported(Decides[job[k].op])
      BY <2>1 DEF SendFails, Decides
    <3>. QED BY <2>1, <3>1 DEF Unreported
  <2>2. stray => stray'
    BY DEF SendFails, Unreported
  <2>3. \A i \in Conns : job[i].pc \in {"send", "tell"} => job'[i] = job[i] \/ i = k
    BY <1>1
  <2>4. ASSUME Active(session) PROVE Active(session)'
    BY <1>2, <1>5, <2>4 DEF Active
  <2>5. \A x \in CallIds : InFlight(x, "ended") => InFlight(x, "ended")'
    BY <1>2 DEF InFlight
  <2>6. UNCHANGED session
    BY <1>2
  <2>. QED BY <2>1, <2>2, <2>3, <2>4, <2>5, <2>6 DEF Tuned, Settled, NoStraySession
<1>. QED BY <1>6, <1>7, <1>8, <1>10, <1>11, <1>12, <1>13 DEF Tuned, Settled

LEMMA WaiterEndsKeeps ==
  ASSUME IpcTypeOK, MediaTypeOK, Tuned, NEW c \in CallIds, WaiterEnds(c), UNCHANGED deliv
  PROVE  Tuned'
<1>1. UNCHANGED <<out, job, deliv, cur, call, party, session, opening, checked, inbound, dying, torn, raced, stray>>
  BY DEF WaiterEnds, ipcVars
<1>2. ASSUME NEW x, Unsent(x)' PROVE Unsent(x)
  BY <1>1, <1>2 DEF Unsent, WaiterEnds
<1>3. Delivered'
  BY <1>1, <1>2 DEF Tuned, Settled, Delivered
<1>4. OneEventEach' /\ Records' /\ CheckedIsCurrent' /\ Starting'
  BY <1>1 DEF Tuned, Settled, OneEventEach, Records, CheckedIsCurrent, Starting, Active
<1>5. MediaIsComing' /\ NoStraySession'
  BY <1>1 DEF Tuned, Settled, MediaIsComing, NoStraySession, InFlight, Active
<1>. QED BY <1>3, <1>4, <1>5 DEF Tuned, Settled

\* A goroutine of the core gives call c a state and makes its event.
LEMMA EmittedKeeps ==
  ASSUME IpcTypeOK, MediaTypeOK, Tuned, NEW g \in {"delivery", "waiter"}, out[g] = NoOut,
         NEW c \in CallIds, NEW s \in {"in", "active", "ended"}, Put(c, s), Emit(g, CallEvent(c, s)),
         ActiveUntil(s), s = "in" => c \notin Ours, s = "active" => ~Unsent(c),
         party' = party \/ \E p \in Peers : party' = [party EXCEPT ![c] = p],
         UNCHANGED <<job, session, opening, checked, inbound, dying, torn, stray>>,
         waiters' \subseteq waiters, UNCHANGED deliv \/ deliv' = Idle
  PROVE  Tuned'
<1>1. /\ g \in Emitters /\ "media" \in Emitters /\ "media" # g
      /\ out \in [Emitters -> Emission] /\ \A k \in Conns : k \in Emitters /\ k # g
  BY LoopIsEmitter DEF Emitters, Core, IpcTypeOK
<1>2. ASSUME NEW x, NEW t PROVE InFlight(x, t)' <=> InFlight(x, t) \/ CallEvent(c, s) = CallEvent(x, t)
  BY <1>1, EmitNews
<1>3. OneEventEach'
  <2>1. \A h \in Emitters : h # g => out'[h] = out[h]
    BY DEF Emit
  <2>. QED BY <1>1, <2>1 DEF Tuned, OneEventEach
<1>4. Records'
  BY PutRecords DEF Tuned, Settled
<1>5. CheckedIsCurrent'
  <2>1. \A x \in CallIds : party[x] \in Peers => party'[x] \in Peers
    BY DEF MediaTypeOK
  <2>. QED BY <2>1, PutChecked DEF Tuned, Settled
<1>6. Starting'
  <2>1. s \in {"out", "ended"} \/ ~Unsent(c)
    <3>1. s = "in" => ~Unsent(c)
      BY DEF Unsent, Tuned, Settled, Starting, MediaTypeOK
    <3>. QED BY <3>1
  <2>. QED BY <2>1, PutStarting DEF Tuned, Settled
<1>7. Delivered'
  <2>1. CASE deliv' = Idle
    BY <2>1 DEF Delivered, Idle
  <2>2. CASE deliv' = deliv
    <3>1. ASSUME NEW x, Unsent(x)' PROVE Unsent(x)
      BY <3>1 DEF Unsent
    <3>2. ASSUME NEW x, call[x] # "none" PROVE call'[x] # "none"
      BY <3>2 DEF Put, MediaTypeOK
    <3>. QED BY <2>2, <3>1, <3>2 DEF Tuned, Settled, Delivered
  <2>. QED BY <2>1, <2>2
<1>8. MediaIsComing'
  BY <1>2, PutComing DEF MediaTypeOK
<1>9. NoStraySession'
  <2>1. \A x \in CallIds : InFlight(x, "ended") => InFlight(x, "ended")'
    BY <1>2
  <2>2. s = "ended" => InFlight(c, "ended")'
    BY <1>2
  <2>. QED BY <2>1, <2>2, PutStray DEF Tuned, Settled
<1>. QED BY <1>3, <1>4, <1>5, <1>6, <1>7, <1>8, <1>9 DEF Tuned, Settled

LEMMA WaiterGivesUpKeeps ==
  ASSUME IpcTypeOK, MediaTypeOK, Tuned, NEW c \in CallIds, WaiterGivesUp(c), UNCHANGED deliv
  PROVE  Tuned'
<1>1. /\ out["waiter"] = NoOut /\ Put(c, "ended") /\ Emit("waiter", CallEvent(c, "ended"))
      /\ UNCHANGED <<job, party, session, opening, checked, inbound, dying, torn, stray>>
      /\ waiters' \subseteq waiters
  BY DEF WaiterGivesUp
<1>2. ActiveUntil("ended")
  BY DEF ActiveUntil
<1>. QED BY <1>1, <1>2, EmittedKeeps

\* An envelope that its sender could send does not give a call a state that the call
\* cannot take.
LEMMA OutcomeFits ==
  ASSUME MediaTypeOK, Tuned, deliv.pc = "gate", deliv.env \in Envelope, NEW smaller,
         Outcome(deliv.env, smaller) # "none"
  PROVE  /\ ActiveUntil(Outcome(deliv.env, smaller))
         /\ Outcome(deliv.env, smaller) = "in" => deliv.env.call \notin Ours
         /\ Outcome(deliv.env, smaller) = "active" => ~Unsent(deliv.env.call)
<1>1. CASE deliv.env.kind = "offer"
  BY <1>1 DEF Outcome, ActiveUntil, Tuned, Settled, Delivered
<1>2. CASE deliv.env.kind = "answer"
  BY <1>2 DEF Outcome, ActiveUntil, Tuned, Settled, Delivered
<1>3. CASE deliv.env.kind = "hangup"
  BY <1>3 DEF Outcome, ActiveUntil
<1>. QED BY <1>1, <1>2, <1>3, OutcomeTyped

LEMMA HandleKeeps ==
  ASSUME IpcTypeOK, MediaTypeOK, Tuned, deliv.env \in Envelope, NEW smaller, Handle(smaller)
  PROVE  Tuned'
<1>. DEFINE e == deliv.env
<1>1. PICK s : s = IF e.from \in contact THEN Outcome(e, smaller) ELSE "none"
  OBVIOUS
<1>2. /\ Handled(e, s) /\ deliv.pc = "gate" /\ out["delivery"] = NoOut /\ deliv' = Idle
      /\ UNCHANGED <<waiters, session, opening, checked, inbound, dying, torn, stray, job>>
  BY <1>1 DEF Handle, AtGate
<1>3. CASE s = "none"
  <2>1. UNCHANGED <<out, job, cur, call, party, waiters, session, opening, checked, inbound, dying,
                    torn, raced, stray>>
    BY <1>2, <1>3 DEF Handled
  <2>2. Delivered'
    BY <1>2 DEF Delivered, Idle
  <2>3. OneEventEach' /\ Records' /\ CheckedIsCurrent' /\ Starting'
    BY <2>1 DEF Tuned, Settled, OneEventEach, Records, CheckedIsCurrent, Starting, Active
  <2>4. MediaIsComing' /\ NoStraySession'
    BY <2>1 DEF Tuned, Settled, MediaIsComing, NoStraySession, InFlight, Active
  <2>. QED BY <2>2, <2>3, <2>4 DEF Tuned, Settled
<1>4. CASE s # "none"
  <2>1. s = Outcome(e, smaller)
    BY <1>1, <1>4
  <2>2. s \in {"in", "active", "ended"} /\ e.call \in CallIds /\ e.from \in Peers
    BY <1>4, <2>1, OutcomeTyped
  <2>3. /\ ActiveUntil(s) /\ (s = "in" => e.call \notin Ours) /\ (s = "active" => ~Unsent(e.call))
    BY <1>2, <1>4, <2>1, OutcomeFits
  <2>4. /\ Put(e.call, s) /\ party' = [party EXCEPT ![e.call] = e.from]
        /\ Emit("delivery", CallEvent(e.call, s))
    BY <1>2, <1>4 DEF Handled
  <2>5. PICK c \in CallIds : c = e.call
    BY <2>2
  <2>. HIDE DEF e
  <2>6. party' = party \/ \E p \in Peers : party' = [party EXCEPT ![c] = p]
    BY <2>2, <2>4, <2>5
  <2>. QED BY <1>2, <2>2, <2>3, <2>4, <2>5, <2>6, EmittedKeeps
<1>. QED BY <1>3, <1>4

LEMMA HandleFailsKeeps ==
  ASSUME IpcTypeOK, MediaTypeOK, Tuned, deliv.env \in Envelope, NEW smaller, HandleFails(smaller)
  PROVE  Tuned'
<1>1. PICK s : s = Outcome(deliv.env, smaller)
  OBVIOUS
<1>2. /\ RolledBack(deliv.env, s) /\ deliv.pc = "gate" /\ deliv' = Idle /\ s # "none"
      /\ UNCHANGED <<waiters, session, opening, checked, inbound, dying, job, out>>
  BY <1>1 DEF HandleFails, AtGate, RolledBack
<1>3. PICK c \in CallIds : c = deliv.env.call
  BY <1>1, <1>2, OutcomeTyped
<1>4. s \in {"in", "active", "ended"} /\ deliv.env.from \in Peers
  BY <1>1, <1>2, OutcomeTyped
<1>5. ActiveUntil(s) /\ (s = "in" => c \notin Ours) /\ (s = "active" => ~Unsent(c))
  BY <1>1, <1>2, <1>3, OutcomeFits
<1>6. /\ Put(c, s) /\ stray' = (stray \/ (s = "ended" /\ session # NoPeer))
      /\ s = "active" => c \in torn'
      /\ \E p \in Peers : party' = [party EXCEPT ![c] = p]
  BY <1>2, <1>3, <1>4 DEF RolledBack, Unreported
<1>7. OneEventEach'
  BY <1>2 DEF Tuned, OneEventEach
<1>8. Records'
  BY <1>4, <1>5, <1>6, PutRecords DEF Tuned, Settled
<1>9. CheckedIsCurrent'
  <2>1. \A x \in CallIds : party[x] \in Peers => party'[x] \in Peers
    BY <1>6 DEF MediaTypeOK
  <2>. QED BY <1>2, <1>5, <1>6, <2>1, PutChecked DEF Tuned, Settled
<1>10. Starting'
  <2>1. s \in {"out", "ended"} \/ ~Unsent(c)
    <3>1. s = "in" => ~Unsent(c)
      BY <1>5 DEF Unsent, Tuned, Settled, Starting, MediaTypeOK
    <3>. QED BY <1>4, <1>5, <3>1
  <2>. QED BY <1>2, <1>6, <2>1, PutStarting DEF Tuned, Settled
<1>11. Delivered'
  BY <1>2 DEF Delivered, Idle
<1>12. MediaIsComing'
  BY <1>6, PutComing DEF MediaTypeOK
<1>13. NoStraySession'
  <2>1. \A x \in CallIds : InFlight(x, "ended") => InFlight(x, "ended")'
    BY <1>2 DEF InFlight
  <2>. QED BY <1>2, <1>5, <1>6, <2>1, PutStray DEF Tuned, Settled
<1>. QED BY <1>7, <1>8, <1>9, <1>10, <1>11, <1>12, <1>13 DEF Tuned, Settled

LEMMA ArriveSettles ==
  ASSUME IpcTypeOK, MediaTypeOK, PresenceTypeOK, Tuned, NEW e \in Envelope, Arrive(e)
  PROVE  Tuned'
<1>1. /\ OneEventEach' /\ SameWork /\ SameNews /\ job' = job /\ UNCHANGED mediaVars
  BY ArriveKeeps DEF Tuned
<1>2. UNCHANGED <<cur, call, party, waiters, session, opening, checked, inbound, dying, torn, raced, stray>>
  BY <1>1 DEF mediaVars
<1>3. Records' /\ CheckedIsCurrent' /\ Starting'
  BY <1>1, <1>2 DEF Tuned, Settled, Records, CheckedIsCurrent, Starting, Active
<1>4. MediaIsComing'
  <2>1. cur # NoCall => cur \in CallIds
    BY DEF MediaTypeOK
  <2>. QED BY <1>1, <1>2, <2>1 DEF Tuned, Settled, MediaIsComing, SameNews
<1>5. NoStraySession'
  BY <1>1, <1>2 DEF Tuned, Settled, NoStraySession, SameNews, Active
<1>6. Delivered'
  <2>1. deliv'.env = e /\ Sendable(e)
    BY DEF Arrive
  <2>2. ASSUME NEW x, Unsent(x)' PROVE Unsent(x)
    BY <1>1, <1>2, <2>2 DEF Unsent
  <2>3. CASE e.kind = "offer"
    BY <2>1, <2>3 DEF Delivered, Sendable
  <2>4. CASE e.kind = "answer"
    <3>1. e \in [kind : {"answer"}, call : CallIds, from : Peers, accept : BOOLEAN]
      BY <2>4 DEF Envelope
    <3>2. ~Unsent(e.call) /\ party[e.call] = e.from /\ e.from \in Peers /\ e.call \in CallIds
      BY <2>1, <2>4, <3>1 DEF Sendable
    <3>3. call[e.call] # "none"
      BY <3>2, NoPeerAssumption DEF Tuned, Settled, Records
    <3>. QED BY <1>2, <2>1, <2>2, <2>4, <3>2, <3>3 DEF Delivered
  <2>. QED BY <2>1, <2>3, <2>4 DEF Delivered
<1>. QED BY <1>1, <1>3, <1>4, <1>5, <1>6 DEF Tuned, Settled

\* The steps of the media session leave the call alone.
CallAlone ==
  UNCHANGED <<cur, call, party, waiters, job, deliv>>

LEMMA CallAloneKeeps ==
  ASSUME Tuned, CallAlone
  PROVE  Records' /\ Starting' /\ Delivered'
BY DEF Tuned, Settled, CallAlone, Records, Starting, Delivered, Unsent

LEMMA ActKeeps ==
  ASSUME IpcTypeOK, MediaTypeOK, Tuned, NEW g \in Emitters, Act(g), UNCHANGED deliv
  PROVE  Tuned'
<1>1. /\ UNCHANGED <<cur, call, party, waiters, job, deliv, checked, inbound, dying, raced>>
      /\ out[g].step = "act" /\ out'[g] = NoOut /\ \A h \in Emitters : h # g => out'[h] = out[h]
  BY DEF Act, IpcTypeOK
<1>2. Records' /\ Starting' /\ Delivered'
  BY <1>1, CallAloneKeeps DEF CallAlone
<1>3. OneEventEach'
  <2>1. out[g] # NoOut /\ "media" \in Emitters
    BY <1>1 DEF NoOut, Emitters, Core
  <2>. QED BY <1>1, <2>1, LoopIsEmitter DEF Tuned, OneEventEach
<1>4. CheckedIsCurrent'
  BY <1>1 DEF Tuned, Settled, CheckedIsCurrent, Active
<1>5. MediaIsComing'
  <2>. SUFFICES ASSUME cur # NoCall, cur \in Ours \ torn', call[cur] = "active"
                PROVE  \/ session' # NoPeer \/ opening'[cur] + checked'[cur] > 0
                       \/ dying' \/ InFlight(cur, "active")'
    BY <1>1 DEF MediaIsComing
  <2>1. cur \notin torn /\ cur \in CallIds /\ opening \in [CallIds -> Nat] /\ checked[cur] \in Nat
    BY OursAssumption DEF Act, MediaTypeOK
  <2>2. \/ session # NoPeer \/ opening[cur] + checked[cur] > 0 \/ dying \/ InFlight(cur, "active")
    BY <2>1 DEF Tuned, Settled, MediaIsComing
  <2>3. opening'[cur] >= opening[cur] /\ opening'[cur] \in Nat
    BY <2>1 DEF Act
  <2>4. CASE session # NoPeer
    BY <2>4 DEF Act
  <2>5. CASE opening[cur] + checked[cur] > 0
    BY <1>1, <2>1, <2>3, <2>5
  <2>6. CASE InFlight(cur, "active")
    <3>1. PICK h \in Emitters : out[h].step # "none" /\ out[h].event = CallEvent(cur, "active")
      BY <2>6 DEF InFlight
    <3>2. CASE h = g
      <4>1. /\ out[g].event.kind = "call" /\ out[g].event.state = "active"
            /\ out[g].event.call = cur
        BY <3>1, <3>2 DEF CallEvent
      <4>2. opening' = [opening EXCEPT ![out[g].event.call] = @ + 1]
        BY <4>1 DEF Act
      <4>. QED BY <1>1, <2>1, <4>1, <4>2
    <3>3. CASE h # g
      BY <1>1, <3>1, <3>3 DEF InFlight
    <3>. QED BY <3>2, <3>3
  <2>. QED BY <1>1, <2>2, <2>4, <2>5, <2>6
<1>6. NoStraySession'
  <2>1. CASE session' = NoPeer
    BY <2>1 DEF NoStraySession
  <2>2. CASE session' # NoPeer
    <3>1. UNCHANGED <<session, stray>> /\ ~(out[g].event.kind = "call" /\ out[g].event.state = "ended")
      BY <2>2 DEF Act
    <3>2. ASSUME NEW x, InFlight(x, "ended") PROVE InFlight(x, "ended")'
      <4>1. PICK h \in Emitters : out[h].step # "none" /\ out[h].event = CallEvent(x, "ended")
        BY <3>2 DEF InFlight
      <4>2. h # g
        BY <3>1, <4>1 DEF CallEvent
      <4>. QED BY <1>1, <4>1, <4>2 DEF InFlight
    <3>. QED BY <1>1, <3>1, <3>2 DEF Tuned, Settled, NoStraySession, Active
  <2>. QED BY <2>1, <2>2
<1>. QED BY <1>2, <1>3, <1>4, <1>5, <1>6 DEF Tuned, Settled

LEMMA OpeningKeeps ==
  ASSUME IpcTypeOK, MediaTypeOK, Tuned, NEW c \in CallIds, Opened(c) \/ OpenFails(c) \/ AttachOpened(c),
         UNCHANGED deliv
  PROVE  Tuned'
<1>1. UNCHANGED <<cur, call, party, waiters, job, deliv, inbound, dying, raced, out>>
  BY DEF Opened, OpenFails, AttachOpened, ipcVars
<1>2. Records' /\ Starting' /\ Delivered'
  BY <1>1, CallAloneKeeps DEF CallAlone
<1>3. OneEventEach'
  BY <1>1 DEF Tuned, OneEventEach
<1>4. opening \in [CallIds -> Nat] /\ checked \in [CallIds -> Nat]
  BY DEF MediaTypeOK
<1>5. CASE Opened(c)
  <2>1. UNCHANGED <<session, stray, torn>> /\ opening[c] > 0
        /\ opening' = [opening EXCEPT ![c] = @ - 1]
        /\ IF cur = c /\ call[c] = "active" THEN checked' = [checked EXCEPT ![c] = @ + 1]
                                            ELSE checked' = checked
    BY <1>5 DEF Opened
  <2>2. CheckedIsCurrent'
    <3>1. ASSUME NEW x \in CallIds, checked'[x] > 0
          PROVE  party[x] \in Peers /\ (x \in raced \/ (cur = x /\ call[x] = "active"))
      <4>1. CASE checked[x] > 0
        BY <4>1 DEF Tuned, Settled, CheckedIsCurrent
      <4>2. CASE ~(checked[x] > 0)
        <5>1. x = c /\ cur = c /\ call[c] = "active"
          BY <1>4, <2>1, <3>1, <4>2
        <5>. QED BY <5>1, CallsAssumption DEF MediaTypeOK
      <4>. QED BY <4>1, <4>2
    <3>. QED BY <1>1, <3>1 DEF Tuned, Settled, CheckedIsCurrent, Active
  <2>3. MediaIsComing'
    <3>. SUFFICES ASSUME cur # NoCall, cur \in Ours \ torn, call[cur] = "active"
                  PROVE  \/ session # NoPeer \/ opening'[cur] + checked'[cur] > 0
                         \/ dying \/ InFlight(cur, "active")
      BY <1>1, <2>1 DEF MediaIsComing, InFlight
    <3>1. cur \in CallIds
      BY OursAssumption
    <3>2. opening'[cur] + checked'[cur] = opening[cur] + checked[cur]
      BY <1>4, <2>1, <3>1
    <3>. QED BY <3>2 DEF Tuned, Settled, MediaIsComing
  <2>4. NoStraySession'
    BY <1>1, <2>1 DEF Tuned, Settled, NoStraySession, InFlight, Active
  <2>. QED BY <1>2, <1>3, <2>2, <2>3, <2>4 DEF Tuned, Settled
<1>6. CASE OpenFails(c)
  <2>1. UNCHANGED <<session, stray, checked>> /\ torn' = torn \cup {c}
        /\ opening' = [opening EXCEPT ![c] = @ - 1]
    BY <1>6 DEF OpenFails
  <2>2. CheckedIsCurrent'
    BY <1>1, <2>1 DEF Tuned, Settled, CheckedIsCurrent, Active
  <2>3. MediaIsComing'
    <3>1. \A x \in CallIds : x # c => opening'[x] = opening[x]
      BY <1>4, <2>1
    <3>. QED BY <1>1, <2>1, <3>1, OursAssumption DEF Tuned, Settled, MediaIsComing, InFlight
  <2>4. NoStraySession'
    BY <1>1, <2>1 DEF Tuned, Settled, NoStraySession, InFlight, Active
  <2>. QED BY <1>2, <1>3, <2>2, <2>3, <2>4 DEF Tuned, Settled
<1>7. CASE AttachOpened(c)
  <2>1. UNCHANGED <<opening, torn>> /\ checked[c] > 0 /\ checked' = [checked EXCEPT ![c] = @ - 1]
        /\ session' = party[c] /\ stray' = (c \in raced)
    BY <1>7 DEF AttachOpened, Attach
  <2>2. party[c] \in Peers /\ (c \in raced \/ (cur = c /\ call[c] = "active"))
    BY <2>1 DEF Tuned, Settled, CheckedIsCurrent
  <2>3. CheckedIsCurrent'
    <3>1. ASSUME NEW x \in CallIds, checked'[x] > 0 PROVE checked[x] > 0
      BY <1>4, <2>1, <3>1
    <3>. QED BY <1>1, <3>1 DEF Tuned, Settled, CheckedIsCurrent, Active
  <2>4. MediaIsComing'
    BY <2>1, <2>2, NoPeerAssumption DEF MediaIsComing
  <2>5. NoStraySession'
    <3>1. c # NoCall
      BY CallsAssumption
    <3>. QED BY <1>1, <2>1, <2>2, <3>1 DEF NoStraySession, Active
  <2>. QED BY <1>2, <1>3, <2>3, <2>4, <2>5 DEF Tuned, Settled
<1>. QED BY <1>5, <1>6, <1>7

LEMMA InboundKeeps ==
  ASSUME IpcTypeOK, MediaTypeOK, Tuned,
         (\E p \in Peers : InboundArrives(p)) \/ InboundChecked \/ AttachInbound, UNCHANGED deliv
  PROVE  Tuned'
<1>1. UNCHANGED <<cur, call, party, waiters, job, deliv, opening, checked, dying, torn, raced, out>>
  BY DEF InboundArrives, InboundChecked, AttachInbound, ipcVars
<1>2. Records' /\ Starting' /\ Delivered'
  BY <1>1, CallAloneKeeps DEF CallAlone
<1>3. OneEventEach'
  BY <1>1 DEF Tuned, OneEventEach
<1>4. CASE (\E p \in Peers : InboundArrives(p)) \/ InboundChecked
  <2>1. UNCHANGED <<session, stray>>
    BY <1>4 DEF InboundArrives, InboundChecked
  <2>2. inbound'.pc = "checked" => inbound'.call = cur /\ Active(inbound'.peer)
    BY <1>4 DEF InboundArrives, InboundChecked, NoInbound
  <2>3. CheckedIsCurrent'
    BY <1>1, <2>2 DEF Tuned, Settled, CheckedIsCurrent, Active
  <2>4. MediaIsComing' /\ NoStraySession'
    BY <1>1, <2>1 DEF Tuned, Settled, MediaIsComing, NoStraySession, InFlight, Active
  <2>. QED BY <1>2, <1>3, <2>3, <2>4 DEF Tuned, Settled
<1>5. CASE AttachInbound
  <2>1. /\ inbound.pc = "checked" /\ inbound' = NoInbound
        /\ session' = inbound.peer /\ stray' = (inbound.call \in raced)
    BY <1>5 DEF AttachInbound, Attach
  <2>2. inbound.peer \in Peers /\ (inbound.call \in raced \/ Active(inbound.peer))
    BY <2>1 DEF Tuned, Settled, CheckedIsCurrent, MediaTypeOK, NoInbound
  <2>3. CheckedIsCurrent'
    BY <1>1, <2>1 DEF Tuned, Settled, CheckedIsCurrent, Active, NoInbound
  <2>4. MediaIsComing'
    BY <2>1, <2>2, NoPeerAssumption DEF MediaIsComing
  <2>5. NoStraySession'
    BY <1>1, <2>1, <2>2 DEF NoStraySession, Active
  <2>. QED BY <1>2, <1>3, <2>3, <2>4, <2>5 DEF Tuned, Settled
<1>. QED BY <1>4, <1>5

LEMMA DeathKeeps ==
  ASSUME IpcTypeOK, MediaTypeOK, Tuned, SessionDies \/ OnMediaClosed, UNCHANGED deliv
  PROVE  Tuned'
<1>1. UNCHANGED <<cur, call, party, waiters, job, deliv, opening, checked, inbound, torn, raced>>
  BY DEF SessionDies, OnMediaClosed, ipcVars
<1>2. Records' /\ Starting' /\ Delivered' /\ CheckedIsCurrent'
  BY <1>1, CallAloneKeeps DEF CallAlone, Tuned, Settled, CheckedIsCurrent, Active
<1>3. CASE SessionDies
  <2>1. dying' /\ session' = NoPeer /\ out' = out /\ out["media"] = NoOut
    BY <1>3 DEF SessionDies, ipcVars
  <2>2. OneEventEach'
    BY <1>1, <2>1 DEF Tuned, OneEventEach
  <2>3. MediaIsComing' /\ NoStraySession'
    BY <2>1 DEF MediaIsComing, NoStraySession
  <2>. QED BY <1>2, <2>2, <2>3 DEF Tuned, Settled
<1>4. CASE OnMediaClosed
  <2>1. /\ UNCHANGED <<session, stray>> /\ out["media"] = NoOut /\ ~dying'
        /\ "media" \in Emitters /\ out \in [Emitters -> Emission]
        /\ \A k \in Conns : k \in Emitters /\ k # "media"
    BY <1>4, LoopIsEmitter DEF OnMediaClosed, Tuned, OneEventEach, Emitters, Core, IpcTypeOK
  <2>2. \/ out' = out /\ ~(cur # NoCall /\ call[cur] = "active")
        \/ Emit("media", CallEvent(cur, "active"))
    BY <1>4 DEF OnMediaClosed
  <2>3. OneEventEach'
    <3>1. \A h \in Emitters : h # "media" => out'[h] = out[h]
      BY <2>1, <2>2 DEF Emit
    <3>. QED BY <1>1, <2>1, <3>1 DEF Tuned, OneEventEach
  <2>4. MediaIsComing'
    <3>1. PICK c : c = cur /\ c = cur'
      BY <1>1
    <3>2. ASSUME Emit("media", CallEvent(cur, "active")) PROVE InFlight(c, "active")'
      <4>1. out'["media"].step # "none" /\ out'["media"].event = CallEvent(c, "active")
        BY <2>1, <3>1, <3>2 DEF Emit
      <4>. QED BY <2>1, <4>1 DEF InFlight
    <3>. QED BY <1>1, <2>2, <3>1, <3>2 DEF MediaIsComing
  <2>5. NoStraySession'
    <3>1. ASSUME NEW x, InFlight(x, "ended") PROVE InFlight(x, "ended")'
      BY <2>1, <2>2, <3>1 DEF Emit, InFlight, NoOut
    <3>. QED BY <1>1, <2>1, <3>1 DEF Tuned, Settled, NoStraySession, Active
  <2>. QED BY <1>2, <2>3, <2>4, <2>5 DEF Tuned, Settled
<1>. QED BY <1>3, <1>4

-----------------------------------------------------------------------------
(* Theorems                                                                *)

LEMMA InitInductive == Init => Inductive
<1>. SUFFICES ASSUME Init PROVE Inductive
  OBVIOUS
<1>1. IpcTypeOK
  <2>1. /\ Note \in {Note} \cup [kind : {"call"}, call : CallIds, state : CallState]
        /\ <<>> \in Seq(Event) /\ <<>> \in Seq(Command) /\ Len(<<>>) = 0
        /\ NoJob \in Job /\ NoOut \in Emission /\ "none" \in CallState
    BY DEF Job, Emission, CallState
  <2>. QED BY <2>1, QueuesAssumption DEF Init, IpcInit, IpcTypeOK
<1>2. MediaTypeOK
  BY DEF Init, MediaInit, MediaTypeOK, CallState
<1>3. TypeOK
  BY <1>1, <1>2, BoundsAssumption DEF Init, PresenceInit, PresenceTypeOK, TypeOK
<1>4. OneEventEach
  BY DEF Init, IpcInit, MediaInit, OneEventEach, Emitters, Core
<1>5. Records /\ CheckedIsCurrent
  BY DEF Init, MediaInit, Records, CheckedIsCurrent, NoInbound
<1>6. Starting /\ Delivered
  BY DEF Init, IpcInit, Starting, Delivered, NoJob, Idle
<1>7. MediaIsComing /\ NoStraySession
  BY DEF Init, MediaInit, MediaIsComing, NoStraySession
<1>. QED BY <1>3, <1>4, <1>5, <1>6, <1>7 DEF Inductive, Settled

LEMMA OfMediaKeeps ==
  ASSUME IpcTypeOK, MediaTypeOK, Tuned, OfMedia, UNCHANGED deliv
  PROVE  Tuned' /\ IpcTypeOK' /\ MediaTypeOK'
<1>1. CASE Bridge \/ \E p \in Peers : InboundArrives(p)
  BY <1>1, OpeningKeeps, OpeningTyped, InboundKeeps, InboundTyped, DeathKeeps, DeathTyped DEF Bridge
<1>2. CASE \E g \in Emitters : Act(g)
  BY <1>2, ActKeeps, ActTyped
<1>3. ASSUME NEW k \in Conns, Mutate(k) \/ Sent(k) \/ Tell(k)
      PROVE  Tuned' /\ IpcTypeOK' /\ MediaTypeOK'
  <2>1. CASE Mutate(k)
    BY <2>1, MutateKeeps, MutateTyped
  <2>2. CASE Sent(k)
    BY <2>2, SentKeeps, SentTyped
  <2>3. CASE Tell(k)
    BY <2>3, TellKeeps, TellTyped
  <2>. QED BY <1>3, <2>1, <2>2, <2>3
<1>4. CASE \E c \in CallIds : WaiterEnds(c) \/ WaiterGivesUp(c)
  BY <1>4, WaiterEndsKeeps, WaiterGivesUpKeeps, WaiterTyped
<1>. QED BY <1>1, <1>2, <1>3, <1>4 DEF OfMedia

\* A step that leaves the call and the media session alone.
LEMMA ApartKeeps ==
  ASSUME Inductive, UNCHANGED <<mediaVars, deliv, again>>, OneEventEach', SameWork, SameNews
  PROVE  Tuned' /\ MediaTypeOK'
<1>1. MediaTypeOK
  BY DEF Inductive, TypeOK
<1>2. Settled'
  BY <1>1, Frame DEF Inductive
<1>3. MediaTypeOK'
  BY <1>1 DEF mediaVars, MediaTypeOK
<1>. QED BY <1>2, <1>3 DEF Tuned

LEMMA StepKeeps ==
  ASSUME Inductive, Step
  PROVE  /\ Tuned' /\ IpcTypeOK' /\ MediaTypeOK' /\ PresenceTypeOK'
         /\ deliv' \in {deliv, Idle} /\ again' = again
<1>. IpcTypeOK /\ MediaTypeOK /\ PresenceTypeOK /\ OneEventEach /\ Tuned
  BY DEF Inductive, TypeOK, Tuned
<1>1. CASE OfIpc /\ UNCHANGED <<mediaVars, presenceVars, deliv, again>>
  <2>1. dying' = dying
    BY <1>1 DEF mediaVars
  <2>2. PresenceTypeOK'
    BY <1>1 DEF presenceVars, PresenceTypeOK
  <2>. QED BY <1>1, <2>1, <2>2, OfIpcKeeps, OfIpcTyped, ApartKeeps
<1>2. CASE OfMedia /\ UNCHANGED <<presenceVars, deliv, again>>
  <2>1. PresenceTypeOK'
    BY <1>2 DEF presenceVars, PresenceTypeOK
  <2>. QED BY <1>2, <2>1, OfMediaKeeps
<1>3. CASE OfPresence /\ UNCHANGED <<mediaVars, deliv, again>>
  <2>1. dying' = dying
    BY <1>3 DEF mediaVars
  <2>. QED BY <1>3, <2>1, OfPresenceKeeps, ApartKeeps
<1>4. ASSUME NEW smaller \in BOOLEAN, Handle(smaller)
      PROVE  /\ Tuned' /\ IpcTypeOK' /\ MediaTypeOK' /\ PresenceTypeOK'
             /\ deliv' \in {deliv, Idle} /\ again' = again
  <2>1. deliv.env \in Envelope
    BY <1>4 DEF Handle, AtGate, Inductive, TypeOK, Idle
  <2>2. UNCHANGED <<presenceVars, again>> /\ deliv' = Idle
    BY <1>4 DEF Handle
  <2>3. PresenceTypeOK'
    BY <2>2 DEF presenceVars, PresenceTypeOK
  <2>. QED BY <1>4, <2>1, <2>2, <2>3, HandleKeeps, HandleTyped
<1>5. CASE \E k \in Conns : Resync(k) \/ ListChats(k) \/ Block(k) \/ Unblock(k)
  BY <1>5, MeetKeeps, ApartKeeps
<1>. QED BY <1>1, <1>2, <1>3, <1>4, <1>5 DEF Step

LEMMA StimulusKeeps ==
  ASSUME Inductive, Stimulus
  PROVE  /\ Tuned' /\ IpcTypeOK' /\ MediaTypeOK' /\ PresenceTypeOK'
         /\ deliv' \in {deliv} \cup [pc : {"gate"}, env : Envelope] /\ again' \subseteq CallIds
<1>. IpcTypeOK /\ MediaTypeOK /\ PresenceTypeOK /\ OneEventEach /\ Tuned /\ again \subseteq CallIds
  BY DEF Inductive, TypeOK, Tuned
<1>1. ASSUME NEW op \in Ops \ {"chats"}, NEW p \in Peers, Click(op, p),
             UNCHANGED <<mediaVars, presenceVars, deliv, again>>
      PROVE  Tuned' /\ IpcTypeOK' /\ MediaTypeOK' /\ PresenceTypeOK'
  <2>1. dying' = dying /\ UNCHANGED <<out, job>>
    BY <1>1 DEF mediaVars, Click
  <2>2. PresenceTypeOK'
    BY <1>1 DEF presenceVars, PresenceTypeOK
  <2>. QED BY <1>1, <2>1, <2>2, StillKeeps, ClickTyped, ApartKeeps
<1>2. ASSUME NEW p \in Peers, Silence(p), UNCHANGED <<mediaVars, deliv, again>>
      PROVE  Tuned' /\ IpcTypeOK' /\ MediaTypeOK' /\ PresenceTypeOK'
  <2>1. dying' = dying /\ UNCHANGED <<out, job>> /\ UNCHANGED ipcVars
    BY <1>2 DEF mediaVars, Silence, ipcVars
  <2>2. IpcTypeOK' /\ PresenceTypeOK'
    BY <1>2, <2>1 DEF ipcVars, IpcTypeOK, Silence, PresenceTypeOK
  <2>. QED BY <1>2, <2>1, <2>2, StillKeeps, ApartKeeps
<1>3. ASSUME NEW e \in Envelope, Arrive(e)
      PROVE  /\ Tuned' /\ IpcTypeOK' /\ MediaTypeOK' /\ PresenceTypeOK'
             /\ deliv' \in [pc : {"gate"}, env : Envelope] /\ again' \subseteq CallIds
  <2>1. deliv' = [pc |-> "gate", env |-> e] /\ again' \subseteq again
    BY <1>3 DEF Arrive
  <2>2. IpcTypeOK' /\ PresenceTypeOK' /\ UNCHANGED mediaVars
    BY <1>3, ArriveKeeps
  <2>3. MediaTypeOK'
    BY <2>2 DEF mediaVars, MediaTypeOK
  <2>. QED BY <1>3, <2>1, <2>2, <2>3, ArriveSettles
<1>. QED BY <1>1, <1>2, <1>3 DEF Stimulus

LEMMA FailureKeeps ==
  ASSUME Inductive, Failure
  PROVE  /\ Tuned' /\ IpcTypeOK' /\ MediaTypeOK' /\ PresenceTypeOK'
         /\ deliv' \in {deliv, Idle} /\ again' \subseteq CallIds
<1>. IpcTypeOK /\ MediaTypeOK /\ PresenceTypeOK /\ OneEventEach /\ Tuned /\ again \subseteq CallIds
  BY DEF Inductive, TypeOK, Tuned
<1>1. CASE (PageLost \/ Notify) /\ UNCHANGED <<mediaVars, presenceVars, deliv, again>>
  <2>1. dying' = dying /\ UNCHANGED <<out, job>>
    BY <1>1 DEF mediaVars, PageLost, Notify
  <2>2. PresenceTypeOK'
    BY <1>1 DEF presenceVars, PresenceTypeOK
  <2>. QED BY <1>1, <2>1, <2>2, StillKeeps, PageLostTyped, NotifyTyped, ApartKeeps
<1>2. CASE /\ SessionDies \/ (\E k \in Conns : SendFails(k)) \/ (\E c \in CallIds : OpenFails(c))
           /\ UNCHANGED <<presenceVars, deliv, again>>
  <2>1. PresenceTypeOK'
    BY <1>2 DEF presenceVars, PresenceTypeOK
  <2>. QED BY <1>2, <2>1, DeathKeeps, DeathTyped, SendFailsKeeps, SendFailsTyped,
              OpeningKeeps, OpeningTyped
<1>3. ASSUME NEW smaller \in BOOLEAN, HandleFails(smaller)
      PROVE  /\ Tuned' /\ IpcTypeOK' /\ MediaTypeOK' /\ PresenceTypeOK'
             /\ deliv' \in {deliv, Idle} /\ again' \subseteq CallIds
  <2>1. deliv.env \in Envelope
    BY <1>3 DEF HandleFails, AtGate, Inductive, TypeOK, Idle
  <2>2. UNCHANGED presenceVars /\ deliv' = Idle
    BY <1>3 DEF HandleFails
  <2>3. again' \subseteq CallIds
    <3>1. deliv.env.kind = "offer" => deliv.env.call \in CallIds
      BY <2>1 DEF Envelope
    <3>. QED BY <1>3, <3>1 DEF HandleFails
  <2>4. PresenceTypeOK'
    BY <2>2 DEF presenceVars, PresenceTypeOK
  <2>. QED BY <1>3, <2>1, <2>2, <2>3, <2>4, HandleFailsKeeps, HandleFailsTyped
<1>. QED BY <1>1, <1>2, <1>3 DEF Failure

LEMMA NextInductive == Inductive /\ [Next]_vars => Inductive'
<1>. SUFFICES ASSUME Inductive, [Next]_vars PROVE Inductive'
  OBVIOUS
<1>. deliv \in {Idle} \cup [pc : {"gate"}, env : Envelope] /\ again \subseteq CallIds
  BY DEF Inductive, TypeOK
<1>1. ASSUME Next PROVE inputs' \in 0..MaxInputs /\ faults' \in 0..MaxFaults
  <2>. inputs \in 0..MaxInputs /\ faults \in 0..MaxFaults
    BY DEF Inductive, TypeOK
  <2>. QED BY <1>1, BoundsAssumption DEF Next, Step, Stimulus, Failure, Inner, Input, Fault
<1>2. CASE Step
  BY <1>1, <1>2, StepKeeps DEF Next, Inductive, TypeOK, Tuned
<1>3. CASE Stimulus
  BY <1>1, <1>3, StimulusKeeps DEF Next, Inductive, TypeOK, Tuned
<1>4. CASE Failure
  BY <1>1, <1>4, FailureKeeps DEF Next, Inductive, TypeOK, Tuned
<1>5. CASE UNCHANGED vars
  <2>1. UNCHANGED <<conn, active, snap, sendq, cmdq, job, out, view, blur, cur, call, party, waiters,
                    session, opening, checked, inbound, dying, torn, raced, stray, seen, isOnline,
                    contact, gone, deliv, again, inputs, faults>>
    BY <1>5 DEF vars, ipcVars, mediaVars, presenceVars
  <2>2. TypeOK'
    <3>1. IpcTypeOK'
      BY <2>1 DEF Inductive, TypeOK, IpcTypeOK
    <3>2. MediaTypeOK'
      BY <2>1 DEF Inductive, TypeOK, MediaTypeOK
    <3>. QED BY <2>1, <3>1, <3>2 DEF Inductive, TypeOK, PresenceTypeOK
  <2>3. OneEventEach' /\ SameWork /\ SameNews
    BY <2>1, StillKeeps DEF Inductive
  <2>. QED BY <1>5, <2>2, <2>3, ApartKeeps DEF vars, Inductive, Tuned
<1>. QED BY <1>2, <1>3, <1>4, <1>5 DEF Next

\* The invariant that the theorems below follow from: a goroutine makes one event at a
\* time, a session that has been checked belongs to the active call or to one that ended
\* since, a call that is being started cannot be answered yet, and every record keeps the
\* side that made its id.
THEOREM DeskInductive == Spec => []Inductive
BY InitInductive, NextInductive, PTL DEF Spec

\* The server, the page, the call manager, the bridge, the presence and the delivery loop
\* keep their types; a current call rings or is active, and has a peer; no queue grows
\* past its bound.
THEOREM DeskTypes == Spec => []TypeOK
<1>1. Inductive => TypeOK
  BY DEF Inductive
<1>. QED BY <1>1, DeskInductive, PTL

\* "The call lives on" (app/core.go:193-208): for any number of connections, calls and
\* peers, an active call of ours has a media session, or a goroutine is on its way to
\* give it one, unless opening failed or the end of another call took the session.
THEOREM DeskMedia == Spec => []MediaIsComing
<1>1. Inductive => MediaIsComing
  BY DEF Inductive, Settled
<1>. QED BY <1>1, DeskInductive, PTL

\* The bridge keeps a session no longer than its call (app/core.go:168-191, 226-235), for
\* any number of connections, calls and peers: unless the call ended between the look at
\* it and the attach, an end of a call is on its way to Detach or the session is the one
\* of the active call.
THEOREM DeskSessions == Spec => []NoStraySession
<1>1. Inductive => NoStraySession
  BY DEF Inductive, Settled
<1>. QED BY <1>1, DeskInductive, PTL

-----------------------------------------------------------------------------
(* What the page will show                                                 *)

\* Among the events of q the last one that is in S is in G; if there is none, d.
EndsWith(q, S, G, d) ==
  /\ (\A i \in DOMAIN q : q[i] \notin S) => d
  /\ \A i \in DOMAIN q :
       q[i] \in S /\ (\A j \in DOMAIN q : j > i => q[j] \notin S) => q[i] \in G

NoBar == [call |-> NoCall, state |-> "none"]

\* The call bar as it should be, and as it is.
TheBar == IF cur = NoCall THEN NoBar ELSE [call |-> cur, state |-> call[cur]]
ShownBar == [call |-> view.call, state |-> view.state]

CallNews == {ev \in Event : ev.kind = "call"}

\* When the page has handled all it is sent, its call bar is b.
BarEnds(b) ==
  EndsWith(sendq[view.conn], CallNews, {ev \in CallNews : Bar(ev) = b}, ShownBar = b)

\* What tells the page whether p is online.
OnlineNews(p) ==
  {ev \in Event : \/ ev.kind = "presence" /\ ev.peer = p
                  \/ ev.kind = "result" /\ ev.op = "chats" /\ ev.done}
Says(ev, p) == IF ev.kind = "presence" THEN ev.online ELSE p \in ev.online

\* When the page has handled all it is sent, it shows what is the case of p.
OnlineEnds(p) ==
  EndsWith(sendq[view.conn], OnlineNews(p),
           {ev \in OnlineNews(p) : Says(ev, p) <=> p \in isOnline}, p \in view.online <=> p \in isOnline)

Served == view.conn # NoConn /\ active = view.conn

Speaks(g, kind) == out[g].step = "emit" /\ out[g].event.kind = kind
Works(k) == job[k].pc \in {"send", "tell"}
Starts(k) == job[k].pc = "send" /\ job[k].op = "start"

\* Only the page's connection carries something, and nothing before it is attached.
Lines ==
  /\ \A k \in Conns : k # view.conn => sendq[k] = <<>>
  /\ \A k \in Conns : conn[k] \in {"none", "hello", "swapped", "snapped"} => job[k] = NoJob
  /\ view.conn = NoConn => ShownBar = NoBar
  /\ view.conn # NoConn /\ conn[view.conn] = "hello" =>
       sendq[view.conn] = <<>> /\ ShownBar = NoBar
  /\ active # NoConn => conn[active] \in {"swapped", "snapped", "open"}

\* Goroutines emit nothing else.
NewsOnly ==
  \A g \in Emitters : out[g].step = "emit" => out[g].event.kind \in {"call", "presence"}

\* Whatever is on its way to the page tells the current call as it is, unless it is blurred.
CallNewsFit ==
  "call" \notin blur =>
    /\ \A g \in Emitters : Speaks(g, "call") => Bar(out[g].event) = TheBar
    /\ \A k \in Conns : Works(k) => Bar(CallEvent(job[k].call, Told(k))) = TheBar
    /\ \A k \in Conns : conn[k] = "snapped" => snap[k].kind = "call" /\ Bar(snap[k]) = TheBar
    /\ \A k \in Conns : Starts(k) => ~Pending("call", k)

BarComes ==
  "call" \notin blur /\ Served =>
    /\ conn[active] = "open" /\ ~Pending("call", NoConn) => BarEnds(TheBar)
    /\ conn[active] = "swapped" /\ ~Pending("call", NoConn) => BarEnds(TheBar) \/ BarEnds(NoBar)
    /\ \A k \in Conns : Starts(k) => BarEnds(NoBar)
    /\ \A k \in Conns : conn[k] = "snapped" => k = active

CallShown == CallNewsFit /\ BarComes

OnlineNewsFit ==
  /\ \A p \in isOnline : seen[p] # "never"
  /\ view.conn # NoConn /\ conn[view.conn] \in {"none", "hello", "swapped", "snapped"} =>
       "presence" \in blur
  /\ \A k \in Conns : Holds(k, "presence") => job[k].result.done
  /\ "presence" \notin blur =>
       /\ \A g \in Emitters : Speaks(g, "presence") =>
            (out[g].event.online <=> out[g].event.peer \in isOnline)
       /\ gone \cap isOnline = {}

OnlineComes ==
  "presence" \notin blur /\ Served =>
    IF Holds(active, "presence")
    THEN job[active].result.online = isOnline
    ELSE \A p \in Peers :
           \/ OnlineEnds(p) \/ p \in gone
           \/ \E g \in Emitters : Speaks(g, "presence") /\ out[g].event.peer = p

OnlineShown == OnlineNewsFit /\ OnlineComes

InStep == Lines /\ NewsOnly /\ CallShown /\ OnlineShown

LEMMA AppendOther ==
  ASSUME NEW q \in Seq(Event), NEW ev \in Event, NEW S, NEW G, NEW d,
         ev \notin S, EndsWith(q, S, G, d)
  PROVE  EndsWith(Append(q, ev), S, G, d)
<1>. DEFINE r == Append(q, ev)
<1>1. /\ Len(q) \in Nat /\ DOMAIN q = 1..Len(q) /\ DOMAIN r = 1..(Len(q) + 1)
      /\ r[Len(q) + 1] = ev /\ \A i \in 1..Len(q) : r[i] = q[i]
  OBVIOUS
<1>. HIDE DEF r
<1>2. ASSUME \A i \in DOMAIN r : r[i] \notin S PROVE d
  <2>1. \A i \in DOMAIN q : q[i] \notin S
    BY <1>1, <1>2
  <2>. QED BY <2>1 DEF EndsWith
<1>3. ASSUME NEW i \in DOMAIN r, r[i] \in S, \A j \in DOMAIN r : j > i => r[j] \notin S
      PROVE  r[i] \in G
  <2>1. i \in DOMAIN q /\ r[i] = q[i]
    BY <1>1, <1>3
  <2>2. \A j \in DOMAIN q : j > i => q[j] \notin S
    BY <1>1, <1>3
  <2>. QED BY <1>3, <2>1, <2>2 DEF EndsWith
<1>. QED BY <1>2, <1>3 DEF EndsWith, r

LEMMA AppendDecides ==
  ASSUME NEW q \in Seq(Event), NEW ev \in Event, NEW S, NEW G, NEW d, ev \in S, ev \in G
  PROVE  EndsWith(Append(q, ev), S, G, d)
<1>. DEFINE r == Append(q, ev)
<1>1. /\ Len(q) \in Nat /\ DOMAIN r = 1..(Len(q) + 1) /\ r[Len(q) + 1] = ev
  OBVIOUS
<1>. HIDE DEF r
<1>2. Len(q) + 1 \in DOMAIN r /\ \A i \in DOMAIN r : i = Len(q) + 1 \/ Len(q) + 1 > i
  BY <1>1
<1>. QED BY <1>1, <1>2 DEF EndsWith, r

\* The page handles the first event.
LEMMA TailEnds ==
  ASSUME NEW q \in Seq(Event), q # <<>>, NEW S, NEW G, NEW d, NEW e,
         EndsWith(q, S, G, d), Head(q) \in S => (Head(q) \in G => e), Head(q) \notin S => (d => e)
  PROVE  EndsWith(Tail(q), S, G, e)
<1>. DEFINE r == Tail(q)
<1>1. /\ Len(q) \in Nat \ {0} /\ DOMAIN q = 1..Len(q) /\ DOMAIN r = 1..(Len(q) - 1)
      /\ Head(q) = q[1] /\ \A i \in 1..(Len(q) - 1) : r[i] = q[i + 1]
  OBVIOUS
<1>. HIDE DEF r
<1>2. ASSUME \A i \in DOMAIN r : r[i] \notin S PROVE e
  <2>1. \A j \in DOMAIN q : j > 1 => q[j] \notin S
    <3>1. ASSUME NEW j \in DOMAIN q, j > 1 PROVE q[j] \notin S
      <4>1. j - 1 \in DOMAIN r /\ r[j - 1] = q[j]
        BY <1>1, <3>1
      <4>. QED BY <1>2, <4>1
    <3>. QED BY <3>1
  <2>2. CASE Head(q) \in S
    <3>1. Head(q) \in G
      BY <1>1, <2>1, <2>2 DEF EndsWith
    <3>. QED BY <2>2, <3>1
  <2>3. CASE Head(q) \notin S
    <3>1. \A j \in DOMAIN q : q[j] \notin S
      BY <1>1, <2>1, <2>3
    <3>2. d
      BY <3>1 DEF EndsWith
    <3>. QED BY <2>3, <3>2
  <2>. QED BY <2>2, <2>3
<1>3. ASSUME NEW i \in DOMAIN r, r[i] \in S, \A j \in DOMAIN r : j > i => r[j] \notin S
      PROVE  r[i] \in G
  <2>1. i + 1 \in DOMAIN q /\ r[i] = q[i + 1]
    BY <1>1, <1>3
  <2>2. ASSUME NEW j \in DOMAIN q, j > i + 1 PROVE q[j] \notin S
    <3>1. j - 1 \in DOMAIN r /\ j - 1 > i /\ r[j - 1] = q[j]
      BY <1>1, <1>3, <2>2
    <3>. QED BY <1>3, <3>1
  <2>. QED BY <1>3, <2>1, <2>2 DEF EndsWith
<1>. QED BY <1>2, <1>3 DEF EndsWith, r

LEMMA NothingEnds ==
  ASSUME NEW S, NEW G, NEW d, d PROVE EndsWith(<<>>, S, G, d)
  BY DEF EndsWith

LEMMA EndsAre ==
  ASSUME NEW q, NEW S, NEW G, NEW d, EndsWith(q, S, G, d), \A i \in DOMAIN q : q[i] \notin S
  PROVE  d
  BY DEF EndsWith

\* What is pushed to the page, or to a connection without a page, and decides nothing.
LEMMA PushKeepsEnd ==
  ASSUME IpcTypeOK, NEW k \in Conns, NEW ev \in Event, Push(k, ev), view.conn \in Conns,
         NEW S, NEW G, NEW d, ev \notin S \/ k # view.conn, EndsWith(sendq[view.conn], S, G, d)
  PROVE  EndsWith(sendq'[view.conn], S, G, d)
<1>1. sendq[view.conn] \in Seq(Event)
  BY DEF IpcTypeOK
<1>2. CASE sendq'[view.conn] = sendq[view.conn]
  BY <1>2
<1>3. CASE k = view.conn /\ sendq' = [sendq EXCEPT ![k] = Append(@, ev)]
  <2>1. sendq'[view.conn] = Append(sendq[view.conn], ev)
    BY <1>3 DEF IpcTypeOK
  <2>. QED BY <1>1, <1>3, <2>1, AppendOther
<1>. QED BY <1>2, <1>3 DEF Push, IpcTypeOK

\* What decides ends the queue, or is missed.
LEMMA PushEnds ==
  ASSUME IpcTypeOK, NEW k \in Conns, NEW ev \in Event, Push(k, ev), k = view.conn,
         NEW kind \in Carries(ev), kind \notin blur',
         NEW S, NEW G, NEW d, ev \in S, ev \in G
  PROVE  EndsWith(sendq'[view.conn], S, G, d)
<1>1. sendq[view.conn] \in Seq(Event)
  BY DEF IpcTypeOK
<1>2. sendq' = [sendq EXCEPT ![k] = Append(@, ev)]
  BY DEF Push
<1>3. sendq'[view.conn] = Append(sendq[view.conn], ev)
  BY <1>2 DEF IpcTypeOK
<1>. QED BY <1>1, <1>3, AppendDecides

LEMMA PushBlurs ==
  ASSUME NEW k, NEW ev, Push(k, ev), NEW kind, kind \notin blur'
  PROVE  kind \notin blur
  BY DEF Push

-----------------------------------------------------------------------------
(* The connections                                                         *)

Early == {"none", "hello", "swapped", "snapped"}

LEMMA NoConnApart == NoConn \notin Emitters /\ NoConn \notin Conns
  BY ConnsAssumption DEF Emitters

\* Nothing is said of the call bar while the call is blurred.
LEMMA UnlessBlurred ==
  ASSUME "call" \notin blur' => CallShown' PROVE CallShown'
<1>1. "call" \in blur' => CallNewsFit'
  BY DEF CallNewsFit
<1>2. "call" \in blur' => BarComes'
  BY DEF BarComes
<1>. QED BY <1>1, <1>2 DEF CallShown

LEMMA LinesKept ==
  ASSUME IpcTypeOK, Lines, UNCHANGED <<conn, active, view>>,
         \/ sendq' = sendq
         \/ \E k \in Conns, ev \in Event : Push(k, ev) /\ (k = view.conn => conn[k] # "hello"),
         \A i \in Conns : conn[i] \in Early => job'[i] = job[i]
  PROVE  Lines'
<1>1. \A i \in Conns : sendq'[i] = sendq[i] \/ (i = view.conn /\ conn[i] # "hello")
  BY DEF Push, IpcTypeOK
<1>2. view.conn # NoConn => view.conn \in Conns
  BY DEF IpcTypeOK
<1>. QED BY <1>1, <1>2 DEF Lines, Early, ShownBar

\* Steps that no news of the call, and no answer to ListChats, come from or go to.
CallsStill ==
  /\ "call" \notin blur' => "call" \notin blur
  /\ cur' = cur /\ call' = call
  /\ \A g \in Emitters : out'[g] = out[g] \/ (~Speaks(g, "call") /\ ~Speaks(g, "call")')
  /\ SameWork
  /\ snap' = snap /\ \A k \in Conns : conn'[k] = "snapped" <=> conn[k] = "snapped"
  /\ "call" \notin blur' /\ Served' =>
       /\ Served /\ view'.conn = view.conn /\ conn'[active] = conn[active]
       /\ \A b : BarEnds(b) => BarEnds(b)'

LEMMA StillPending ==
  ASSUME CallsStill, NEW g PROVE Pending("call", g)' <=> Pending("call", g)
<1>1. \A h \in Emitters : Speaks(h, "call")' <=> Speaks(h, "call")
  BY DEF CallsStill, Speaks
<1>2. \A k \in Conns : Holds(k, "call")' <=> Holds(k, "call")
  BY DEF CallsStill, SameWork, Holds
<1>3. Pending("call", g) <=> \/ \E h \in Emitters \ {g} : Speaks(h, "call")
                             \/ \E k \in Conns \ {g} : Holds(k, "call")
  BY DEF Pending, Speaks
<1>4. Pending("call", g)' <=> \/ \E h \in Emitters \ {g} : Speaks(h, "call")'
                              \/ \E k \in Conns \ {g} : Holds(k, "call")'
  BY DEF Pending, Speaks
<1>. QED BY <1>1, <1>2, <1>3, <1>4

LEMMA CallsStillKeep ==
  ASSUME CallShown, CallsStill PROVE CallShown'
<1>. SUFFICES ASSUME "call" \notin blur' PROVE CallShown'
  BY DEF CallShown, CallNewsFit, BarComes
<1>0. "call" \notin blur /\ TheBar' = TheBar /\ snap' = snap
  BY DEF CallsStill, TheBar
<1>1. \A k \in Conns : job'[k] = job[k] \/ (~Works(k) /\ ~Works(k)')
  BY DEF CallsStill, SameWork, Works
<1>2. CallNewsFit'
  <2>1. ASSUME NEW g \in Emitters, Speaks(g, "call")' PROVE Bar(out[g].event)' = TheBar'
    <3>1. out'[g] = out[g] /\ Speaks(g, "call")
      BY <2>1 DEF CallsStill, Speaks
    <3>. QED BY <1>0, <3>1 DEF CallShown, CallNewsFit
  <2>2. ASSUME NEW k \in Conns, Works(k)' PROVE Bar(CallEvent(job[k].call, Told(k)))' = TheBar'
    <3>1. job'[k] = job[k] /\ Works(k)
      BY <1>1, <2>2 DEF Works
    <3>2. Told(k)' = Told(k)
      BY <3>1 DEF Told, CallsStill
    <3>3. Bar(CallEvent(job[k].call, Told(k))) = TheBar
      BY <1>0, <3>1 DEF CallShown, CallNewsFit
    <3>. QED BY <1>0, <3>1, <3>2, <3>3
  <2>3. \A k \in Conns : conn'[k] = "snapped" => snap'[k].kind = "call" /\ Bar(snap'[k]) = TheBar'
    BY <1>0 DEF CallShown, CallNewsFit, CallsStill
  <2>4. ASSUME NEW k \in Conns, Starts(k)' PROVE ~Pending("call", k)'
    <3>1. Starts(k)
      BY <1>1, <2>4 DEF Starts, Works
    <3>. QED BY <1>0, <3>1, StillPending DEF CallShown, CallNewsFit
  <2>. QED BY <2>1, <2>2, <2>3, <2>4 DEF CallNewsFit
<1>3. BarComes'
  <2>. SUFFICES ASSUME Served' PROVE BarComes'
    BY DEF BarComes
  <2>1. /\ Served /\ active' = active /\ conn'[active] = conn[active]
        /\ \A b : BarEnds(b) => BarEnds(b)'
        /\ \A k \in Conns : conn'[k] = "snapped" => conn[k] = "snapped"
    BY DEF CallsStill, Served
  <2>2. \A k \in Conns : Starts(k)' => Starts(k)
    BY <1>1 DEF Starts, Works
  <2>3. Pending("call", NoConn)' <=> Pending("call", NoConn)
    BY StillPending
  <2>4. (BarEnds(TheBar) => BarEnds(TheBar)') /\ (BarEnds(NoBar) => BarEnds(NoBar)')
    <3>1. \A b : b = TheBar => (BarEnds(b) => BarEnds(TheBar)')
      <4>. SUFFICES ASSUME NEW b, b = TheBar, BarEnds(b) PROVE BarEnds(TheBar)'
        OBVIOUS
      <4>1. BarEnds(b)' /\ b = TheBar'
        BY <1>0, <2>1
      <4>. QED BY <4>1 DEF BarEnds
    <3>2. BarEnds(NoBar) => BarEnds(NoBar)'
      BY <2>1 DEF NoBar, BarEnds
    <3>. QED BY <3>1, <3>2
  <2>. QED BY <1>0, <2>1, <2>2, <2>3, <2>4 DEF CallShown, BarComes
<1>. QED BY <1>2, <1>3 DEF CallShown

OnlinesStill ==
  /\ "presence" \notin blur' => "presence" \notin blur
  /\ isOnline' = isOnline /\ gone' = gone /\ \A p \in isOnline : seen[p] # "never" => seen'[p] # "never"
  /\ \A g \in Emitters : out'[g] = out[g] \/ (~Speaks(g, "presence") /\ ~Speaks(g, "presence")')
  /\ \A k \in Conns : job'[k] = job[k] \/ (~Holds(k, "presence") /\ ~Holds(k, "presence")')
  /\ view'.conn # NoConn /\ conn'[view'.conn] \in Early => "presence" \in blur'
  /\ "presence" \notin blur' /\ Served' =>
       Served /\ view'.conn = view.conn /\ \A p \in Peers : OnlineEnds(p) => OnlineEnds(p)'

LEMMA OnlinesStillKeep ==
  ASSUME IpcTypeOK', OnlineShown, OnlinesStill PROVE OnlineShown'
<1>0. /\ isOnline' = isOnline /\ gone' = gone
      /\ \A g \in Emitters : Speaks(g, "presence")' => out'[g] = out[g] /\ Speaks(g, "presence")
      /\ \A k \in Conns : Holds(k, "presence")' => job'[k] = job[k] /\ Holds(k, "presence")
      /\ \A k \in Conns : Holds(k, "presence") => Holds(k, "presence")'
      /\ \A g \in Emitters : Speaks(g, "presence") => out'[g] = out[g] /\ Speaks(g, "presence")'
  BY DEF OnlinesStill, Speaks, Holds
<1>1. OnlineNewsFit'
  <2>1. \A p \in isOnline' : seen'[p] # "never"
    BY DEF OnlinesStill, OnlineShown, OnlineNewsFit
  <2>2. \A k \in Conns : Holds(k, "presence")' => job'[k].result.done
    BY <1>0 DEF OnlineShown, OnlineNewsFit
  <2>3. ASSUME "presence" \notin blur'
        PROVE  /\ \A g \in Emitters : Speaks(g, "presence")' =>
                    (out'[g].event.online <=> out'[g].event.peer \in isOnline')
               /\ gone' \cap isOnline' = {}
    BY <1>0, <2>3 DEF OnlinesStill, OnlineShown, OnlineNewsFit
  <2>. QED BY <2>1, <2>2, <2>3 DEF OnlineNewsFit, OnlinesStill, Early
<1>2. OnlineComes'
  <2>. SUFFICES ASSUME "presence" \notin blur', Served' PROVE OnlineComes'
    BY DEF OnlineComes
  <2>1. /\ "presence" \notin blur /\ Served /\ view'.conn = view.conn
        /\ \A p \in Peers : OnlineEnds(p) => OnlineEnds(p)'
    BY DEF OnlinesStill
  <2>2. active' = active /\ active \in Conns
    BY <2>1 DEF Served, IpcTypeOK
  <2>3. CASE Holds(active, "presence")
    BY <1>0, <2>1, <2>2, <2>3 DEF OnlineShown, OnlineComes
  <2>4. CASE ~Holds(active, "presence")
    <3>1. ~Holds(active, "presence")'
      <4>1. \A k \in Conns : k = active => ~Holds(k, "presence")'
        BY <1>0, <2>4
      <4>. QED BY <2>2, <4>1 DEF Holds
    <3>2. ASSUME NEW p \in Peers
          PROVE  \/ OnlineEnds(p)' \/ p \in gone'
                 \/ \E g \in Emitters : Speaks(g, "presence")' /\ out'[g].event.peer = p
      <4>1. \/ OnlineEnds(p) \/ p \in gone
            \/ \E g \in Emitters : Speaks(g, "presence") /\ out[g].event.peer = p
        BY <2>1, <2>4 DEF OnlineShown, OnlineComes
      <4>2. ASSUME NEW g \in Emitters, Speaks(g, "presence"), out[g].event.peer = p
            PROVE  Speaks(g, "presence")' /\ out'[g].event.peer = p
        BY <1>0, <4>2
      <4>. QED BY <1>0, <2>1, <4>1, <4>2
    <3>. QED BY <3>1, <3>2 DEF OnlineComes
  <2>. QED BY <2>3, <2>4
<1>. QED BY <1>1, <1>2 DEF OnlineShown

-----------------------------------------------------------------------------
(* The queue of the page                                                   *)

LEMMA EventKinds ==
  ASSUME NEW ev \in Event
  PROVE  /\ ev \in CallNews <=> ev.kind = "call"
         /\ \A p : ev \in OnlineNews(p) =>
              Carries(ev) = {"presence"} /\ (ev.kind = "presence" => ev.peer = p)
         /\ ev \in CallNews => Carries(ev) = {"call"} /\ \A p : ev \notin OnlineNews(p)
  BY DEF CallNews, OnlineNews, Carries

LEMMA SameQueue ==
  ASSUME sendq' = sendq, view' = view
  PROVE  /\ \A b : BarEnds(b) => BarEnds(b)'
         /\ isOnline' = isOnline => \A p : OnlineEnds(p) => OnlineEnds(p)'
  BY DEF BarEnds, OnlineEnds, ShownBar

LEMMA PushKeepsBar ==
  ASSUME IpcTypeOK, NEW k \in Conns, NEW ev \in Event, Push(k, ev), view' = view,
         view.conn \in Conns, ev.kind # "call" \/ k # view.conn
  PROVE  \A b : BarEnds(b) => BarEnds(b)'
<1>. SUFFICES ASSUME NEW b, BarEnds(b) PROVE BarEnds(b)'
  OBVIOUS
<1>1. ev \notin CallNews \/ k # view.conn
  BY DEF CallNews
<1>2. ShownBar' = ShownBar
  BY DEF ShownBar
<1>3. EndsWith(sendq[view.conn], CallNews, {e \in CallNews : Bar(e) = b}, ShownBar = b)
  BY DEF BarEnds
<1>4. EndsWith(sendq'[view.conn], CallNews, {e \in CallNews : Bar(e) = b}, ShownBar = b)
  BY <1>1, <1>3, PushKeepsEnd
<1>. QED BY <1>2, <1>4 DEF BarEnds

LEMMA PushKeepsOnline ==
  ASSUME IpcTypeOK, NEW k \in Conns, NEW ev \in Event, Push(k, ev), view' = view,
         view.conn \in Conns, isOnline' = isOnline, NEW p, ev \notin OnlineNews(p) \/ k # view.conn,
         OnlineEnds(p)
  PROVE  OnlineEnds(p)'
<1>. DEFINE G == {e \in OnlineNews(p) : Says(e, p) <=> p \in isOnline}
<1>1. EndsWith(sendq[view.conn], OnlineNews(p), G, p \in view.online <=> p \in isOnline)
  BY DEF OnlineEnds
<1>2. EndsWith(sendq'[view.conn], OnlineNews(p), G, p \in view.online <=> p \in isOnline)
  <2>. HIDE DEF G
  <2>. QED BY <1>1, PushKeepsEnd
<1>. QED BY <1>2 DEF OnlineEnds

\* The page shows what it handles, and asks for the chats after a block.
LEMMA ReceiveEnds ==
  ASSUME IpcTypeOK, Receive, isOnline' = isOnline
  PROVE  /\ view.conn \in Conns /\ view'.conn = view.conn /\ sendq[view.conn] # <<>>
         /\ \A i \in Conns : i # view.conn => sendq'[i] = sendq[i]
         /\ \A b : BarEnds(b) => BarEnds(b)'
         /\ \A p \in Peers : OnlineEnds(p) => OnlineEnds(p)'
<1>. DEFINE k == view.conn
            ev == Head(sendq[k])
            rest == Tail(sendq[k])
            no == Result("chats", FALSE, {})
<1>1. /\ k \in Conns /\ sendq[k] \in Seq(Event) /\ sendq[k] # <<>> /\ ev \in Event
      /\ rest \in Seq(Event) /\ view' = Shown(ev)
  BY DEF Receive, IpcTypeOK
<1>2. no \in Event /\ no \notin CallNews /\ \A p : no \notin OnlineNews(p)
  <2>1. no \in Event
    BY ResultTyped DEF Ops
  <2>. QED BY <2>1 DEF CallNews, OnlineNews, Result
<1>3. /\ sendq'[k] = rest \/ sendq'[k] = Append(rest, no)
      /\ \A i \in Conns : i # k => sendq'[i] = sendq[i]
  BY <1>1 DEF Receive, IpcTypeOK
<1>4. /\ view'.conn = view.conn
      /\ ev.kind = "call" => ShownBar' = Bar(ev)
      /\ ev.kind # "call" => ShownBar' = ShownBar
      /\ \A p \in Peers : /\ ev \in OnlineNews(p) => (p \in view'.online <=> Says(ev, p))
                          /\ ev \notin OnlineNews(p) => (p \in view'.online <=> p \in view.online)
  <2>. view \in [conn : Conns \cup {NoConn}, call : CallIds \cup {NoCall},
                 state : CallState, online : SUBSET Peers]
    BY DEF IpcTypeOK
  <2>1. CASE ev \in [kind : {"call"}, call : CallIds, state : CallState]
    BY <1>1, <2>1 DEF Shown, Bar, ShownBar, OnlineNews
  <2>2. CASE ev \in [kind : {"presence"}, peer : Peers, online : BOOLEAN]
    BY <1>1, <2>2 DEF Shown, ShownBar, OnlineNews, Says
  <2>3. CASE ev \in [kind : {"result"}, op : Ops, done : BOOLEAN, online : SUBSET Peers]
    BY <1>1, <2>3 DEF Shown, ShownBar, OnlineNews, Says
  <2>4. CASE ev = Note
    BY <1>1, <2>4 DEF Shown, ShownBar, OnlineNews, Note
  <2>. QED BY <1>1, <2>1, <2>2, <2>3, <2>4 DEF Event
<1>5. ASSUME NEW S, NEW G, NEW e, no \notin S, EndsWith(rest, S, G, e)
      PROVE  EndsWith(sendq'[k], S, G, e)
  <2>. HIDE DEF no, rest, k
  <2>. QED BY <1>1, <1>2, <1>3, <1>5, AppendOther
<1>6. ASSUME NEW b, BarEnds(b) PROVE BarEnds(b)'
  <2>. DEFINE G == {e \in CallNews : Bar(e) = b}
  <2>1. EndsWith(sendq[k], CallNews, G, ShownBar = b)
    BY <1>6 DEF BarEnds
  <2>2. ev \in CallNews => (ev \in G => ShownBar' = b)
    BY <1>4 DEF CallNews
  <2>3. ev \notin CallNews => (ShownBar = b => ShownBar' = b)
    BY <1>1, <1>4 DEF CallNews
  <2>4. EndsWith(rest, CallNews, G, ShownBar' = b)
    <3>. HIDE DEF G, k
    <3>. QED BY <1>1, <2>1, <2>2, <2>3, TailEnds
  <2>5. EndsWith(sendq'[k], CallNews, G, ShownBar' = b)
    <3>. HIDE DEF G, k, no, rest
    <3>. QED BY <1>2, <1>5, <2>4
  <2>. QED BY <1>4, <2>5 DEF BarEnds
<1>7. ASSUME NEW p \in Peers, OnlineEnds(p) PROVE OnlineEnds(p)'
  <2>. DEFINE G == {e \in OnlineNews(p) : Says(e, p) <=> p \in isOnline}
              after == p \in view'.online <=> p \in isOnline
  <2>1. EndsWith(sendq[k], OnlineNews(p), G, p \in view.online <=> p \in isOnline)
    BY <1>7 DEF OnlineEnds
  <2>2. ev \in OnlineNews(p) => (ev \in G => after)
    BY <1>4
  <2>3. ev \notin OnlineNews(p) => ((p \in view.online <=> p \in isOnline) => after)
    BY <1>4
  <2>4. EndsWith(rest, OnlineNews(p), G, after)
    <3>. HIDE DEF G, k, after
    <3>. QED BY <1>1, <2>1, <2>2, <2>3, TailEnds
  <2>5. EndsWith(sendq'[k], OnlineNews(p), G, after)
    <3>. HIDE DEF G, k, no, rest, after
    <3>. QED BY <1>2, <1>5, <2>4
  <2>. QED BY <1>4, <2>5 DEF OnlineEnds
<1>. QED BY <1>1, <1>3, <1>4, <1>6, <1>7

-----------------------------------------------------------------------------
(* Steps without news                                                      *)

QuietOut ==
  \A g \in Emitters :
    \/ out'[g] = out[g]
    \/ out'[g].step # "emit" /\ \A kind \in {"call", "presence"} : ~Speaks(g, kind)

QuietJobs ==
  \A k \in Conns :
    \/ job'[k] = job[k]
    \/ /\ conn[k] \notin Early /\ ~Works(k) /\ ~Works(k)'
       /\ ~Holds(k, "presence") /\ ~Holds(k, "presence")'

QuietQueue ==
  \/ sendq' = sendq /\ blur \subseteq blur'
  \/ \E k \in Conns, ev \in Event :
       /\ Push(k, ev) /\ ev.kind # "call" /\ \A p \in Peers : ev \notin OnlineNews(p)
       /\ k = view.conn => conn[k] # "hello"

QuietStep ==
  /\ UNCHANGED <<conn, active, snap, view, cur, call, isOnline, gone>>
  /\ \A p \in isOnline : seen[p] # "never" => seen'[p] # "never"
  /\ QuietOut /\ QuietJobs /\ QuietQueue

LEMMA QuietStepKeeps ==
  ASSUME IpcTypeOK, IpcTypeOK', InStep, QuietStep
  PROVE  InStep'
<1>0. UNCHANGED <<conn, active, snap, view, cur, call, isOnline, gone>>
  BY DEF QuietStep
<1>1. Served => /\ \A b : BarEnds(b) => BarEnds(b)'
                /\ \A p \in Peers : OnlineEnds(p) => OnlineEnds(p)'
  <2>. SUFFICES ASSUME Served PROVE /\ \A b : BarEnds(b) => BarEnds(b)'
                                    /\ \A p \in Peers : OnlineEnds(p) => OnlineEnds(p)'
    OBVIOUS
  <2>1. view.conn \in Conns
    BY DEF Served, IpcTypeOK
  <2>2. CASE sendq' = sendq
    BY <1>0, <2>2, SameQueue
  <2>3. ASSUME NEW k \in Conns, NEW ev \in Event, Push(k, ev), ev.kind # "call",
               \A p \in Peers : ev \notin OnlineNews(p)
        PROVE  /\ \A b : BarEnds(b) => BarEnds(b)'
               /\ \A p \in Peers : OnlineEnds(p) => OnlineEnds(p)'
    BY <1>0, <2>1, <2>3, PushKeepsBar, PushKeepsOnline
  <2>. QED BY <2>2, <2>3 DEF QuietStep, QuietQueue
<1>2. \A kind \in {"call", "presence"} : kind \notin blur' => kind \notin blur
  BY PushBlurs DEF QuietStep, QuietQueue
<1>3. Lines'
  <2>1. \A i \in Conns : conn[i] \in Early => job'[i] = job[i]
    BY DEF QuietStep, QuietJobs
  <2>. QED BY <1>0, <2>1, LinesKept DEF InStep, QuietStep, QuietQueue
<1>4. CallsStill
  <2>1. SameWork
    BY DEF QuietStep, QuietJobs, SameWork, Works
  <2>2. \A g \in Emitters : out'[g] = out[g] \/ (~Speaks(g, "call") /\ ~Speaks(g, "call")')
    BY DEF QuietStep, QuietOut, Speaks
  <2>3. Served' => Served
    BY <1>0 DEF Served
  <2>. QED BY <1>0, <1>1, <1>2, <2>1, <2>2, <2>3 DEF CallsStill
<1>5. OnlinesStill
  <2>1. \A g \in Emitters : out'[g] = out[g] \/ (~Speaks(g, "presence") /\ ~Speaks(g, "presence")')
    BY DEF QuietStep, QuietOut, Speaks
  <2>2. \A k \in Conns : job'[k] = job[k] \/ (~Holds(k, "presence") /\ ~Holds(k, "presence")')
    BY DEF QuietStep, QuietJobs
  <2>3. Served' => Served
    BY <1>0 DEF Served
  <2>4. view'.conn # NoConn /\ conn'[view'.conn] \in Early => "presence" \in blur'
    BY <1>0, <1>2 DEF InStep, OnlineShown, OnlineNewsFit, Early
  <2>. QED BY <1>0, <1>1, <1>2, <2>1, <2>2, <2>3, <2>4 DEF OnlinesStill, QuietStep
<1>6. NewsOnly'
  BY DEF InStep, NewsOnly, QuietStep, QuietOut
<1>. QED BY <1>3, <1>4, <1>5, <1>6, CallsStillKeep, OnlinesStillKeep DEF InStep

LEMMA ReceiveInStep ==
  ASSUME IpcTypeOK, IpcTypeOK', InStep, Receive, UNCHANGED <<mediaVars, presenceVars>>
  PROVE  InStep'
<1>0. /\ UNCHANGED <<conn, active, snap, job, out, blur, cur, call, seen, isOnline, gone>>
      /\ view'.conn = view.conn /\ view.conn \in Conns
  BY ReceiveEnds DEF Receive, mediaVars, presenceVars
<1>1. /\ \A b : BarEnds(b) => BarEnds(b)'
      /\ \A p \in Peers : OnlineEnds(p) => OnlineEnds(p)'
  BY <1>0, ReceiveEnds
<1>2. Lines'
  <2>1. /\ sendq[view.conn] # <<>> /\ \A i \in Conns : i # view.conn => sendq'[i] = sendq[i]
    BY <1>0, ReceiveEnds
  <2>. QED BY <1>0, <2>1, NoConnApart DEF InStep, Lines
<1>3. CallsStill
  BY <1>0, <1>1 DEF CallsStill, SameWork, Served
<1>4. OnlinesStill
  <2>1. Served' => Served
    BY <1>0 DEF Served
  <2>2. view'.conn # NoConn /\ conn'[view'.conn] \in Early => "presence" \in blur'
    BY <1>0 DEF InStep, OnlineShown, OnlineNewsFit, Early
  <2>. QED BY <1>0, <1>1, <2>1, <2>2 DEF OnlinesStill
<1>5. NewsOnly'
  BY <1>0 DEF InStep, NewsOnly
<1>. QED BY <1>2, <1>3, <1>4, <1>5, CallsStillKeep, OnlinesStillKeep DEF InStep

LEMMA NotifyInStep ==
  ASSUME IpcTypeOK, IpcTypeOK', InStep, Notify, UNCHANGED <<mediaVars, presenceVars>>
  PROVE  InStep'
<1>1. /\ UNCHANGED <<conn, active, snap, view, job, out, cur, call, seen, isOnline, gone>>
      /\ active \in Conns /\ Push(active, Note)
  BY DEF Notify, mediaVars, presenceVars, IpcTypeOK
<1>2. Note \in Event /\ Note.kind # "call" /\ \A p \in Peers : Note \notin OnlineNews(p)
  BY DEF Note, Event, OnlineNews
<1>3. conn[active] # "hello"
  BY <1>1, NoConnApart DEF InStep, Lines
<1>4. QuietStep
  BY <1>1, <1>2, <1>3 DEF QuietStep, QuietOut, QuietJobs, QuietQueue
<1>. QED BY <1>4, QuietStepKeeps

LEMMA ClickInStep ==
  ASSUME IpcTypeOK, IpcTypeOK', InStep, NEW op \in Ops \ {"chats"}, NEW p \in Peers, Click(op, p),
         UNCHANGED <<mediaVars, presenceVars>>
  PROVE  InStep'
<1>1. UNCHANGED <<conn, active, snap, view, job, out, cur, call, seen, isOnline, gone>>
  BY DEF Click, mediaVars, presenceVars
<1>2. /\ view.conn \in Conns /\ conn[view.conn] = "open"
      /\ (sendq' = sendq /\ blur' = blur) \/ Push(view.conn, Result(op, FALSE, {}))
  BY DEF Click, Read, Cmd, IpcTypeOK
<1>3. LET ev == Result(op, FALSE, {}) IN
        ev \in Event /\ ev.kind # "call" /\ \A q \in Peers : ev \notin OnlineNews(q)
  BY ResultTyped DEF Result, OnlineNews
<1>4. QuietStep
  <2>1. QuietQueue
    BY <1>2, <1>3 DEF QuietQueue
  <2>. QED BY <1>1, <2>1 DEF QuietStep, QuietOut, QuietJobs
<1>. QED BY <1>4, QuietStepKeeps

\* A command that is carried out in one step and tells nothing of the presence.
LEMMA AnswerIsQuiet ==
  ASSUME IpcTypeOK, NEW k \in Conns, NEW op, Runs(k, op), op # "chats", NEW done, NEW s,
         Answer(k, done, s)
  PROVE  QuietJobs
<1>1. /\ job[k] = NoJob /\ conn[k] \notin Early
      /\ job'[k] = [pc |-> "reply", result |-> Result(op, done, s)]
      /\ \A i \in Conns : i # k => job'[i] = job[i]
  BY DEF Runs, Answer, Goes, IpcTypeOK, Early
<1>2. ~Works(k) /\ ~Holds(k, "presence")
  BY <1>1 DEF Works, Holds, NoJob
<1>3. job'[k].pc = "reply" /\ job'[k].result.kind = "result" /\ job'[k].result.op # "chats"
  BY <1>1 DEF Result
<1>4. ~Works(k)' /\ ~Holds(k, "presence")'
  BY <1>3 DEF Works, Holds, Carries
<1>. QED BY <1>1, <1>2, <1>4 DEF QuietJobs

LEMMA RunOtherInStep ==
  ASSUME IpcTypeOK, IpcTypeOK', InStep, NEW k \in Conns, RunOther(k),
         UNCHANGED <<mediaVars, presenceVars>>
  PROVE  InStep'
<1>1. UNCHANGED <<conn, active, snap, view, sendq, blur, out, cur, call, seen, isOnline, gone>>
  BY DEF RunOther, mediaVars, presenceVars
<1>2. QuietJobs
  BY AnswerIsQuiet DEF RunOther
<1>3. QuietStep
  BY <1>1, <1>2 DEF QuietStep, QuietOut, QuietQueue
<1>. QED BY <1>3, QuietStepKeeps

-----------------------------------------------------------------------------
(* Events that leave                                                       *)

LEMMA ReplyInStep ==
  ASSUME IpcTypeOK, IpcTypeOK', InStep, NEW k \in Conns, Reply(k),
         UNCHANGED <<mediaVars, presenceVars>>
  PROVE  InStep'
<1>. DEFINE ev == job[k].result
<1>0. UNCHANGED <<conn, active, snap, view, out, cur, call, seen, isOnline, gone>>
  BY DEF Reply, mediaVars, presenceVars
<1>1. /\ job[k].pc = "reply" /\ Push(k, ev) /\ job'[k] = NoJob
      /\ \A i \in Conns : i # k => job'[i] = job[i]
  BY DEF Reply, IpcTypeOK
<1>2. ev \in [kind : {"result"}, op : Ops, done : BOOLEAN, online : SUBSET Peers]
  <2>1. job[k] \in Job
    BY DEF IpcTypeOK
  <2>. QED BY <1>1, <2>1 DEF Job, NoJob
<1>3. ev \in Event /\ ev.kind # "call"
  BY <1>2 DEF Event
<1>4. conn[k] \notin Early
  BY <1>1 DEF InStep, Lines, Early, NoJob
<1>5. ~Works(k) /\ ~Works(k)' /\ ~Holds(k, "presence")'
  BY <1>1 DEF Works, Holds, NoJob
<1>. HIDE DEF ev
<1>6. CASE ev.op # "chats"
  <2>1. ~Holds(k, "presence") /\ \A p \in Peers : ev \notin OnlineNews(p)
    BY <1>2, <1>6 DEF Holds, Carries, OnlineNews, ev
  <2>2. QuietJobs
    BY <1>1, <1>4, <1>5, <2>1 DEF QuietJobs
  <2>3. QuietQueue
    BY <1>1, <1>3, <1>4, <2>1 DEF QuietQueue, Early
  <2>4. QuietStep
    BY <1>0, <2>2, <2>3 DEF QuietStep, QuietOut
  <2>. QED BY <2>4, QuietStepKeeps
<1>7. CASE ev.op = "chats"
  <2>1. Carries(ev) = {"presence"} /\ Holds(k, "presence") /\ ev.done
    <3>1. Carries(ev) = {"presence"}
      BY <1>2, <1>7 DEF Carries
    <3>2. Holds(k, "presence")
      BY <1>1, <3>1 DEF Holds, ev
    <3>. QED BY <3>1, <3>2 DEF InStep, OnlineShown, OnlineNewsFit, ev
  <2>2. Lines'
    <3>1. \A i \in Conns : conn[i] \in Early => job'[i] = job[i]
      BY <1>1, <1>4
    <3>. QED BY <1>0, <1>1, <1>3, <1>4, <3>1, LinesKept DEF InStep, Early
  <2>3. \A kind \in {"call", "presence"} : kind \notin blur' => kind \notin blur
    BY <1>1, PushBlurs
  <2>4. CallsStill
    <3>1. Served' => Served
      BY <1>0 DEF Served
    <3>2. Served => view.conn \in Conns
      BY DEF Served, IpcTypeOK
    <3>3. Served => \A b : BarEnds(b) => BarEnds(b)'
      BY <1>0, <1>1, <1>3, <3>2, PushKeepsBar
    <3>4. SameWork
      BY <1>1, <1>5 DEF SameWork, Works
    <3>. QED BY <1>0, <2>3, <3>1, <3>3, <3>4 DEF CallsStill
  <2>5. OnlineNewsFit'
    <3>1. \A i \in Conns : Holds(i, "presence")' => job'[i] = job[i] /\ Holds(i, "presence")
      BY <1>1, <1>5 DEF Holds
    <3>2. \A i \in Conns : Holds(i, "presence")' => job'[i].result.done
      BY <3>1 DEF InStep, OnlineShown, OnlineNewsFit
    <3>3. view'.conn # NoConn /\ conn'[view'.conn] \in {"none", "hello", "swapped", "snapped"} =>
            "presence" \in blur'
      BY <1>0, <2>3 DEF InStep, OnlineShown, OnlineNewsFit
    <3>4. ASSUME "presence" \notin blur'
          PROVE  /\ \A g \in Emitters : Speaks(g, "presence")' =>
                      (out'[g].event.online <=> out'[g].event.peer \in isOnline')
                 /\ gone' \cap isOnline' = {}
      BY <1>0, <2>3, <3>4 DEF InStep, OnlineShown, OnlineNewsFit, Speaks
    <3>5. \A p \in isOnline' : seen'[p] # "never"
      BY <1>0 DEF InStep, OnlineShown, OnlineNewsFit
    <3>. QED BY <3>2, <3>3, <3>4, <3>5 DEF OnlineNewsFit
  <2>6. OnlineComes'
    <3>. SUFFICES ASSUME "presence" \notin blur', Served' PROVE OnlineComes'
      BY DEF OnlineComes
    <3>1. /\ "presence" \notin blur /\ Served /\ view.conn \in Conns
          /\ view.conn = active /\ active' = active
      BY <1>0, <2>3 DEF Served, IpcTypeOK
    <3>2. CASE k = active
      <4>1. ev.online = isOnline
        BY <2>1, <3>1, <3>2 DEF InStep, OnlineShown, OnlineComes, ev
      <4>2. ASSUME NEW p \in Peers PROVE OnlineEnds(p)'
        <5>. DEFINE G == {e \in OnlineNews(p) : Says(e, p) <=> p \in isOnline}
                    d == p \in view.online <=> p \in isOnline
        <5>1. ev \in OnlineNews(p)
          BY <1>2, <1>3, <1>7, <2>1 DEF OnlineNews
        <5>2. ev \in G
          BY <1>2, <4>1, <5>1 DEF Says
        <5>3. EndsWith(sendq'[view.conn], OnlineNews(p), G, d)
          <6>. HIDE DEF G, d
          <6>. QED BY <1>1, <1>3, <2>1, <3>1, <3>2, <5>1, <5>2, PushEnds
        <5>. QED BY <1>0, <5>3 DEF OnlineEnds
      <4>3. ~Holds(active, "presence")'
        BY <1>5, <3>1, <3>2 DEF Holds
      <4>. QED BY <4>2, <4>3 DEF OnlineComes
    <3>3. CASE k # active
      <4>1. \A p \in Peers : OnlineEnds(p) => OnlineEnds(p)'
        BY <1>0, <1>1, <1>3, <3>1, <3>3, PushKeepsOnline
      <4>2. job'[active] = job[active]
        BY <1>1, <3>1, <3>3
      <4>3. Holds(active, "presence")' <=> Holds(active, "presence")
        BY <3>1, <4>2 DEF Holds
      <4>4. \A g \in Emitters : Speaks(g, "presence") => Speaks(g, "presence")'
        BY <1>0 DEF Speaks
      <4>. QED BY <1>0, <3>1, <4>1, <4>2, <4>3, <4>4 DEF InStep, OnlineShown, OnlineComes
    <3>. QED BY <3>2, <3>3
  <2>7. NewsOnly'
    BY <1>0 DEF InStep, NewsOnly
  <2>. QED BY <2>2, <2>4, <2>5, <2>6, <2>7, CallsStillKeep DEF InStep, OnlineShown
<1>. QED BY <1>6, <1>7

LEMMA EmitOutInStep ==
  ASSUME IpcTypeOK, IpcTypeOK', OneEventEach, InStep, NEW g \in Emitters, EmitOut(g),
         UNCHANGED <<mediaVars, presenceVars>>
  PROVE  InStep'
<1>. DEFINE ev == out[g].event
<1>0. UNCHANGED <<conn, active, snap, view, job, cur, call, seen, isOnline, gone>>
  BY DEF EmitOut, mediaVars, presenceVars
<1>1. /\ out[g].step = "emit" /\ out'[g].step # "emit"
      /\ \A h \in Emitters : h # g => out'[h] = out[h]
  BY DEF EmitOut, IpcTypeOK, NoOut
<1>2. ev \in Event /\ ev.kind \in {"call", "presence"}
  <2>1. out[g] \in Emission /\ out[g] # NoOut
    BY <1>1 DEF IpcTypeOK, NoOut
  <2>. QED BY <1>1, <2>1 DEF Emission, InStep, NewsOnly
<1>3. \/ active = NoConn /\ sendq' = sendq /\ blur' = blur
      \/ active \in Conns /\ Push(active, ev)
  BY DEF EmitOut, IpcTypeOK
<1>4. active # NoConn => conn[active] # "hello"
  BY DEF InStep, Lines
<1>5. \A kind \in {"call", "presence"} : kind \notin blur' => kind \notin blur
  BY <1>3, PushBlurs
<1>6. Lines'
  BY <1>0, <1>2, <1>3, <1>4, NoConnApart, LinesKept DEF InStep
<1>7. NewsOnly'
  BY <1>1 DEF InStep, NewsOnly
<1>8. Served' => /\ Served /\ view.conn = active /\ view.conn \in Conns /\ Push(active, ev)
  BY <1>0, <1>3 DEF Served, IpcTypeOK
<1>9. /\ \A kind \in {"call", "presence"} : ~Speaks(g, kind)'
      /\ \A h \in Emitters, kind \in {"call", "presence"} : h # g => (Speaks(h, kind)' <=> Speaks(h, kind))
  BY <1>1 DEF Speaks
<1>. HIDE DEF ev
<1>10. CASE ev.kind = "call"
  <2>1. ev \in CallNews /\ Carries(ev) = {"call"} /\ \A p : ev \notin OnlineNews(p)
    BY <1>2, <1>10, EventKinds
  <2>2. OnlinesStill
    <3>1. ~Speaks(g, "presence")
      BY <1>10 DEF Speaks, ev
    <3>2. Served' => \A p \in Peers : OnlineEnds(p) => OnlineEnds(p)'
      BY <1>0, <1>2, <1>8, <2>1, PushKeepsOnline
    <3>3. view'.conn # NoConn /\ conn'[view'.conn] \in Early => "presence" \in blur'
      BY <1>0, <1>5 DEF InStep, OnlineShown, OnlineNewsFit, Early
    <3>. QED BY <1>0, <1>1, <1>5, <1>8, <1>9, <3>1, <3>2, <3>3 DEF OnlinesStill
  <2>3. ASSUME "call" \notin blur' PROVE CallShown'
    <3>0. "call" \notin blur /\ TheBar' = TheBar /\ Speaks(g, "call")
      BY <1>0, <1>1, <1>5, <1>10, <2>3 DEF TheBar, Speaks, ev
    <3>1. ASSUME NEW k \in Conns, Starts(k) PROVE FALSE
      <4>1. out[k] = NoOut
        BY <3>1 DEF OneEventEach, Starts
      <4>2. k # g
        BY <1>1, <4>1 DEF NoOut
      <4>3. Pending("call", k)
        BY <3>0, <4>2 DEF Pending, Speaks
      <4>. QED BY <3>0, <3>1, <4>3 DEF InStep, CallShown, CallNewsFit
    <3>2. CallNewsFit'
      <4>1. ASSUME NEW h \in Emitters, Speaks(h, "call")' PROVE Bar(out'[h].event) = TheBar'
        <5>1. h # g /\ out'[h] = out[h] /\ Speaks(h, "call")
          BY <1>1, <1>9, <4>1
        <5>. QED BY <3>0, <5>1 DEF InStep, CallShown, CallNewsFit
      <4>2. ASSUME NEW k \in Conns, Works(k)' PROVE Bar(CallEvent(job[k].call, Told(k)))' = TheBar'
        <5>1. Works(k) /\ Told(k)' = Told(k)
          BY <1>0, <4>2 DEF Works, Told
        <5>. QED BY <1>0, <3>0, <5>1 DEF InStep, CallShown, CallNewsFit
      <4>3. \A k \in Conns : conn'[k] = "snapped" => snap'[k].kind = "call" /\ Bar(snap'[k]) = TheBar'
        BY <1>0, <3>0 DEF InStep, CallShown, CallNewsFit
      <4>4. \A k \in Conns : ~Starts(k)'
        BY <1>0, <3>1 DEF Starts
      <4>. QED BY <4>1, <4>2, <4>3, <4>4 DEF CallNewsFit
    <3>3. BarComes'
      <4>. SUFFICES ASSUME Served' PROVE BarComes'
        BY DEF BarComes
      <4>1. BarEnds(TheBar)'
        <5>. DEFINE G == {e \in CallNews : Bar(e) = TheBar}
                    d == ShownBar = TheBar
        <5>1. ev \in G
          BY <2>1, <3>0 DEF InStep, CallShown, CallNewsFit, ev
        <5>2. EndsWith(sendq'[view.conn], CallNews, G, d)
          <6>. HIDE DEF G, d
          <6>. QED BY <1>2, <1>8, <2>1, <2>3, <5>1, PushEnds
        <5>. QED BY <1>0, <3>0, <5>2 DEF BarEnds, ShownBar
      <4>2. \A k \in Conns : ~Starts(k)' /\ (conn'[k] = "snapped" => k = active')
        BY <1>0, <1>8, <3>0, <3>1 DEF Starts, InStep, CallShown, BarComes
      <4>. QED BY <4>1, <4>2 DEF BarComes
    <3>. QED BY <3>2, <3>3 DEF CallShown
  <2>4. CallShown'
    BY <2>3, UnlessBlurred
  <2>. QED BY <1>6, <1>7, <2>2, <2>4, OnlinesStillKeep DEF InStep
<1>11. CASE ev.kind = "presence"
  <2>1. /\ ev \in [kind : {"presence"}, peer : Peers, online : BOOLEAN]
        /\ Carries(ev) = {"presence"} /\ ev \in OnlineNews(ev.peer)
        /\ \A p : p # ev.peer => ev \notin OnlineNews(p)
    BY <1>2, <1>11 DEF Event, Note, Carries, OnlineNews
  <2>2. CallsStill
    <3>1. ~Speaks(g, "call")
      BY <1>11 DEF Speaks, ev
    <3>2. Served' => \A b : BarEnds(b) => BarEnds(b)'
      BY <1>0, <1>2, <1>8, <1>11, PushKeepsBar
    <3>. QED BY <1>0, <1>1, <1>5, <1>8, <1>9, <3>1, <3>2 DEF CallsStill, SameWork
  <2>3. OnlineNewsFit'
    <3>1. \A k \in Conns : Holds(k, "presence")' => job'[k].result.done
      BY <1>0 DEF InStep, OnlineShown, OnlineNewsFit, Holds
    <3>2. view'.conn # NoConn /\ conn'[view'.conn] \in {"none", "hello", "swapped", "snapped"} =>
            "presence" \in blur'
      BY <1>0, <1>5 DEF InStep, OnlineShown, OnlineNewsFit
    <3>3. ASSUME "presence" \notin blur'
          PROVE  /\ \A h \in Emitters : Speaks(h, "presence")' =>
                      (out'[h].event.online <=> out'[h].event.peer \in isOnline')
                 /\ gone' \cap isOnline' = {}
      <4>1. \A h \in Emitters : Speaks(h, "presence")' => out'[h] = out[h] /\ Speaks(h, "presence")
        BY <1>1, <1>9
      <4>. QED BY <1>0, <1>5, <3>3, <4>1 DEF InStep, OnlineShown, OnlineNewsFit
    <3>4. \A p \in isOnline' : seen'[p] # "never"
      BY <1>0 DEF InStep, OnlineShown, OnlineNewsFit
    <3>. QED BY <3>1, <3>2, <3>3, <3>4 DEF OnlineNewsFit
  <2>4. OnlineComes'
    <3>. SUFFICES ASSUME "presence" \notin blur', Served' PROVE OnlineComes'
      BY DEF OnlineComes
    <3>0. "presence" \notin blur /\ Served /\ Speaks(g, "presence")
      BY <1>1, <1>5, <1>8, <1>11 DEF Speaks, ev
    <3>1. CASE Holds(active, "presence")
      BY <1>0, <3>0, <3>1 DEF InStep, OnlineShown, OnlineComes, Holds
    <3>2. CASE ~Holds(active, "presence")
      <4>1. ASSUME NEW p \in Peers
            PROVE  \/ OnlineEnds(p)' \/ p \in gone'
                   \/ \E h \in Emitters : Speaks(h, "presence")' /\ out'[h].event.peer = p
        <5>1. CASE p = ev.peer
          <6>. DEFINE G == {e \in OnlineNews(p) : Says(e, p) <=> p \in isOnline}
                      d == p \in view.online <=> p \in isOnline
          <6>1. ev \in G
            <7>1. ev.online <=> p \in isOnline
              BY <3>0, <5>1 DEF InStep, OnlineShown, OnlineNewsFit, ev
            <7>. QED BY <2>1, <5>1, <7>1, <1>11 DEF Says
          <6>2. EndsWith(sendq'[view.conn], OnlineNews(p), G, d)
            <7>. HIDE DEF G, d
            <7>. QED BY <1>2, <1>8, <2>1, <5>1, <6>1, PushEnds
          <6>. QED BY <1>0, <6>2 DEF OnlineEnds
        <5>2. CASE p # ev.peer
          <6>1. OnlineEnds(p) => OnlineEnds(p)'
            BY <1>0, <1>2, <1>8, <2>1, <5>2, PushKeepsOnline
          <6>2. ASSUME NEW h \in Emitters, Speaks(h, "presence"), out[h].event.peer = p
                PROVE  Speaks(h, "presence")' /\ out'[h].event.peer = p
            <7>1. h # g
              BY <5>2, <6>2 DEF ev
            <7>. QED BY <1>1, <1>9, <6>2, <7>1
          <6>3. \/ OnlineEnds(p) \/ p \in gone
                \/ \E h \in Emitters : Speaks(h, "presence") /\ out[h].event.peer = p
            BY <3>0, <3>2 DEF InStep, OnlineShown, OnlineComes
          <6>. QED BY <1>0, <6>1, <6>2, <6>3
        <5>. QED BY <5>1, <5>2
      <4>2. ~Holds(active, "presence")'
        BY <1>0, <3>2 DEF Holds
      <4>. QED BY <4>1, <4>2 DEF OnlineComes
    <3>. QED BY <3>1, <3>2
  <2>. QED BY <1>6, <1>7, <2>2, <2>3, <2>4, CallsStillKeep DEF InStep, OnlineShown
<1>. QED BY <1>2, <1>10, <1>11

-----------------------------------------------------------------------------
(* Connections come and go                                                 *)

LEMMA PendingBy ==
  ASSUME NEW g
  PROVE  Pending("call", g) <=> \/ \E h \in Emitters \ {g} : Speaks(h, "call")
                                \/ \E k \in Conns \ {g} : conn[k] = "snapped" \/ Works(k)
  BY DEF Pending, Speaks, Holds, Works

\* A page opens, leaves, or the server closes a connection.
LEMMA OpenInStep ==
  ASSUME IpcTypeOK, IpcTypeOK', InStep, NEW k \in Conns, Open(k),
         UNCHANGED <<mediaVars, presenceVars>>
  PROVE  InStep'
<1>0. /\ UNCHANGED <<active, snap, sendq, job, out, cur, call, seen, isOnline, gone>>
      /\ conn[k] = "none" /\ view.conn = NoConn /\ blur' = blur \cup {"presence"}
      /\ conn'[k] = "hello" /\ \A i \in Conns : i # k => conn'[i] = conn[i]
      /\ view'.conn = k /\ view'.call = view.call /\ view'.state = view.state
  BY DEF Open, mediaVars, presenceVars, IpcTypeOK
<1>1. active # NoConn => active # k /\ active \in Conns
  BY <1>0 DEF InStep, Lines, IpcTypeOK
<1>2. Lines'
  <2>1. \A i \in Conns : sendq'[i] = <<>>
    BY <1>0, NoConnApart DEF InStep, Lines
  <2>2. ShownBar' = NoBar
    BY <1>0 DEF InStep, Lines, ShownBar
  <2>3. \A i \in Conns : conn'[i] \in {"none", "hello", "swapped", "snapped"} => job'[i] = NoJob
    BY <1>0 DEF InStep, Lines
  <2>4. active' # NoConn => conn'[active'] \in {"swapped", "snapped", "open"}
    BY <1>0, <1>1 DEF InStep, Lines
  <2>. QED BY <1>0, <2>1, <2>2, <2>3, <2>4 DEF Lines
<1>3. CallsStill
  <2>1. ~Served'
    BY <1>0, <1>1, NoConnApart DEF Served
  <2>2. \A i \in Conns : conn'[i] = "snapped" <=> conn[i] = "snapped"
    BY <1>0
  <2>. QED BY <1>0, <2>1, <2>2 DEF CallsStill, SameWork
<1>4. OnlinesStill
  BY <1>0 DEF OnlinesStill
<1>5. NewsOnly'
  BY <1>0 DEF InStep, NewsOnly
<1>. QED BY <1>2, <1>3, <1>4, <1>5, CallsStillKeep, OnlinesStillKeep DEF InStep

LEMMA PageLostInStep ==
  ASSUME IpcTypeOK, IpcTypeOK', InStep, PageLost, UNCHANGED <<mediaVars, presenceVars>>
  PROVE  InStep'
<1>0. /\ UNCHANGED <<conn, active, snap, job, out, blur, cur, call, seen, isOnline, gone>>
      /\ view'.conn = NoConn /\ ShownBar' = NoBar
      /\ view.conn \in Conns /\ sendq' = [sendq EXCEPT ![view.conn] = <<>>]
  BY DEF PageLost, mediaVars, presenceVars, IpcTypeOK, ShownBar, NoBar
<1>1. Lines'
  <2>1. \A i \in Conns : sendq'[i] = <<>>
    BY <1>0 DEF InStep, Lines, IpcTypeOK
  <2>. QED BY <1>0, <2>1 DEF InStep, Lines
<1>2. CallsStill
  BY <1>0 DEF CallsStill, SameWork, Served
<1>3. OnlinesStill
  BY <1>0 DEF OnlinesStill, Served
<1>4. NewsOnly'
  BY <1>0 DEF InStep, NewsOnly
<1>. QED BY <1>1, <1>2, <1>3, <1>4, CallsStillKeep, OnlinesStillKeep DEF InStep

LEMMA ClosedInStep ==
  ASSUME IpcTypeOK, IpcTypeOK', InStep, NEW k \in Conns, AuthFails(k) \/ ReadFails(k),
         UNCHANGED <<mediaVars, presenceVars>>
  PROVE  InStep'
<1>0. /\ UNCHANGED <<snap, sendq, job, out, view, blur, cur, call, seen, isOnline, gone>>
      /\ conn' = [conn EXCEPT ![k] = "closed"]
      /\ \/ conn[k] = "hello" /\ view.conn # k /\ active' = active
         \/ /\ conn[k] = "open" /\ (view.conn # k \/ active # k)
            /\ active' = IF active = k THEN NoConn ELSE active
  BY DEF AuthFails, ReadFails, Replaced, mediaVars, presenceVars
<1>1. conn'[k] = "closed" /\ \A i \in Conns : i # k => conn'[i] = conn[i]
  BY <1>0 DEF IpcTypeOK
<1>2. active' # NoConn => active' = active /\ active # k /\ active \in Conns
  BY <1>0, NoConnApart DEF InStep, Lines, IpcTypeOK
<1>3. Served' => Served /\ conn'[active] = conn[active]
  BY <1>0, <1>1, <1>2 DEF Served
<1>4. Lines'
  <2>1. \A i \in Conns : conn'[i] \in {"none", "hello", "swapped", "snapped"} => conn'[i] = conn[i]
    BY <1>1
  <2>2. view.conn # NoConn => view.conn \in Conns
    BY DEF IpcTypeOK
  <2>. QED BY <1>0, <1>1, <1>2, <2>1, <2>2 DEF InStep, Lines, ShownBar
<1>5. CallsStill
  <2>1. \A i \in Conns : conn'[i] = "snapped" <=> conn[i] = "snapped"
    BY <1>0, <1>1
  <2>. QED BY <1>0, <1>3, <2>1, SameQueue DEF CallsStill, SameWork
<1>6. OnlinesStill
  <2>1. view.conn # NoConn /\ conn'[view.conn] \in Early => conn'[view.conn] = conn[view.conn]
    BY <1>1 DEF Early, IpcTypeOK
  <2>2. view'.conn # NoConn /\ conn'[view'.conn] \in Early => "presence" \in blur'
    BY <1>0, <2>1 DEF InStep, OnlineShown, OnlineNewsFit, Early
  <2>. QED BY <1>0, <1>3, <2>2, SameQueue DEF OnlinesStill
<1>7. NewsOnly'
  BY <1>0 DEF InStep, NewsOnly
<1>. QED BY <1>4, <1>5, <1>6, <1>7, CallsStillKeep, OnlinesStillKeep DEF InStep

\* No news of the call is on its way when nothing is pending but what k itself holds, and
\* k, which is being attached, has not worked yet.
LEMMA NothingPending ==
  ASSUME InStep, OneEventEach, NEW k \in Conns, conn[k] \in {"hello", "swapped"},
         ~Pending("call", k)
  PROVE  /\ \A g \in Emitters : ~Speaks(g, "call")
         /\ \A i \in Conns : ~Works(i) /\ ~Starts(i) /\ conn[i] # "snapped"
         /\ ~Pending("call", NoConn)
<1>1. job[k] = NoJob
  BY DEF InStep, Lines
<1>2. ~Works(k) /\ out[k] = NoOut
  BY <1>1 DEF Works, NoJob, OneEventEach
<1>3. ~Speaks(k, "call")
  BY <1>2 DEF Speaks, NoOut
<1>4. \A g \in Emitters : ~Speaks(g, "call")
  BY <1>3, PendingBy
<1>5. \A i \in Conns : ~Works(i) /\ conn[i] # "snapped"
  BY <1>2, PendingBy
<1>6. \A i \in Conns : ~Starts(i)
  BY <1>5 DEF Starts, Works
<1>. QED BY <1>4, <1>5, <1>6, PendingBy

LEMMA SwapInStep ==
  ASSUME IpcTypeOK, IpcTypeOK', OneEventEach, InStep, NEW k \in Conns, Swap(k),
         UNCHANGED <<mediaVars, presenceVars>>
  PROVE  InStep'
<1>0. /\ UNCHANGED <<snap, sendq, job, out, view, cur, call, seen, isOnline, gone>>
      /\ conn[k] = "hello" /\ active' = k /\ conn' = [conn EXCEPT ![k] = "swapped"]
      /\ blur' = IF k = view.conn THEN (blur \ {"call"}) \cup Crosses(k, "call") ELSE blur
  BY DEF Swap, mediaVars, presenceVars
<1>1. conn'[k] = "swapped" /\ \A i \in Conns : i # k => conn'[i] = conn[i]
  BY <1>0 DEF IpcTypeOK
<1>2. Lines'
  BY <1>0, <1>1, NoConnApart DEF InStep, Lines, ShownBar
<1>3. "presence" \in blur' <=> "presence" \in blur
  BY <1>0 DEF Crosses
<1>4. k = view.conn => "presence" \in blur
  BY <1>0, NoConnApart DEF InStep, OnlineShown, OnlineNewsFit
<1>5. OnlinesStill
  <2>1. view'.conn # NoConn /\ conn'[view'.conn] \in Early => "presence" \in blur'
    BY <1>0, <1>1, <1>3, <1>4 DEF InStep, OnlineShown, OnlineNewsFit, Early, IpcTypeOK
  <2>. QED BY <1>0, <1>3, <1>4, <2>1 DEF OnlinesStill, Served
<1>6. NewsOnly'
  BY <1>0 DEF InStep, NewsOnly
<1>7. CASE k # view.conn
  <2>1. CallsStill
    <3>1. \A i \in Conns : conn'[i] = "snapped" <=> conn[i] = "snapped"
      BY <1>0, <1>1
    <3>. QED BY <1>0, <1>7, <3>1 DEF CallsStill, SameWork, Served
  <2>. QED BY <1>2, <1>5, <1>6, <2>1, CallsStillKeep, OnlinesStillKeep DEF InStep
<1>8. CASE k = view.conn
  <2>1. ASSUME "call" \notin blur' PROVE CallShown'
    <3>1. ~Pending("call", k)
      BY <1>0, <1>8, <2>1 DEF Crosses
    <3>2. /\ \A g \in Emitters : ~Speaks(g, "call")'
          /\ \A i \in Conns : ~Works(i)' /\ ~Starts(i)' /\ conn'[i] # "snapped"
      <4>1. /\ \A g \in Emitters : ~Speaks(g, "call")
            /\ \A i \in Conns : ~Works(i) /\ ~Starts(i) /\ conn[i] # "snapped"
        BY <1>0, <3>1, NothingPending
      <4>. QED BY <1>0, <1>1, <4>1 DEF Speaks, Works, Starts
    <3>3. BarEnds(NoBar)'
      <4>1. sendq[view.conn] = <<>> /\ ShownBar = NoBar
        BY <1>0, <1>8, NoConnApart DEF InStep, Lines
      <4>2. sendq'[view'.conn] = <<>> /\ ShownBar' = NoBar
        BY <1>0, <4>1 DEF ShownBar
      <4>. QED BY <4>2, NothingEnds DEF BarEnds, NoBar
    <3>. QED BY <1>0, <1>1, <3>2, <3>3 DEF CallShown, CallNewsFit, BarComes
  <2>2. CallShown'
    BY <2>1, UnlessBlurred
  <2>. QED BY <1>2, <1>5, <1>6, <2>2, OnlinesStillKeep DEF InStep
<1>. QED BY <1>7, <1>8

\* attach reads the call.
LEMMA ResyncInStep ==
  ASSUME IpcTypeOK, IpcTypeOK', MediaTypeOK, OneEventEach, InStep, NEW k \in Conns, Resync(k)
  PROVE  InStep'
<1>. DEFINE ev == IF cur = NoCall THEN Note ELSE CallEvent(cur, call[cur])
<1>0. /\ UNCHANGED <<active, sendq, job, out, view, cur, call, seen, isOnline, gone>>
      /\ conn[k] = "swapped"
      /\ blur' = IF k = view.conn THEN blur \cup Crosses(k, "call") ELSE blur
      /\ \/ /\ k # view.conn \/ cur = NoCall
            /\ conn' = [conn EXCEPT ![k] = "open"] /\ snap' = snap
         \/ /\ k = view.conn /\ cur # NoCall
            /\ conn' = [conn EXCEPT ![k] = "snapped"] /\ snap' = [snap EXCEPT ![k] = ev]
  <2>1. ev = Note <=> cur = NoCall
    <3>1. cur # NoCall => ev.kind # Note.kind
      BY DEF CallEvent, Note
    <3>. QED BY <3>1
  <2>2. ResyncRead(k, ev) /\ UNCHANGED <<mediaVars, presenceVars>>
    BY DEF Resync
  <2>. HIDE DEF ev
  <2>. QED BY <2>1, <2>2 DEF ResyncRead, mediaVars, presenceVars
<1>1. /\ conn'[k] \in {"open", "snapped"} /\ \A i \in Conns : i # k => conn'[i] = conn[i]
      /\ conn'[k] = "snapped" => k = view.conn /\ cur # NoCall /\ snap'[k] = ev
      /\ conn'[k] # "snapped" => snap' = snap /\ (k # view.conn \/ cur = NoCall)
  <2>. HIDE DEF ev
  <2>. QED BY <1>0 DEF IpcTypeOK
<1>2. Lines'
  <2>1. \A i \in Conns : conn'[i] \in {"none", "hello", "swapped", "snapped"} =>
          conn[i] \in {"none", "hello", "swapped", "snapped"}
    BY <1>0, <1>1
  <2>2. active # NoConn => conn'[active] \in {"swapped", "snapped", "open"}
    BY <1>1 DEF InStep, Lines, IpcTypeOK
  <2>3. view.conn # NoConn /\ conn'[view.conn] = "hello" => conn[view.conn] = "hello"
    BY <1>1 DEF IpcTypeOK
  <2>. QED BY <1>0, <2>1, <2>2, <2>3 DEF InStep, Lines, ShownBar
<1>3. blur \subseteq blur'
  BY <1>0
<1>4. OnlinesStill
  <2>1. view'.conn # NoConn /\ conn'[view'.conn] \in Early => "presence" \in blur'
    <3>1. view.conn # NoConn /\ conn'[view.conn] \in Early => conn[view.conn] \in Early
      BY <1>0, <1>1 DEF Early, IpcTypeOK
    <3>. QED BY <1>0, <1>3, <3>1 DEF InStep, OnlineShown, OnlineNewsFit, Early
  <2>. QED BY <1>0, <1>3, <2>1, SameQueue DEF OnlinesStill, Served
<1>5. NewsOnly'
  BY <1>0 DEF InStep, NewsOnly
<1>6. CASE k # view.conn
  <2>1. CallsStill
    <3>1. \A i \in Conns : conn'[i] = "snapped" <=> conn[i] = "snapped"
      BY <1>0, <1>1, <1>6
    <3>2. Served' => Served /\ conn'[active] = conn[active]
      BY <1>0, <1>1, <1>6 DEF Served, IpcTypeOK
    <3>3. snap' = snap
      BY <1>1, <1>6
    <3>. QED BY <1>0, <1>3, <3>1, <3>2, <3>3, SameQueue DEF CallsStill, SameWork
  <2>. QED BY <1>2, <1>4, <1>5, <2>1, CallsStillKeep, OnlinesStillKeep DEF InStep
<1>7. CASE k = view.conn
  <2>1. ASSUME "call" \notin blur' PROVE CallShown'
    <3>1. ~Pending("call", k) /\ "call" \notin blur
      BY <1>0, <1>7, <2>1 DEF Crosses
    <3>2. /\ \A g \in Emitters : ~Speaks(g, "call")'
          /\ \A i \in Conns : ~Works(i)' /\ ~Starts(i)' /\ (conn'[i] = "snapped" => i = k)
          /\ ~Pending("call", NoConn)
      <4>1. /\ \A g \in Emitters : ~Speaks(g, "call")
            /\ \A i \in Conns : ~Works(i) /\ ~Starts(i) /\ conn[i] # "snapped"
            /\ ~Pending("call", NoConn)
        BY <1>0, <3>1, NothingPending
      <4>. QED BY <1>0, <1>1, <4>1 DEF Speaks, Works, Starts
    <3>3. TheBar' = TheBar
      BY <1>0 DEF TheBar
    <3>4. CallNewsFit'
      <4>1. cur # NoCall => ev.kind = "call" /\ Bar(ev) = TheBar
        BY DEF MediaTypeOK, CallEvent, Bar, TheBar
      <4>. HIDE DEF ev
      <4>2. ASSUME NEW i \in Conns, conn'[i] = "snapped"
            PROVE  snap'[i].kind = "call" /\ Bar(snap'[i]) = TheBar'
        BY <1>1, <3>2, <3>3, <4>1, <4>2
      <4>. QED BY <3>2, <4>2 DEF CallNewsFit
    <3>5. BarComes'
      <4>. SUFFICES ASSUME Served' PROVE BarComes'
        BY DEF BarComes
      <4>1. Served /\ active = k /\ active' = k
        BY <1>0, <1>7 DEF Served
      <4>2. conn'[k] = "open" => BarEnds(TheBar)'
        <5>1. SUFFICES ASSUME conn'[k] = "open" PROVE BarEnds(TheBar)'
          OBVIOUS
        <5>2. TheBar = NoBar
          BY <1>1, <1>7, <5>1 DEF TheBar
        <5>3. BarEnds(TheBar)
          BY <1>0, <3>1, <3>2, <4>1, <5>2 DEF InStep, CallShown, BarComes
        <5>. QED BY <1>0, <3>3, <5>3 DEF BarEnds, ShownBar
      <4>3. conn'[k] = "snapped" => Pending("call", NoConn)'
        <5>1. k # NoConn
          BY NoConnApart
        <5>. QED BY <5>1 DEF Pending, Holds
      <4>4. \A i \in Conns : ~Starts(i)' /\ (conn'[i] = "snapped" => i = active')
        BY <3>2, <4>1
      <4>. QED BY <1>1, <4>1, <4>2, <4>3, <4>4 DEF BarComes
    <3>. QED BY <3>4, <3>5 DEF CallShown
  <2>2. CallShown'
    BY <2>1, UnlessBlurred
  <2>. QED BY <1>2, <1>4, <1>5, <2>2, OnlinesStillKeep DEF InStep
<1>. QED BY <1>6, <1>7

LEMMA ResyncPushInStep ==
  ASSUME IpcTypeOK, IpcTypeOK', OneEventEach, InStep, NEW k \in Conns, ResyncPush(k),
         UNCHANGED <<mediaVars, presenceVars>>
  PROVE  InStep'
<1>. DEFINE ev == snap[k]
<1>0. /\ UNCHANGED <<active, job, out, view, cur, call, seen, isOnline, gone>>
      /\ conn[k] = "snapped" /\ Push(k, ev)
      /\ conn' = [conn EXCEPT ![k] = "open"] /\ snap' = [snap EXCEPT ![k] = Note]
  BY DEF ResyncPush, mediaVars, presenceVars
<1>1. /\ conn'[k] = "open" /\ \A i \in Conns : i # k => conn'[i] = conn[i] /\ snap'[i] = snap[i]
      /\ job[k] = NoJob /\ ~Works(k)
  BY <1>0 DEF IpcTypeOK, InStep, Lines, Works, NoJob
<1>2. /\ ev \in Event /\ ev.kind \in {"call", "note"} /\ \A p : ev \notin OnlineNews(p)
      /\ ev.kind = "call" => Carries(ev) = {"call"} /\ ev \in CallNews
  <2>1. ev \in {Note} \cup [kind : {"call"}, call : CallIds, state : CallState]
    BY DEF IpcTypeOK
  <2>. QED BY <2>1 DEF Event, Note, Carries, OnlineNews, CallNews
<1>3. \A kind \in {"call", "presence"} : kind \notin blur' => kind \notin blur
  BY <1>0, PushBlurs
<1>4. Lines'
  <2>1. \A i \in Conns : i # view.conn => sendq'[i] = sendq[i]
    BY <1>0 DEF Push, IpcTypeOK
  <2>2. \A i \in Conns : conn'[i] \in {"none", "hello", "swapped", "snapped"} => conn'[i] = conn[i]
    BY <1>1
  <2>3. view.conn # NoConn => view.conn \in Conns
    BY DEF IpcTypeOK
  <2>4. k # view.conn => sendq' = sendq
    BY <1>0 DEF Push
  <2>5. active # NoConn => conn'[active] \in {"swapped", "snapped", "open"}
    BY <1>1 DEF InStep, Lines, IpcTypeOK
  <2>6. view.conn # NoConn /\ conn'[view.conn] = "hello" =>
          conn[view.conn] = "hello" /\ sendq' = sendq
    BY <1>1, <2>3, <2>4
  <2>. QED BY <1>0, <2>1, <2>2, <2>5, <2>6 DEF InStep, Lines, ShownBar
<1>5. OnlinesStill
  <2>1. view'.conn # NoConn /\ conn'[view'.conn] \in Early => "presence" \in blur'
    <3>1. view.conn # NoConn /\ conn'[view.conn] \in Early => conn[view.conn] \in Early
      BY <1>0, <1>1 DEF Early, IpcTypeOK
    <3>. QED BY <1>0, <1>3, <3>1 DEF InStep, OnlineShown, OnlineNewsFit, Early
  <2>2. Served' => Served /\ view.conn \in Conns
    BY <1>0 DEF Served, IpcTypeOK
  <2>3. Served' => \A p \in Peers : OnlineEnds(p) => OnlineEnds(p)'
    <3>. HIDE DEF ev
    <3>. QED BY <1>0, <1>2, <2>2, PushKeepsOnline
  <2>. QED BY <1>0, <1>3, <2>1, <2>2, <2>3 DEF OnlinesStill
<1>6. NewsOnly'
  BY <1>0 DEF InStep, NewsOnly
<1>7. ASSUME "call" \notin blur' PROVE CallShown'
  <2>0. "call" \notin blur /\ TheBar' = TheBar
    BY <1>0, <1>3, <1>7 DEF TheBar
  <2>1. ASSUME NEW i \in Conns, Starts(i) PROVE FALSE
    <3>1. i # k
      BY <1>1, <2>1 DEF Starts, NoJob
    <3>2. Pending("call", i)
      BY <1>0, <3>1, PendingBy
    <3>. QED BY <2>0, <2>1, <3>2 DEF InStep, CallShown, CallNewsFit
  <2>2. CallNewsFit'
    <3>1. \A g \in Emitters : Speaks(g, "call")' => Bar(out'[g].event) = TheBar'
      BY <1>0, <2>0 DEF InStep, CallShown, CallNewsFit, Speaks
    <3>2. ASSUME NEW i \in Conns, Works(i)' PROVE Bar(CallEvent(job[i].call, Told(i)))' = TheBar'
      <4>1. Works(i) /\ Told(i)' = Told(i)
        BY <1>0, <3>2 DEF Works, Told
      <4>. QED BY <1>0, <2>0, <4>1 DEF InStep, CallShown, CallNewsFit
    <3>3. \A i \in Conns : conn'[i] = "snapped" => snap'[i].kind = "call" /\ Bar(snap'[i]) = TheBar'
      BY <1>1, <2>0 DEF InStep, CallShown, CallNewsFit
    <3>4. \A i \in Conns : ~Starts(i)'
      BY <1>0, <2>1 DEF Starts
    <3>. QED BY <3>1, <3>2, <3>3, <3>4 DEF CallNewsFit
  <2>3. BarComes'
    <3>. SUFFICES ASSUME Served' PROVE BarComes'
      BY DEF BarComes
    <3>1. Served /\ k = active /\ k = view.conn /\ active' = active
      BY <1>0, <2>0 DEF Served, InStep, CallShown, BarComes
    <3>2. ev.kind = "call" /\ Bar(ev) = TheBar
      BY <1>0, <2>0 DEF InStep, CallShown, CallNewsFit
    <3>3. BarEnds(TheBar)'
      <4>. DEFINE G == {e \in CallNews : Bar(e) = TheBar}
                  d == ShownBar = TheBar
      <4>1. ev \in G /\ ev \in CallNews /\ "call" \in Carries(ev)
        BY <1>2, <3>2
      <4>2. EndsWith(sendq'[view.conn], CallNews, G, d)
        <5>. HIDE DEF G, d, ev
        <5>. QED BY <1>0, <1>2, <1>7, <3>1, <4>1, PushEnds
      <4>. QED BY <1>0, <2>0, <4>2 DEF BarEnds, ShownBar
    <3>4. \A i \in Conns : ~Starts(i)' /\ (conn'[i] = "snapped" => i = active')
      BY <1>0, <1>1, <2>0, <2>1, <3>1 DEF Starts, InStep, CallShown, BarComes
    <3>. QED BY <3>3, <3>4 DEF BarComes
  <2>. QED BY <2>2, <2>3 DEF CallShown
<1>8. CallShown'
  BY <1>7, UnlessBlurred
<1>. QED BY <1>4, <1>5, <1>6, <1>8, OnlinesStillKeep DEF InStep

-----------------------------------------------------------------------------
(* Steps that are not seen by the page                                     *)

LEMMA ApartInStep ==
  ASSUME IpcTypeOK, IpcTypeOK', InStep, UNCHANGED ipcVars, UNCHANGED <<cur, call, isOnline, gone>>,
         \A p \in isOnline : seen[p] # "never" => seen'[p] # "never"
  PROVE  InStep'
<1>1. QuietStep
  BY DEF ipcVars, QuietStep, QuietOut, QuietJobs, QuietQueue
<1>. QED BY <1>1, QuietStepKeeps

LEMMA BridgeInStep ==
  ASSUME IpcTypeOK, IpcTypeOK', InStep, UNCHANGED presenceVars,
         \/ \E c \in CallIds : Opened(c) \/ AttachOpened(c) \/ OpenFails(c) \/ WaiterEnds(c)
         \/ \E p \in Peers : InboundArrives(p)
         \/ InboundChecked \/ AttachInbound \/ SessionDies
  PROVE  InStep'
<1>1. UNCHANGED ipcVars /\ UNCHANGED <<cur, call>>
  BY DEF Opened, AttachOpened, OpenFails, WaiterEnds, InboundArrives, InboundChecked, AttachInbound,
         SessionDies
<1>. QED BY <1>1, ApartInStep DEF presenceVars

LEMMA SilenceInStep ==
  ASSUME IpcTypeOK, IpcTypeOK', PresenceTypeOK, InStep, NEW p \in Peers, Silence(p),
         UNCHANGED mediaVars
  PROVE  InStep'
<1>1. \A q \in Peers : seen[q] # "never" => seen'[q] # "never"
  BY DEF Silence, PresenceTypeOK
<1>2. UNCHANGED ipcVars /\ UNCHANGED <<cur, call, isOnline, gone>> /\ isOnline \subseteq Peers
  BY DEF Silence, mediaVars, PresenceTypeOK
<1>. QED BY <1>1, <1>2, ApartInStep

\* The core acts on an event that has left.
LEMMA ActInStep ==
  ASSUME IpcTypeOK, IpcTypeOK', InStep, NEW g \in Emitters, Act(g), UNCHANGED presenceVars
  PROVE  InStep'
<1>1. UNCHANGED <<conn, active, snap, sendq, job, view, blur, cur, call, seen, isOnline, gone>>
  BY DEF Act, presenceVars
<1>2. out[g].step = "act" /\ out'[g] = NoOut /\ \A h \in Emitters : h # g => out'[h] = out[h]
  BY DEF Act, IpcTypeOK
<1>3. QuietOut
  BY <1>2 DEF QuietOut, Speaks, NoOut
<1>4. QuietStep
  BY <1>1, <1>3 DEF QuietStep, QuietJobs, QuietQueue
<1>. QED BY <1>4, QuietStepKeeps

LEMMA RefusedInStep ==
  ASSUME IpcTypeOK, IpcTypeOK', InStep, NEW k \in Conns, NEW op \in CallOps, Runs(k, op), Refused(k),
         UNCHANGED <<conn, active, snap, sendq, out, view>>, UNCHANGED presenceVars
  PROVE  InStep'
<1>1. UNCHANGED <<cur, call, blur, seen, isOnline, gone>> /\ Answer(k, FALSE, {})
  BY DEF Refused, presenceVars
<1>2. QuietJobs
  BY <1>1, AnswerIsQuiet DEF CallOps
<1>3. QuietStep
  BY <1>1, <1>2 DEF QuietStep, QuietOut, QuietQueue
<1>. QED BY <1>3, QuietStepKeeps

LEMMA UnblockInStep ==
  ASSUME IpcTypeOK, IpcTypeOK', InStep, NEW k \in Conns, Unblock(k)
  PROVE  InStep'
<1>1. UNCHANGED <<conn, active, snap, sendq, out, view, blur, cur, call, seen, isOnline, gone>>
  BY DEF Unblock, mediaVars
<1>2. QuietJobs
  BY AnswerIsQuiet DEF Unblock
<1>3. QuietStep
  BY <1>1, <1>2 DEF QuietStep, QuietOut, QuietQueue
<1>. QED BY <1>3, QuietStepKeeps

-----------------------------------------------------------------------------
(* News of the call                                                        *)

\* A step of the call tells nothing of the presence.
LEMMA CallStepKeeps ==
  ASSUME IpcTypeOK, IpcTypeOK', InStep,
         UNCHANGED <<conn, active, sendq, view, isOnline, gone, seen>>,
         "presence" \in blur' <=> "presence" \in blur,
         \A g \in Emitters : out'[g] = out[g] \/ (~Speaks(g, "presence") /\ ~Speaks(g, "presence")'),
         \A k \in Conns : \/ job'[k] = job[k]
                          \/ conn[k] \notin Early /\ ~Holds(k, "presence") /\ ~Holds(k, "presence")'
  PROVE  Lines' /\ OnlineShown'
<1>1. Lines'
  <2>1. \A k \in Conns : conn[k] \in Early => job'[k] = job[k]
    OBVIOUS
  <2>. QED BY <2>1, LinesKept DEF InStep
<1>2. OnlinesStill
  <2>1. view'.conn # NoConn /\ conn'[view'.conn] \in Early => "presence" \in blur'
    BY DEF InStep, OnlineShown, OnlineNewsFit, Early
  <2>2. Served' => Served
    BY DEF Served
  <2>. QED BY <2>1, <2>2, SameQueue DEF OnlinesStill
<1>. QED BY <1>1, <1>2, OnlinesStillKeep DEF InStep

LEMMA PutBar ==
  ASSUME MediaTypeOK, NEW c \in CallIds, NEW s, Put(c, s)
  PROVE  TheBar' = Bar(CallEvent(c, s))
<1>1. call'[c] = s /\ cur' = IF s = "ended" THEN NoCall ELSE c
  BY DEF Put, MediaTypeOK
<1>. QED BY <1>1, CallsAssumption DEF TheBar, NoBar, Bar, CallEvent

\* A goroutine of the core makes an event of the call as it is now.
LEMMA NewsMade ==
  ASSUME IpcTypeOK, IpcTypeOK', InStep, NEW g \in Core, NEW ev, ev.kind = "call", out[g] = NoOut,
         Emit(g, ev), Bar(ev) = TheBar', blur' = blur \cup Crosses(g, "call"),
         UNCHANGED <<conn, active, snap, sendq, job, view, isOnline, gone, seen>>
  PROVE  InStep'
<1>1. /\ g \in Emitters /\ g \notin Conns /\ g # NoConn
      /\ out'[g].step = "emit" /\ out'[g].event = ev /\ \A h \in Emitters : h # g => out'[h] = out[h]
  BY ConnsAssumption DEF Emitters, Emit, IpcTypeOK
<1>2. ~Speaks(g, "presence") /\ ~Speaks(g, "presence")' /\ Speaks(g, "call")'
  BY <1>1 DEF Speaks, NoOut
<1>3. Lines' /\ OnlineShown'
  <2>1. "presence" \in blur' <=> "presence" \in blur
    BY DEF Crosses
  <2>. QED BY <1>1, <1>2, <2>1, CallStepKeeps
<1>4. NewsOnly'
  BY <1>1 DEF InStep, NewsOnly
<1>5. ASSUME "call" \notin blur' PROVE CallShown'
  <2>1. ~Pending("call", g)
    BY <1>5 DEF Crosses
  <2>2. /\ \A h \in Emitters : Speaks(h, "call")' => h = g
        /\ \A k \in Conns : ~Works(k)' /\ ~Starts(k)' /\ conn'[k] # "snapped"
    BY <1>1, <2>1, PendingBy DEF Speaks, Works, Starts
  <2>3. CallNewsFit'
    BY <1>1, <2>2 DEF CallNewsFit
  <2>4. Pending("call", NoConn)'
    BY <1>1, <1>2 DEF Pending, Speaks
  <2>5. BarComes'
    BY <2>2, <2>4 DEF BarComes
  <2>. QED BY <2>3, <2>5 DEF CallShown
<1>6. CallShown'
  BY <1>5, UnlessBlurred
<1>. QED BY <1>3, <1>4, <1>6 DEF InStep

\* offerWhenReady gives up, a dead session is made good, a handler of the delivery loop.
LEMMA WaiterGivesUpInStep ==
  ASSUME IpcTypeOK, IpcTypeOK', MediaTypeOK, InStep, NEW c \in CallIds, WaiterGivesUp(c),
         UNCHANGED presenceVars
  PROVE  InStep'
<1>1. TheBar' = Bar(CallEvent(c, "ended")) /\ CallEvent(c, "ended").kind = "call"
  BY PutBar DEF WaiterGivesUp, CallEvent
<1>. QED BY <1>1, NewsMade DEF WaiterGivesUp, presenceVars, Core

LEMMA OnMediaClosedInStep ==
  ASSUME IpcTypeOK, IpcTypeOK', MediaTypeOK, OneEventEach, InStep, OnMediaClosed,
         UNCHANGED presenceVars
  PROVE  InStep'
<1>1. CASE cur # NoCall /\ call[cur] = "active"
  <2>1. /\ "media" \in Core /\ out["media"] = NoOut
        /\ Emit("media", CallEvent(cur, "active")) /\ blur' = blur \cup Crosses("media", "call")
        /\ UNCHANGED <<conn, active, snap, sendq, job, view, isOnline, gone, seen, cur, call>>
    BY <1>1 DEF OnMediaClosed, OneEventEach, presenceVars, Core
  <2>2. CallEvent(cur, "active").kind = "call" /\ Bar(CallEvent(cur, "active")) = TheBar'
    BY <1>1, <2>1 DEF CallEvent, Bar, TheBar
  <2>. QED BY <2>1, <2>2, NewsMade
<1>2. CASE ~(cur # NoCall /\ call[cur] = "active")
  <2>1. UNCHANGED ipcVars /\ UNCHANGED <<cur, call>>
    BY <1>2 DEF OnMediaClosed, ipcVars
  <2>. QED BY <2>1, ApartInStep DEF presenceVars
<1>. QED BY <1>1, <1>2

LEMMA HandleInStep ==
  ASSUME IpcTypeOK, IpcTypeOK', MediaTypeOK, InStep, NEW smaller, Handle(smaller),
         deliv.env \in Envelope
  PROVE  InStep'
<1>. DEFINE e == deliv.env
            s == IF e.from \in contact THEN Outcome(e, smaller) ELSE "none"
<1>1. Handled(e, s) /\ UNCHANGED <<conn, active, snap, sendq, cmdq, job, view, isOnline, gone, seen>>
  BY DEF Handle, presenceVars
<1>2. s # "none" => e.call \in CallIds
  BY DEF Outcome, Envelope
<1>3. "delivery" \in Core /\ out["delivery"] = NoOut
  BY DEF Handle, AtGate, Core
<1>. HIDE DEF s, e
<1>4. CASE s = "none"
  <2>1. UNCHANGED ipcVars /\ UNCHANGED <<cur, call>>
    BY <1>1, <1>4 DEF Handled, ipcVars
  <2>. QED BY <1>1, <2>1, ApartInStep
<1>5. CASE s # "none"
  <2>1. /\ Put(e.call, s) /\ Emit("delivery", CallEvent(e.call, s))
        /\ blur' = blur \cup Crosses("delivery", "call")
    BY <1>1, <1>5 DEF Handled
  <2>2. TheBar' = Bar(CallEvent(e.call, s)) /\ CallEvent(e.call, s).kind = "call"
    BY <1>2, <1>5, <2>1, PutBar DEF CallEvent
  <2>. QED BY <1>1, <1>3, <2>1, <2>2, NewsMade
<1>. QED BY <1>4, <1>5

-----------------------------------------------------------------------------
(* The commands on the call                                                *)

\* The loop of k has taken a command and has no event of its own.
LEMMA AtWork ==
  ASSUME IpcTypeOK, OneEventEach, InStep, NEW k \in Conns, Works(k)
  PROVE  /\ out[k] = NoOut /\ ~Speaks(k, "call") /\ ~Speaks(k, "presence")
         /\ ~Holds(k, "presence") /\ conn[k] \notin Early
         /\ job[k].op \in CallOps /\ job[k].call \in CallIds
<1>1. job[k] # NoJob /\ job[k].pc \in {"send", "tell"} /\ job[k] \in Job
  BY DEF Works, NoJob, IpcTypeOK
<1>2. out[k] = NoOut /\ conn[k] \notin Early
  BY <1>1 DEF OneEventEach, InStep, Lines, Early
<1>. QED BY <1>1, <1>2 DEF Job, Speaks, Holds, NoOut

\* A command other than ListChats has its answer.
LEMMA RepliedHolds ==
  ASSUME IpcTypeOK, NEW k \in Conns, NEW done, job[k].op \in CallOps, Replies(k, done)
  PROVE  /\ job'[k].pc = "reply" /\ ~Works(k)' /\ ~Starts(k)' /\ ~Holds(k, "presence")'
         /\ \A i \in Conns : i # k => job'[i] = job[i]
<1>1. /\ job'[k] = [pc |-> "reply", result |-> Result(job[k].op, done, {})]
      /\ \A i \in Conns : i # k => job'[i] = job[i]
  BY DEF Replies, IpcTypeOK
<1>2. job'[k].pc = "reply" /\ job'[k].result.kind = "result" /\ job'[k].result.op # "chats"
  BY <1>1 DEF Result, CallOps
<1>. QED BY <1>1, <1>2 DEF Works, Starts, Holds, Carries

\* A command changes the call.
LEMMA ChangedInStep ==
  ASSUME IpcTypeOK, IpcTypeOK', MediaTypeOK, OneEventEach, InStep,
         NEW k \in Conns, NEW op \in CallOps, Runs(k, op), NEW c \in CallIds, NEW s, Changed(k, c, s),
         IF op = "start" THEN s = "out" /\ cur = NoCall ELSE s = Decides[op],
         UNCHANGED <<conn, active, snap, sendq, out, view, isOnline, gone, seen>>
  PROVE  InStep'
<1>1. /\ job[k] = NoJob /\ conn[k] \in {"open", "closed"}
      /\ job'[k] = [pc |-> "send", op |-> op, call |-> c]
      /\ \A i \in Conns : i # k => job'[i] = job[i]
      /\ blur' = blur \cup Crosses(k, "call") /\ call'[c] = s
  BY DEF Runs, Changed, Goes, Put, IpcTypeOK, MediaTypeOK
<1>2. /\ out[k] = NoOut /\ ~Speaks(k, "call") /\ ~Works(k) /\ Works(k)'
      /\ ~Holds(k, "presence") /\ ~Holds(k, "presence")' /\ k # NoConn
  BY <1>1, NoConnApart DEF OneEventEach, Speaks, Works, Holds, NoJob, NoOut
<1>3. Lines' /\ OnlineShown'
  <2>1. "presence" \in blur' <=> "presence" \in blur
    BY <1>1 DEF Crosses
  <2>2. conn[k] \notin Early
    BY <1>1 DEF Early
  <2>. QED BY <1>1, <1>2, <2>1, <2>2, CallStepKeeps
<1>4. NewsOnly'
  BY DEF InStep, NewsOnly
<1>5. TheBar' = Bar(CallEvent(c, s))
  BY PutBar DEF Changed
<1>6. ASSUME "call" \notin blur' PROVE CallShown'
  <2>1. ~Pending("call", k) /\ "call" \notin blur
    BY <1>1, <1>6 DEF Crosses
  <2>2. /\ \A g \in Emitters : ~Speaks(g, "call") /\ ~Speaks(g, "call")'
        /\ \A i \in Conns : conn[i] # "snapped" /\ ~Works(i)
        /\ \A i \in Conns : i # k => ~Works(i)' /\ ~Starts(i)'
    BY <1>1, <1>2, <2>1, PendingBy DEF Speaks, Works, Starts
  <2>3. CallNewsFit'
    <3>1. Bar(CallEvent(job'[k].call, Told(k)')) = TheBar'
      <4>1. Told(k)' = s /\ job'[k].call = c
        BY <1>1 DEF Told
      <4>. QED BY <1>5, <4>1
    <3>2. ~Pending("call", k)'
      <4>1. \A g \in Emitters \ {k} : ~Speaks(g, "call")'
        BY <2>2
      <4>2. \A i \in Conns \ {k} : conn'[i] # "snapped" /\ ~Works(i)'
        BY <2>2
      <4>. QED BY <4>1, <4>2 DEF Pending, Speaks, Holds, Works
    <3>3. \A i \in Conns : Works(i)' => Bar(CallEvent(job'[i].call, Told(i)')) = TheBar'
      BY <2>2, <3>1
    <3>. QED BY <2>2, <3>2, <3>3 DEF CallNewsFit
  <2>4. BarComes'
    <3>. SUFFICES ASSUME Served' PROVE BarComes'
      BY DEF BarComes
    <3>1. Served
      BY DEF Served
    <3>2. Pending("call", NoConn)'
      BY <1>2 DEF Pending, Holds, Works
    <3>3. Starts(k)' => BarEnds(NoBar)'
      <4>. SUFFICES ASSUME Starts(k)' PROVE BarEnds(NoBar)'
        OBVIOUS
      <4>1. cur = NoCall
        BY <1>1 DEF Starts
      <4>2. TheBar = NoBar
        BY <4>1 DEF TheBar
      <4>3. ~Pending("call", NoConn)
        BY <2>2, PendingBy
      <4>4. conn[active] \in {"swapped", "open"}
        BY <2>2, <3>1 DEF InStep, Lines, Served, IpcTypeOK
      <4>5. BarEnds(NoBar)
        BY <2>1, <3>1, <4>2, <4>3, <4>4 DEF InStep, CallShown, BarComes
      <4>. QED BY <4>5 DEF BarEnds, ShownBar, NoBar
    <3>. QED BY <2>2, <3>2, <3>3 DEF BarComes
  <2>. QED BY <2>3, <2>4 DEF CallShown
<1>7. CallShown'
  BY <1>6, UnlessBlurred
<1>. QED BY <1>3, <1>4, <1>7 DEF InStep

LEMMA MutateInStep ==
  ASSUME IpcTypeOK, IpcTypeOK', MediaTypeOK, OneEventEach, InStep, NEW k \in Conns, Mutate(k),
         UNCHANGED presenceVars
  PROVE  InStep'
<1>1. UNCHANGED <<conn, active, snap, sendq, out, view, isOnline, gone, seen>>
  BY DEF Mutate, presenceVars
<1>2. CASE Start(k)
  <2>1. Runs(k, "start") /\ "start" \in CallOps
    BY <1>2 DEF Start, CallOps
  <2>2. ASSUME NEW c \in Ours, cur = NoCall, Changed(k, c, "out") PROVE InStep'
    BY <1>1, <2>1, <2>2, OursAssumption, ChangedInStep
  <2>. QED BY <1>1, <1>2, <2>1, <2>2, RefusedInStep DEF Start
<1>3. ASSUME NEW op \in DOMAIN Decides, Decide(k, op) PROVE InStep'
  <2>1. op \in CallOps /\ op # "start" /\ Runs(k, op)
    BY <1>3 DEF Decides, Decide, CallOps
  <2>2. ASSUME cur # NoCall, Changed(k, cur, Decides[op]) PROVE InStep'
    <3>1. cur \in CallIds
      BY <2>2 DEF MediaTypeOK
    <3>. QED BY <1>1, <2>1, <2>2, <3>1, ChangedInStep
  <2>. QED BY <1>1, <1>3, <2>1, <2>2, RefusedInStep DEF Decide
<1>. QED BY <1>2, <1>3 DEF Mutate

\* The envelope of the command is queued.
LEMMA SentInStep ==
  ASSUME IpcTypeOK, IpcTypeOK', OneEventEach, InStep, NEW k \in Conns, Sent(k),
         UNCHANGED presenceVars
  PROVE  InStep'
<1>0. /\ UNCHANGED <<conn, active, snap, sendq, out, view, blur, isOnline, gone, seen, cur, call>>
      /\ job[k].pc = "send" /\ job' = [job EXCEPT ![k].pc = "tell"]
  BY DEF Sent, presenceVars
<1>1. Works(k)
  BY <1>0 DEF Works
<1>2. /\ job'[k].pc = "tell" /\ job'[k].op = job[k].op /\ job'[k].call = job[k].call
      /\ \A i \in Conns : i # k => job'[i] = job[i]
  <2>1. job[k] \in [pc : {"send", "tell"}, op : CallOps, call : CallIds]
    BY <1>0, JobAt DEF IpcTypeOK
  <2>2. job'[k] = [job[k] EXCEPT !.pc = "tell"] /\ \A i \in Conns : i # k => job'[i] = job[i]
    BY <1>0 DEF IpcTypeOK
  <2>. QED BY <2>1, <2>2
<1>3. /\ \A i \in Conns : Works(i)' <=> Works(i)
      /\ \A i \in Conns : Starts(i)' => Starts(i)
      /\ \A i \in Conns : job'[i].call = job[i].call /\ Told(i)' = Told(i)
  BY <1>0, <1>1, <1>2 DEF Works, Starts, Told
<1>4. Lines' /\ OnlineShown'
  <2>1. ~Holds(k, "presence") /\ conn[k] \notin Early
    BY <1>1, AtWork
  <2>2. ~Holds(k, "presence")'
    BY <1>2 DEF Holds
  <2>. QED BY <1>0, <1>2, <2>1, <2>2, CallStepKeeps
<1>5. NewsOnly'
  BY <1>0 DEF InStep, NewsOnly
<1>6. TheBar' = TheBar
  BY <1>0 DEF TheBar
<1>7. \A g : Pending("call", g)' <=> Pending("call", g)
  <2>1. ASSUME NEW g PROVE Pending("call", g)' <=> Pending("call", g)
    <3>1. \A h \in Emitters : Speaks(h, "call")' <=> Speaks(h, "call")
      BY <1>0 DEF Speaks
    <3>2. \A i \in Conns : Holds(i, "call")' <=> Holds(i, "call")
      BY <1>0, <1>3 DEF Holds, Works
    <3>. QED BY <3>1, <3>2 DEF Pending, Speaks
  <2>. QED BY <2>1
<1>8. CallNewsFit'
  <2>. SUFFICES ASSUME "call" \notin blur PROVE CallNewsFit'
    BY <1>0 DEF CallNewsFit
  <2>1. \A g \in Emitters : Speaks(g, "call")' => Bar(out'[g].event) = TheBar'
    BY <1>0, <1>6 DEF InStep, CallShown, CallNewsFit, Speaks
  <2>2. \A i \in Conns : Works(i)' => Bar(CallEvent(job'[i].call, Told(i)')) = TheBar'
    BY <1>3, <1>6 DEF InStep, CallShown, CallNewsFit
  <2>3. \A i \in Conns : conn'[i] = "snapped" => snap'[i].kind = "call" /\ Bar(snap'[i]) = TheBar'
    BY <1>0, <1>6 DEF InStep, CallShown, CallNewsFit
  <2>4. \A i \in Conns : Starts(i)' => ~Pending("call", i)'
    BY <1>3, <1>7 DEF InStep, CallShown, CallNewsFit
  <2>. QED BY <2>1, <2>2, <2>3, <2>4 DEF CallNewsFit
<1>9. BarComes'
  <2>1. \A b : BarEnds(b) => BarEnds(b)'
    BY <1>0, SameQueue
  <2>2. BarEnds(TheBar) => BarEnds(TheBar)'
    BY <1>0, <1>6 DEF BarEnds, ShownBar
  <2>3. BarEnds(NoBar) => BarEnds(NoBar)'
    BY <2>1 DEF NoBar
  <2>. QED BY <1>0, <1>3, <1>7, <2>2, <2>3 DEF InStep, CallShown, BarComes, Served
<1>. QED BY <1>4, <1>5, <1>8, <1>9 DEF InStep, CallShown

\* The command tells.
LEMMA TellInStep ==
  ASSUME IpcTypeOK, IpcTypeOK', OneEventEach, InStep, NEW k \in Conns, Tell(k),
         UNCHANGED presenceVars
  PROVE  InStep'
<1>. DEFINE ev == CallEvent(job[k].call, Told(k))
<1>0. /\ UNCHANGED <<conn, active, snap, sendq, view, blur, isOnline, gone, seen, cur, call>>
      /\ job[k].pc = "tell" /\ Emit(k, ev) /\ Replies(k, TRUE) /\ ev.kind = "call"
  BY DEF Tell, presenceVars, mediaVars, CallEvent
<1>1. Works(k) /\ k # NoConn /\ k \in Emitters
  BY <1>0, NoConnApart, LoopIsEmitter DEF Works
<1>. HIDE DEF ev
<1>2. /\ out'[k].step = "emit" /\ out'[k].event = ev /\ Speaks(k, "call")'
      /\ ~Speaks(k, "presence")' /\ \A h \in Emitters : h # k => out'[h] = out[h]
  BY <1>0, <1>1 DEF Emit, IpcTypeOK, Speaks
<1>3. job[k].op \in CallOps /\ ~Speaks(k, "presence") /\ ~Holds(k, "presence") /\ conn[k] \notin Early
  BY <1>1, AtWork
<1>4. /\ ~Works(k)' /\ ~Starts(k)' /\ ~Holds(k, "presence")'
      /\ \A i \in Conns : i # k => job'[i] = job[i]
  BY <1>0, <1>3, RepliedHolds
<1>5. Lines' /\ OnlineShown'
  BY <1>0, <1>2, <1>3, <1>4, CallStepKeeps
<1>6. NewsOnly'
  BY <1>0, <1>2 DEF InStep, NewsOnly
<1>7. ASSUME "call" \notin blur PROVE CallShown'
  <2>0. TheBar' = TheBar
    BY <1>0 DEF TheBar
  <2>1. ASSUME NEW i \in Conns, Starts(i)' PROVE FALSE
    <3>1. i # k /\ Starts(i)
      BY <1>4, <2>1 DEF Starts
    <3>2. Pending("call", i)
      BY <1>1, <3>1, PendingBy
    <3>. QED BY <1>7, <3>1, <3>2 DEF InStep, CallShown, CallNewsFit
  <2>2. CallNewsFit'
    <3>1. ASSUME NEW h \in Emitters, Speaks(h, "call")' PROVE Bar(out'[h].event) = TheBar'
      <4>1. CASE h = k
        BY <1>1, <1>2, <1>7, <2>0, <4>1 DEF InStep, CallShown, CallNewsFit, ev
      <4>2. CASE h # k
        BY <1>2, <1>7, <2>0, <3>1, <4>2 DEF InStep, CallShown, CallNewsFit, Speaks
      <4>. QED BY <4>1, <4>2
    <3>2. ASSUME NEW i \in Conns, Works(i)' PROVE Bar(CallEvent(job'[i].call, Told(i)')) = TheBar'
      <4>1. i # k /\ Works(i) /\ Told(i)' = Told(i) /\ job'[i] = job[i]
        BY <1>0, <1>4, <3>2 DEF Works, Told
      <4>. QED BY <1>7, <2>0, <4>1 DEF InStep, CallShown, CallNewsFit
    <3>3. \A i \in Conns : conn'[i] = "snapped" => snap'[i].kind = "call" /\ Bar(snap'[i]) = TheBar'
      BY <1>0, <1>7, <2>0 DEF InStep, CallShown, CallNewsFit
    <3>. QED BY <2>1, <3>1, <3>2, <3>3 DEF CallNewsFit
  <2>3. BarComes'
    <3>1. Pending("call", NoConn)'
      BY <1>1, <1>2 DEF Pending, Speaks
    <3>2. Served' => \A i \in Conns : conn'[i] = "snapped" => i = active'
      BY <1>0, <1>7 DEF InStep, CallShown, BarComes, Served
    <3>. QED BY <2>1, <3>1, <3>2 DEF BarComes
  <2>. QED BY <2>2, <2>3 DEF CallShown
<1>8. CallShown'
  BY <1>0, <1>7, UnlessBlurred
<1>. QED BY <1>5, <1>6, <1>8 DEF InStep

\* The send fails: only Start takes its change back.
LEMMA SendFailsInStep ==
  ASSUME IpcTypeOK, IpcTypeOK', MediaTypeOK, OneEventEach, InStep, NEW k \in Conns, SendFails(k),
         UNCHANGED presenceVars
  PROVE  InStep'
<1>. DEFINE c == job[k].call
<1>0. /\ UNCHANGED <<conn, active, snap, sendq, out, view, isOnline, gone, seen, call>>
      /\ job[k].pc = "send" /\ Replies(k, FALSE)
      /\ \/ job[k].op = "start" /\ blur' = blur /\ cur' = IF cur = c THEN NoCall ELSE cur
         \/ job[k].op # "start" /\ blur' = blur \cup {"call"} /\ cur' = cur
  BY DEF SendFails, presenceVars, Unreported
<1>1. Works(k)
  BY <1>0 DEF Works
<1>2. /\ out[k] = NoOut /\ ~Speaks(k, "call") /\ c \in CallIds
      /\ job[k].op \in CallOps /\ ~Holds(k, "presence") /\ conn[k] \notin Early
  BY <1>1, AtWork
<1>3. /\ ~Works(k)' /\ ~Starts(k)' /\ ~Holds(k, "presence")'
      /\ \A i \in Conns : i # k => job'[i] = job[i]
  BY <1>0, <1>2, RepliedHolds
<1>4. Lines' /\ OnlineShown'
  <2>1. "presence" \in blur' <=> "presence" \in blur
    BY <1>0
  <2>. HIDE DEF c
  <2>. QED BY <1>0, <1>2, <1>3, <2>1, CallStepKeeps
<1>5. NewsOnly'
  BY <1>0 DEF InStep, NewsOnly
<1>6. ASSUME "call" \notin blur' PROVE CallShown'
  <2>1. /\ "call" \notin blur /\ Starts(k) /\ job[k].op = "start"
        /\ cur' = IF cur = c THEN NoCall ELSE cur
    BY <1>0, <1>6 DEF Starts
  <2>2. ~Pending("call", k)
    BY <2>1 DEF InStep, CallShown, CallNewsFit
  <2>3. /\ \A g \in Emitters : ~Speaks(g, "call")'
        /\ \A i \in Conns : conn'[i] # "snapped" /\ ~Works(i)' /\ ~Starts(i)'
    <3>1. \A g \in Emitters : ~Speaks(g, "call")
      BY <1>2, <2>2, PendingBy
    <3>2. \A i \in Conns : i # k => conn[i] # "snapped" /\ ~Works(i)
      BY <2>2, PendingBy
    <3>3. conn[k] # "snapped"
      BY <1>2 DEF Early
    <3>. QED BY <1>0, <1>3, <3>1, <3>2, <3>3 DEF Speaks, Works, Starts
  <2>4. TheBar' = NoBar
    <3>1. Bar(CallEvent(c, call[c])) = TheBar
      BY <1>1, <2>1 DEF InStep, CallShown, CallNewsFit, Told
    <3>2. cur # c => cur = NoCall
      BY <1>2, <3>1, CallsAssumption DEF Bar, CallEvent, TheBar, NoBar
    <3>. QED BY <2>1, <3>2 DEF TheBar
  <2>5. CallNewsFit'
    BY <2>3 DEF CallNewsFit
  <2>6. BarComes'
    <3>. SUFFICES ASSUME Served' PROVE BarComes'
      BY DEF BarComes
    <3>1. Served
      BY <1>0 DEF Served
    <3>2. BarEnds(NoBar)
      BY <2>1, <3>1 DEF InStep, CallShown, BarComes
    <3>3. BarEnds(TheBar)'
      BY <1>0, <2>4, <3>2 DEF BarEnds, ShownBar
    <3>. QED BY <2>3, <3>3 DEF BarComes
  <2>. QED BY <2>5, <2>6 DEF CallShown
<1>7. CallShown'
  BY <1>6, UnlessBlurred
<1>. QED BY <1>4, <1>5, <1>7 DEF InStep

\* The transaction of a handler fails.
LEMMA HandleFailsInStep ==
  ASSUME IpcTypeOK, IpcTypeOK', InStep, NEW smaller, HandleFails(smaller)
  PROVE  InStep'
<1>1. /\ UNCHANGED <<conn, active, snap, sendq, job, out, view, isOnline, gone, seen>>
      /\ blur' = blur \cup {"call"}
  BY DEF HandleFails, RolledBack, Unreported, presenceVars
<1>2. Lines' /\ OnlineShown'
  BY <1>1, CallStepKeeps
<1>3. NewsOnly'
  BY <1>1 DEF InStep, NewsOnly
<1>4. CallShown'
  BY <1>1, UnlessBlurred
<1>. QED BY <1>2, <1>3, <1>4 DEF InStep

-----------------------------------------------------------------------------
(* News of the presence                                                    *)

\* A step of the presence tells nothing of the call.
LEMMA PresenceStepKeeps ==
  ASSUME IpcTypeOK, InStep, UNCHANGED <<conn, active, sendq, view, snap, cur, call>>,
         "call" \in blur' <=> "call" \in blur,
         \A g \in Emitters : out'[g] = out[g] \/ (~Speaks(g, "call") /\ ~Speaks(g, "call")'),
         \A k \in Conns : job'[k] = job[k] \/ (conn[k] \notin Early /\ ~Works(k) /\ ~Works(k)')
  PROVE  Lines' /\ CallShown'
<1>1. Lines'
  <2>1. \A k \in Conns : conn[k] \in Early => job'[k] = job[k]
    OBVIOUS
  <2>. QED BY <2>1, LinesKept DEF InStep
<1>2. CallsStill
  <2>1. SameWork
    BY DEF SameWork, Works
  <2>2. Served' => Served
    BY DEF Served
  <2>. QED BY <2>1, <2>2, SameQueue DEF CallsStill
<1>. QED BY <1>1, <1>2, CallsStillKeep DEF InStep

LEMMA OnlinePendingBy ==
  ASSUME NEW g
  PROVE  Pending("presence", g) <=> \/ \E h \in Emitters \ {g} : Speaks(h, "presence")
                                    \/ \E k \in Conns \ {g} : Holds(k, "presence")
  BY DEF Pending, Speaks

LEMMA OnlineEndsSame ==
  ASSUME sendq' = sendq, view' = view, NEW p, p \in isOnline' <=> p \in isOnline, OnlineEnds(p)
  PROVE  OnlineEnds(p)'
  BY DEF OnlineEnds

\* ListChats reads who is online.
LEMMA ListChatsInStep ==
  ASSUME IpcTypeOK, IpcTypeOK', PresenceTypeOK, OneEventEach, InStep, NEW k \in Conns, ListChats(k)
  PROVE  InStep'
<1>. DEFINE S == {p \in Peers : Online(p)}
<1>0. /\ UNCHANGED <<conn, active, snap, sendq, out, view, isOnline, gone, seen, cur, call>>
      /\ Runs(k, "chats") /\ Answer(k, TRUE, S)
      /\ blur' = IF k # view.conn THEN blur
                 ELSE (blur \ {"presence"}) \cup Crosses(k, "presence")
                        \cup (IF gone \cup Expired = {} THEN {} ELSE {"presence"})
  BY DEF ListChats, ReadOnline, presenceVars, mediaVars
<1>1. /\ job[k] = NoJob /\ conn[k] \in {"open", "closed"}
      /\ job'[k] = [pc |-> "reply", result |-> Result("chats", TRUE, S)]
      /\ \A i \in Conns : i # k => job'[i] = job[i]
  <2>. HIDE DEF S
  <2>. QED BY <1>0 DEF Runs, Answer, Goes, IpcTypeOK
<1>2. /\ out[k] = NoOut /\ ~Speaks(k, "presence") /\ ~Works(k) /\ ~Works(k)'
      /\ ~Holds(k, "presence") /\ Holds(k, "presence")'
      /\ job'[k].result.done /\ job'[k].result.online = S
  <2>1. /\ job'[k].pc = "reply" /\ job'[k].result.done /\ job'[k].result.online = S
        /\ Carries(job'[k].result) = {"presence"}
    <3>. HIDE DEF S
    <3>. QED BY <1>1 DEF Result, Carries
  <2>2. out[k] = NoOut
    BY <1>1 DEF OneEventEach, NoJob
  <2>3. ~Works(k) /\ ~Holds(k, "presence") /\ ~Speaks(k, "presence")
    BY <1>1, <2>2 DEF Speaks, Works, Holds, NoJob, NoOut
  <2>4. ~Works(k)' /\ Holds(k, "presence")'
    BY <2>1 DEF Works, Holds
  <2>. QED BY <2>1, <2>2, <2>3, <2>4
<1>. HIDE DEF S
<1>3. Lines' /\ CallShown'
  <2>1. "call" \in blur' <=> "call" \in blur
    BY <1>0 DEF Crosses
  <2>. QED BY <1>0, <1>1, <1>2, <2>1, PresenceStepKeeps DEF Early
<1>4. NewsOnly'
  BY <1>0 DEF InStep, NewsOnly
<1>5. \A i \in Conns : i # k => (Holds(i, "presence")' <=> Holds(i, "presence"))
  BY <1>1 DEF Holds
<1>6. ASSUME k = view.conn, "presence" \notin blur'
      PROVE  /\ \A g \in Emitters : ~Speaks(g, "presence")
             /\ gone = {} /\ Expired = {}
  <2>1. ~Pending("presence", k) /\ gone \cup Expired = {}
    BY <1>0, <1>6 DEF Crosses
  <2>. QED BY <1>2, <2>1, OnlinePendingBy
<1>7. OnlineNewsFit'
  <2>1. \A p \in isOnline' : seen'[p] # "never"
    BY <1>0 DEF InStep, OnlineShown, OnlineNewsFit
  <2>2. view'.conn # NoConn /\ conn'[view'.conn] \in {"none", "hello", "swapped", "snapped"} =>
          "presence" \in blur'
    BY <1>0, <1>1 DEF InStep, OnlineShown, OnlineNewsFit
  <2>3. \A i \in Conns : Holds(i, "presence")' => job'[i].result.done
    BY <1>1, <1>2, <1>5 DEF InStep, OnlineShown, OnlineNewsFit
  <2>4. ASSUME "presence" \notin blur'
        PROVE  /\ \A g \in Emitters : Speaks(g, "presence")' =>
                    (out'[g].event.online <=> out'[g].event.peer \in isOnline')
               /\ gone' \cap isOnline' = {}
    <3>1. CASE k = view.conn
      BY <1>0, <1>6, <2>4, <3>1 DEF Speaks
    <3>2. CASE k # view.conn
      BY <1>0, <2>4, <3>2 DEF InStep, OnlineShown, OnlineNewsFit, Speaks
    <3>. QED BY <3>1, <3>2
  <2>. QED BY <2>1, <2>2, <2>3, <2>4 DEF OnlineNewsFit
<1>8. OnlineComes'
  <2>. SUFFICES ASSUME "presence" \notin blur', Served' PROVE OnlineComes'
    BY DEF OnlineComes
  <2>1. Served /\ active' = active /\ active = view.conn /\ active \in Conns
    BY <1>0 DEF Served, IpcTypeOK
  <2>2. CASE k = view.conn
    <3>1. S = isOnline
      <4>1. Expired = {} /\ isOnline \subseteq Peers /\ seen \in [Peers -> {"never", "fresh", "stale"}]
        BY <1>6, <2>2 DEF PresenceTypeOK
      <4>2. \A p \in isOnline : seen[p] = "fresh"
        BY <4>1 DEF Expired, InStep, OnlineShown, OnlineNewsFit
      <4>. QED BY <4>1, <4>2 DEF S, Online
    <3>2. active' = k
      BY <2>1, <2>2
    <3>3. Holds(active, "presence")'
      BY <1>2, <3>2 DEF Holds
    <3>4. job'[active'].result.online = isOnline'
      BY <1>0, <1>2, <3>1, <3>2
    <3>. QED BY <3>3, <3>4 DEF OnlineComes
  <2>3. CASE k # view.conn
    <3>1. "presence" \notin blur /\ job'[active] = job[active]
      BY <1>0, <1>1, <2>1, <2>3
    <3>2. Holds(active, "presence")' <=> Holds(active, "presence")
      BY <2>1, <3>1 DEF Holds
    <3>3. \A p \in Peers : OnlineEnds(p) => OnlineEnds(p)'
      BY <1>0, OnlineEndsSame
    <3>4. \A g \in Emitters : Speaks(g, "presence") => Speaks(g, "presence")'
      BY <1>0 DEF Speaks
    <3>. QED BY <1>0, <2>1, <3>1, <3>2, <3>3, <3>4 DEF InStep, OnlineShown, OnlineComes
  <2>. QED BY <2>2, <2>3
<1>. QED BY <1>3, <1>4, <1>7, <1>8 DEF InStep, OnlineShown

\* A block: the presence forgets the contact, and the page has yet to ask.
LEMMA BlockInStep ==
  ASSUME IpcTypeOK, IpcTypeOK', PresenceTypeOK, InStep, NEW k \in Conns, Block(k)
  PROVE  InStep'
<1>0. /\ UNCHANGED <<conn, active, snap, sendq, out, view, gone, cur, call>>
      /\ Forget(Subject(k)) /\ blur' = blur \cup {"presence"}
  BY DEF Block, mediaVars, Forget
<1>1. QuietJobs
  BY AnswerIsQuiet DEF Block
<1>2. Lines' /\ CallShown'
  BY <1>0, <1>1, PresenceStepKeeps DEF QuietJobs
<1>3. NewsOnly'
  BY <1>0 DEF InStep, NewsOnly
<1>4. OnlineNewsFit'
  <2>1. \A p \in isOnline' : seen'[p] # "never"
    BY <1>0 DEF Forget, PresenceTypeOK, InStep, OnlineShown, OnlineNewsFit
  <2>2. \A i \in Conns : Holds(i, "presence")' => job'[i].result.done
    <3>1. \A i \in Conns : Holds(i, "presence")' => job'[i] = job[i] /\ Holds(i, "presence")
      BY <1>1 DEF QuietJobs, Holds
    <3>. QED BY <3>1 DEF InStep, OnlineShown, OnlineNewsFit
  <2>. QED BY <1>0, <2>1, <2>2 DEF OnlineNewsFit
<1>5. OnlineComes'
  BY <1>0 DEF OnlineComes
<1>. QED BY <1>2, <1>3, <1>4, <1>5 DEF InStep, OnlineShown

LEMMA SweepInStep ==
  ASSUME IpcTypeOK, IpcTypeOK', PresenceTypeOK, InStep, Sweep, UNCHANGED mediaVars
  PROVE  InStep'
<1>0. /\ UNCHANGED <<conn, active, snap, sendq, job, out, view, seen, cur, call>>
      /\ gone = {} /\ out["presence"] = NoOut
      /\ isOnline' = isOnline \ Expired /\ gone' = Expired
      /\ blur' = blur \cup Crosses("presence", "presence")
  BY DEF Sweep, mediaVars
<1>1. Lines' /\ CallShown'
  <2>1. "call" \in blur' <=> "call" \in blur
    BY <1>0 DEF Crosses
  <2>. QED BY <1>0, <2>1, PresenceStepKeeps
<1>2. NewsOnly'
  BY <1>0 DEF InStep, NewsOnly
<1>3. ASSUME "presence" \notin blur'
      PROVE  /\ "presence" \notin blur
             /\ \A g \in Emitters : ~Speaks(g, "presence")
             /\ \A i \in Conns : ~Holds(i, "presence")
  <2>1. ~Pending("presence", "presence") /\ "presence" \notin blur
    BY <1>0, <1>3 DEF Crosses
  <2>2. "presence" \notin Conns /\ ~Speaks("presence", "presence")
    BY <1>0, ConnsAssumption DEF Core, Speaks, NoOut
  <2>. QED BY <2>1, <2>2, OnlinePendingBy
<1>4. OnlineNewsFit'
  <2>1. \A p \in isOnline' : seen'[p] # "never"
    BY <1>0 DEF InStep, OnlineShown, OnlineNewsFit
  <2>2. view'.conn # NoConn /\ conn'[view'.conn] \in {"none", "hello", "swapped", "snapped"} =>
          "presence" \in blur'
    BY <1>0 DEF InStep, OnlineShown, OnlineNewsFit
  <2>3. \A i \in Conns : Holds(i, "presence")' => job'[i].result.done
    BY <1>0 DEF InStep, OnlineShown, OnlineNewsFit, Holds
  <2>4. "presence" \notin blur' => \A g \in Emitters : ~Speaks(g, "presence")'
    BY <1>0, <1>3 DEF Speaks
  <2>. QED BY <1>0, <2>1, <2>2, <2>3, <2>4 DEF OnlineNewsFit
<1>5. OnlineComes'
  <2>. SUFFICES ASSUME "presence" \notin blur', Served' PROVE OnlineComes'
    BY DEF OnlineComes
  <2>1. Served /\ active' = active /\ active \in Conns
    BY <1>0 DEF Served, IpcTypeOK
  <2>2. ~Holds(active, "presence") /\ ~Holds(active, "presence")'
    BY <1>0, <1>3, <2>1 DEF Holds
  <2>3. ASSUME NEW p \in Peers, p \notin Expired PROVE OnlineEnds(p)'
    <3>1. OnlineEnds(p)
      BY <1>0, <1>3, <2>1, <2>2 DEF InStep, OnlineShown, OnlineComes
    <3>2. p \in isOnline' <=> p \in isOnline
      BY <1>0, <2>3
    <3>. QED BY <1>0, <3>1, <3>2, OnlineEndsSame
  <2>. QED BY <1>0, <2>2, <2>3 DEF OnlineComes
<1>. QED BY <1>1, <1>2, <1>4, <1>5 DEF InStep, OnlineShown

LEMMA ReportInStep ==
  ASSUME IpcTypeOK, IpcTypeOK', PresenceTypeOK, InStep, NEW p \in Peers, Report(p),
         UNCHANGED mediaVars
  PROVE  InStep'
<1>. DEFINE ev == PresenceEvent(p, FALSE)
<1>0. /\ UNCHANGED <<conn, active, snap, sendq, job, view, blur, seen, isOnline, cur, call>>
      /\ p \in gone /\ out["presence"] = NoOut /\ Emit("presence", ev) /\ gone' = gone \ {p}
  BY DEF Report, mediaVars
<1>1. /\ "presence" \in Emitters /\ out'["presence"].step = "emit" /\ out'["presence"].event = ev
      /\ \A g \in Emitters : g # "presence" => out'[g] = out[g]
  <2>. HIDE DEF ev
  <2>. QED BY <1>0 DEF Emitters, Core, Emit, IpcTypeOK
<1>2. ev.kind = "presence" /\ ev.peer = p /\ ev.online = FALSE
  BY DEF PresenceEvent
<1>. HIDE DEF ev
<1>3. /\ ~Speaks("presence", "call")' /\ Speaks("presence", "presence")'
      /\ ~Speaks("presence", "call") /\ ~Speaks("presence", "presence")
  BY <1>0, <1>1, <1>2 DEF Speaks, NoOut
<1>4. Lines' /\ CallShown'
  BY <1>0, <1>1, <1>3, PresenceStepKeeps
<1>5. NewsOnly'
  BY <1>1, <1>2 DEF InStep, NewsOnly
<1>6. OnlineNewsFit'
  <2>1. \A q \in isOnline' : seen'[q] # "never"
    BY <1>0 DEF InStep, OnlineShown, OnlineNewsFit
  <2>2. view'.conn # NoConn /\ conn'[view'.conn] \in {"none", "hello", "swapped", "snapped"} =>
          "presence" \in blur'
    BY <1>0 DEF InStep, OnlineShown, OnlineNewsFit
  <2>3. \A i \in Conns : Holds(i, "presence")' => job'[i].result.done
    BY <1>0 DEF InStep, OnlineShown, OnlineNewsFit, Holds
  <2>4. ASSUME "presence" \notin blur'
        PROVE  /\ \A g \in Emitters : Speaks(g, "presence")' =>
                    (out'[g].event.online <=> out'[g].event.peer \in isOnline')
               /\ gone' \cap isOnline' = {}
    <3>1. gone \cap isOnline = {} /\ p \notin isOnline
      BY <1>0, <2>4 DEF InStep, OnlineShown, OnlineNewsFit
    <3>2. ASSUME NEW g \in Emitters, Speaks(g, "presence")'
          PROVE  out'[g].event.online <=> out'[g].event.peer \in isOnline'
      <4>1. CASE g = "presence"
        BY <1>0, <1>1, <1>2, <3>1, <4>1
      <4>2. CASE g # "presence"
        BY <1>0, <1>1, <2>4, <3>2, <4>2 DEF InStep, OnlineShown, OnlineNewsFit, Speaks
      <4>. QED BY <4>1, <4>2
    <3>. QED BY <1>0, <3>1, <3>2
  <2>. QED BY <2>1, <2>2, <2>3, <2>4 DEF OnlineNewsFit
<1>7. OnlineComes'
  <2>. SUFFICES ASSUME "presence" \notin blur', Served' PROVE OnlineComes'
    BY DEF OnlineComes
  <2>1. "presence" \notin blur /\ Served
    BY <1>0 DEF Served
  <2>2. CASE Holds(active, "presence")
    BY <1>0, <2>1, <2>2 DEF InStep, OnlineShown, OnlineComes, Holds
  <2>3. CASE ~Holds(active, "presence")
    <3>1. ASSUME NEW q \in Peers
          PROVE  \/ OnlineEnds(q)' \/ q \in gone'
                 \/ \E g \in Emitters : Speaks(g, "presence")' /\ out'[g].event.peer = q
      <4>1. CASE q = p
        BY <1>1, <1>2, <1>3, <4>1
      <4>2. CASE q # p
        <5>1. OnlineEnds(q) => OnlineEnds(q)'
          BY <1>0, OnlineEndsSame
        <5>2. ASSUME NEW g \in Emitters, Speaks(g, "presence"), out[g].event.peer = q
              PROVE  Speaks(g, "presence")' /\ out'[g].event.peer = q
          <6>1. g # "presence"
            BY <1>3, <5>2
          <6>. QED BY <1>1, <5>2, <6>1 DEF Speaks
        <5>3. \/ OnlineEnds(q) \/ q \in gone
              \/ \E g \in Emitters : Speaks(g, "presence") /\ out[g].event.peer = q
          BY <2>1, <2>3 DEF InStep, OnlineShown, OnlineComes
        <5>. QED BY <1>0, <4>2, <5>1, <5>2, <5>3
      <4>. QED BY <4>1, <4>2
    <3>2. ~Holds(active, "presence")'
      BY <1>0, <2>3 DEF Holds
    <3>. QED BY <3>1, <3>2 DEF OnlineComes
  <2>. QED BY <2>2, <2>3
<1>. QED BY <1>4, <1>5, <1>6, <1>7 DEF InStep, OnlineShown

\* A delivery arrives: a sign of life of a contact.
LEMMA ArriveInStep ==
  ASSUME IpcTypeOK, IpcTypeOK', PresenceTypeOK, InStep, NEW e \in Envelope, Arrive(e)
  PROVE  InStep'
<1>. DEFINE p == e.from
            ev == PresenceEvent(p, TRUE)
<1>0. UNCHANGED <<cur, call>> /\ p \in Peers /\ out["delivery"] = NoOut
  BY DEF Arrive, mediaVars, Envelope
<1>1. CASE UNCHANGED ipcVars /\ UNCHANGED presenceVars
  BY <1>0, <1>1, ApartInStep DEF presenceVars
<1>2. CASE /\ UNCHANGED ipcVars /\ UNCHANGED <<isOnline, gone>> /\ seen' = [seen EXCEPT ![p] = "fresh"]
  <2>1. \A q \in isOnline : seen[q] # "never" => seen'[q] # "never"
    BY <1>2 DEF PresenceTypeOK
  <2>. QED BY <1>0, <1>2, <2>1, ApartInStep
<1>3. ASSUME p \notin isOnline, UNCHANGED <<conn, active, snap, sendq, cmdq, job, view, gone>>,
             Emit("delivery", ev), seen' = [seen EXCEPT ![p] = "fresh"],
             isOnline' = isOnline \cup {p},
             blur' = blur \cup Crosses("delivery", "presence")
                       \cup (IF gone = {} THEN {} ELSE {"presence"})
      PROVE  InStep'
  <2>1. /\ "delivery" \in Emitters /\ out'["delivery"].step = "emit" /\ out'["delivery"].event = ev
        /\ \A g \in Emitters : g # "delivery" => out'[g] = out[g]
    <3>. HIDE DEF ev
    <3>. QED BY <1>3 DEF Emitters, Core, Emit, IpcTypeOK
  <2>2. ev.kind = "presence" /\ ev.peer = p /\ ev.online = TRUE
    BY DEF PresenceEvent
  <2>. HIDE DEF ev, p
  <2>3. /\ ~Speaks("delivery", "call")' /\ Speaks("delivery", "presence")'
        /\ ~Speaks("delivery", "call") /\ ~Speaks("delivery", "presence")
    BY <1>0, <2>1, <2>2 DEF Speaks, NoOut
  <2>4. Lines' /\ CallShown'
    <3>1. "call" \in blur' <=> "call" \in blur
      BY <1>3 DEF Crosses
    <3>. QED BY <1>0, <1>3, <2>1, <2>3, <3>1, PresenceStepKeeps
  <2>5. NewsOnly'
    BY <2>1, <2>2 DEF InStep, NewsOnly
  <2>6. ASSUME "presence" \notin blur'
        PROVE  /\ "presence" \notin blur /\ gone = {}
               /\ \A g \in Emitters : Speaks(g, "presence")' => g = "delivery"
               /\ \A g \in Emitters : ~Speaks(g, "presence")
               /\ \A i \in Conns : ~Holds(i, "presence")
    <3>1. ~Pending("presence", "delivery") /\ "presence" \notin blur /\ gone = {}
      BY <1>3, <2>6 DEF Crosses
    <3>2. "delivery" \notin Conns
      BY ConnsAssumption DEF Core
    <3>3. \A g \in Emitters : ~Speaks(g, "presence")
      BY <2>3, <3>1, OnlinePendingBy
    <3>4. \A i \in Conns : ~Holds(i, "presence")
      BY <3>1, <3>2, OnlinePendingBy
    <3>5. \A g \in Emitters : Speaks(g, "presence")' => g = "delivery"
      BY <2>1, <3>3 DEF Speaks
    <3>. QED BY <3>1, <3>3, <3>4, <3>5
  <2>7. OnlineNewsFit'
    <3>1. \A q \in isOnline' : seen'[q] # "never"
      <4>1. isOnline \subseteq Peers /\ seen'[p] = "fresh" /\ \A q \in Peers : q # p => seen'[q] = seen[q]
        BY <1>0, <1>3 DEF PresenceTypeOK
      <4>. QED BY <1>3, <4>1 DEF InStep, OnlineShown, OnlineNewsFit
    <3>2. view'.conn # NoConn /\ conn'[view'.conn] \in {"none", "hello", "swapped", "snapped"} =>
            "presence" \in blur'
      BY <1>3 DEF InStep, OnlineShown, OnlineNewsFit
    <3>3. \A i \in Conns : Holds(i, "presence")' => job'[i].result.done
      BY <1>3 DEF InStep, OnlineShown, OnlineNewsFit, Holds
    <3>4. ASSUME "presence" \notin blur'
          PROVE  /\ \A g \in Emitters : Speaks(g, "presence")' =>
                      (out'[g].event.online <=> out'[g].event.peer \in isOnline')
                 /\ gone' \cap isOnline' = {}
      BY <1>3, <2>1, <2>2, <2>6, <3>4
    <3>. QED BY <3>1, <3>2, <3>3, <3>4 DEF OnlineNewsFit
  <2>8. OnlineComes'
    <3>. SUFFICES ASSUME "presence" \notin blur', Served' PROVE OnlineComes'
      BY DEF OnlineComes
    <3>1. Served /\ active' = active /\ active \in Conns
      BY <1>3 DEF Served, IpcTypeOK
    <3>2. ~Holds(active, "presence") /\ ~Holds(active, "presence")'
      BY <1>3, <2>6, <3>1 DEF Holds
    <3>3. ASSUME NEW q \in Peers, q # p PROVE OnlineEnds(q)'
      <4>1. OnlineEnds(q)
        BY <2>6, <3>1, <3>2 DEF InStep, OnlineShown, OnlineComes
      <4>2. q \in isOnline' <=> q \in isOnline
        BY <1>3, <3>3
      <4>. QED BY <1>3, <4>1, <4>2, OnlineEndsSame
    <3>4. \E g \in Emitters : Speaks(g, "presence")' /\ out'[g].event.peer = p
      BY <2>1, <2>2, <2>3
    <3>. QED BY <3>2, <3>3, <3>4 DEF OnlineComes
  <2>. QED BY <2>4, <2>5, <2>7, <2>8 DEF InStep, OnlineShown
<1>. QED BY <1>1, <1>2, <1>3 DEF Arrive, SignOfLife, ipcVars

-----------------------------------------------------------------------------
(* The page is in step                                                     *)

LEMMA InitInStep == Init => InStep
<1>. SUFFICES ASSUME Init PROVE InStep
  OBVIOUS
<1>1. /\ \A k \in Conns : conn[k] = "none" /\ sendq[k] = <<>> /\ job[k] = NoJob
      /\ \A g \in Emitters : out[g] = NoOut
      /\ view.conn = NoConn /\ ShownBar = NoBar /\ active = NoConn
      /\ isOnline = {} /\ gone = {}
  BY DEF Init, IpcInit, PresenceInit, ShownBar, NoBar
<1>2. /\ \A g \in Emitters, kind \in {"call", "presence"} : ~Speaks(g, kind)
      /\ \A k \in Conns : ~Works(k) /\ ~Starts(k) /\ ~Holds(k, "presence")
  BY <1>1 DEF Speaks, Works, Starts, Holds, NoJob, NoOut
<1>3. Lines /\ NewsOnly
  BY <1>1 DEF Lines, NewsOnly, NoOut
<1>4. CallShown
  BY <1>1, <1>2 DEF CallShown, CallNewsFit, BarComes, Served
<1>5. OnlineShown
  BY <1>1, <1>2 DEF OnlineShown, OnlineNewsFit, OnlineComes, Served
<1>. QED BY <1>3, <1>4, <1>5 DEF InStep

LEMMA StepInStep ==
  ASSUME Inductive, IpcTypeOK', InStep, Step PROVE InStep'
<1>. IpcTypeOK /\ MediaTypeOK /\ PresenceTypeOK /\ OneEventEach
  BY DEF Inductive, TypeOK
<1>1. CASE OfIpc /\ UNCHANGED <<mediaVars, presenceVars, deliv, again>>
  <2>1. ASSUME NEW k \in Conns, Connection(k) PROVE InStep'
    BY <1>1, <2>1, SwapInStep, ClosedInStep, ResyncPushInStep DEF Connection
  <2>2. ASSUME NEW k \in Conns, Loop(k) PROVE InStep'
    BY <1>1, <2>2, RunOtherInStep, ReplyInStep DEF Loop
  <2>. QED BY <1>1, <2>1, <2>2, ReceiveInStep, OpenInStep, EmitOutInStep DEF OfIpc
<1>2. CASE OfMedia /\ UNCHANGED <<presenceVars, deliv, again>>
  <2>1. CASE Bridge
    BY <1>2, <2>1, BridgeInStep, OnMediaClosedInStep DEF Bridge
  <2>2. ASSUME NEW p \in Peers, InboundArrives(p) PROVE InStep'
    BY <1>2, <2>2, BridgeInStep
  <2>3. ASSUME NEW k \in Conns, Mutate(k) \/ Sent(k) \/ Tell(k) PROVE InStep'
    BY <1>2, <2>3, MutateInStep, SentInStep, TellInStep
  <2>4. ASSUME NEW c \in CallIds, WaiterEnds(c) \/ WaiterGivesUp(c) PROVE InStep'
    BY <1>2, <2>4, BridgeInStep, WaiterGivesUpInStep
  <2>. QED BY <1>2, <2>1, <2>2, <2>3, <2>4, ActInStep DEF OfMedia
<1>3. CASE OfPresence /\ UNCHANGED <<mediaVars, deliv, again>>
  BY <1>3, SweepInStep, ReportInStep DEF OfPresence
<1>4. ASSUME NEW smaller \in BOOLEAN, Handle(smaller) PROVE InStep'
  <2>1. deliv.env \in Envelope
    BY <1>4 DEF Handle, AtGate, Inductive, TypeOK, Idle
  <2>. QED BY <1>4, <2>1, HandleInStep
<1>5. ASSUME NEW k \in Conns, Resync(k) \/ ListChats(k) \/ Block(k) \/ Unblock(k) PROVE InStep'
  BY <1>5, ResyncInStep, ListChatsInStep, BlockInStep, UnblockInStep
<1>. QED BY <1>1, <1>2, <1>3, <1>4, <1>5 DEF Step

LEMMA NextInStep ==
  ASSUME Inductive, IpcTypeOK', InStep, [Next]_vars PROVE InStep'
<1>. IpcTypeOK /\ MediaTypeOK /\ PresenceTypeOK /\ OneEventEach
  BY DEF Inductive, TypeOK
<1>1. CASE Step
  BY <1>1, StepInStep
<1>2. CASE Stimulus
  <2>1. ASSUME NEW op \in Ops \ {"chats"}, NEW p \in Peers, Click(op, p),
               UNCHANGED <<mediaVars, presenceVars, deliv, again>>
        PROVE  InStep'
    BY <2>1, ClickInStep
  <2>2. ASSUME NEW p \in Peers, Silence(p), UNCHANGED <<mediaVars, deliv, again>> PROVE InStep'
    BY <2>2, SilenceInStep
  <2>. QED BY <1>2, <2>1, <2>2, ArriveInStep DEF Stimulus
<1>3. CASE Failure
  <2>1. CASE (PageLost \/ Notify) /\ UNCHANGED <<mediaVars, presenceVars, deliv, again>>
    BY <2>1, PageLostInStep, NotifyInStep
  <2>2. CASE /\ SessionDies \/ (\E k \in Conns : SendFails(k)) \/ (\E c \in CallIds : OpenFails(c))
             /\ UNCHANGED <<presenceVars, deliv, again>>
    BY <2>2, BridgeInStep, SendFailsInStep
  <2>. QED BY <1>3, <2>1, <2>2, HandleFailsInStep DEF Failure
<1>4. CASE UNCHANGED vars
  <2>1. UNCHANGED ipcVars /\ UNCHANGED <<cur, call, seen, isOnline, gone>>
    BY <1>4 DEF vars, mediaVars, presenceVars
  <2>. QED BY <2>1, ApartInStep
<1>. QED BY <1>1, <1>2, <1>3, <1>4 DEF Next

\* With nothing on its way, the last thing the page was told is the case.
LEMMA InStepShows ==
  ASSUME TypeOK, InStep PROVE CallBarFollows /\ PresenceFollows
<1>. IpcTypeOK /\ PresenceTypeOK
  BY DEF TypeOK
<1>1. ASSUME Connected, Quiet("call"), "call" \notin blur
      PROVE  IF cur = NoCall THEN view.call = NoCall ELSE view.call = cur /\ view.state = call[cur]
  <2>1. BarEnds(TheBar)
    BY <1>1 DEF Connected, Quiet, Served, InStep, CallShown, BarComes
  <2>2. \A i \in DOMAIN sendq[view.conn] : sendq[view.conn][i] \notin CallNews
    BY <1>1, EventKinds DEF Quiet, CallNews
  <2>3. ShownBar = TheBar
    BY <2>1, <2>2, EndsAre DEF BarEnds
  <2>. QED BY <2>3 DEF ShownBar, TheBar, NoBar
<1>2. ASSUME Connected, Quiet("presence"), gone = {}, "presence" \notin blur
      PROVE  view.online = isOnline
  <2>1. /\ \A g \in Emitters : ~Speaks(g, "presence")
        /\ \A k \in Conns : ~Holds(k, "presence")
    BY <1>2, NoConnApart, OnlinePendingBy DEF Quiet
  <2>2. Served /\ active \in Conns
    BY <1>2 DEF Connected, Served, IpcTypeOK
  <2>3. ASSUME NEW p \in Peers PROVE p \in view.online <=> p \in isOnline
    <3>1. OnlineEnds(p)
      BY <1>2, <2>1, <2>2 DEF InStep, OnlineShown, OnlineComes
    <3>2. \A i \in DOMAIN sendq[view.conn] : sendq[view.conn][i] \notin OnlineNews(p)
      BY <1>2, EventKinds DEF Quiet, OnlineNews
    <3>. QED BY <3>1, <3>2, EndsAre DEF OnlineEnds
  <2>4. view.online \subseteq Peers /\ isOnline \subseteq Peers
    BY DEF IpcTypeOK, PresenceTypeOK
  <2>. QED BY <2>3, <2>4
<1>. QED BY <1>1, <1>2 DEF CallBarFollows, PresenceFollows

LEMMA InStepInductive == Inductive /\ InStep /\ [Next]_vars => (Inductive /\ InStep)'
<1>1. Inductive' => IpcTypeOK'
  BY DEF Inductive, TypeOK
<1>. QED BY <1>1, NextInductive, NextInStep

\* What is on its way to the page tells the current call, and the presence of each contact,
\* as they are (server.go, core.go and presence.go make an event under a lock and emit it
\* after the unlock): the last event in the queue of the page decides what it will show,
\* until news crosses other news or is dropped.
THEOREM DeskInStep == Spec => [](Inductive /\ InStep)
<1>1. Init => Inductive /\ InStep
  BY InitInductive, InitInStep
<1>. QED BY <1>1, InStepInductive, PTL DEF Spec

\* attach sends the current call after the swap (server.go:230-232), and the renderer
\* trusts it: for any number of connections, calls and events in flight, and a queue of any
\* length, once nothing is on its way, the call bar of the attached page shows the current
\* call in its current state, and no call when there is none.
THEOREM DeskCallBar == Spec => []CallBarFollows
<1>1. Inductive /\ InStep => CallBarFollows
  BY InStepShows DEF Inductive
<1>. QED BY <1>1, DeskInStep, PTL

\* The page reads who is online once and is told of the changes that markActivity and sweep
\* report (presence.go:76-93): for any number of contacts and connections, once nothing is
\* on its way, its list is the one of the daemon, unless a report was dropped or crossed
\* the read.
THEOREM DeskPresence == Spec => []PresenceFollows
<1>1. Inductive /\ InStep => PresenceFollows
  BY InStepShows DEF Inductive
<1>. QED BY <1>1, DeskInStep, PTL

=============================================================================
