-------------------------------- MODULE Ipc --------------------------------
(***************************************************************************)
(* The local server of the daemon (ipc/server.go) and the renderer it      *)
(* serves (ui/src/ipc/client.ts, ui/src/state/store.ts): connections that  *)
(* replace one another, the queue of events and results of each, its loop  *)
(* of commands, the events the core emits to whichever client is active,   *)
(* and the page's copy of the call and of the presence of the contacts.    *)
(*                                                                         *)
(* An event is made under the lock of the component it speaks of and is    *)
(* emitted after the unlock, by the goroutine that made it; between the    *)
(* two, and between the event and what the core does after it, any other   *)
(* goroutine may run.  What the commands do is left to the modules that    *)
(* extend this one.                                                        *)
(*                                                                         *)
(* Abstractions.  Frames are events; the write loop, the socket and the    *)
(* page's handler are one step per frame, and a connection that breaks     *)
(* loses what it carried.  emit reads the active client and pushes to its  *)
(* queue in one step: a client that is replaced between the two has no     *)
(* page behind it any more.  Events that only add a line or a toast, and   *)
(* media frames, are notes.  The answers of commands are told apart only   *)
(* where the page acts on them.                                            *)
(***************************************************************************)
EXTENDS Naturals, Sequences

CONSTANTS
  Conns,       \* connections of the renderer, one after another
  NoConn,
  Peers, CallIds, NoCall,
  EventQueue,  \* bound of a client's send queue, 1024 in the code
  CmdQueue     \* bound of a client's command queue, 64 in the code

ASSUME CallsAssumption == NoCall \notin CallIds
ASSUME QueuesAssumption == EventQueue \in Nat \ {0} /\ CmdQueue \in Nat \ {0}

\* The goroutines of the core that emit; a client's loop of commands is named
\* by its connection.
Core == {"delivery", "waiter", "media", "presence"}
Emitters == Core \cup Conns

ASSUME ConnsAssumption == NoConn \notin Conns \cup Core /\ Conns \cap Core = {}

CallState == {"none", "out", "in", "active", "ended"}

CallEvent(c, s) == [kind |-> "call", call |-> c, state |-> s]
PresenceEvent(p, b) == [kind |-> "presence", peer |-> p, online |-> b]
Note == [kind |-> "note"]

Ops == {"start", "accept", "reject", "hangup", "block", "unblock", "chats", "other"}

\* Those that may change the current call.
CallOps == {"start", "accept", "reject", "hangup"}

\* A command of the page, on a call, on a contact or on nothing.
Cmd(op, x) == [op |-> op, on |-> x]
Command ==
  [op : {"start", "block", "unblock"}, on : Peers]
    \cup [op : {"accept", "reject", "hangup", "chats", "other"}, on : CallIds \cup {NoCall}]

\* A result names the command it answers; the one of ListChats that was
\* carried out has the contacts that are online.
Result(op, done, s) == [kind |-> "result", op |-> op, done |-> done, online |-> s]

Event ==
  [kind : {"call"}, call : CallIds, state : CallState]
    \cup [kind : {"presence"}, peer : Peers, online : BOOLEAN]
    \cup [kind : {"result"}, op : Ops, done : BOOLEAN, online : SUBSET Peers]
    \cup {Note}

\* A command runs; one that changes a call then sends and tells; then it is answered.
NoJob == [pc |-> "idle"]
Job == {NoJob} \cup [pc : {"send", "tell"}, op : CallOps, call : CallIds]
         \cup [pc : {"reply"}, result : [kind : {"result"}, op : Ops, done : BOOLEAN,
                                        online : SUBSET Peers]]

NoOut == [step |-> "none"]
Emission == {NoOut} \cup [step : {"emit", "act"}, event : Event]

VARIABLES
  conn,    \* conn[k]: how far the server is with connection k
  active,  \* Server.active
  snap,    \* snap[k]: the current call as attach has read it for k, if any
  sendq,   \* client.send and the socket
  cmdq,    \* client.cmds
  job,     \* job[k]: the command that the loop of k is executing
  out,     \* out[g]: the event goroutine g is emitting
  view,    \* the page: its connection, call bar, online contacts
  blur     \* history: what the page may have missed or met in the wrong order

ipcVars == <<conn, active, snap, sendq, cmdq, job, out, view, blur>>

IpcTypeOK ==
  /\ conn \in [Conns -> {"none", "hello", "swapped", "snapped", "open", "closed"}]
  /\ active \in Conns \cup {NoConn}
  /\ snap \in [Conns -> {Note} \cup [kind : {"call"}, call : CallIds, state : CallState]]
  /\ sendq \in [Conns -> Seq(Event)] /\ \A k \in Conns : Len(sendq[k]) <= EventQueue
  /\ cmdq \in [Conns -> Seq(Command)] /\ \A k \in Conns : Len(cmdq[k]) <= CmdQueue
  /\ job \in [Conns -> Job]
  /\ out \in [Emitters -> Emission]
  /\ view \in [conn : Conns \cup {NoConn}, call : CallIds \cup {NoCall},
               state : CallState, online : SUBSET Peers]
  /\ blur \subseteq {"call", "presence"}

IpcInit ==
  /\ conn = [k \in Conns |-> "none"]
  /\ active = NoConn
  /\ snap = [k \in Conns |-> Note]
  /\ sendq = [k \in Conns |-> <<>>] /\ cmdq = sendq
  /\ job = [k \in Conns |-> NoJob]
  /\ out = [g \in Emitters |-> NoOut]
  /\ view = [conn |-> NoConn, call |-> NoCall, state |-> "none", online |-> {}]
  /\ blur = {"presence"}

-----------------------------------------------------------------------------
(* Queues                                                                  *)

\* What the page loses with an event that is dropped.
Carries(ev) ==
  CASE ev.kind \in {"call", "presence"}             -> {ev.kind}
    [] ev.kind = "result" /\ ev.op = "chats"        -> {"presence"}
    [] OTHER                                         -> {}

\* Never blocks: an event that does not fit is dropped and counted; what is pushed to a
\* connection without a page goes nowhere.
BugPush(k, ev) ==  \* mutant: the bound is one too large
  IF k = view.conn /\ Len(sendq[k]) <= EventQueue
  THEN sendq' = [sendq EXCEPT ![k] = Append(@, ev)] /\ UNCHANGED blur
  ELSE UNCHANGED <<sendq, blur>>

Push(k, ev) ==
  IF k = view.conn /\ Len(sendq[k]) < EventQueue
  THEN sendq' = [sendq EXCEPT ![k] = Append(@, ev)] /\ UNCHANGED blur
  ELSE /\ blur' = IF k = view.conn THEN blur \cup Carries(ev) ELSE blur
       /\ UNCHANGED sendq

\* The command of k has changed, or its connection has read, what k will tell.
Holds(k, kind) ==
  \/ kind = "call" /\ conn[k] = "snapped"
  \/ kind = "call" /\ job[k].pc \in {"send", "tell"}
  \/ kind = "presence" /\ job[k].pc = "reply" /\ "presence" \in Carries(job[k].result)

\* Goroutines other than g on their way to the page with news of this kind.
Pending(kind, g) ==
  \/ \E h \in Emitters \ {g} :
       out[h].step = "emit" /\ out[h].event.kind = kind
  \/ \E k \in Conns \ {g} : Holds(k, kind)

Emit(g, ev) == out' = [out EXCEPT ![g] = [step |-> "emit", event |-> ev]]

\* What becomes unsure when g has news while another goroutine has older ones to deliver.
Crosses(g, kind) == IF Pending(kind, g) THEN {kind} ELSE {}

\* The core acts on a call that becomes active and on one that ends.
Matters(ev) == ev.kind = "call" /\ ev.state \in {"active", "ended"}

\* Without an active client the event is dropped.
EmitOut(g) ==
  LET ev == out[g].event IN
  /\ out[g].step = "emit"
  /\ IF active = NoConn THEN UNCHANGED <<sendq, blur>> ELSE Push(active, ev)
  /\ out' = [out EXCEPT ![g] = IF Matters(ev) THEN [step |-> "act", event |-> ev] ELSE NoOut]
  /\ UNCHANGED <<conn, active, snap, cmdq, job, view>>

\* Messages, deliveries, files, presets and media frames of the core.
Notify ==
  /\ active # NoConn
  /\ Push(active, Note)
  /\ UNCHANGED <<conn, active, snap, cmdq, job, out, view>>

-----------------------------------------------------------------------------
(* Connections                                                             *)

Replaced(k) == conn[k] \in {"swapped", "snapped", "open"} /\ active # k

\* The page opens a socket, sends Hello and asks for the chats.
Open(k) ==
  /\ conn[k] = "none" /\ view.conn = NoConn
  /\ conn' = [conn EXCEPT ![k] = "hello"]
  /\ cmdq' = [cmdq EXCEPT ![k] = <<Cmd("chats", NoCall)>>]
  /\ view' = [view EXCEPT !.conn = k]
  /\ blur' = blur \cup {"presence"}
  /\ UNCHANGED <<active, snap, sendq, job, out>>

\* The socket breaks or the window reloads: the page answers its own requests
\* with an error and clears the call bar.
PageLost ==
  LET k == view.conn IN
  /\ k # NoConn
  /\ view' = [view EXCEPT !.conn = NoConn, !.call = NoCall, !.state = "none"]
  /\ sendq' = [sendq EXCEPT ![k] = <<>>]
  /\ UNCHANGED <<conn, active, snap, cmdq, job, out, blur>>

\* No Hello in time, or the socket is gone.
AuthFails(k) ==
  /\ conn[k] = "hello" /\ view.conn # k
  /\ conn' = [conn EXCEPT ![k] = "closed"]
  /\ UNCHANGED <<active, snap, sendq, cmdq, job, out, view, blur>>

\* attach: the new client replaces the old one in one step.
Swap(k) ==
  /\ conn[k] = "hello"
  /\ active' = k
  /\ conn' = [conn EXCEPT ![k] = "swapped"]
  /\ blur' = IF k = view.conn THEN (blur \ {"call"}) \cup Crosses(k, "call") ELSE blur
  /\ UNCHANGED <<snap, sendq, cmdq, job, out, view>>

\* attach goes on without the lock and reads the current call.
ResyncRead(k, call) ==
  /\ conn[k] = "swapped"
  /\ IF k # view.conn \/ call = Note
     THEN conn' = [conn EXCEPT ![k] = "open"] /\ UNCHANGED snap
     ELSE conn' = [conn EXCEPT ![k] = "snapped"] /\ snap' = [snap EXCEPT ![k] = call]
  /\ blur' = IF k = view.conn THEN blur \cup Crosses(k, "call") ELSE blur
  /\ UNCHANGED <<active, sendq, cmdq, job, out, view>>

ResyncPush(k) ==
  /\ conn[k] = "snapped"
  /\ Push(k, snap[k])
  /\ snap' = [snap EXCEPT ![k] = Note]
  /\ conn' = [conn EXCEPT ![k] = "open"]
  /\ UNCHANGED <<active, cmdq, job, out, view>>

\* The socket is closed by either side: readLoop ends and detach runs.
ReadFails(k) ==
  /\ conn[k] = "open" /\ (view.conn # k \/ Replaced(k))
  /\ conn' = [conn EXCEPT ![k] = "closed"]
  /\ active' = IF active = k THEN NoConn ELSE active
  /\ UNCHANGED <<snap, sendq, cmdq, job, out, view, blur>>

Connection(k) ==
  Swap(k) \/ AuthFails(k) \/ ResyncPush(k) \/ ReadFails(k)

-----------------------------------------------------------------------------
(* The loop of commands                                                    *)

\* The command that the loop of k takes; a loop that has been told to stop may still
\* take one.
Runs(k, op) ==
  /\ conn[k] \in {"open", "closed"} /\ job[k] = NoJob /\ cmdq[k] # <<>>
  /\ Head(cmdq[k]).op = op

Subject(k) == Head(cmdq[k]).on

Goes(k, j) ==
  /\ job' = [job EXCEPT ![k] = j]
  /\ cmdq' = [cmdq EXCEPT ![k] = Tail(@)]

Answer(k, done, s) ==
  Goes(k, [pc |-> "reply", result |-> Result(Head(cmdq[k]).op, done, s)])

\* The other commands change nothing that the page is told by an event.
RunOther(k) ==
  /\ Runs(k, "other")
  /\ Answer(k, TRUE, {})
  /\ UNCHANGED <<conn, active, snap, sendq, out, view, blur>>

Reply(k) ==
  /\ job[k].pc = "reply" /\ out[k] = NoOut
  /\ Push(k, job[k].result)
  /\ job' = [job EXCEPT ![k] = NoJob]
  /\ UNCHANGED <<conn, active, snap, cmdq, out, view>>

Loop(k) == RunOther(k) \/ Reply(k)

-----------------------------------------------------------------------------
(* The page                                                                *)

\* The call bar offers to accept or reject a call that rings, and to leave any other.
Offers(op) ==
  CASE op \in {"accept", "reject"} -> view.state = "in"
    [] op = "hangup"               -> view.call # NoCall
    [] OTHER                       -> TRUE

\* readLoop hands a command to the loop of commands, or answers that the core is busy.
Read(k, c) ==
  IF Len(cmdq[k]) < CmdQueue
  THEN cmdq' = [cmdq EXCEPT ![k] = Append(@, c)] /\ UNCHANGED <<sendq, blur>>
  ELSE Push(k, Result(c.op, FALSE, {})) /\ UNCHANGED cmdq

Click(op, p) ==
  /\ view.conn # NoConn /\ conn[view.conn] = "open" /\ Offers(op)
  /\ Read(view.conn, Cmd(op, IF op \in {"start", "block", "unblock"} THEN p ELSE view.call))
  /\ UNCHANGED <<conn, active, snap, job, out, view>>

\* The call bar after an event: an end clears it whatever call it speaks of.
Bar(ev) ==
  IF ev.state = "ended" THEN [call |-> NoCall, state |-> "none"]
                        ELSE [call |-> ev.call, state |-> ev.state]

\* After a block, or the end of one, the page asks for the chats again.
Follows(ev) == ev.kind = "result" /\ ev.op \in {"block", "unblock"}

Shown(ev) ==
  CASE ev.kind = "call"     -> [view EXCEPT !.call = Bar(ev).call, !.state = Bar(ev).state]
    [] ev.kind = "presence" -> [view EXCEPT !.online = IF ev.online THEN @ \cup {ev.peer}
                                                                    ELSE @ \ {ev.peer}]
    [] ev.kind = "result" /\ ev.op = "chats" /\ ev.done -> [view EXCEPT !.online = ev.online]
    [] OTHER -> view

Receive ==
  LET k == view.conn
      ev == Head(sendq[k])
      rest == Tail(sendq[k])
      asked == Follows(ev) /\ Len(cmdq[k]) < CmdQueue
  IN
  /\ k # NoConn /\ conn[k] # "closed" /\ sendq[k] # <<>>
  /\ view' = Shown(ev)
  /\ cmdq' = IF asked THEN [cmdq EXCEPT ![k] = Append(@, Cmd("chats", NoCall))] ELSE cmdq
  /\ sendq' = [sendq EXCEPT ![k] = IF Follows(ev) /\ ~asked
                                   THEN Append(rest, Result("chats", FALSE, {})) ELSE rest]
  /\ UNCHANGED <<conn, active, snap, job, out, blur>>

Page == PageLost \/ Receive \/ \E k \in Conns : Open(k)

=============================================================================
