------------------------------- MODULE Calls -------------------------------
(***************************************************************************)
(* Call signalling between two nodes (callsig/manager.go): the current     *)
(* call of each node, the commands of its user, the delivery loop, and     *)
(* offerWhenReady, which keeps offering a call that was started before     *)
(* there was a session.                                                    *)
(*                                                                         *)
(* The current call is in memory under a mutex of its own, while envelopes *)
(* are sent, and handlers run, in transactions: a command changes the      *)
(* memory and sends afterwards; a handler changes the memory inside its    *)
(* transaction, which may still fail, and answers after the commit.  Each  *)
(* is a step of its own.  The transport below is module Outbox: an         *)
(* envelope is handled exactly once, in any order.                         *)
(*                                                                         *)
(* Abstractions.  A call is known by its id, and the record of a call on a *)
(* node by its state.  Sessions are module Session; here a node either     *)
(* has one or not yet.  The events for the user and the media bridge,      *)
(* malformed payloads, which are eaten, and the codecs are left out.       *)
(* Node 1 has the smaller NodeID.                                          *)
(***************************************************************************)
EXTENDS Naturals

CONSTANTS
  CallIds,    \* calls that may be started; ids are random, hence never reused
  NoCall,     \* no current call
  MaxFaults   \* bound: restarts, failed sends and transactions rolled back

Nodes == {1, 2}
Other(n) == 3 - n

ASSUME NoCallAssumption == NoCall \notin CallIds
ASSUME MaxFaultsAssumption == MaxFaults \in Nat

CallState == {"none", "out", "in", "active", "ended"}

\* "cancel" is the hangup that offerWhenReady sends; accept and reject are the two answers.
Envelope == [kind : {"offer", "accept", "reject", "hangup", "cancel"},
             call : CallIds, to : Nodes]

VARIABLES
  caller,    \* caller[c]: the node that started c, 0 if none did
  cur,       \* Manager.current
  call,      \* call[n][c]: the state in n's record of c, kept when c is over
  cmd,       \* cmd[n]: what the command of n's user has yet to send
  waiter,    \* waiter[c]: offerWhenReady of c on its caller
  busy,      \* busy[n]: the offer that n's delivery loop rejects after its commit
  ready,     \* nodes that can send in the session
  net,       \* envelopes in an outbox or on the wire, not yet handled
  accepted,  \* history: calls their callee's user accepted
  spoiled,   \* history: calls a fault has touched
  faults

vars == <<caller, cur, call, cmd, waiter, busy, ready, net, accepted, spoiled, faults>>

NoCmd == [op |-> "none", call |-> NoCall]
Command == [op : {"offer", "accept", "reject", "hangup"}, call : CallIds]

TypeOK ==
  /\ caller \in [CallIds -> Nodes \cup {0}]
  /\ cur \in [Nodes -> CallIds \cup {NoCall}]
  /\ call \in [Nodes -> [CallIds -> CallState]]
  /\ \A n \in Nodes : cur[n] # NoCall => call[n][cur[n]] \in {"out", "in", "active"}
  /\ cmd \in [Nodes -> {NoCmd} \cup Command]
  /\ waiter \in [CallIds -> {"none", "sleep", "checked", "sent"}]
  /\ busy \in [Nodes -> CallIds \cup {NoCall}]
  /\ ready \subseteq Nodes
  /\ net \subseteq Envelope
  /\ accepted \subseteq CallIds /\ spoiled \subseteq CallIds
  /\ faults \in 0..MaxFaults

Init ==
  /\ caller = [c \in CallIds |-> 0]
  /\ cur = [n \in Nodes |-> NoCall]
  /\ call = [n \in Nodes |-> [c \in CallIds |-> "none"]]
  /\ cmd = [n \in Nodes |-> NoCmd]
  /\ waiter = [c \in CallIds |-> "none"]
  /\ busy = [n \in Nodes |-> NoCall]
  /\ ready = {} /\ net = {}
  /\ accepted = {} /\ spoiled = {}
  /\ faults = 0

-----------------------------------------------------------------------------

Started == {c \in CallIds : caller[c] # 0}
Callee(c) == Other(caller[c])

InCall(n) == cur[n] # NoCall

SetCall(n, c, s) == call' = [call EXCEPT ![n] = [call[n] EXCEPT ![c] = s]]

BugEndedStays(n, c) == UNCHANGED cur /\ SetCall(n, c, "ended")

\* c ends on n and is no longer current.
EndCall(n, c) == cur' = [cur EXCEPT ![n] = NoCall] /\ SetCall(n, c, "ended")

\* SendSealed with a session: the envelope is in the outbox.
Send(kind, c, from) == net' = net \cup {[kind |-> kind, call |-> c, to |-> Other(from)]}

Fault(calls) ==
  /\ faults < MaxFaults
  /\ faults' = faults + 1
  /\ spoiled' = spoiled \cup (calls \ {NoCall})

-----------------------------------------------------------------------------
(* Commands of the user, one at a time                                     *)

Issue(n, op, c) == cmd' = [cmd EXCEPT ![n] = [op |-> op, call |-> c]]

\* The reservation is atomic with the check that no call is current.
Start(n, c) ==
  /\ cmd[n] = NoCmd /\ caller[c] = 0
  /\ ~InCall(n)
  /\ caller' = [caller EXCEPT ![c] = n]
  /\ cur' = [cur EXCEPT ![n] = c]
  /\ SetCall(n, c, "out")
  /\ Issue(n, "offer", c)
  /\ UNCHANGED <<waiter, busy, ready, net, accepted, spoiled, faults>>

Accept(n, c) ==
  /\ cmd[n] = NoCmd /\ cur[n] = c /\ call[n][c] = "in"
  /\ SetCall(n, c, "active")
  /\ accepted' = accepted \cup {c}
  /\ Issue(n, "accept", c)
  /\ UNCHANGED <<caller, cur, waiter, busy, ready, net, spoiled, faults>>

Reject(n, c) ==
  /\ cmd[n] = NoCmd /\ cur[n] = c /\ call[n][c] = "in"
  /\ EndCall(n, c)
  /\ Issue(n, "reject", c)
  /\ UNCHANGED <<caller, waiter, busy, ready, net, accepted, spoiled, faults>>

Hangup(n, c) ==
  /\ cmd[n] = NoCmd /\ cur[n] = c
  /\ EndCall(n, c)
  /\ Issue(n, "hangup", c)
  /\ UNCHANGED <<caller, waiter, busy, ready, net, accepted, spoiled, faults>>

\* The command sends its envelope and returns.  Without a session Start leaves
\* the offer to offerWhenReady, and Hangup sends nothing.
SendCmd(n) ==
  LET c == cmd[n].call  op == cmd[n].op IN
  /\ cmd[n] # NoCmd
  /\ \/ n \in ready /\ Send(op, c, n) /\ UNCHANGED waiter
     \/ n \notin ready /\ op = "offer" /\ waiter' = [waiter EXCEPT ![c] = "sleep"]
        /\ UNCHANGED net
     \/ n \notin ready /\ op = "hangup" /\ UNCHANGED <<net, waiter>>
  /\ cmd' = [cmd EXCEPT ![n] = NoCmd]
  /\ UNCHANGED <<caller, cur, call, busy, ready, accepted, spoiled, faults>>

\* The send fails and the command returns the error.  Only Start takes the change
\* of the memory back (clearIf).
SendCmdFails(n) ==
  LET c == cmd[n].call IN
  /\ cmd[n] # NoCmd
  /\ Fault({c})
  /\ IF cmd[n].op = "offer" /\ cur[n] = c
     THEN cur' = [cur EXCEPT ![n] = NoCall]
     ELSE UNCHANGED cur
  /\ cmd' = [cmd EXCEPT ![n] = NoCmd]
  /\ UNCHANGED <<caller, call, waiter, busy, ready, net, accepted>>

Commands(n) ==
  \/ \E c \in CallIds : Start(n, c) \/ Accept(n, c) \/ Reject(n, c) \/ Hangup(n, c)
  \/ SendCmd(n) \/ SendCmdFails(n)

-----------------------------------------------------------------------------
(* offerWhenReady                                                          *)

SetWaiter(c, pc) == waiter' = [waiter EXCEPT ![c] = pc]

\* Once a second: a call that no longer rings out ends the goroutine.
WaiterCheck(c) ==
  LET n == caller[c] IN
  /\ waiter[c] = "sleep"
  /\ SetWaiter(c, IF cur[n] = c /\ call[n][c] = "out" THEN "checked" ELSE "none")
  /\ UNCHANGED <<caller, cur, call, cmd, busy, ready, net, accepted, spoiled, faults>>

WaiterSend(c) ==
  /\ waiter[c] = "checked"
  /\ \/ caller[c] \in ready /\ Send("offer", c, caller[c]) /\ SetWaiter(c, "sent")
     \/ caller[c] \notin ready /\ SetWaiter(c, "sleep") /\ UNCHANGED net
  /\ UNCHANGED <<caller, cur, call, cmd, busy, ready, accepted, spoiled, faults>>

\* The offer left; if the call was given up meanwhile, a hangup follows it.
WaiterCancel(c) ==
  LET n == caller[c] IN
  /\ waiter[c] = "sent"
  /\ IF cur[n] # c THEN Send("cancel", c, n) ELSE UNCHANGED net
  /\ SetWaiter(c, "none")
  /\ UNCHANGED <<caller, cur, call, cmd, busy, ready, accepted, spoiled, faults>>

\* The call ends, unless it is already over.
GiveUp(c) ==
  LET n == caller[c] IN
  /\ IF cur[n] = c THEN EndCall(n, c) ELSE UNCHANGED <<cur, call>>
  /\ SetWaiter(c, "none")

\* No session before offerWaitMax.
WaiterDeadline(c) ==
  /\ waiter[c] = "checked" /\ caller[c] \notin ready
  /\ GiveUp(c)
  /\ UNCHANGED <<caller, cmd, busy, ready, net, accepted, spoiled, faults>>

WaiterFails(c) ==
  /\ waiter[c] = "checked"
  /\ Fault({c})
  /\ GiveUp(c)
  /\ UNCHANGED <<caller, cmd, busy, ready, net, accepted>>

Waiting(c) ==
  WaiterCheck(c) \/ WaiterSend(c) \/ WaiterCancel(c) \/ WaiterDeadline(c) \/ WaiterFails(c)

-----------------------------------------------------------------------------
(* The delivery loop.  An On... operator is what a handler makes of an     *)
(* envelope: the current call and the state of the envelope's call.        *)

Outcome(current, state) == [cur |-> current, state |-> state]
Unmoved(n, c) == Outcome(cur[n], call[n][c])

\* In a collision the call of the smaller NodeID survives.
Yields(n) == call[n][cur[n]] = "out" /\ Other(n) < n

Refuses(n) == InCall(n) /\ ~Yields(n)

OnOffer(n, c) == IF Refuses(n) THEN Unmoved(n, c) ELSE Outcome(c, "in")

BugIgnoreVerdict(n, c, accept) ==
  IF cur[n] = c /\ call[n][c] = "out" THEN Outcome(c, "active") ELSE Unmoved(n, c)

BugAnyAnswer(n, c, accept) ==
  IF accept THEN Outcome(c, "active") ELSE Outcome(NoCall, "ended")

OnAnswer(n, c, accept) ==
  IF cur[n] = c /\ call[n][c] = "out"
  THEN IF accept THEN Outcome(c, "active") ELSE Outcome(NoCall, "ended")
  ELSE Unmoved(n, c)

OnHangup(n, c) == IF cur[n] = c THEN Outcome(NoCall, "ended") ELSE Unmoved(n, c)

Handle(n, e) ==
  CASE e.kind = "offer" -> OnOffer(n, e.call)
    [] e.kind \in {"accept", "reject"} -> OnAnswer(n, e.call, e.kind = "accept")
    [] e.kind \in {"hangup", "cancel"} -> OnHangup(n, e.call)

Remember(n, c, o) == cur' = [cur EXCEPT ![n] = o.cur] /\ SetCall(n, c, o.state)

\* The loop has no hook left to run and takes the next envelope.
Takes(n, e) == busy[n] = NoCall /\ e.to = n

\* Who has decrypted an envelope can also send.
Receive(n, e) ==
  /\ Takes(n, e)
  /\ Remember(n, e.call, Handle(n, e))
  /\ busy' = [busy EXCEPT ![n] = IF e.kind = "offer" /\ Refuses(n) THEN e.call ELSE NoCall]
  /\ net' = net \ {e}
  /\ ready' = ready \cup {n}
  /\ UNCHANGED <<caller, cmd, waiter, accepted, spoiled, faults>>

\* The transaction fails after the handler: its hook is dropped and the envelope
\* will come again, but the memory keeps what the handler did.
RolledBack(n, e) ==
  /\ Takes(n, e)
  /\ Fault({e.call})
  /\ Remember(n, e.call, Handle(n, e))
  /\ UNCHANGED <<caller, cmd, waiter, busy, ready, net, accepted>>

BugSilentBusy(n) ==
  /\ busy[n] # NoCall
  /\ busy' = [busy EXCEPT ![n] = NoCall]
  /\ UNCHANGED <<caller, cur, call, cmd, waiter, ready, net, accepted, spoiled, faults>>

\* The hook of a refused offer.
AutoReject(n) ==
  /\ busy[n] # NoCall
  /\ Send("reject", busy[n], n)
  /\ busy' = [busy EXCEPT ![n] = NoCall]
  /\ UNCHANGED <<caller, cur, call, cmd, waiter, ready, accepted, spoiled, faults>>

\* Nobody looks at the error of its send.
AutoRejectFails(n) ==
  /\ busy[n] # NoCall
  /\ Fault({busy[n]})
  /\ busy' = [busy EXCEPT ![n] = NoCall]
  /\ UNCHANGED <<caller, cur, call, cmd, waiter, ready, net, accepted>>

Delivery(n) ==
  \/ \E e \in net : Receive(n, e) \/ RolledBack(n, e)
  \/ AutoReject(n) \/ AutoRejectFails(n)

-----------------------------------------------------------------------------
(* The world                                                               *)

\* The handshake of module Session ends.
SessionReady(n) ==
  /\ n \notin ready
  /\ ready' = ready \cup {n}
  /\ UNCHANGED <<caller, cur, call, cmd, waiter, busy, net, accepted, spoiled, faults>>

\* A restart forgets the call and whatever was running.  The outbox stays.
Restart(n) ==
  /\ Fault({cur[n], cmd[n].call, busy[n]}
             \cup {c \in CallIds : caller[c] = n /\ waiter[c] # "none"})
  /\ cur' = [cur EXCEPT ![n] = NoCall]
  /\ cmd' = [cmd EXCEPT ![n] = NoCmd]
  /\ waiter' = [c \in CallIds |-> IF caller[c] = n THEN "none" ELSE waiter[c]]
  /\ busy' = [busy EXCEPT ![n] = NoCall]
  /\ UNCHANGED <<caller, call, ready, net, accepted>>

Next ==
  \/ \E n \in Nodes : Commands(n) \/ Delivery(n) \/ SessionReady(n) \/ Restart(n)
  \/ \E c \in CallIds : Waiting(c)

Spec == Init /\ [][Next]_vars

-----------------------------------------------------------------------------
(* Properties                                                              *)

\* Nothing is under way on either node or between them.
AtRest ==
  /\ net = {}
  /\ \A n \in Nodes : cmd[n] = NoCmd /\ busy[n] = NoCall
  /\ \A c \in CallIds : waiter[c] = "none"

\* A caller is never left alone: at rest, the call it makes rings at the callee, and
\* the call it talks in is the callee's too, however commands, answers, hangups and
\* two colliding offers have crossed (onOffer, onAnswer, onHangup).
CallerIsServed ==
  AtRest =>
    \A c \in Started \ spoiled :
      cur[caller[c]] = c =>
        /\ cur[Callee(c)] = c
        /\ call[caller[c]][c] = "out" <=> call[Callee(c)][c] = "in"

\* Consent is not given for the other side: a call is active at its caller only
\* after the user of the callee has accepted it (onAnswer, Consent), whatever
\* was rolled back or came twice.
ActiveWasAccepted ==
  \A c \in Started : call[caller[c]][c] = "active" => c \in accepted

\* An answer, or offerWhenReady, that comes after the caller has ended the call does
\* not bring it back (the checks under the lock in onAnswer and offerWhenReady).
EndIsFinal ==
  [][\A c \in Started : call[caller[c]][c] = "ended" => call'[caller[c]][c] = "ended"]_vars

=============================================================================
