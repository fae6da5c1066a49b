-------------------------------- MODULE Desk --------------------------------
(***************************************************************************)
(* One node at its user's desk: the local server and the page (module      *)
(* Ipc), the current call and its media session (module Media), the        *)
(* presence of the contacts (module Presence), and the delivery loop of    *)
(* the core (app/core.go), which feeds them one envelope at a time.        *)
(*                                                                         *)
(* The page keeps a copy of two things, the call and who is online.  It    *)
(* is told of changes by events, reads the contacts when it connects, and  *)
(* is sent the current call when it attaches.  The question is when the    *)
(* copies, and the media session, can be trusted.                          *)
(***************************************************************************)
EXTENDS Media, Presence

CONSTANTS
  MaxInputs,  \* bound: what the user, the peers and time do
  MaxFaults   \* bound: pages and media sessions that are lost, sends and transactions that fail

ASSUME BoundsAssumption == MaxInputs \in Nat /\ MaxFaults \in Nat

VARIABLES
  deliv,   \* the envelope of the delivery loop and how far it is
  again,   \* calls whose offer was rolled back: it comes again
  inputs, faults

vars == <<ipcVars, mediaVars, presenceVars, deliv, again, inputs, faults>>

Idle == [pc |-> "idle"]

Envelope ==
  [kind : {"offer", "hangup"}, call : CallIds, from : Peers]
    \cup [kind : {"answer"}, call : CallIds, from : Peers, accept : BOOLEAN]
    \cup [kind : {"pong"}, from : Peers]

\* Conjuncts: the types of the parts, and of the delivery loop.
TypeOK ==
  /\ IpcTypeOK /\ MediaTypeOK /\ PresenceTypeOK
  /\ deliv \in {Idle} \cup [pc : {"gate"}, env : Envelope]
  /\ again \subseteq CallIds
  /\ inputs \in 0..MaxInputs /\ faults \in 0..MaxFaults

Init ==
  /\ IpcInit /\ MediaInit /\ PresenceInit
  /\ deliv = Idle /\ again = {}
  /\ inputs = 0 /\ faults = 0

Input == inputs < MaxInputs /\ inputs' = inputs + 1 /\ UNCHANGED faults
Fault == inputs < MaxInputs /\ inputs' = inputs + 1 /\ faults < MaxFaults /\ faults' = faults + 1
Inner == UNCHANGED <<inputs, faults>>

-----------------------------------------------------------------------------
(* The delivery loop                                                       *)

\* What the other sides can have sent: offers of their own calls, answers and
\* hangups for calls the two nodes know.
Sendable(e) ==
  CASE e.kind = "offer"  -> e.call \notin Ours /\ (call[e.call] = "none" \/ e.call \in again)
    [] e.kind = "answer" -> e.call \in Ours /\ party[e.call] = e.from /\ ~Unsent(e.call)
    [] e.kind = "hangup" -> call[e.call] # "none" /\ party[e.call] = e.from /\ ~Unsent(e.call)
    [] OTHER             -> TRUE

\* The loop takes a delivery; markActivity takes it as a sign of life of a contact.
Arrive(e) ==
  /\ deliv = Idle /\ out["delivery"] = NoOut
  /\ Sendable(e)
  /\ deliv' = [pc |-> "gate", env |-> e]
  /\ again' = IF e.kind = "offer" THEN again \ {e.call} ELSE again
  /\ IF e.from \in contact
     THEN SignOfLife(e.from) /\ UNCHANGED <<conn, active, snap, sendq, cmdq, job, view>>
     ELSE UNCHANGED ipcVars /\ UNCHANGED presenceVars
  /\ UNCHANGED mediaVars

AtGate == deliv.pc = "gate" /\ out["delivery"] = NoOut

\* HandleInbound: the gate drops what a blocked peer sends.
Handle(smaller) ==
  LET e == deliv.env IN
  /\ AtGate
  /\ Handled(e, IF e.from \in contact THEN Outcome(e, smaller) ELSE "none")
  /\ deliv' = Idle
  /\ UNCHANGED <<waiters, session, opening, checked, inbound, dying, torn, stray>>
  /\ UNCHANGED <<conn, active, snap, sendq, cmdq, job, view>>
  /\ UNCHANGED <<presenceVars, again>>

HandleFails(smaller) ==
  LET e == deliv.env IN
  /\ AtGate /\ e.from \in contact
  /\ RolledBack(e, Outcome(e, smaller))
  /\ deliv' = Idle
  /\ again' = IF e.kind = "offer" THEN again \cup {e.call} ELSE again
  /\ UNCHANGED <<waiters, session, opening, checked, inbound, dying>>
  /\ UNCHANGED <<conn, active, snap, sendq, cmdq, job, out, view>>
  /\ UNCHANGED presenceVars

-----------------------------------------------------------------------------
(* Where the parts meet                                                    *)

BugResync(k) ==  \* mutant: attach sends nothing
  /\ ResyncRead(k, Note)
  /\ UNCHANGED <<mediaVars, presenceVars, deliv, again>>

\* attach reads the current call.
Resync(k) ==
  /\ ResyncRead(k, IF cur = NoCall THEN Note ELSE CallEvent(cur, call[cur]))
  /\ UNCHANGED <<mediaVars, presenceVars, deliv, again>>

ListChats(k) == ReadOnline(k) /\ UNCHANGED <<mediaVars, deliv, again>>

\* A block after its commit; the page asks for the chats when it is answered.
Block(k) ==
  /\ Runs(k, "block")
  /\ Forget(Subject(k))
  /\ Answer(k, TRUE, {})
  /\ blur' = blur \cup {"presence"}
  /\ UNCHANGED <<conn, active, snap, sendq, out, view>>
  /\ UNCHANGED <<mediaVars, deliv, again>>

Unblock(k) ==
  /\ Runs(k, "unblock")
  /\ contact' = contact \cup {Subject(k)}
  /\ Answer(k, TRUE, {})
  /\ UNCHANGED <<conn, active, snap, sendq, out, view, blur, seen, isOnline, gone>>
  /\ UNCHANGED <<mediaVars, deliv, again>>

OfIpc ==
  \/ Receive
  \/ \E k \in Conns : Open(k) \/ Connection(k) \/ Loop(k)
  \/ \E g \in Emitters : EmitOut(g)

OfMedia ==
  \/ Bridge \/ \E p \in Peers : InboundArrives(p)
  \/ \E g \in Emitters : Act(g)
  \/ \E k \in Conns : Mutate(k) \/ Sent(k) \/ Tell(k)
  \/ \E c \in CallIds : WaiterEnds(c) \/ WaiterGivesUp(c)

OfPresence == (Sweep \/ \E p \in Peers : Report(p))

Step ==
  /\ \/ OfIpc /\ UNCHANGED <<mediaVars, presenceVars, deliv, again>>
     \/ OfMedia /\ UNCHANGED <<presenceVars, deliv, again>>
     \/ OfPresence /\ UNCHANGED <<mediaVars, deliv, again>>
     \/ \E smaller \in BOOLEAN : Handle(smaller)
     \/ \E k \in Conns : Resync(k) \/ ListChats(k) \/ Block(k) \/ Unblock(k)
  /\ Inner

\* The user, the peers, the network, and time.
Stimulus ==
  /\ Input
  /\ \/ /\ \E op \in Ops \ {"chats"}, p \in Peers : Click(op, p)
        /\ UNCHANGED <<mediaVars, presenceVars, deliv, again>>
     \/ (\E p \in Peers : Silence(p)) /\ UNCHANGED <<mediaVars, deliv, again>>
     \/ \E e \in Envelope : Arrive(e)

Failure ==
  /\ Fault
  /\ \/ (PageLost \/ Notify) /\ UNCHANGED <<mediaVars, presenceVars, deliv, again>>
     \/ /\ \/ SessionDies
           \/ \E k \in Conns : SendFails(k)
           \/ \E c \in CallIds : OpenFails(c)
        /\ UNCHANGED <<presenceVars, deliv, again>>
     \/ \E smaller \in BOOLEAN : HandleFails(smaller)

Next == Step \/ Stimulus \/ Failure

Spec == Init /\ [][Next]_vars

-----------------------------------------------------------------------------
(* Properties                                                              *)

\* No news of this kind is on its way to the page.
Quiet(kind) ==
  /\ ~Pending(kind, NoConn)
  /\ \A i \in DOMAIN sendq[view.conn] : kind \notin Carries(sendq[view.conn][i])

\* The server serves the page: the page's connection is the active one and is attached.
Connected == view.conn # NoConn /\ active = view.conn /\ conn[active] = "open"

\* The renderer clears its call on a lost connection and trusts the event that attach
\* sends (server.go:230-232): after any losses of the connection, the call bar shows the
\* current call in its current state, and no call when there is none, unless an event did
\* not fit the queue, a command ended the call without one (callsig:247, 271), or two
\* goroutines had news of the call at once.
CallBarFollows ==
  Connected /\ Quiet("call") /\ "call" \notin blur =>
    IF cur = NoCall THEN view.call = NoCall
                    ELSE view.call = cur /\ view.state = call[cur]

\* Presence of the contacts reaches the page by ListChats and by the changes that
\* markActivity and sweep report: the page's list is Presence.isOnline, although it was
\* read while changes were reported, unless a report was dropped or crossed the read, or
\* the read met a sign of life that had expired before sweep saw it (presence.go:76-93).
PresenceFollows ==
  Connected /\ Quiet("presence") /\ gone = {} /\ "presence" \notin blur =>
    view.online = isOnline

\* "The call lives on" (app/core.go:193-208): an active call of ours has a media session,
\* or somebody is on the way to give it one: the goroutine that made it active, openMedia
\* or onMediaClosed; unless opening failed, which nobody repeats, the end of another call
\* took the session, or the transaction of the answer rolled back after it had made the
\* call active, so that nobody was told.
MediaIsComing ==
  cur # NoCall /\ cur \in Ours \ torn /\ call[cur] = "active" =>
    session # NoPeer \/ opening[cur] + checked[cur] > 0 \/ dying \/ InFlight(cur, "active")

\* A session stays on the bridge no longer than its call (app/core.go:168-173, 187-191,
\* 226-235): when no end is on its way to Detach, the peer of the session is the one of an
\* active call, however openMedia, InboundMedia, the commands and the delivery loop
\* interleave; unless the call ended between the look at it and the attach.
NoStraySession ==
  session # NoPeer /\ ~stray
    /\ ~(\E c \in CallIds : InFlight(c, "ended"))
    /\ ~(\E k \in Conns : job[k].pc \in {"send", "tell"} /\ job[k].op \in {"reject", "hangup"})
  => Active(session)

=============================================================================
