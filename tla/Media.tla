------------------------------- MODULE Media -------------------------------
(***************************************************************************)
(* The current call of one node and its media session: the call manager as *)
(* the core uses it (callsig/manager.go, app/core.go), the events it makes *)
(* for the page, and the media bridge (media/bridge.go) that the core      *)
(* attaches to a session when a call becomes active and detaches when one  *)
(* ends.                                                                   *)
(*                                                                         *)
(* Opening a session takes seconds; the core opens it in a goroutine,      *)
(* looks at the current call when the session is there, and attaches it    *)
(* without a lock over the two.  The same holds for a session that the     *)
(* other side opens.  A session that dies while it is the current one      *)
(* makes the caller open another.                                          *)
(*                                                                         *)
(* Abstractions.  The other side, whose call manager module Calls has, may *)
(* send anything it could send.  A session is known by its peer.  Frames,  *)
(* feedback and the ladder of presets are notes of module Ipc.  One dying  *)
(* session and one that the other side opens are under way at a time.      *)
(***************************************************************************)
EXTENDS Ipc

CONSTANTS
  NoPeer,
  Ours     \* ids, random in the code, of the calls this node makes; the others are made for it

ASSUME NoPeerAssumption == NoPeer \notin Peers
ASSUME OursAssumption == Ours \subseteq CallIds

VARIABLES
  cur,      \* callsig.Manager.current
  call,     \* call[c]: the state in the record of c, kept when c is over
  party,    \* party[c]: the other side of c
  waiters,  \* calls for which offerWhenReady runs
  session,  \* Bridge.session
  opening,  \* opening[c]: goroutines of openMedia for c that wait for a session
  checked,  \* checked[c]: those that have one and have found c to be active
  inbound,  \* the session the other side has opened, on its way to the bridge
  dying,    \* the bridge has dropped a dead session; onMediaClosed has yet to run
  torn,     \* history: calls whose media a fault, or the end of another call, has taken
  raced,    \* history: calls that ended when a session of theirs had been checked
  stray     \* history: the session is one of a raced call, or outlives an unreported end

mediaVars ==
  <<cur, call, party, waiters, session, opening, checked, inbound, dying, torn, raced,
    stray>>

NoInbound == [pc |-> "none"]

MediaTypeOK ==
  /\ cur \in CallIds \cup {NoCall}
  /\ call \in [CallIds -> CallState]
  /\ cur # NoCall => call[cur] \in {"out", "in", "active"} /\ party[cur] \in Peers
  /\ party \in [CallIds -> Peers \cup {NoPeer}]
  /\ waiters \subseteq Ours
  /\ session \in Peers \cup {NoPeer}
  /\ opening \in [CallIds -> Nat] /\ checked \in [CallIds -> Nat]
  /\ inbound \in {NoInbound} \cup [pc : {"arrived"}, peer : Peers]
                 \cup [pc : {"checked"}, peer : Peers, call : CallIds]
  /\ dying \in BOOLEAN /\ stray \in BOOLEAN
  /\ torn \subseteq CallIds /\ raced \subseteq CallIds

MediaInit ==
  /\ cur = NoCall
  /\ call = [c \in CallIds |-> "none"]
  /\ party = [c \in CallIds |-> NoPeer]
  /\ waiters = {}
  /\ session = NoPeer
  /\ opening = [c \in CallIds |-> 0] /\ checked = opening
  /\ inbound = NoInbound
  /\ dying = FALSE /\ stray = FALSE
  /\ torn = {} /\ raced = {}

-----------------------------------------------------------------------------
(* The call                                                                *)

Active(p) == cur # NoCall /\ call[cur] = "active" /\ party[cur] = p

\* A session of the current call is between the check and the attach.
Checked == checked[cur] > 0 \/ (inbound.pc = "checked" /\ inbound.call = cur)

\* Call c takes the state s.
Put(c, s) ==
  /\ call' = [call EXCEPT ![c] = s]
  /\ cur' = IF s = "ended" THEN NoCall ELSE c
  /\ raced' = IF s = "ended" /\ cur # NoCall /\ Checked THEN raced \cup {cur} ELSE raced

\* The end of the current call reaches neither the page nor the bridge.
Unreported(s) ==
  /\ blur' = blur \cup {"call"}
  /\ stray' = (stray \/ (s = "ended" /\ session # NoPeer))

\* A command has changed the current call, and goes on to send.
Changed(k, c, s) ==
  /\ Put(c, s)
  /\ Goes(k, [pc |-> "send", op |-> Head(cmdq[k]).op, call |-> c])
  /\ blur' = blur \cup Crosses(k, "call")

Refused(k) ==
  /\ Answer(k, FALSE, {})
  /\ UNCHANGED <<cur, call, party, raced, blur>>

\* Start reserves the current call; with every id used up, it has no id to give.
Start(k) ==
  /\ Runs(k, "start")
  /\ \/ /\ cur = NoCall
        /\ \E c \in Ours :
             /\ call[c] = "none"
             /\ Changed(k, c, "out")
             /\ party' = [party EXCEPT ![c] = Subject(k)]
     \/ /\ cur # NoCall \/ \A c \in Ours : call[c] # "none"
        /\ Refused(k)

\* Accept and Reject need a call that rings, Hangup only one that is current.
Decides == [accept |-> "active", reject |-> "ended", hangup |-> "ended"]

Decide(k, op) ==
  /\ Runs(k, op)
  /\ IF cur # NoCall /\ cur = Subject(k) /\ (op = "hangup" \/ call[cur] = "in")
     THEN Changed(k, cur, Decides[op]) /\ UNCHANGED party
     ELSE Refused(k)

Mutate(k) ==
  /\ Start(k) \/ \E op \in DOMAIN Decides : Decide(k, op)
  /\ UNCHANGED <<waiters, session, opening, checked, inbound, dying, torn, stray>>
  /\ UNCHANGED <<conn, active, snap, sendq, out, view>>

\* The envelope is queued, or the offer is left to offerWhenReady.
Sent(k) ==
  /\ job[k].pc = "send"
  /\ job' = [job EXCEPT ![k].pc = "tell"]
  /\ \/ UNCHANGED waiters
     \/ job[k].op = "start" /\ waiters' = waiters \cup {job[k].call}
  /\ UNCHANGED <<cur, call, party, session, opening, checked, inbound, dying, torn, raced, stray>>
  /\ UNCHANGED <<conn, active, snap, sendq, cmdq, out, view, blur>>

\* The other side has not been sent the offer of our call c.
Unsent(c) ==
  c \in waiters \/ \E k \in Conns : job[k].pc = "send" /\ job[k].op = "start" /\ job[k].call = c

Replies(k, done) ==
  job' = [job EXCEPT ![k] = [pc |-> "reply", result |-> Result(job[k].op, done, {})]]

\* What a command tells: the state it gave to the call; Start reads the record again,
\* without the lock.
Told(k) == IF job[k].op = "start" THEN call[job[k].call] ELSE Decides[job[k].op]

Tell(k) ==
  /\ job[k].pc = "tell"
  /\ Emit(k, CallEvent(job[k].call, Told(k)))
  /\ Replies(k, TRUE)
  /\ UNCHANGED <<mediaVars, conn, active, snap, sendq, cmdq, view, blur>>

\* The command returns the error without an event; only Start takes its change back.
SendFails(k) ==
  LET c == job[k].call  op == job[k].op IN
  /\ job[k].pc = "send"
  /\ Replies(k, FALSE)
  /\ IF op = "start"
     THEN /\ cur' = IF cur = c THEN NoCall ELSE cur
          /\ UNCHANGED <<blur, stray>>
     ELSE UNCHANGED cur /\ Unreported(Decides[op])
  /\ UNCHANGED <<call, party, waiters, session, opening, checked, inbound, dying, torn, raced>>
  /\ UNCHANGED <<conn, active, snap, sendq, cmdq, out, view>>

\* offerWhenReady has sent the offer, or has found that the call no longer rings.
WaiterEnds(c) ==
  /\ c \in waiters
  /\ waiters' = waiters \ {c}
  /\ UNCHANGED <<cur, call, party, session, opening, checked, inbound, dying, torn, raced, stray>>
  /\ UNCHANGED ipcVars

\* No session in offerWaitMax, or the send fails.
WaiterGivesUp(c) ==
  /\ c \in waiters /\ cur = c /\ out["waiter"] = NoOut
  /\ Put(c, "ended")
  /\ Emit("waiter", CallEvent(c, "ended"))
  /\ blur' = blur \cup Crosses("waiter", "call")
  /\ waiters' = waiters \ {c}
  /\ UNCHANGED <<party, session, opening, checked, inbound, dying, torn, stray>>
  /\ UNCHANGED <<conn, active, snap, sendq, cmdq, job, view>>

-----------------------------------------------------------------------------
(* What the handlers of the delivery loop make of an envelope: the state   *)
(* they give to its call, or none if they leave everything alone.          *)

\* In a collision the call of the smaller NodeID survives: here, the other side's if it is.
Outcome(e, smaller) ==
  CASE e.kind = "offer"  ->
         IF cur = NoCall \/ (party[cur] = e.from /\ call[cur] = "out" /\ smaller)
         THEN "in" ELSE "none"
    [] e.kind = "answer" ->
         IF cur # NoCall /\ cur = e.call /\ party[cur] = e.from /\ call[cur] = "out"
         THEN (IF e.accept THEN "active" ELSE "ended") ELSE "none"
    [] e.kind = "hangup" ->
         IF cur # NoCall /\ cur = e.call /\ party[cur] = e.from THEN "ended" ELSE "none"
    [] OTHER -> "none"

\* The handler and, after the commit, its hook.
Handled(e, s) ==
  IF s = "none"
  THEN UNCHANGED <<cur, call, party, raced, out, blur>>
  ELSE /\ Put(e.call, s)
       /\ party' = [party EXCEPT ![e.call] = e.from]
       /\ Emit("delivery", CallEvent(e.call, s))
       /\ blur' = blur \cup Crosses("delivery", "call")

\* The transaction fails after the handler: the memory keeps the change, the hook is dropped.
RolledBack(e, s) ==
  /\ s # "none"
  /\ Put(e.call, s)
  /\ party' = [party EXCEPT ![e.call] = e.from]
  /\ Unreported(s)
  /\ torn' = IF s = "active" THEN torn \cup {e.call} ELSE torn

-----------------------------------------------------------------------------
(* The media session                                                       *)

\* onState of the core, after the event has left: an active call of ours is given
\* a session, an end detaches the bridge, whichever call either is about.
Act(g) ==
  /\ out[g].step = "act"
  /\ out' = [out EXCEPT ![g] = NoOut]
  /\ LET ev == out[g].event IN
     /\ opening' = IF ev.kind = "call" /\ ev.state = "active" /\ ev.call \in Ours
                   THEN [opening EXCEPT ![ev.call] = @ + 1] ELSE opening
     /\ IF ev.kind = "call" /\ ev.state = "ended"
        THEN /\ session' = NoPeer
             /\ stray' = FALSE
             /\ torn' = IF session # NoPeer /\ cur # NoCall THEN torn \cup {cur} ELSE torn
        ELSE UNCHANGED <<session, stray, torn>>
  /\ UNCHANGED <<cur, call, party, waiters, checked, inbound, dying, raced>>
  /\ UNCHANGED <<conn, active, snap, sendq, cmdq, job, view, blur>>

\* Attach of a session of peer p, checked for call c.
Attach(p, c) ==
  /\ session' = p
  /\ stray' = (c \in raced)

BugOpened(c) ==  \* mutant: openMedia does not look at the current call
  /\ opening[c] > 0
  /\ opening' = [opening EXCEPT ![c] = @ - 1]
  /\ checked' = [checked EXCEPT ![c] = @ + 1]
  /\ UNCHANGED <<cur, call, party, waiters, session, inbound, dying, torn, raced, stray>>
  /\ UNCHANGED ipcVars

\* openMedia has a session and looks at the current call.
Opened(c) ==
  /\ opening[c] > 0
  /\ opening' = [opening EXCEPT ![c] = @ - 1]
  /\ checked' = IF cur = c /\ call[c] = "active" THEN [checked EXCEPT ![c] = @ + 1] ELSE checked
  /\ UNCHANGED <<cur, call, party, waiters, session, inbound, dying, torn, raced, stray>>
  /\ UNCHANGED ipcVars

\* No path: nobody tries again.
OpenFails(c) ==
  /\ opening[c] > 0
  /\ opening' = [opening EXCEPT ![c] = @ - 1]
  /\ torn' = torn \cup {c}
  /\ UNCHANGED <<cur, call, party, waiters, session, checked, inbound, dying, raced, stray>>
  /\ UNCHANGED ipcVars

AttachOpened(c) ==
  /\ checked[c] > 0
  /\ checked' = [checked EXCEPT ![c] = @ - 1]
  /\ Attach(party[c], c)
  /\ UNCHANGED <<cur, call, party, waiters, opening, inbound, dying, torn, raced>>
  /\ UNCHANGED ipcVars

\* The other side has opened a session: for the call, or late, for one that is over.  The
\* consent gate of the network lets it in while any call with that peer is active.
InboundArrives(p) ==
  /\ inbound = NoInbound /\ Active(p)
  /\ inbound' = [pc |-> "arrived", peer |-> p]
  /\ UNCHANGED <<cur, call, party, waiters, session, opening, checked, dying, torn, raced, stray>>
  /\ UNCHANGED ipcVars

InboundChecked ==
  /\ inbound.pc = "arrived"
  /\ inbound' = IF Active(inbound.peer)
                THEN [pc |-> "checked", peer |-> inbound.peer, call |-> cur]
                ELSE NoInbound
  /\ UNCHANGED <<cur, call, party, waiters, session, opening, checked, dying, torn, raced, stray>>
  /\ UNCHANGED ipcVars

AttachInbound ==
  /\ inbound.pc = "checked"
  /\ Attach(inbound.peer, inbound.call)
  /\ inbound' = NoInbound
  /\ UNCHANGED <<cur, call, party, waiters, opening, checked, dying, torn, raced>>
  /\ UNCHANGED ipcVars

\* The current session dies: its pump drops it from the bridge.  The pump of a session
\* that was replaced or detached ends in silence.
SessionDies ==
  /\ session # NoPeer /\ ~dying /\ out["media"] = NoOut
  /\ session' = NoPeer /\ stray' = FALSE
  /\ dying' = TRUE
  /\ UNCHANGED <<cur, call, party, waiters, opening, checked, inbound, torn, raced>>
  /\ UNCHANGED ipcVars

BugOnMediaClosed ==  \* mutant: the dead session is not made good
  /\ dying
  /\ dying' = FALSE
  /\ UNCHANGED <<cur, call, party, waiters, session, opening, checked, inbound, torn, raced, stray>>
  /\ UNCHANGED ipcVars

\* onMediaClosed: the call lives on; the page is told, and a call of ours is given
\* another session.
OnMediaClosed ==
  /\ dying
  /\ dying' = FALSE
  /\ IF cur # NoCall /\ call[cur] = "active"
     THEN /\ Emit("media", CallEvent(cur, "active"))
          /\ blur' = blur \cup Crosses("media", "call")
     ELSE UNCHANGED <<out, blur>>
  /\ UNCHANGED <<cur, call, party, waiters, session, opening, checked, inbound, torn, raced, stray>>
  /\ UNCHANGED <<conn, active, snap, sendq, cmdq, job, view>>

Bridge ==
  \/ \E c \in CallIds : Opened(c) \/ AttachOpened(c)
  \/ InboundChecked \/ AttachInbound \/ OnMediaClosed

-----------------------------------------------------------------------------
(* Properties                                                              *)

InFlight(c, s) ==
  \E g \in Emitters : out[g].step # "none" /\ out[g].event = CallEvent(c, s)

=============================================================================
