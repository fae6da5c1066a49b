------------------------------ MODULE Presence ------------------------------
(***************************************************************************)
(* The presence of the contacts (contact/presence.go): any traffic of a    *)
(* contact is a sign of life; sweep, once in a probe interval, takes the   *)
(* sign from those that have been silent for longer than onlineTTL; the    *)
(* changes are reported after the lock is released.                        *)
(*                                                                         *)
(* Abstractions.  Time is what it is compared with: a sign of life is      *)
(* fresh or older than onlineTTL.  Probes and pongs themselves, which keep *)
(* no state, are part of the traffic; that a wake of the outbox follows a  *)
(* sign of life is PresenceKick of module Outbox.                          *)
(***************************************************************************)
EXTENDS Ipc

VARIABLES
  seen,      \* Presence.lastSeen: never (no entry), fresh, stale
  isOnline,  \* Presence.isOnline
  contact,   \* peers whose state in the snapshot of module Contacts is contact
  gone       \* peers that sweep has yet to report

presenceVars == <<seen, isOnline, contact, gone>>

PresenceTypeOK ==
  /\ seen \in [Peers -> {"never", "fresh", "stale"}]
  /\ isOnline \subseteq Peers
  /\ contact \subseteq Peers
  /\ gone \subseteq Peers

PresenceInit ==
  /\ seen = [p \in Peers |-> "never"]
  /\ isOnline = {}
  /\ contact = Peers
  /\ gone = {}

Online(p) == p \in isOnline /\ seen[p] = "fresh"

\* A contact stays silent for longer than onlineTTL.
Silence(p) ==
  /\ seen[p] = "fresh"
  /\ seen' = [seen EXCEPT ![p] = "stale"]
  /\ UNCHANGED <<isOnline, contact, gone>> /\ UNCHANGED ipcVars

BugSignOfLife(p) ==  \* mutant: only a contact never seen before is reported
  /\ seen' = [seen EXCEPT ![p] = "fresh"]
  /\ isOnline' = isOnline \cup {p}
  /\ IF seen[p] # "never"
     THEN UNCHANGED <<out, blur>>
     ELSE Emit("delivery", PresenceEvent(p, TRUE)) /\ UNCHANGED blur
  /\ UNCHANGED <<contact, gone>>

\* The part of markActivity under the lock, and the report if the contact was offline.
SignOfLife(p) ==
  /\ seen' = [seen EXCEPT ![p] = "fresh"]
  /\ isOnline' = isOnline \cup {p}
  /\ IF p \in isOnline
     THEN UNCHANGED <<out, blur>>
     ELSE /\ Emit("delivery", PresenceEvent(p, TRUE))
          /\ blur' = blur \cup Crosses("delivery", "presence")
                        \cup (IF gone = {} THEN {} ELSE {"presence"})
  /\ UNCHANGED <<contact, gone>>

Expired == {p \in isOnline : seen[p] = "stale"}

\* sweep, under the lock.
Sweep ==
  /\ gone = {} /\ out["presence"] = NoOut /\ Expired # {}
  /\ isOnline' = isOnline \ Expired
  /\ gone' = Expired
  /\ blur' = blur \cup Crosses("presence", "presence")
  /\ UNCHANGED <<seen, contact>>
  /\ UNCHANGED <<conn, active, snap, sendq, cmdq, job, out, view>>

\* sweep, after the lock: one report after the other.
Report(p) ==
  /\ p \in gone /\ out["presence"] = NoOut
  /\ Emit("presence", PresenceEvent(p, FALSE))
  /\ gone' = gone \ {p}
  /\ UNCHANGED <<seen, isOnline, contact>>
  /\ UNCHANGED <<conn, active, snap, sendq, cmdq, job, view, blur>>

\* What ListChats reads; news of the presence on their way may then come before it,
\* and a contact whose sign of life has expired comes back without any news.
ReadOnline(k) ==
  /\ Runs(k, "chats")
  /\ Answer(k, TRUE, {p \in Peers : Online(p)})
  /\ blur' = IF k # view.conn THEN blur
             ELSE (blur \ {"presence"}) \cup Crosses(k, "presence")
                    \cup (IF gone \cup Expired = {} THEN {} ELSE {"presence"})
  /\ UNCHANGED <<conn, active, snap, sendq, out, view>>
  /\ UNCHANGED presenceVars

\* forget, when the contact is blocked: no report.
Forget(p) ==
  /\ seen' = [seen EXCEPT ![p] = "never"]
  /\ isOnline' = isOnline \ {p}
  /\ contact' = contact \ {p}
  /\ UNCHANGED gone

=============================================================================
