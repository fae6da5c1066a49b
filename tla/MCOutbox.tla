----------------------------- MODULE MCOutbox -----------------------------
(* Small instances of Outbox for TLC.                                      *)
EXTENDS Outbox

CONSTANTS p1, m1, m2

\* Both messages for one peer: the pass skips the rest of a failed peer, and
\* the two share the peer's dedup window.
DestSame == [m \in Msgs |-> p1]

\* What the properties of outbox_live depend on.  Left out are histories that no
\* guard and neither property reads (left, forgot, twice, and for a Quiet
\* message purged and damaged), and whether a text in the inbox was erased since.
LiveView ==
  <<rows, status, runVars, kicks, toFlush, net, seen,
    {m \in Msgs : inbox[m] # "none"}, (purged \cup damaged) \ Quiet, budgets>>

\* What the properties of outbox_safety depend on: all but whether a text in the inbox
\* was erased since, which only DeleteReceived reads.
SafeView ==
  <<rows, status, runVars, kicks, toFlush, net, seen, forgot, twice, ghosts,
    {m \in Msgs : inbox[m] # "none"}, budgets>>

\* Bound: a fault, a damaged row and a Quiet row do not all meet in one behaviour.
TroubleOrQuiet ==
  (\A m \in Quiet : status[m] = None) \/ (faults = 0 /\ damage = 0)
===========================================================================
