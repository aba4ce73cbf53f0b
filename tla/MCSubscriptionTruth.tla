------------------------- MODULE MCSubscriptionTruth -------------------------
(***************************************************************************)
(* Small instances of SubscriptionTruth: one subscription, two episodes,   *)
(* events whose provider times are out of step with any delivery order.    *)
(***************************************************************************)
EXTENDS SubscriptionTruth

CONSTANTS s1, w1, w2, h1

MCSubs == {s1}
MCEpisodes == {1, 2}
MCOneWorker == {w1}
MCTwoWorkers == {w1, w2}
MCOneHandler == {h1}

Hook(kind, episode, time, amount) ==
  [kind |-> kind, sub |-> s1, episode |-> episode, time |-> time, amount |-> amount]

\* Episode 1 fails at time 1, is charged at 2 and fails again at 3, when episode 2
\* fails too.  The charge is smaller than what was at risk.  The link of episode 2 is
\* paid in part, then with an amount that is enough unless the subscription's amount
\* was known when the case was created.
MCAll ==
  {Hook("pending", 1, 1, 2), Hook("charged", 1, 2, 1), Hook("pending", 1, 3, 2),
   Hook("halted", 2, 3, 0), Hook("link.paid", 2, 4, 1)}

\* An active subscription whose payment fails and is charged right after.
MCActive ==
  {Hook("activated", 1, 1, 2), Hook("pending", 1, 2, 2), Hook("charged", 1, 3, 2)}
=============================================================================
