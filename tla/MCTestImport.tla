----------------------------- MODULE MCTestImport -----------------------------
(***************************************************************************)
(* One subscription whose payment failed, was charged and is imported: two *)
(* requests for one payment, webhooks delivered before, during and after.  *)
(***************************************************************************)
EXTENDS TestImport, TLC

CONSTANTS s1, w1, h1, r1, r2, p1

MCSubs == {s1}
MCEpisodes == {1, p1}
MCOneWorker == {w1}
MCOneHandler == {h1}
MCNoHandler == {}
MCTwoRequests == {r1, r2}
MCOneRequest == {r1}

Hook(kind, episode, time, amount) ==
  [kind |-> kind, sub |-> s1, episode |-> episode, time |-> time, amount |-> amount]
Failed(episode, linked, time, amount) ==
  [episode |-> episode, sub |-> s1, linked |-> linked, time |-> time, amount |-> amount]

\* A failure at time 1 is charged at 2, with less than was at risk.
MCWebhooks == {Hook("pending", 1, 1, 2), Hook("charged", 1, 2, 1)}

Payment == Failed(p1, TRUE, 1, 2)
MCPayments == {Payment}
MCBatches == {MCPayments}

Symmetry == Permutations(MCTwoRequests)
=============================================================================
