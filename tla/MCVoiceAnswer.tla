----------------------------- MODULE MCVoiceAnswer -----------------------------
(***************************************************************************)
(* Small instances of VoiceAnswer: a call whose run may be planned with    *)
(* the link of another case, two calls about one case, and customers who   *)
(* give each kind of answer.                                               *)
(***************************************************************************)
EXTENDS VoiceAnswer, TLC

CONSTANTS v1, v2, p1, c1, c2, k1, k2, r1, r2

MCVoices == {v1, v2}
MCOneVoice == {v1}
MCCalls == {c1, c2}
MCOneCall == {c1}
MCActionOf == (c1 :> v1) @@ (c2 :> v2)
MCOneActionOf == c1 :> v1
MCPlanned == {p1}

MCCases == {k1, k2}
MCOneCase == {k1}
\* v1 and p1 are of one run and of different cases.
MCCaseOf == (v1 :> k1) @@ (p1 :> k2)
MCRunOf == (v1 :> r1) @@ (p1 :> r1)
\* v1 and v2 are of one case and of different runs.
MCSameCaseOf == (v1 :> k1) @@ (v2 :> k1)
MCOwnRunOf == (v1 :> r1) @@ (v2 :> r2)

Says(digit, phrases) == [digit |-> digit, phrases |-> phrases]
MCUtterances ==
  {Says("1", {}), Says("", {"today"}), Says("", {"help"}), Says("", {"do not call"}), Says("", {})}
\* "Do not call me" contains "call me".
MCPleading == MCUtterances \union {Says("", {"do not call", "help"})}
=============================================================================
