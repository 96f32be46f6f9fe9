------------------------------- MODULE MCWeb -------------------------------
(***************************************************************************)
(* Two articles of one day and the next, one of them without text, and two *)
(* settings, one of which lists less than the other in every way; or two   *)
(* pages and two Linkwarden instances with a login, one with a token.      *)
(***************************************************************************)
EXTENDS Web, TLC

MCCollectedAt == <<0, 1>>
MCVerdicts == <<{<<3, "go">>}, {<<1, "go">>, <<2, "art">>}>>
MCChoices ==
  {[threshold |-> 2, interests |-> {"go", "art"}, declared |-> {2}],
   [threshold |-> 3, interests |-> {"go"}, declared |-> {}]}
=============================================================================
