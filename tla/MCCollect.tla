------------------------------ MODULE MCCollect ------------------------------
(***************************************************************************)
(* Enabled are three feeds of one host, or two feeds through the sidecar,  *)
(* or the mailbox alone or beside a feed: the parts share nothing but the  *)
(* slots of the run.                                                       *)
(***************************************************************************)
EXTENDS Collect, TLC

MCHostOf == ("f1" :> "h1" @@ "f2" :> "h1" @@ "f3" :> "h1")
MCPlans == {{"f1", "f2", "f3"}, {"b1", "b2"}, {"letters"}, {"f1", "letters"}}
MCMailPlans == {{"letters"}}
==============================================================================
