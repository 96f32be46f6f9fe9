----------------------------- MODULE Statistics -----------------------------
(***************************************************************************)
(* The statistics page (handleStats of internal/web/handlers.go) over the  *)
(* two queue tables (internal/store/stats.go): what became of the          *)
(* collected items, how many articles there are, and how long the queues   *)
(* are.                                                                    *)
(*                                                                         *)
(* Every count is one statement and so sees the tables of one moment; the  *)
(* page makes them one after the other, without a transaction, while runs  *)
(* go on.  Counts by source or by day are the same columns over fewer      *)
(* rows.  Oldest rows and token counts are left out.                       *)
(***************************************************************************)
EXTENDS Pipeline

VARIABLE
  statsPage  \* the page being made: its next query, the articles its first
             \* one counted, and whether a table was written since

statsVars == <<vars, statsPage>>

NoPage == [next |-> "tallies", stored |-> 0, written |-> FALSE]

StatsTypeOK ==
  statsPage \in [next : {"tallies", "articles", "backlogs"}, stored : Nat,
                 written : BOOLEAN]

StatsInit == Init /\ statsPage = NoPage

-----------------------------------------------------------------------------
Count(S) == Cardinality(S)
Stored(S) == {r \in S : rows[r].stored}
Became(S, what) == {i \in Stored(S) : outcome[i] = what}

(* Mutant: an item given up still counts as pending.                       *)
PendingOrFailed(S) == {i \in Stored(S) \ Provenance : ~rows[i].done}

(* FILTER (WHERE processed_at IS NULL AND failed_at IS NULL ...)           *)
Pending(S) == {i \in Stored(S) \ Provenance : ~rows[i].done /\ ~rows[i].failed}

Tally(S) ==
  [provenance |-> Count(Stored(S \cap Provenance)),
   roundups   |-> Count(Stored(S \cap Roundups)),
   links      |-> Count(Stored(S \cap Articles)),
   stored     |-> Count(Became(S, "stored")),
   duplicate  |-> Count(Became(S, "duplicate")),
   skipped    |-> Count(Became(S, "skipped")),
   pending    |-> Count(Pending(S)),
   unknown    |-> Count({i \in Stored(S) : rows[i].done /\ outcome[i] = None})]

Collected(t) == t.provenance + t.roundups + t.links
Discarded(t) == t.duplicate + t.skipped

(* One processing queue.                                                   *)
Stage(S) ==
  [pending |-> Count(Waiting(S)),
   failed  |-> Count({r \in S : rows[r].stored /\ ~rows[r].done /\ rows[r].failed})]

Backlogs == [expansion |-> Stage(Roundups), retrieval |-> Stage(Articles),
             analysis |-> Stage(Urls)]

(* The library: of its counts, all articles and the analysed ones.         *)
Library == [total |-> Count(Stored(Urls)),
            analyzed |-> Count({u \in Stored(Urls) : rows[u].done})]

-----------------------------------------------------------------------------
(* The queries of one page.                                                *)

(* TalliesBySource.                                                        *)
ReadTallies ==
  /\ statsPage.next = "tallies"
  /\ statsPage' = [next |-> "articles", stored |-> Tally(Items).stored, written |-> FALSE]
  /\ UNCHANGED vars

(* Store.Articles.  What it is compared with need not be kept any longer.  *)
ReadArticles ==
  /\ statsPage.next = "articles"
  /\ statsPage' = [next |-> "backlogs", stored |-> 0, written |-> statsPage.written]
  /\ UNCHANGED vars

(* Backlogs, and the page is shown.                                        *)
ReadBacklogs ==
  /\ statsPage.next = "backlogs"
  /\ statsPage' = NoPage
  /\ UNCHANGED vars

(* A statement of a run, while a page is made or not.                      *)
RunStep ==
  /\ Next
  /\ statsPage' =
       [statsPage EXCEPT !.written =
          @ \/ (statsPage.next # "tallies" /\ <<rows, outcome>>' # <<rows, outcome>>)]

StatsNext == ReadTallies \/ ReadArticles \/ ReadBacklogs \/ RunStep

StatsSpec == StatsInit /\ [][StatsNext]_statsVars

-----------------------------------------------------------------------------
(* What the counts of one moment say: every collected item is a record,    *)
(* opened, an article or discarded, waiting or given up, and none of them  *)
(* twice; every article is analysed, waiting or given up; and both halves  *)
(* of the page call the same items waiting, by different conditions.       *)
AddsUp ==
  LET t == Tally(Items)
      b == Backlogs
      a == Library IN
  /\ t.unknown = 0
  /\ Collected(t) = t.provenance + Count(Became(Items, "expanded")) + t.stored
                    + Discarded(t) + t.pending
                    + b.expansion.failed + b.retrieval.failed
  /\ t.pending = b.expansion.pending + b.retrieval.pending
  /\ a.total = a.analyzed + b.analysis.pending + b.analysis.failed

(* A page adds up if nothing was written while it was made, and not only   *)
(* then where its queries come in the right order: never does it show more *)
(* items that "became an article that did not exist before" than articles, *)
(* although runs store articles and mark items between the two queries.    *)
StatisticsAgree ==
  [][/\ ReadArticles => statsPage.stored <= Library.total
     /\ ReadBacklogs => statsPage.written \/ AddsUp]_statsVars
=============================================================================
