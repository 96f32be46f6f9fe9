------------------------------ MODULE Pipeline ------------------------------
(***************************************************************************)
(* Collection, expansion, retrieval and analysis: internal/job/job.go over *)
(* the queues of internal/store/queries.go.                                *)
(*                                                                         *)
(* A worker is one Ziba process executing a command: the scheduler inside  *)
(* "ziba serve", or "ziba run", "ziba collect", "ziba process" started by  *)
(* hand.  Workers share nothing but the database.  Every action is at most *)
(* one database statement (or one implicitly atomic batch) together with   *)
(* the in-memory step around it, so workers interleave and die between any *)
(* two statements.                                                         *)
(*                                                                         *)
(* Time.  A queue read skips the rows whose last_attempt_at is not before  *)
(* the moment the drain started.  Only that comparison matters, so instead *)
(* of clocks the model keeps, per worker, the rows attempted since.        *)
(***************************************************************************)
EXTENDS Naturals, FiniteSets

CONSTANTS
  Workers,       \* processes sharing the database
  Sources,       \* the enabled sources
  Items,         \* possible rows of raw_items, one per (source_id, url)
  Roundups,      \* the items that are issues of a link digest
  Provenance,    \* the items kept only as a record (newsletters)
  TooOld,        \* the items published before the cutoff of their source
  Urls,          \* normalised addresses, the identity of articles
  NonEditorial,  \* addresses that are never stored: videos and the like
  Feed,          \* Feed[s]: the items source s may offer
  Links,         \* Links[i]: the article items the issue i links to
  Landing,       \* Landing[i]: the addresses retrieving i may end at
  Batch,         \* rows taken per chunk
  MaxFailures,   \* maxRetries + 1
  MaxFaults,     \* bound: crashes, cancellations and database errors
  Commands,      \* the commands in use
  ClockLag       \* TRUE if the database clock may lag behind the workers'

None == "none"
Articles == Items \ (Roundups \cup Provenance)
Rows == Items \cup Urls

(* "daily" is Daily and ScheduledCollection with an analyzer, "unanalyzed" *)
(* the same without one; "collect", "gather" (collect -no-fetch) and       *)
(* "process" are the CLI commands.                                         *)
AllCommands == {"daily", "unanalyzed", "collect", "gather", "process"}

ASSUME DataAssumption ==
  /\ Roundups \subseteq Items /\ Provenance \subseteq Items
  /\ Roundups \cap Provenance = {}
  /\ Items \cap Urls = {} /\ None \notin Items
  /\ IsFiniteSet(Items) /\ IsFiniteSet(Urls)
  /\ Feed \in [Sources -> SUBSET Items]
  /\ Links \in [Roundups -> SUBSET Articles]
  /\ Landing \in [Articles -> SUBSET Urls]
  /\ Sources # {}

ASSUME BoundsAssumption ==
  /\ Batch \in Nat \ {0}
  /\ MaxFailures \in Nat \ {0}
  /\ MaxFaults \in Nat
  /\ Commands \subseteq AllCommands
  /\ ClockLag \in BOOLEAN

Outcomes == {"stored", "duplicate", "skipped", "expanded"}
Drains == {"daily", "unanalyzed"}

Stages == {"idle", "collect", "expand", "expanding", "hydrate", "hydrating",
           "analyze", "analyzing", "saving", "digest", "done"}

VARIABLES
  \* the database
  rows,       \* queue columns of raw_items and articles
  outcome,    \* raw_items.outcome
  excerpt,    \* articles stored although their page could not be retrieved
  \* the workers
  pc, cmd,
  polling,    \* sources whose result is still to be saved
  todo,       \* rest of the chunk
  finished,   \* outcomes of the chunk not yet marked
  results,    \* analyses not yet saved
  lostRecord, \* recording a failure failed (recordErrs)
  since,      \* rows whose last_attempt_at is not before the drain's start
  \* history
  origin,     \* the item whose SaveArticle inserted the article
  attempted,  \* rows the worker attempted in this drain
  target,     \* rows this drain owes: eligible at its start, or its own
  faults

db == <<rows, outcome, excerpt, origin>>
memory == <<polling, todo, finished, results, lostRecord>>
drain == <<since, attempted, target>>
vars == <<db, pc, cmd, memory, drain, faults>>

RowState == [stored : BOOLEAN, done : BOOLEAN, failures : Nat, failed : BOOLEAN]

TypeOK ==
  /\ rows \in [Rows -> RowState]
  /\ outcome \in [Items -> Outcomes \cup {None}]
  /\ excerpt \subseteq Urls
  /\ pc \in [Workers -> Stages]
  /\ cmd \in [Workers -> AllCommands \cup {None}]
  /\ polling \in [Workers -> SUBSET Sources]
  /\ todo \in [Workers -> SUBSET Rows]
  /\ finished \in [Workers -> [Items -> Outcomes \cup {None}]]
  /\ results \in [Workers -> SUBSET Urls]
  /\ lostRecord \in [Workers -> BOOLEAN]
  /\ since \in [Workers -> SUBSET Rows]
  /\ origin \in [Urls -> Items \cup {None}]
  /\ attempted \in [Workers -> SUBSET Rows]
  /\ target \in [Workers -> SUBSET Rows]
  /\ faults \in 0..MaxFaults

NothingFinished == [i \in Items |-> None]

Init ==
  /\ rows = [r \in Rows |->
       [stored |-> FALSE, done |-> FALSE, failures |-> 0, failed |-> FALSE]]
  /\ outcome = NothingFinished
  /\ excerpt = {}
  /\ pc = [w \in Workers |-> "idle"]
  /\ cmd = [w \in Workers |-> None]
  /\ polling = [w \in Workers |-> {}]
  /\ todo = [w \in Workers |-> {}]
  /\ finished = [w \in Workers |-> NothingFinished]
  /\ results = [w \in Workers |-> {}]
  /\ lostRecord = [w \in Workers |-> FALSE]
  /\ since = [w \in Workers |-> {}]
  /\ origin = [u \in Urls |-> None]
  /\ attempted = [w \in Workers |-> {}]
  /\ target = [w \in Workers |-> {}]
  /\ faults = 0

-----------------------------------------------------------------------------
(* The statements of internal/store.                                       *)

(* INSERT ... ON CONFLICT DO NOTHING.                                      *)
Insert(S) ==
  rows' = [r \in Rows |-> IF r \in S THEN [rows[r] EXCEPT !.stored = TRUE] ELSE rows[r]]

(* Mutants: success decrements the count, or leaves failed_at behind.       *)
SettledDecrements(r) == [rows[r] EXCEPT !.done = TRUE, !.failures = rows[r].failures - 1]
SettledKeepsFailure(r) == [rows[r] EXCEPT !.done = TRUE]

(* Taken out of the queue: processed_at set, failure columns reset.        *)
Settled(r) == [rows[r] EXCEPT !.done = TRUE, !.failures = 0, !.failed = FALSE]

(* The queue condition, without its kind and without last_attempt_at.      *)
Waiting(S) == {r \in S : rows[r].stored /\ ~rows[r].done /\ ~rows[r].failed}

(* Mutant: last_attempt_at is not looked at.                               *)
EligibleAgain(w, S) == Waiting(S)

Eligible(w, S) == Waiting(S) \ since[w]

(* LIMIT: at most Batch rows, and none left out while there is room.  The  *)
(* order of the queue is left open: any rows may be the oldest.            *)
Chunks(S) ==
  {c \in SUBSET S : /\ Cardinality(c) <= Batch
                    /\ c # S => Cardinality(c) = Batch}

(* Mutants: one attempt too many; a late failure reopens a finished row.   *)
ChargedLate(r) ==
  [rows[r] EXCEPT !.failures = rows[r].failures + 1,
                  !.failed = rows[r].failures + 1 > MaxFailures]
ChargedReopens(r) ==
  [rows[r] EXCEPT !.failures = rows[r].failures + 1,
                  !.failed = rows[r].failures + 1 >= MaxFailures,
                  !.done = FALSE]

(* One more failed attempt; terminal from MaxFailures on.                  *)
Charged(r) ==
  [rows[r] EXCEPT !.failures = rows[r].failures + 1,
                  !.failed = rows[r].failures + 1 >= MaxFailures]

(* Mutant: last_attempt_at is not written.                                 *)
RecordFailureUndated(r) == rows' = [rows EXCEPT ![r] = Charged(r)] /\ UNCHANGED since

(* recordFailure.  A drain of any worker that started before now will see  *)
(* the row as attempted since, unless the clock of the database lags.      *)
RecordFailure(r) ==
  /\ rows' = [rows EXCEPT ![r] = Charged(r)]
  /\ \E missed \in IF ClockLag THEN SUBSET Workers ELSE {{}} :
       since' = [w \in Workers |->
                   IF w \in missed THEN since[w] ELSE since[w] \cup {r}]

(* Mutant: the outcome is written, the item stays queued.                  *)
MarkProcessedQueued(done) ==
  /\ outcome' = [i \in Items |-> IF done[i] # None THEN done[i] ELSE outcome[i]]
  /\ UNCHANGED rows

(* MarkRawItemsProcessed, one batch.                                       *)
MarkProcessed(done) ==
  /\ rows' = [r \in Rows |->
       IF r \in Items /\ done[r] # None THEN Settled(r) ELSE rows[r]]
  /\ outcome' = [i \in Items |-> IF done[i] # None THEN done[i] ELSE outcome[i]]

-----------------------------------------------------------------------------
(* Commands.                                                               *)

(* The command is over, with its locals.                                   *)
Leave(w) ==
  /\ pc' = [pc EXCEPT ![w] = "idle"]
  /\ cmd' = [cmd EXCEPT ![w] = None]
  /\ polling' = [polling EXCEPT ![w] = {}]
  /\ todo' = [todo EXCEPT ![w] = {}]
  /\ finished' = [finished EXCEPT ![w] = NothingFinished]
  /\ results' = [results EXCEPT ![w] = {}]
  /\ lostRecord' = [lostRecord EXCEPT ![w] = FALSE]
  /\ since' = [since EXCEPT ![w] = {}]
  /\ attempted' = [attempted EXCEPT ![w] = {}]
  /\ target' = [target EXCEPT ![w] = {}]
  /\ UNCHANGED db

(* started := time.Now(): nothing has been attempted since.                *)
BeginDrain(w, owed) ==
  /\ since' = [since EXCEPT ![w] = {}]
  /\ attempted' = [attempted EXCEPT ![w] = {}]
  /\ target' = [target EXCEPT ![w] = owed]

Analyzes(c) == c \in {"daily", "process"}

(* What a complete drain owes: the rows waiting now.                       *)
Owed(w) ==
  IF cmd[w] \notin Drains THEN {}
  ELSE Waiting(Roundups \cup Articles)
         \cup (IF Analyzes(cmd[w]) THEN Waiting(Urls) ELSE {})

StartCommand(w, c) ==
  /\ pc[w] = "idle"
  /\ cmd' = [cmd EXCEPT ![w] = c]
  /\ IF c = "process"
     THEN /\ pc' = [pc EXCEPT ![w] = "analyze"]
          /\ BeginDrain(w, {})
          /\ UNCHANGED polling
     ELSE /\ pc' = [pc EXCEPT ![w] = "collect"]
          /\ polling' = [polling EXCEPT ![w] = Sources]
          /\ UNCHANGED drain
  /\ UNCHANGED <<db, todo, finished, results, lostRecord, faults>>

(* One source of Collect.  A source that failed is passed over; what is    *)
(* too old is dropped, provenance never is.                                *)
Recent(offered) == {i \in offered : i \in Provenance \/ i \notin TooOld}

CollectSource(w, s) ==
  /\ pc[w] = "collect" /\ s \in polling[w]
  /\ polling' = [polling EXCEPT ![w] = @ \ {s}]
  /\ \E offered \in SUBSET Feed[s] : Insert(Recent(offered))
  /\ UNCHANGED <<outcome, excerpt, origin, pc, cmd, todo, finished, results,
                 lostRecord, drain, faults>>

CollectFinish(w) ==
  /\ pc[w] = "collect" /\ polling[w] = {}
  /\ pc' = [pc EXCEPT ![w] = IF cmd[w] = "gather" THEN "done" ELSE "expand"]
  /\ BeginDrain(w, Owed(w))
  /\ UNCHANGED <<db, cmd, memory, faults>>

(* Every return with an error, a cancelled context and a crash are one     *)
(* step: what was only in memory is gone and nothing is undone.            *)
Abort(w) ==
  /\ pc[w] # "idle" /\ faults < MaxFaults
  /\ faults' = faults + 1
  /\ Leave(w)

-----------------------------------------------------------------------------
(* expandBatch.                                                            *)

(* Mutant: a chunk that is not full is taken for the end of the queue.     *)
SelectIssuesFull(w) ==
  /\ pc[w] = "expand"
  /\ \E c \in Chunks(Eligible(w, Roundups)) :
       /\ todo' = [todo EXCEPT ![w] = IF Cardinality(c) < Batch THEN {} ELSE c]
       /\ pc' = [pc EXCEPT ![w] = IF Cardinality(c) < Batch THEN "hydrate" ELSE "expanding"]
  /\ UNCHANGED <<db, cmd, polling, finished, results, lostRecord, drain, faults>>

SelectIssues(w) ==
  /\ pc[w] = "expand"
  /\ \E c \in Chunks(Eligible(w, Roundups)) :
       /\ todo' = [todo EXCEPT ![w] = c]
       /\ pc' = [pc EXCEPT ![w] = IF c = {} THEN "hydrate" ELSE "expanding"]
  /\ UNCHANGED <<db, cmd, polling, finished, results, lostRecord, drain, faults>>

Take(w, r) ==
  /\ r \in todo[w]
  /\ todo' = [todo EXCEPT ![w] = @ \ {r}]
  /\ attempted' = [attempted EXCEPT ![w] = @ \cup {r}]

ExpandIssue(w, i) ==
  /\ pc[w] = "expanding" /\ Take(w, i)
  /\ Insert(Links[i])
  /\ finished' = [finished EXCEPT ![w][i] = "expanded"]
  /\ target' = [target EXCEPT ![w] =
       IF cmd[w] \in Drains THEN @ \cup Links[i] ELSE @]
  /\ UNCHANGED <<outcome, excerpt, origin, pc, cmd, polling, results,
                 lostRecord, since, faults>>

(* Mutants: a failed issue is marked opened; a failed issue ends the run.  *)
ExpandFailsMarked(w, i) ==
  /\ pc[w] = "expanding" /\ Take(w, i)
  /\ finished' = [finished EXCEPT ![w][i] = "expanded"]
  /\ UNCHANGED <<db, pc, cmd, polling, results, lostRecord, since, target, faults>>
ExpandFailsStops(w, i) ==
  pc[w] = "expanding" /\ i \in todo[w] /\ Leave(w) /\ UNCHANGED faults

ExpandFails(w, i) ==
  /\ pc[w] = "expanding" /\ Take(w, i)
  /\ RecordFailure(i)
  /\ UNCHANGED <<outcome, excerpt, origin, pc, cmd, polling, finished, results,
                 lostRecord, target, faults>>

(* A chunk that was not empty opened or failed something, so Drain loops;  *)
(* "ziba collect" expands one chunk only.                                  *)
MarkExpanded(w) ==
  /\ pc[w] = "expanding" /\ todo[w] = {}
  /\ MarkProcessed(finished[w])
  /\ finished' = [finished EXCEPT ![w] = NothingFinished]
  /\ pc' = [pc EXCEPT ![w] = IF cmd[w] \in Drains THEN "expand" ELSE "hydrate"]
  /\ UNCHANGED <<excerpt, origin, cmd, polling, todo, results, lostRecord,
                 drain, faults>>

-----------------------------------------------------------------------------
(* Hydrate.  It reads the queue up to the present moment, so it does not   *)
(* look at the rows attempted since the drain began.                       *)

AfterHydrate(w) ==
  CASE cmd[w] = "daily" -> "analyze"
    [] cmd[w] = "unanalyzed" -> "digest"
    [] OTHER -> "done"

(* Mutant: the items another process has in hand are passed over.          *)
SelectItemsUnlocked(w) ==
  /\ pc[w] = "hydrate"
  /\ \E c \in Chunks(Waiting(Articles) \ UNION {todo[v] : v \in Workers}) :
       /\ todo' = [todo EXCEPT ![w] = c]
       /\ pc' = [pc EXCEPT ![w] = IF c = {} THEN AfterHydrate(w) ELSE "hydrating"]
  /\ UNCHANGED <<db, cmd, polling, finished, results, lostRecord, drain, faults>>

SelectItems(w) ==
  /\ pc[w] = "hydrate"
  /\ \E c \in Chunks(Waiting(Articles)) :
       /\ todo' = [todo EXCEPT ![w] = c]
       /\ pc' = [pc EXCEPT ![w] = IF c = {} THEN AfterHydrate(w) ELSE "hydrating"]
  /\ UNCHANGED <<db, cmd, polling, finished, results, lostRecord, drain, faults>>

(* The link led to something deliberately not stored (ErrNotArticle).      *)
SkipItem(w, i) ==
  /\ pc[w] = "hydrating" /\ Take(w, i)
  /\ Landing[i] \cap NonEditorial # {}
  /\ finished' = [finished EXCEPT ![w][i] = "skipped"]
  /\ UNCHANGED <<db, pc, cmd, polling, results, lostRecord, since, target, faults>>

(* Mutants: whether the article is new is not asked; it is not saved.      *)
StoreItemAlwaysNew(w, i, u, retrieved) ==
  /\ pc[w] = "hydrating" /\ Take(w, i)
  /\ u \in Landing[i] \ NonEditorial
  /\ Insert({u})
  /\ finished' = [finished EXCEPT ![w][i] = "stored"]
  /\ origin' = [origin EXCEPT ![u] = IF rows[u].stored THEN @ ELSE i]
  /\ target' = [target EXCEPT ![w] = IF cmd[w] = "daily" THEN @ \cup {u} ELSE @]
  /\ UNCHANGED <<outcome, excerpt, pc, cmd, polling, results, lostRecord, since, faults>>
StoreItemUnsaved(w, i, u, retrieved) ==
  /\ pc[w] = "hydrating" /\ Take(w, i)
  /\ u \in Landing[i] \ NonEditorial
  /\ finished' = [finished EXCEPT ![w][i] = "duplicate"]
  /\ UNCHANGED <<db, pc, cmd, polling, results, lostRecord, since, target, faults>>

(* SaveArticle under the address where the link landed, with or without    *)
(* the text of the page: a failed retrieval is only a warning.             *)
StoreItem(w, i, u, retrieved) ==
  /\ pc[w] = "hydrating" /\ Take(w, i)
  /\ u \in Landing[i] \ NonEditorial
  /\ Insert({u})
  /\ IF rows[u].stored
     THEN /\ finished' = [finished EXCEPT ![w][i] = "duplicate"]
          /\ UNCHANGED <<origin, excerpt>>
     ELSE /\ finished' = [finished EXCEPT ![w][i] = "stored"]
          /\ origin' = [origin EXCEPT ![u] = i]
          /\ excerpt' = IF retrieved THEN excerpt ELSE excerpt \cup {u}
  /\ target' = [target EXCEPT ![w] = IF cmd[w] = "daily" THEN @ \cup {u} ELSE @]
  /\ UNCHANGED <<outcome, pc, cmd, polling, results, lostRecord, since, faults>>

MarkHydrated(w) ==
  /\ pc[w] = "hydrating" /\ todo[w] = {}
  /\ MarkProcessed(finished[w])
  /\ finished' = [finished EXCEPT ![w] = NothingFinished]
  /\ pc' = [pc EXCEPT ![w] = IF cmd[w] \in Drains THEN "hydrate" ELSE "done"]
  /\ UNCHANGED <<excerpt, origin, cmd, polling, todo, results, lostRecord,
                 drain, faults>>

-----------------------------------------------------------------------------
(* analyzeBatch.  The articles of a chunk are analysed in parallel, so in  *)
(* any order; nothing is saved before the last one answered.               *)

SelectArticles(w) ==
  /\ pc[w] = "analyze"
  /\ \E c \in Chunks(Eligible(w, Urls)) :
       /\ todo' = [todo EXCEPT ![w] = c]
       /\ pc' = [pc EXCEPT ![w] =
                   IF c # {} THEN "analyzing"
                   ELSE IF cmd[w] = "daily" THEN "digest" ELSE "done"]
  /\ UNCHANGED <<db, cmd, polling, finished, results, lostRecord, drain, faults>>

AnalyzeArticle(w, u) ==
  /\ pc[w] = "analyzing" /\ Take(w, u)
  /\ results' = [results EXCEPT ![w] = @ \cup {u}]
  /\ UNCHANGED <<db, pc, cmd, polling, finished, lostRecord, since, target, faults>>

(* Mutant: a failed analysis is only logged.                               *)
AnalysisFailsUncharged(w, u) ==
  /\ pc[w] = "analyzing" /\ Take(w, u)
  /\ UNCHANGED <<db, pc, cmd, polling, finished, results, lostRecord, since,
                 target, faults>>

AnalysisFails(w, u) ==
  /\ pc[w] = "analyzing" /\ Take(w, u)
  /\ RecordFailure(u)
  /\ UNCHANGED <<outcome, excerpt, origin, pc, cmd, polling, finished, results,
                 lostRecord, target, faults>>

(* The failure itself could not be recorded: the rest of the chunk is      *)
(* still awaited, then everything it produced is dropped.                  *)
RecordLost(w, u) ==
  /\ pc[w] = "analyzing" /\ Take(w, u)
  /\ faults < MaxFaults /\ faults' = faults + 1
  /\ lostRecord' = [lostRecord EXCEPT ![w] = TRUE]
  /\ UNCHANGED <<db, pc, cmd, polling, finished, results, since, target>>

AnalysesDone(w) ==
  /\ pc[w] = "analyzing" /\ todo[w] = {}
  /\ pc' = [pc EXCEPT ![w] = IF lostRecord[w] THEN "done" ELSE "saving"]
  /\ UNCHANGED <<db, cmd, memory, drain, faults>>

SaveAnalysis(w, u) ==
  /\ pc[w] = "saving" /\ u \in results[w]
  /\ rows' = [rows EXCEPT ![u] = Settled(u)]
  /\ results' = [results EXCEPT ![w] = @ \ {u}]
  /\ UNCHANGED <<outcome, excerpt, origin, pc, cmd, polling, todo, finished,
                 lostRecord, drain, faults>>

AnalyzeFinish(w) ==
  /\ pc[w] = "saving" /\ results[w] = {}
  /\ pc' = [pc EXCEPT ![w] = IF cmd[w] = "daily" THEN "analyze" ELSE "done"]
  /\ UNCHANGED <<db, cmd, memory, drain, faults>>

(* The selection is stored and the command ends; what is selected is the   *)
(* subject of another module.                                              *)
BuildDigest(w) == pc[w] = "digest" /\ Leave(w) /\ UNCHANGED faults

Return(w) == pc[w] = "done" /\ Leave(w) /\ UNCHANGED faults

-----------------------------------------------------------------------------
Step(w) ==
  \/ \E s \in Sources : CollectSource(w, s)
  \/ CollectFinish(w)
  \/ SelectIssues(w) \/ MarkExpanded(w)
  \/ \E i \in Roundups : ExpandIssue(w, i) \/ ExpandFails(w, i)
  \/ SelectItems(w) \/ MarkHydrated(w)
  \/ \E i \in Articles :
       \/ SkipItem(w, i)
       \/ \E u \in Urls, retrieved \in BOOLEAN : StoreItem(w, i, u, retrieved)
  \/ SelectArticles(w) \/ AnalysesDone(w) \/ AnalyzeFinish(w)
  \/ \E u \in Urls :
       AnalyzeArticle(w, u) \/ AnalysisFails(w, u) \/ RecordLost(w, u)
         \/ SaveAnalysis(w, u)
  \/ BuildDigest(w) \/ Return(w)

Next ==
  \E w \in Workers :
    \/ \E c \in Commands : StartCommand(w, c)
    \/ Step(w)
    \/ Abort(w)

Spec == Init /\ [][Next]_vars

(* A command that runs goes on: statements, model calls and requests over  *)
(* HTTP have timeouts.  A mailbox is taken to answer, since the code gives *)
(* IMAP no deadline: while a mail server is silent, nothing settles.  The  *)
(* scheduler starts a complete run again and again.                        *)
Fairness ==
  \A w \in Workers : WF_vars(Step(w)) /\ SF_vars(StartCommand(w, "daily"))

FairSpec == Spec /\ Fairness

-----------------------------------------------------------------------------
(* Properties.                                                             *)

(* A worker never attempts a row twice in one drain: "Failed rows wait for *)
(* the next run, so they cannot loop within the same drain" (job.go).  It  *)
(* needs ~ClockLag: a failure dated too early is taken again.              *)
AttemptedOnce == \A w \in Workers : todo[w] \cap attempted[w] = {}

Handled(w, r) == rows[r].done \/ rows[r].failed \/ r \in since[w]

(* When a complete run reaches its digest, every row that was waiting when *)
(* it started to drain, and every row it produced itself on the way, has   *)
(* been settled, given up or attempted since, whatever the chunk size and  *)
(* whatever other processes did meanwhile: "Drain keeps taking chunks      *)
(* until everything eligible at the start of the run has been handled".    *)
DrainComplete ==
  \A w \in Workers : pc[w] = "digest" => \A r \in target[w] : Handled(w, r)

(* No crash, error or overlap loses work: an item leaves its queue only    *)
(* when what it was turned into is stored -- its article, or the links of  *)
(* the issue (SaveArticle and SaveRawItems before MarkRawItemsProcessed).  *)
NothingLost ==
  /\ \A i \in Articles : outcome[i] \in {"stored", "duplicate"} =>
       \E u \in Landing[i] : rows[u].stored
  /\ \A i \in Roundups : outcome[i] = "expanded" =>
       \A j \in Links[i] : rows[j].stored

(* A settled row is never reported as given up, although a slower process  *)
(* may record its failure after another one succeeded: success resets the  *)
(* count, so late failures alone cannot reach the limit.  It needs fewer   *)
(* other processes than attempts.                                          *)
SettledNotGivenUp ==
  \A r \in Rows : ~(rows[r].done /\ rows[r].failed)

(* An item reported as "stored" inserted an article itself, so two items   *)
(* never both count the same article as theirs.                            *)
StoredIsCreator ==
  \A i \in Articles : outcome[i] = "stored" => \E u \in Landing[i] : origin[u] = i

(* "duplicate" means the article was known before the item came            *)
(* (domain.go): the item that created an article does not carry it, unless *)
(* a run was interrupted after SaveArticle and before the item was marked. *)
(* It is a property of one process at a time.                              *)
DuplicateWasKnown ==
  faults = 0 => \A i \in Articles, u \in Urls : origin[u] = i => outcome[i] # "duplicate"

(* "Temporary processing failures retry automatically" (README): an item   *)
(* whose page could not be retrieved stays queued until it was given up.   *)
RetrievalRetries ==
  \A u \in excerpt : ~rows[origin[u]].done \/ rows[origin[u]].failures >= MaxFailures

(* Every collected item that has work to do, and every article, is in the  *)
(* end settled or reported as failing; nothing waits for ever behind rows  *)
(* that keep failing.                                                      *)
EverythingSettles ==
  \A r \in Rows \ Provenance :
    rows[r].stored ~> (rows[r].done \/ rows[r].failed)

(* The queue this is.                                                      *)
QueueRows == Rows \ Provenance
Smaller(a, b) == IF a < b THEN a ELSE b
StatusOf(r) ==
  IF ~rows[r].stored THEN "absent"
  ELSE IF rows[r].done THEN "done"
  ELSE IF rows[r].failed THEN "failed" ELSE "queued"
ChargesOf(r) == IF rows[r].done THEN 0 ELSE Smaller(rows[r].failures, MaxFailures)

Queue == INSTANCE Backlog WITH
  Rows <- QueueRows,
  status <- [r \in QueueRows |-> StatusOf(r)],
  charges <- [r \in QueueRows |-> ChargesOf(r)]

(* Both tables are queues as Backlog promises them.                        *)
ImplementsBacklog == Queue!SafeSpec
ImplementsFairBacklog == Queue!Spec
=============================================================================
