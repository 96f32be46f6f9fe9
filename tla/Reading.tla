------------------------------ MODULE Reading ------------------------------
(***************************************************************************)
(* What the reader sees: analyses (internal/pipeline/pipeline.go), the     *)
(* digest, the archive and the mark "read" (internal/store/reading.go and  *)
(* the pages of internal/web/handlers.go).                                 *)
(*                                                                         *)
(* Runs are Ziba processes that analyse and refresh the digest.  Articles  *)
(* are numbered in the order the archive lists them, oldest first.  Time   *)
(* goes in steps, Day of them a day; a digest covers the Day steps before  *)
(* the moment it is made.                                                  *)
(*                                                                         *)
(* Ranks, wording and counts are left out, and so is the feedback on       *)
(* scores, which no query that selects articles reads.                     *)
(***************************************************************************)
EXTENDS Naturals, FiniteSets

CONSTANTS
  Stored,       \* articles collected in the end: 1..Stored
  CollectedAt,  \* article: when it is collected
  Textless,     \* articles whose page could not be read
  Runs,         \* processes, each of which runs once
  Topics,
  Levels,       \* scores and thresholds
  Verdicts,     \* article: the scores and topics the model may give it
  Choices,      \* the settings in use: threshold, interests, and the
                \* articles whose source declares its categories
  Day,
  PageSize,     \* listPageSize
  Horizon,      \* bound: time
  MaxClicks,    \* bound: articles archived or put back
  MaxSaves      \* bound: times the settings are saved

Articles == 1..Stored
Dates == 0..(Horizon \div Day)

ASSUME ReadingAssumption ==
  /\ Stored \in Nat /\ Day \in Nat \ {0} /\ PageSize \in Nat \ {0}
  /\ Horizon \in Nat /\ MaxClicks \in Nat /\ MaxSaves \in Nat
  /\ CollectedAt \in [Articles -> Nat]
  /\ Levels \subseteq Nat
  /\ Verdicts \in [Articles -> SUBSET (Levels \X Topics)]
  /\ Choices \subseteq
       [threshold : Levels, interests : SUBSET Topics, declared : SUBSET Articles]

VARIABLES
  now,
  settings,
  analysis,  \* article: what its analysis said, or Unseen
  archived,  \* articles marked read
  made,      \* the dates that have a digest
  digests,   \* date: the articles selected for it
  \* the runs
  step,      \* where a run is
  snapshot,  \* the settings its runner was built with
  inHand,    \* the article it analyses and the declaring sources it read
  end,       \* the moment its digest ends
  cleared,   \* rows of the digest its transaction has deleted
  \* one reader
  page,      \* what the reader does
  date,      \* the digest being shown
  shown,     \* the articles on the page
  offset, seen,
  \* history
  picked,    \* date: what the last transaction to commit selected
  unread,    \* articles the reader's page may list: not archived all along
  there,     \* articles of the archive when the reader began to page through it
  loose,     \* what an earlier analysis spared may be listed: see Loosens
  again,     \* an article was analysed a second time
  turned,    \* the interests changed while the reader was paging
  clicks, saves

database == <<settings, analysis, archived, made, digests, picked>>
run == <<step, snapshot, inHand, end, cleared>>
reader == <<page, date, shown, offset, seen, unread, there, turned>>
bounds == <<now, clicks, saves>>
readingVars == <<database, run, reader, bounds, loose, again>>

Unseen == [score |-> 0, topics |-> {}, summary |-> "none"]
Nothing == 0
Free == [article |-> Nothing, declared |-> FALSE]
Blank == [threshold |-> 0, interests |-> {}, declared |-> {}]

ReadingTypeOK ==
  /\ now \in 0..Horizon
  /\ settings \in Choices
  /\ analysis \in [Articles -> [score : Levels \cup {0}, topics : SUBSET Topics,
                                summary : {"none", "tried", "no text", "spared"}]]
  /\ archived \in SUBSET Articles
  /\ made \subseteq Dates /\ digests \in [Dates -> SUBSET Articles]
  /\ step \in [Runs -> {"new", "running", "analyzing", "upsert", "clear", "select", "over"}]
  /\ snapshot \in [Runs -> Choices \cup {Blank}]
  /\ inHand \in [Runs -> [article : Articles \cup {Nothing}, declared : BOOLEAN]]
  /\ end \in [Runs -> 0..Horizon]
  /\ cleared \in [Runs -> SUBSET Articles]
  /\ page \in {"none", "opened", "shown", "paging", "paged"}
  /\ date \in Dates
  /\ shown \subseteq Articles /\ seen \subseteq Articles
  /\ offset \in Nat
  /\ loose \in BOOLEAN /\ again \in BOOLEAN /\ turned \in BOOLEAN

ReadingInit ==
  /\ now = 0
  /\ settings \in Choices
  /\ analysis = [a \in Articles |-> Unseen]
  /\ archived = {}
  /\ made = {} /\ digests = [d \in Dates |-> {}] /\ picked = digests
  /\ step = [r \in Runs |-> "new"] /\ snapshot = [r \in Runs |-> Blank]
  /\ inHand = [r \in Runs |-> Free]
  /\ end = [r \in Runs |-> 0] /\ cleared = [r \in Runs |-> {}]
  /\ page = "none" /\ date = 0 /\ offset = 0
  /\ shown = {} /\ seen = {} /\ unread = {} /\ there = {}
  /\ loose = FALSE /\ again = FALSE /\ turned = FALSE
  /\ clicks = 0 /\ saves = 0

-----------------------------------------------------------------------------
Collected(a) == CollectedAt[a] <= now
Analyzed(a) == analysis[a] # Unseen

PassTime ==
  /\ now < Horizon
  /\ now' = now + 1
  /\ UNCHANGED <<database, run, reader, clicks, saves, loose, again>>

Working(r) == step[r] \notin {"new", "over"}
Spared(a) == analysis[a].summary = "spared"

(* The new settings list more, when something was spared under the old     *)
(* ones or a run that has read them is still at work.                      *)
Loosens(new) ==
  /\ new.threshold < settings.threshold \/ ~(new.declared \subseteq settings.declared)
  /\ (\E a \in Articles : Spared(a)) \/ (\E r \in Runs : Working(r))

SaveSettings ==
  /\ saves < MaxSaves
  /\ saves' = saves + 1
  /\ \E new \in Choices \ {settings} :
       /\ settings' = new
       /\ turned' = (turned \/ (page = "paging" /\ new.interests # settings.interests))
       /\ loose' = (loose \/ Loosens(new))
  /\ UNCHANGED <<analysis, archived, made, digests, picked, run, page, date, shown, offset,
                 seen, unread, there, now, clicks, again>>

-----------------------------------------------------------------------------
(* A run, in the order of Runner.runAll.                                   *)

Finish(r) ==
  /\ step' = [step EXCEPT ![r] = "over"]
  /\ snapshot' = [snapshot EXCEPT ![r] = Blank]
  /\ inHand' = [inHand EXCEPT ![r] = Free]
  /\ end' = [end EXCEPT ![r] = 0]
  /\ cleared' = [cleared EXCEPT ![r] = {}]

(* Its runner keeps the settings it was built with.  A run of a lower      *)
(* threshold still at work may list what this one spares.                  *)
StartRun(r) ==
  /\ step[r] = "new"
  /\ step' = [step EXCEPT ![r] = "running"]
  /\ snapshot' = [snapshot EXCEPT ![r] = settings]
  /\ loose' = (loose \/ \E o \in Runs : /\ Working(o)
                                       /\ snapshot[o].threshold < settings.threshold)
  /\ UNCHANGED <<database, inHand, end, cleared, reader, bounds, again>>

(* analyzeBatch: the article is read, and which sources declare their      *)
(* categories.                                                             *)
TakeArticle(r, a) ==
  /\ step[r] = "running"
  /\ Collected(a) /\ ~Analyzed(a)
  /\ step' = [step EXCEPT ![r] = "analyzing"]
  /\ inHand' = [inHand EXCEPT ![r] = [article |-> a, declared |-> a \in settings.declared]]
  /\ UNCHANGED <<database, snapshot, end, cleared, reader, bounds, loose, again>>

(* Pipeline.Analyze: without text, or below the threshold unless its       *)
(* source is always shown, an article is not summarised; a summary that    *)
(* is tried and fails costs nothing else.                                  *)
Summary(a, score, threshold, declared) ==
  CASE a \in Textless -> "no text"
    [] a \notin Textless /\ score < threshold /\ ~declared -> "spared"
    [] OTHER -> "tried"

(* Mutant: the threshold is read when the article is judged.               *)
SaveAnalysisByLatest(r) ==
  LET a == inHand[r].article IN
  /\ step[r] = "analyzing"
  /\ \E v \in Verdicts[a] :
       analysis' = [analysis EXCEPT ![a] =
         [score |-> v[1], topics |-> {v[2]},
          summary |-> Summary(a, v[1], settings.threshold, inHand[r].declared)]]
  /\ again' = (again \/ Analyzed(a))
  /\ step' = [step EXCEPT ![r] = "running"]
  /\ inHand' = [inHand EXCEPT ![r] = Free]
  /\ UNCHANGED <<settings, archived, made, digests, picked, snapshot, end, cleared, reader,
                 bounds, loose>>

(* The model's verdict is stored by SaveAnalysis.                          *)
SaveAnalysis(r) ==
  LET a == inHand[r].article IN
  /\ step[r] = "analyzing"
  /\ \E v \in Verdicts[a] :
       analysis' = [analysis EXCEPT ![a] =
         [score |-> v[1], topics |-> {v[2]},
          summary |-> Summary(a, v[1], snapshot[r].threshold, inHand[r].declared)]]
  /\ again' = (again \/ Analyzed(a))
  /\ step' = [step EXCEPT ![r] = "running"]
  /\ inHand' = [inHand EXCEPT ![r] = Free]
  /\ UNCHANGED <<settings, archived, made, digests, picked, snapshot, end, cleared, reader,
                 bounds, loose>>

(* Everything but the digest is done; its last moment is now.              *)
BeginDigest(r) ==
  /\ step[r] = "running"
  /\ step' = [step EXCEPT ![r] = "upsert"]
  /\ end' = [end EXCEPT ![r] = now]
  /\ UNCHANGED <<database, snapshot, inHand, cleared, reader, bounds, loose, again>>

-----------------------------------------------------------------------------
(* GenerateDigest: three statements of one transaction.                    *)

DateOf(r) == end[r] \div Day
InTransaction(r) == step[r] \in {"clear", "select"}

(* Mutant: the row of the date is not locked.                              *)
UpsertUnlocked(r) ==
  /\ step[r] = "upsert"
  /\ step' = [step EXCEPT ![r] = "clear"]
  /\ UNCHANGED <<database, snapshot, inHand, end, cleared, reader, bounds, loose, again>>

(* INSERT ... ON CONFLICT (date) DO UPDATE waits for a transaction that    *)
(* has written the row of the date.                                        *)
Upsert(r) ==
  /\ step[r] = "upsert"
  /\ \A o \in Runs : InTransaction(o) => DateOf(o) # DateOf(r)
  /\ step' = [step EXCEPT ![r] = "clear"]
  /\ UNCHANGED <<database, snapshot, inHand, end, cleared, reader, bounds, loose, again>>

Clear(r) ==
  /\ step[r] = "clear"
  /\ step' = [step EXCEPT ![r] = "select"]
  /\ cleared' = [cleared EXCEPT ![r] = digests[DateOf(r)]]
  /\ UNCHANGED <<database, snapshot, inHand, end, reader, bounds, loose, again>>

(* Analysed, of interest, and above the threshold or always shown.         *)
Listed(threshold, interests) ==
  {a \in Articles :
     /\ Collected(a) /\ Analyzed(a)
     /\ analysis[a].topics \cap interests # {}
     /\ analysis[a].score >= threshold \/ a \in settings.declared}

Selection(r) ==
  {a \in Listed(snapshot[r].threshold, snapshot[r].interests) \ archived :
     CollectedAt[a] + Day > end[r] /\ CollectedAt[a] <= end[r]}

(* The selection is inserted and committed.                                *)
SelectArticles(r) ==
  /\ step[r] = "select"
  /\ Finish(r)
  /\ made' = made \cup {DateOf(r)}
  /\ digests' = [digests EXCEPT ![DateOf(r)] = (@ \ cleared[r]) \cup Selection(r)]
  /\ picked' = [picked EXCEPT ![DateOf(r)] = Selection(r)]
  /\ UNCHANGED <<settings, analysis, archived, reader, bounds, loose, again>>

(* The process ends or fails; a transaction is rolled back.                *)
Stop(r) ==
  /\ Working(r)
  /\ Finish(r)
  /\ UNCHANGED <<database, reader, bounds, loose, again>>

-----------------------------------------------------------------------------
(* The reader.                                                             *)

(* handleArchive, from any page of the reader.                             *)
SetArchived(a, away) ==
  /\ Collected(a) /\ clicks < MaxClicks
  /\ clicks' = clicks + 1
  /\ archived' = IF away THEN archived \cup {a} ELSE archived \ {a}
  /\ unread' = IF page = "opened" /\ ~away THEN unread \cup {a} ELSE unread
  /\ UNCHANGED <<settings, analysis, made, digests, picked, run, page, date, shown, offset,
                 seen, there, turned, now, saves, loose, again>>

(* LatestDigest is two queries: the date, then its articles.               *)
OpenDigest ==
  /\ page = "none"
  /\ page' = "opened"
  /\ date' \in {d \in made : \A o \in made : o <= d}
  /\ unread' = Articles \ archived
  /\ UNCHANGED <<database, run, shown, offset, seen, there, turned, bounds, loose, again>>

ShowDigest ==
  /\ page = "opened"
  /\ page' = "shown"
  /\ shown' = digests[date] \ archived
  /\ UNCHANGED <<database, run, date, offset, seen, unread, there, turned, bounds, loose,
                 again>>

(* Mutant: what has been read is not in the archive.                       *)
ArchiveUnread ==
  {a \in Articles \ archived : Collected(a) /\ analysis[a].topics \cap settings.interests # {}}

(* Archive: whatever its score, read or not.                               *)
Archive ==
  {a \in Articles : Collected(a) /\ analysis[a].topics \cap settings.interests # {}}

(* LIMIT and OFFSET, newest first.                                         *)
PageAt(list, from) ==
  {a \in list : Cardinality({b \in list : b > a}) \in from..(from + PageSize - 1)}

(* handleArchiveAll, followed by its link "Older" while pages are full.    *)
NextPage ==
  /\ page \in {"none", "paging"}
  /\ LET articles == PageAt(Archive, offset) IN
       /\ seen' = seen \cup articles
       /\ page' = IF Cardinality(articles) = PageSize THEN "paging" ELSE "paged"
       /\ offset' = offset + PageSize
  /\ there' = IF page = "none" THEN Archive ELSE there
  /\ UNCHANGED <<database, run, date, shown, unread, turned, bounds, loose, again>>

Leave ==
  /\ page \in {"shown", "paged"}
  /\ page' = "none" /\ date' = 0 /\ shown' = {} /\ offset' = 0 /\ seen' = {}
  /\ unread' = {} /\ there' = {} /\ turned' = FALSE
  /\ UNCHANGED <<database, run, bounds, loose, again>>

-----------------------------------------------------------------------------
Judging ==
  \/ PassTime \/ SaveSettings \/ Leave
  \/ \E a \in Articles, away \in BOOLEAN : SetArchived(a, away)
  \/ \E r \in Runs :
       StartRun(r) \/ (\E a \in Articles : TakeArticle(r, a)) \/ SaveAnalysis(r) \/ Stop(r)

Digesting ==
  \/ OpenDigest \/ ShowDigest
  \/ \E r \in Runs : BeginDigest(r) \/ Upsert(r) \/ Clear(r) \/ SelectArticles(r)

ReadingNext == Judging \/ Digesting \/ NextPage

ReadingSpec == ReadingInit /\ [][ReadingNext]_readingVars

-----------------------------------------------------------------------------
(* A digest is what one transaction selected, never the rows of two, even  *)
(* when two processes refresh the same date at once.  And the page lists   *)
(* of it nothing that was archived all the while the page was loading      *)
(* ("marking an article read must take it off today's page now").          *)
OneSelection ==
  /\ digests = picked
  /\ page = "shown" => shown \subseteq unread

(* Paging through the archive to its end shows every article that was      *)
(* there at the start, though the pages are cut by OFFSET from a list that *)
(* changes: what is added moves articles to later pages only, and marking  *)
(* articles read does not remove them.                                     *)
NoneSkipped ==
  page = "paged" /\ ~turned /\ ~again => there \subseteq seen

(* Every listed article has a summary, unless its text or the summary      *)
(* could not be had: what the analysis spares is what the pages leave out  *)
(* ("leaving it out would put an article on the page with nothing to read  *)
(* beneath it").  So it is though an article is judged at one moment and   *)
(* listed at another, by a threshold read when the run began and declared  *)
(* sources read in between, while the settings change.  Three things undo  *)
(* it: settings that list more, saved once something was spared or while   *)
(* a run works; a run begun after the threshold was raised, beside one     *)
(* begun before; an article that two runs judge.                           *)
SummaryShown ==
  ~loose /\ ~again =>
    \A a \in Listed(settings.threshold, settings.interests)
             \cup UNION {digests[d] : d \in Dates} : ~Spared(a)
=============================================================================
