--------------------------- MODULE PipelineProofs ---------------------------
(***************************************************************************)
(* Theorems about Pipeline and Statistics, for every set of workers,       *)
(* sources, items and addresses, every chunk size and every bound on       *)
(* failures and faults.                                                    *)
(***************************************************************************)
EXTENDS Statistics, FiniteSetTheorems, TLAPS

USE DataAssumption, BoundsAssumption

-----------------------------------------------------------------------------
(* What the statements of the store do to a row.                           *)

LEMMA StoredRow ==
  ASSUME NEW x \in RowState
  PROVE  [x EXCEPT !.stored = TRUE] \in RowState
BY DEF RowState

LEMMA SettledRow ==
  ASSUME TypeOK, NEW r \in Rows
  PROVE  Settled(r) \in RowState
<1>1. rows[r] \in RowState
  BY DEF TypeOK
<1>. QED BY <1>1 DEF RowState, Settled

LEMMA ChargedRow ==
  ASSUME TypeOK, NEW r \in Rows
  PROVE  Charged(r) \in RowState
<1>1. rows[r] \in RowState
  BY DEF TypeOK
<1>2. rows[r].failures + 1 \in Nat
  BY <1>1 DEF RowState
<1>3. (rows[r].failures + 1 >= MaxFailures) \in BOOLEAN
  BY SMT
<1>. QED BY ONLY <1>1, <1>2, <1>3, Zenon DEF RowState, Charged

LEMMA InsertType ==
  ASSUME TypeOK, NEW S, Insert(S)
  PROVE  rows' \in [Rows -> RowState]
<1>1. rows \in [Rows -> RowState]
  BY DEF TypeOK
<1>. QED BY <1>1, StoredRow DEF Insert

LEMMA RecordFailureType ==
  ASSUME TypeOK, NEW r \in Rows, RecordFailure(r)
  PROVE  /\ rows' \in [Rows -> RowState]
         /\ since' \in [Workers -> SUBSET Rows]
<1>1. rows' \in [Rows -> RowState]
  <2>1. rows \in [Rows -> RowState]
    BY DEF TypeOK
  <2>. QED BY <2>1, ChargedRow DEF RecordFailure
<1>2. since' \in [Workers -> SUBSET Rows]
  BY DEF TypeOK, RecordFailure
<1>. QED BY <1>1, <1>2

LEMMA MarkType ==
  ASSUME TypeOK, NEW w \in Workers, MarkProcessed(finished[w])
  PROVE  /\ rows' \in [Rows -> RowState]
         /\ outcome' \in [Items -> Outcomes \cup {None}]
<1>1. finished[w] \in [Items -> Outcomes \cup {None}]
  BY DEF TypeOK
<1>2. rows' \in [Rows -> RowState]
  <2>1. rows \in [Rows -> RowState]
    BY DEF TypeOK
  <2>. QED BY <2>1, SettledRow DEF MarkProcessed
<1>3. outcome' \in [Items -> Outcomes \cup {None}]
  BY <1>1 DEF TypeOK, MarkProcessed
<1>. QED BY <1>2, <1>3

LEMMA LeaveType ==
  ASSUME TypeOK, NEW w \in Workers, Leave(w), faults' \in 0..MaxFaults
  PROVE  TypeOK'
BY DEF TypeOK, Leave, db, Stages, NothingFinished

(* The variables keep their types.                                         *)
THEOREM TypeCorrect == Spec => []TypeOK
<1>1. Init => TypeOK
  BY DEF Init, TypeOK, RowState, NothingFinished, Stages, AllCommands
<1>2. TypeOK /\ [Next]_vars => TypeOK'
  <2>. SUFFICES ASSUME TypeOK, [Next]_vars PROVE TypeOK'
    OBVIOUS
  <2>. USE DEF db, memory, drain, Stages
  <2>1. ASSUME NEW w \in Workers, NEW c \in Commands, StartCommand(w, c)
        PROVE  TypeOK'
    <3>1. CASE c = "process"
      BY <2>1, <3>1 DEF TypeOK, StartCommand, BeginDrain, AllCommands
    <3>2. CASE c # "process"
      <4>1. /\ pc' = [pc EXCEPT ![w] = "collect"]
            /\ polling' = [polling EXCEPT ![w] = Sources]
            /\ UNCHANGED drain
        BY <2>1, <3>2 DEF StartCommand
      <4>. QED BY <2>1, <4>1 DEF TypeOK, StartCommand
    <3>. QED BY <3>1, <3>2
  <2>2. ASSUME NEW w \in Workers, NEW s \in Sources, CollectSource(w, s)
        PROVE  TypeOK'
    BY <2>2, InsertType DEF TypeOK, CollectSource
  <2>3. ASSUME NEW w \in Workers, CollectFinish(w)
        PROVE  TypeOK'
    BY <2>3 DEF TypeOK, CollectFinish, BeginDrain, Owed, Waiting, Rows, Articles
  <2>4. ASSUME NEW w \in Workers, SelectIssues(w)
        PROVE  TypeOK'
    BY <2>4 DEF TypeOK, SelectIssues, Chunks, Eligible, Waiting, Rows
  <2>5. ASSUME NEW w \in Workers, MarkExpanded(w)
        PROVE  TypeOK'
    BY <2>5, MarkType DEF TypeOK, MarkExpanded, NothingFinished
  <2>6. ASSUME NEW w \in Workers, NEW i \in Roundups, ExpandIssue(w, i)
        PROVE  TypeOK'
    BY <2>6, InsertType DEF TypeOK, ExpandIssue, Take, Rows, Articles, Outcomes
  <2>7. ASSUME NEW w \in Workers, NEW i \in Roundups, ExpandFails(w, i)
        PROVE  TypeOK'
    <3>1. i \in Rows /\ RecordFailure(i)
      BY <2>7 DEF ExpandFails, Rows
    <3>. QED BY <2>7, <3>1, RecordFailureType DEF TypeOK, ExpandFails, Take
  <2>8. ASSUME NEW w \in Workers, SelectItems(w)
        PROVE  TypeOK'
    BY <2>8 DEF TypeOK, SelectItems, Chunks, Waiting, Rows, Articles, AfterHydrate
  <2>9. ASSUME NEW w \in Workers, MarkHydrated(w)
        PROVE  TypeOK'
    BY <2>9, MarkType DEF TypeOK, MarkHydrated, NothingFinished
  <2>10. ASSUME NEW w \in Workers, NEW i \in Articles, SkipItem(w, i)
        PROVE  TypeOK'
    BY <2>10 DEF TypeOK, SkipItem, Take, Rows, Articles, Outcomes
  <2>11. ASSUME NEW w \in Workers, NEW i \in Articles, NEW u \in Urls,
                NEW retrieved \in BOOLEAN, StoreItem(w, i, u, retrieved)
        PROVE  TypeOK'
    <3>1. rows' \in [Rows -> RowState]
      BY <2>11, InsertType DEF StoreItem
    <3>2. finished' \in [Workers -> [Items -> Outcomes \cup {None}]]
      <4>1. PICK o \in {"duplicate", "stored"} :
              finished' = [finished EXCEPT ![w][i] = o]
        BY <2>11 DEF StoreItem
      <4>2. o \in Outcomes /\ i \in Items
        BY DEF Outcomes, Articles
      <4>. QED BY <4>1, <4>2 DEF TypeOK
    <3>3. origin' \in [Urls -> Items \cup {None}] /\ excerpt' \subseteq Urls
      BY <2>11 DEF TypeOK, StoreItem, Articles
    <3>4. /\ todo' \in [Workers -> SUBSET Rows]
          /\ attempted' \in [Workers -> SUBSET Rows]
          /\ target' \in [Workers -> SUBSET Rows]
      BY <2>11 DEF TypeOK, StoreItem, Take, Rows, Articles
    <3>. QED BY <2>11, <3>1, <3>2, <3>3, <3>4 DEF TypeOK, StoreItem
  <2>12. ASSUME NEW w \in Workers, SelectArticles(w)
        PROVE  TypeOK'
    BY <2>12 DEF TypeOK, SelectArticles, Chunks, Eligible, Waiting, Rows
  <2>13. ASSUME NEW w \in Workers, AnalysesDone(w) \/ AnalyzeFinish(w)
        PROVE  TypeOK'
    BY <2>13 DEF TypeOK, AnalysesDone, AnalyzeFinish
  <2>14. ASSUME NEW w \in Workers, NEW u \in Urls, AnalyzeArticle(w, u)
        PROVE  TypeOK'
    BY <2>14 DEF TypeOK, AnalyzeArticle, Take, Rows
  <2>15. ASSUME NEW w \in Workers, NEW u \in Urls, AnalysisFails(w, u)
        PROVE  TypeOK'
    BY <2>15, RecordFailureType DEF TypeOK, AnalysisFails, Take, Rows
  <2>16. ASSUME NEW w \in Workers, NEW u \in Urls, RecordLost(w, u)
        PROVE  TypeOK'
    BY <2>16 DEF TypeOK, RecordLost, Take, Rows
  <2>17. ASSUME NEW w \in Workers, NEW u \in Urls, SaveAnalysis(w, u)
        PROVE  TypeOK'
    <3>1. rows' \in [Rows -> RowState]
      <4>1. rows \in [Rows -> RowState]
        BY DEF TypeOK
      <4>. QED BY <2>17, <4>1, SettledRow DEF SaveAnalysis
    <3>. QED BY <2>17, <3>1 DEF TypeOK, SaveAnalysis
  <2>18. ASSUME NEW w \in Workers, BuildDigest(w) \/ Return(w) \/ Abort(w)
        PROVE  TypeOK'
    BY <2>18, LeaveType DEF BuildDigest, Return, Abort, TypeOK
  <2>19. CASE UNCHANGED vars
    BY <2>19 DEF TypeOK, vars
  <2>. QED
    BY <2>1, <2>2, <2>3, <2>4, <2>5, <2>6, <2>7, <2>8, <2>9, <2>10, <2>11,
       <2>12, <2>13, <2>14, <2>15, <2>16, <2>17, <2>18, <2>19
       DEF Next, Step
<1>. QED BY <1>1, <1>2, PTL DEF Spec

-----------------------------------------------------------------------------
(* What a worker holds in memory, and what the database already has of it. *)

(* Chunks hold rows of the kind of their stage, and nothing in memory      *)
(* outlives its stage.                                                     *)
MemoryShape ==
  \A w \in Workers :
    /\ todo[w] # {} => pc[w] \in {"expanding", "hydrating", "analyzing"}
    /\ pc[w] = "expanding" => todo[w] \subseteq Roundups
    /\ pc[w] = "hydrating" => todo[w] \subseteq Articles
    /\ pc[w] = "analyzing" => todo[w] \subseteq Urls
    /\ \A i \in Items : finished[w][i] # None => pc[w] \in {"expanding", "hydrating"}
    /\ results[w] # {} => pc[w] \in {"analyzing", "saving", "done"}
    /\ lostRecord[w] => pc[w] \in {"analyzing", "done"}
    /\ pc[w] \in {"idle", "collect"} => attempted[w] = {} /\ target[w] = {}

(* What an item became is stored before the item is marked.                *)
SavedBeforeMarked ==
  /\ \A w \in Workers, i \in Articles :
       finished[w][i] \in {"stored", "duplicate"} => \E u \in Landing[i] : rows[u].stored
  /\ \A w \in Workers, i \in Roundups :
       finished[w][i] = "expanded" => \A j \in Links[i] : rows[j].stored

(* An item about to be called "stored" is the one that created an article. *)
CreatorKnown ==
  /\ \A u \in Urls : origin[u] # None => rows[u].stored
  /\ \A w \in Workers, i \in Articles :
       finished[w][i] = "stored" => \E u \in Landing[i] : origin[u] = i

(* Why a row that was attempted in this drain is not selected again.       *)
Remembered(w, r) ==
  \/ rows[r].done
  \/ r \in since[w] /\ r \notin Articles
  \/ r \in Items /\ finished[w][r] # None
  \/ r \in results[w]
  \/ lostRecord[w]

Once(w) ==
  /\ todo[w] \cap attempted[w] = {}
  /\ \A r \in attempted[w] : Remembered(w, r)

(* A drain leaves a stage only when it found its queue empty, so in later  *)
(* stages nothing it owes is still waiting in the queues of earlier ones.  *)
Later == {"hydrate", "hydrating", "analyze", "analyzing", "saving", "digest"}
Last == {"analyze", "analyzing", "saving", "digest"}

Owes(w) ==
  /\ target[w] \subseteq Roundups \cup Articles \cup Urls
  /\ \A r \in target[w] : rows[r].stored
  /\ target[w] # {} => cmd[w] \in Drains
  /\ target[w] \cap Urls # {} => cmd[w] = "daily"
  /\ pc[w] \in Later => \A r \in target[w] \cap Roundups : Handled(w, r)
  /\ pc[w] \in Last => \A r \in target[w] \cap Articles : Handled(w, r)
  /\ pc[w] = "digest" => \A r \in target[w] \cap Urls : Handled(w, r)

(* failed_at is set only when the attempts are used up.                    *)
FailedIsExhausted ==
  \A r \in Rows : rows[r].failed => rows[r].failures >= MaxFailures

-----------------------------------------------------------------------------
(* The steps by what they do to the database and to the chunk in memory.   *)

(* Steps that touch neither the rows nor the outcomes in memory.           *)
Quiet == UNCHANGED <<rows, outcome, origin, finished>>

LEMMA StepKinds ==
  ASSUME TypeOK, [Next]_vars
  PROVE  \/ Quiet
         \/ \E w \in Workers, s \in Sources : CollectSource(w, s)
         \/ \E w \in Workers, i \in Roundups : ExpandIssue(w, i) \/ ExpandFails(w, i)
         \/ \E w \in Workers : MarkExpanded(w) \/ MarkHydrated(w)
         \/ \E w \in Workers, i \in Articles : SkipItem(w, i)
         \/ \E w \in Workers, i \in Articles, u \in Urls, b \in BOOLEAN : StoreItem(w, i, u, b)
         \/ \E w \in Workers, u \in Urls : AnalysisFails(w, u) \/ SaveAnalysis(w, u)
         \/ \E w \in Workers : Leave(w)
<1>. USE DEF db, memory, drain, Quiet
<1>1. ASSUME NEW w \in Workers, NEW c \in Commands, StartCommand(w, c)
      PROVE  Quiet
  BY <1>1 DEF StartCommand
<1>2. ASSUME NEW w \in Workers,
             \/ CollectFinish(w) \/ SelectIssues(w) \/ SelectItems(w)
             \/ SelectArticles(w) \/ AnalysesDone(w) \/ AnalyzeFinish(w)
      PROVE  Quiet
  BY <1>2 DEF CollectFinish, SelectIssues, SelectItems, SelectArticles,
              AnalysesDone, AnalyzeFinish
<1>3. ASSUME NEW w \in Workers, NEW u \in Urls, AnalyzeArticle(w, u) \/ RecordLost(w, u)
      PROVE  Quiet
  BY <1>3 DEF AnalyzeArticle, RecordLost
<1>4. ASSUME NEW w \in Workers, BuildDigest(w) \/ Return(w) \/ Abort(w)
      PROVE  Leave(w)
  BY <1>4 DEF BuildDigest, Return, Abort
<1>5. CASE UNCHANGED vars
  BY <1>5 DEF vars
<1>. QED BY <1>1, <1>2, <1>3, <1>4, <1>5 DEF Next, Step

(* The effect of each statement on a row, column by column.                *)
LEMMA FieldsKept ==
  ASSUME TypeOK, NEW r \in Rows
  PROVE  /\ [rows[r] EXCEPT !.stored = TRUE].stored
         /\ [rows[r] EXCEPT !.stored = TRUE].done = rows[r].done
         /\ [rows[r] EXCEPT !.stored = TRUE].failed = rows[r].failed
         /\ [rows[r] EXCEPT !.stored = TRUE].failures = rows[r].failures
         /\ Settled(r).stored = rows[r].stored
         /\ Settled(r).done
         /\ Settled(r).failed = FALSE
         /\ Settled(r).failures = 0
         /\ Charged(r).stored = rows[r].stored
         /\ Charged(r).done = rows[r].done
         /\ Charged(r).failed = (rows[r].failures + 1 >= MaxFailures)
         /\ Charged(r).failures = rows[r].failures + 1
<1>1. rows[r] \in RowState
  BY DEF TypeOK
<1>. QED BY <1>1 DEF RowState, Settled, Charged

LEMMA InsertEffect ==
  ASSUME TypeOK, NEW S, Insert(S), NEW r \in Rows
  PROVE  /\ rows'[r].stored <=> rows[r].stored \/ r \in S
         /\ rows'[r].done = rows[r].done
         /\ rows'[r].failed = rows[r].failed
         /\ rows'[r].failures = rows[r].failures
<1>1. CASE r \in S
  <2>1. rows'[r] = [rows[r] EXCEPT !.stored = TRUE]
    BY <1>1 DEF Insert
  <2>. QED BY <1>1, <2>1, FieldsKept, Zenon
<1>2. CASE r \notin S
  BY <1>2 DEF Insert
<1>. QED BY <1>1, <1>2

LEMMA MarkEffect ==
  ASSUME TypeOK, NEW d, MarkProcessed(d), NEW r \in Rows
  PROVE  /\ rows'[r].stored = rows[r].stored
         /\ rows'[r].done <=> rows[r].done \/ (r \in Items /\ d[r] # None)
         /\ ~(r \in Items /\ d[r] # None) => rows'[r] = rows[r]
         /\ r \in Items /\ d[r] # None => ~rows'[r].failed /\ rows'[r].failures = 0
<1>1. CASE r \in Items /\ d[r] # None
  <2>1. rows'[r] = Settled(r)
    BY <1>1 DEF MarkProcessed
  <2>. QED BY <1>1, <2>1, FieldsKept, Zenon
<1>2. CASE ~(r \in Items /\ d[r] # None)
  <2>1. rows'[r] = rows[r]
    BY <1>2 DEF MarkProcessed
  <2>. QED BY <1>2, <2>1, Zenon
<1>. QED BY <1>1, <1>2

LEMMA ChargeEffect ==
  ASSUME TypeOK, NEW q \in Rows, RecordFailure(q), NEW r \in Rows
  PROVE  /\ rows'[r].stored = rows[r].stored
         /\ rows'[r].done = rows[r].done
         /\ r # q => rows'[r] = rows[r]
         /\ r = q => /\ rows'[r].failures = rows[r].failures + 1
                    /\ rows'[r].failed = (rows[r].failures + 1 >= MaxFailures)
<1>1. CASE r = q
  <2>1. rows'[r] = Charged(r)
    BY <1>1 DEF RecordFailure, TypeOK
  <2>. QED BY <1>1, <2>1, FieldsKept, Zenon
<1>2. CASE r # q
  <2>1. rows'[r] = rows[r]
    BY <1>2 DEF RecordFailure, TypeOK
  <2>. QED BY <1>2, <2>1, Zenon
<1>. QED BY <1>1, <1>2

LEMMA SaveEffect ==
  ASSUME TypeOK, NEW w \in Workers, NEW u \in Urls, SaveAnalysis(w, u), NEW r \in Rows
  PROVE  /\ rows'[r].stored = rows[r].stored
         /\ r # u => rows'[r] = rows[r]
         /\ r = u => rows'[r].done /\ ~rows'[r].failed /\ rows'[r].failures = 0
<1>1. CASE r = u
  <2>1. rows'[r] = Settled(r)
    BY <1>1 DEF SaveAnalysis, TypeOK
  <2>. QED BY <1>1, <2>1, FieldsKept, Zenon
<1>2. CASE r # u
  <2>1. rows'[r] = rows[r]
    BY <1>2 DEF SaveAnalysis, TypeOK
  <2>. QED BY <1>2, <2>1, Zenon
<1>. QED BY <1>1, <1>2

(* Rows are never deleted.                                                 *)
LEMMA StoredForever ==
  ASSUME TypeOK, [Next]_vars
  PROVE  \A r \in Rows : rows[r].stored => rows'[r].stored
<1>. SUFFICES ASSUME NEW r \in Rows, rows[r].stored PROVE rows'[r].stored
  OBVIOUS
<1>1. CASE Quiet
  BY <1>1 DEF Quiet
<1>2. ASSUME NEW S, Insert(S) PROVE rows'[r].stored
  BY <1>2, InsertEffect
<1>3. ASSUME NEW d, MarkProcessed(d) PROVE rows'[r].stored
  BY <1>3, MarkEffect
<1>4. ASSUME NEW q \in Rows, RecordFailure(q) PROVE rows'[r].stored
  BY <1>4, ChargeEffect
<1>5. ASSUME NEW w \in Workers, NEW u \in Urls, SaveAnalysis(w, u)
      PROVE  rows'[r].stored
  BY <1>5, SaveEffect
<1>6. ASSUME NEW w \in Workers, Leave(w) PROVE rows'[r].stored
  BY <1>6 DEF Leave, db
<1>7. Roundups \subseteq Rows /\ Urls \subseteq Rows
  BY DEF Rows
<1>. QED
  BY <1>1, <1>2, <1>3, <1>4, <1>5, <1>6, <1>7, StepKinds
     DEF CollectSource, ExpandIssue, ExpandFails, MarkExpanded, MarkHydrated,
         SkipItem, StoreItem, AnalysisFails, db

-----------------------------------------------------------------------------
(* No work is lost, and "stored" names the creator.                        *)

SavedInv == /\ SavedBeforeMarked /\ NothingLost
            /\ CreatorKnown /\ StoredIsCreator

(* A step that neither finishes nor marks an item keeps SavedInv.          *)
LEMMA SavedFrame ==
  ASSUME TypeOK, SavedInv, [Next]_vars, UNCHANGED <<outcome, origin>>,
         \A w \in Workers, i \in Items : finished'[w][i] \in {finished[w][i], None}
  PROVE  SavedInv'
<1>1. \A i \in Articles : \A u \in Landing[i] : u \in Rows
  BY DEF Rows
<1>2. \A i \in Roundups : \A j \in Links[i] : j \in Rows
  BY DEF Rows, Articles
<1>3. Articles \subseteq Items /\ Roundups \subseteq Items /\ Urls \subseteq Rows
  BY DEF Articles, Rows
<1>4. None \notin {"stored", "duplicate", "expanded"}
  BY DEF None
<1>5. SavedBeforeMarked'
  BY <1>1, <1>2, <1>3, <1>4, StoredForever DEF SavedInv, SavedBeforeMarked
<1>6. NothingLost'
  BY <1>1, <1>2, StoredForever DEF SavedInv, NothingLost
<1>7. CreatorKnown'
  BY <1>3, <1>4, StoredForever DEF SavedInv, CreatorKnown
<1>8. StoredIsCreator'
  BY DEF SavedInv, StoredIsCreator
<1>. QED BY <1>5, <1>6, <1>7, <1>8 DEF SavedInv

LEMMA SavedStep == TypeOK /\ SavedInv /\ [Next]_vars => SavedInv'
<1>. SUFFICES ASSUME TypeOK, SavedInv, [Next]_vars PROVE SavedInv'
  OBVIOUS
<1>0. /\ \A i \in Articles : \A u \in Landing[i] : u \in Rows
      /\ \A i \in Roundups : \A j \in Links[i] : j \in Rows
      /\ Articles \subseteq Items /\ Roundups \subseteq Items /\ Urls \subseteq Rows
      /\ Articles \cap Roundups = {}
  BY DEF Articles, Rows
<1>1. CASE Quiet
  BY <1>1, SavedFrame DEF Quiet
<1>2. ASSUME NEW w \in Workers, NEW s \in Sources, CollectSource(w, s)
      PROVE  SavedInv'
  BY <1>2, SavedFrame DEF CollectSource
<1>3. ASSUME NEW w \in Workers, NEW i \in Roundups, ExpandIssue(w, i)
      PROVE  SavedInv'
  <2>1. \A j \in Links[i] : rows'[j].stored
    BY <1>0, <1>3, InsertEffect DEF ExpandIssue
  <2>2. \A v \in Workers, j \in Items :
          finished'[v][j] = IF v = w /\ j = i THEN "expanded" ELSE finished[v][j]
    BY <1>3 DEF ExpandIssue, TypeOK
  <2>3. SavedBeforeMarked'
    BY <1>0, <2>1, <2>2, StoredForever DEF SavedInv, SavedBeforeMarked
  <2>4. NothingLost' /\ StoredIsCreator'
    BY <1>0, <1>3, StoredForever DEF SavedInv, NothingLost, StoredIsCreator, ExpandIssue
  <2>5. CreatorKnown'
    BY <1>0, <1>3, <2>2, StoredForever DEF SavedInv, CreatorKnown, ExpandIssue
  <2>. QED BY <2>3, <2>4, <2>5 DEF SavedInv
<1>4. ASSUME NEW w \in Workers, NEW i \in Roundups, ExpandFails(w, i)
      PROVE  SavedInv'
  BY <1>4, SavedFrame DEF ExpandFails
<1>5. ASSUME NEW w \in Workers, MarkExpanded(w) \/ MarkHydrated(w)
      PROVE  SavedInv'
  <2>1. /\ origin' = origin
        /\ \A v \in Workers, j \in Items : finished'[v][j] \in {finished[v][j], None}
    <3>1. origin' = origin /\ finished' = [finished EXCEPT ![w] = NothingFinished]
      BY <1>5 DEF MarkExpanded, MarkHydrated
    <3>. QED BY <3>1 DEF TypeOK, NothingFinished
  <2>2. \A j \in Items : outcome'[j] \in {outcome[j], finished[w][j]}
    BY <1>5 DEF MarkExpanded, MarkHydrated, MarkProcessed, TypeOK
  <2>3. None \notin {"stored", "duplicate", "expanded"}
    BY DEF None
  <2>4. SavedBeforeMarked'
    BY <1>0, <2>1, <2>3, StoredForever DEF SavedInv, SavedBeforeMarked
  <2>5. NothingLost'
    BY <1>0, <2>2, StoredForever DEF SavedInv, SavedBeforeMarked, NothingLost
  <2>6. CreatorKnown'
    BY <1>0, <2>1, <2>3, StoredForever DEF SavedInv, CreatorKnown
  <2>7. StoredIsCreator'
    BY <1>0, <2>1, <2>2 DEF SavedInv, CreatorKnown, StoredIsCreator
  <2>. QED BY <2>4, <2>5, <2>6, <2>7 DEF SavedInv
<1>6. ASSUME NEW w \in Workers, NEW i \in Articles, SkipItem(w, i)
      PROVE  SavedInv'
  <2>1. \A v \in Workers, j \in Items :
          finished'[v][j] = IF v = w /\ j = i THEN "skipped" ELSE finished[v][j]
    BY <1>6 DEF SkipItem, TypeOK
  <2>2. UNCHANGED <<rows, outcome, origin>>
    BY <1>6 DEF SkipItem, db
  <2>. QED
    BY <1>0, <2>1, <2>2 DEF SavedInv, SavedBeforeMarked, NothingLost,
                            CreatorKnown, StoredIsCreator
<1>7. ASSUME NEW w \in Workers, NEW i \in Articles, NEW u \in Urls, NEW b \in BOOLEAN,
             StoreItem(w, i, u, b)
      PROVE  SavedInv'
  <2>1. rows'[u].stored /\ u \in Landing[i]
    BY <1>0, <1>7, InsertEffect DEF StoreItem
  <2>2. UNCHANGED outcome
    BY <1>7 DEF StoreItem
  <2>3. CASE rows[u].stored
    <3>1. \A v \in Workers, j \in Items :
            finished'[v][j] = IF v = w /\ j = i THEN "duplicate" ELSE finished[v][j]
      BY <1>7, <2>3 DEF StoreItem, TypeOK
    <3>2. origin' = origin
      BY <1>7, <2>3 DEF StoreItem
    <3>3. SavedBeforeMarked'
      BY <1>0, <2>1, <3>1, StoredForever DEF SavedInv, SavedBeforeMarked
    <3>4. NothingLost' /\ StoredIsCreator'
      BY <1>0, <2>2, <3>2, StoredForever DEF SavedInv, NothingLost, StoredIsCreator
    <3>5. CreatorKnown'
      BY <1>0, <3>1, <3>2, StoredForever DEF SavedInv, CreatorKnown
    <3>. QED BY <3>3, <3>4, <3>5 DEF SavedInv
  <2>4. CASE ~rows[u].stored
    <3>1. \A v \in Workers, j \in Items :
            finished'[v][j] = IF v = w /\ j = i THEN "stored" ELSE finished[v][j]
      BY <1>7, <2>4 DEF StoreItem, TypeOK
    <3>2. origin' = [origin EXCEPT ![u] = i]
      BY <1>7, <2>4 DEF StoreItem
    <3>3. origin[u] = None
      BY <2>4 DEF SavedInv, CreatorKnown
    <3>4. \A v \in Urls : origin'[v] = IF v = u THEN i ELSE origin[v]
      BY <3>2 DEF TypeOK
    <3>5. SavedBeforeMarked'
      BY <1>0, <2>1, <3>1, StoredForever DEF SavedInv, SavedBeforeMarked
    <3>6. NothingLost'
      BY <1>0, <2>2, StoredForever DEF SavedInv, NothingLost
    <3>7. \A j \in Articles :
            (\E v \in Landing[j] : origin[v] = j) => \E v \in Landing[j] : origin'[v] = j
      BY <1>0, <3>3, <3>4
    <3>8. CreatorKnown'
      BY <1>0, <2>1, <3>1, <3>4, <3>7, StoredForever DEF SavedInv, CreatorKnown
    <3>9. StoredIsCreator'
      BY <2>2, <3>7 DEF SavedInv, StoredIsCreator
    <3>. QED BY <3>5, <3>6, <3>8, <3>9 DEF SavedInv
  <2>. QED BY <2>3, <2>4
<1>8. ASSUME NEW w \in Workers, NEW u \in Urls, AnalysisFails(w, u) \/ SaveAnalysis(w, u)
      PROVE  SavedInv'
  BY <1>8, SavedFrame DEF AnalysisFails, SaveAnalysis
<1>9. ASSUME NEW w \in Workers, Leave(w)
      PROVE  SavedInv'
  BY <1>9, SavedFrame DEF Leave, db, TypeOK, NothingFinished
<1>. QED
  BY <1>1, <1>2, <1>3, <1>4, <1>5, <1>6, <1>7, <1>8, <1>9, StepKinds

LEMMA SavedInit == Init => SavedInv
<1>. SUFFICES ASSUME Init PROVE SavedInv
  OBVIOUS
<1>1. /\ \A i \in Items : outcome[i] = "none"
      /\ \A w \in Workers, i \in Items : finished[w][i] = "none"
      /\ \A u \in Urls : origin[u] = None
  BY DEF Init, NothingFinished, None
<1>2. Articles \subseteq Items /\ Roundups \subseteq Items
  BY DEF Articles
<1>. QED
  BY <1>1, <1>2 DEF SavedInv, SavedBeforeMarked, NothingLost, CreatorKnown, StoredIsCreator

(* No crash, error or overlap of processes loses a collected item: what an *)
(* item was turned into is stored whenever the item is out of its queue.   *)
THEOREM NothingIsLost == Spec => []NothingLost
<1>1. SavedInv => NothingLost
  BY DEF SavedInv
<1>. QED BY <1>1, SavedInit, SavedStep, TypeCorrect, PTL DEF Spec

(* Two items never both claim to have created the same article.            *)
THEOREM StoredNamesCreator == Spec => []StoredIsCreator
<1>1. SavedInv => StoredIsCreator
  BY DEF SavedInv
<1>. QED BY <1>1, SavedInit, SavedStep, TypeCorrect, PTL DEF Spec

-----------------------------------------------------------------------------
(* What workers hold in memory.                                            *)

LEMMA MemoryShapeStep == TypeOK /\ MemoryShape /\ [Next]_vars => MemoryShape'
<1>. SUFFICES ASSUME TypeOK, MemoryShape, [Next]_vars PROVE MemoryShape'
  OBVIOUS
<1>. USE DEF MemoryShape, db, memory, drain
<1>1. ASSUME NEW w \in Workers, NEW c \in Commands, StartCommand(w, c)
      PROVE  MemoryShape'
  <2>1. CASE c = "process"
    <3>1. /\ pc' = [pc EXCEPT ![w] = "analyze"] /\ pc[w] = "idle"
          /\ target' = [target EXCEPT ![w] = {}]
          /\ attempted' = [attempted EXCEPT ![w] = {}]
          /\ UNCHANGED <<todo, finished, results, lostRecord>>
      BY <1>1, <2>1 DEF StartCommand, BeginDrain
    <3>. QED BY <3>1 DEF TypeOK
  <2>2. CASE c # "process"
    <3>1. /\ pc' = [pc EXCEPT ![w] = "collect"] /\ pc[w] = "idle"
          /\ UNCHANGED <<todo, finished, results, lostRecord, attempted, target>>
      BY <1>1, <2>2 DEF StartCommand
    <3>. QED BY <3>1 DEF TypeOK
  <2>. QED BY <2>1, <2>2
<1>2. ASSUME NEW w \in Workers, NEW s \in Sources, CollectSource(w, s)
      PROVE  MemoryShape'
  BY <1>2 DEF CollectSource
<1>3. ASSUME NEW w \in Workers, CollectFinish(w)
      PROVE  MemoryShape'
  BY <1>3 DEF CollectFinish, BeginDrain, TypeOK
<1>4. ASSUME NEW w \in Workers, SelectIssues(w)
      PROVE  MemoryShape'
  BY <1>4 DEF SelectIssues, Chunks, Eligible, Waiting, TypeOK
<1>5. ASSUME NEW w \in Workers, MarkExpanded(w)
      PROVE  MemoryShape'
  <2>1. \A i \in Items : NothingFinished[i] = None
    BY DEF NothingFinished
  <2>. QED BY <1>5, <2>1 DEF MarkExpanded, TypeOK
<1>6. ASSUME NEW w \in Workers, NEW i \in Roundups, ExpandIssue(w, i)
      PROVE  MemoryShape'
  BY <1>6 DEF ExpandIssue, Take, TypeOK
<1>7. ASSUME NEW w \in Workers, NEW i \in Roundups, ExpandFails(w, i)
      PROVE  MemoryShape'
  BY <1>7 DEF ExpandFails, Take, TypeOK
<1>8. ASSUME NEW w \in Workers, SelectItems(w)
      PROVE  MemoryShape'
  BY <1>8 DEF SelectItems, Chunks, Waiting, AfterHydrate, TypeOK
<1>9. ASSUME NEW w \in Workers, MarkHydrated(w)
      PROVE  MemoryShape'
  <2>1. \A i \in Items : NothingFinished[i] = None
    BY DEF NothingFinished
  <2>. QED BY <1>9, <2>1 DEF MarkHydrated, TypeOK
<1>10. ASSUME NEW w \in Workers, NEW i \in Articles, SkipItem(w, i)
      PROVE  MemoryShape'
  <2>1. \A v \in Workers, j \in Items :
          finished'[v][j] = IF v = w /\ j = i THEN "skipped" ELSE finished[v][j]
    BY <1>10 DEF SkipItem, TypeOK
  <2>. QED BY <1>10, <2>1 DEF SkipItem, Take, TypeOK
<1>11. ASSUME NEW w \in Workers, NEW i \in Articles, NEW u \in Urls, NEW b \in BOOLEAN,
              StoreItem(w, i, u, b)
      PROVE  MemoryShape'
  <2>1. CASE rows[u].stored
    <3>1. \A v \in Workers, j \in Items :
            finished'[v][j] = IF v = w /\ j = i THEN "duplicate" ELSE finished[v][j]
      BY <1>11, <2>1 DEF StoreItem, TypeOK
    <3>. QED BY <1>11, <3>1 DEF StoreItem, Take, TypeOK
  <2>2. CASE ~rows[u].stored
    <3>1. \A v \in Workers, j \in Items :
            finished'[v][j] = IF v = w /\ j = i THEN "stored" ELSE finished[v][j]
      BY <1>11, <2>2 DEF StoreItem, TypeOK
    <3>. QED BY <1>11, <3>1 DEF StoreItem, Take, TypeOK
  <2>. QED BY <2>1, <2>2
<1>12. ASSUME NEW w \in Workers, SelectArticles(w)
      PROVE  MemoryShape'
  BY <1>12 DEF SelectArticles, Chunks, Eligible, Waiting, TypeOK
<1>13. ASSUME NEW w \in Workers, AnalysesDone(w) \/ AnalyzeFinish(w)
      PROVE  MemoryShape'
  <2>1. CASE AnalysesDone(w)
    <3>1. CASE lostRecord[w]
      BY <2>1, <3>1 DEF AnalysesDone, TypeOK
    <3>2. CASE ~lostRecord[w]
      BY <2>1, <3>2 DEF AnalysesDone, TypeOK
    <3>. QED BY <3>1, <3>2
  <2>2. CASE AnalyzeFinish(w)
    <3>1. CASE cmd[w] = "daily"
      BY <2>2, <3>1 DEF AnalyzeFinish, TypeOK
    <3>2. CASE cmd[w] # "daily"
      <4>1. /\ pc' = [pc EXCEPT ![w] = "done"] /\ pc[w] = "saving"
            /\ UNCHANGED <<todo, finished, results, lostRecord, attempted, target>>
        BY <2>2, <3>2 DEF AnalyzeFinish
      <4>. QED BY <4>1 DEF TypeOK
    <3>. QED BY <3>1, <3>2
  <2>. QED BY <1>13, <2>1, <2>2
<1>14. ASSUME NEW w \in Workers, NEW u \in Urls, AnalyzeArticle(w, u)
      PROVE  MemoryShape'
  BY <1>14 DEF AnalyzeArticle, Take, TypeOK
<1>15. ASSUME NEW w \in Workers, NEW u \in Urls, AnalysisFails(w, u)
      PROVE  MemoryShape'
  BY <1>15 DEF AnalysisFails, Take, TypeOK
<1>16. ASSUME NEW w \in Workers, NEW u \in Urls, RecordLost(w, u)
      PROVE  MemoryShape'
  BY <1>16 DEF RecordLost, Take, TypeOK
<1>17. ASSUME NEW w \in Workers, NEW u \in Urls, SaveAnalysis(w, u)
      PROVE  MemoryShape'
  BY <1>17 DEF SaveAnalysis, TypeOK
<1>18. ASSUME NEW w \in Workers, BuildDigest(w) \/ Return(w) \/ Abort(w)
      PROVE  MemoryShape'
  <2>1. \A i \in Items : NothingFinished[i] = None
    BY DEF NothingFinished
  <2>2. Leave(w)
    BY <1>18 DEF BuildDigest, Return, Abort
  <2>3. \A v \in Workers : v # w =>
          UNCHANGED <<pc[v], todo[v], finished[v], results[v], lostRecord[v],
                      attempted[v], target[v]>>
    BY <2>2 DEF Leave, TypeOK
  <2>4. /\ todo'[w] = {} /\ finished'[w] = NothingFinished /\ results'[w] = {}
        /\ ~lostRecord'[w] /\ attempted'[w] = {} /\ target'[w] = {}
    BY <2>2 DEF Leave, TypeOK
  <2>. QED BY <2>1, <2>3, <2>4
<1>19. CASE UNCHANGED vars
  BY <1>19 DEF vars
<1>. QED
  BY <1>1, <1>2, <1>3, <1>4, <1>5, <1>6, <1>7, <1>8, <1>9, <1>10, <1>11,
     <1>12, <1>13, <1>14, <1>15, <1>16, <1>17, <1>18, <1>19
     DEF Next, Step

-----------------------------------------------------------------------------
(* A step of one worker, seen by the others.                               *)

Acts(w) == (\E c \in Commands : StartCommand(w, c)) \/ Step(w) \/ Abort(w)

(* A worker changes nothing in the memory of another; at most a failure it *)
(* records makes a row too recent for the drain of the other.              *)
LEMMA OthersUntouched ==
  ASSUME TypeOK, NEW w \in Workers, Acts(w), NEW v \in Workers, v # w
  PROVE  /\ UNCHANGED <<pc[v], cmd[v], todo[v], finished[v], results[v],
                        lostRecord[v], attempted[v], target[v]>>
         /\ since[v] \subseteq since'[v]
<1>. DEFINE Kept == /\ UNCHANGED <<pc[v], cmd[v], todo[v], finished[v], results[v],
                                   lostRecord[v], attempted[v], target[v]>>
                    /\ since[v] \subseteq since'[v]
<1>. USE DEF db, memory, drain
<1>1. ASSUME NEW c \in Commands, StartCommand(w, c) PROVE Kept
  <2>1. CASE c = "process"
    <3>1. /\ pc' = [pc EXCEPT ![w] = "analyze"] /\ cmd' = [cmd EXCEPT ![w] = c]
          /\ UNCHANGED <<todo, finished, results, lostRecord>>
          /\ since' = [since EXCEPT ![w] = {}] /\ target' = [target EXCEPT ![w] = {}]
          /\ attempted' = [attempted EXCEPT ![w] = {}]
      BY <1>1, <2>1 DEF StartCommand, BeginDrain
    <3>. QED BY <3>1 DEF TypeOK
  <2>2. CASE c # "process"
    <3>1. /\ pc' = [pc EXCEPT ![w] = "collect"] /\ cmd' = [cmd EXCEPT ![w] = c]
          /\ UNCHANGED <<todo, finished, results, lostRecord, since, target, attempted>>
      BY <1>1, <2>2 DEF StartCommand
    <3>. QED BY <3>1 DEF TypeOK
  <2>. QED BY <2>1, <2>2
<1>2. ASSUME NEW s \in Sources, CollectSource(w, s) PROVE Kept
  BY <1>2 DEF CollectSource, TypeOK
<1>3. CASE CollectFinish(w)
  BY <1>3 DEF CollectFinish, BeginDrain, TypeOK
<1>4. CASE SelectIssues(w) \/ SelectItems(w) \/ SelectArticles(w)
  BY <1>4 DEF SelectIssues, SelectItems, SelectArticles, TypeOK
<1>5. ASSUME NEW q \in Rows, RecordFailure(q) PROVE since[v] \subseteq since'[v]
  BY <1>5 DEF RecordFailure, TypeOK
<1>6. ASSUME NEW i \in Roundups, ExpandIssue(w, i) \/ ExpandFails(w, i) PROVE Kept
  <2>1. i \in Rows
    BY DEF Rows
  <2>2. CASE ExpandIssue(w, i)
    BY <2>2 DEF ExpandIssue, Take, TypeOK
  <2>3. CASE ExpandFails(w, i)
    <3>1. since[v] \subseteq since'[v]
      BY <1>5, <2>1, <2>3 DEF ExpandFails
    <3>. QED BY <2>3, <3>1 DEF ExpandFails, Take, TypeOK
  <2>. QED BY <1>6, <2>2, <2>3
<1>7. CASE MarkExpanded(w) \/ MarkHydrated(w)
  BY <1>7 DEF MarkExpanded, MarkHydrated, TypeOK
<1>8. ASSUME NEW i \in Articles, SkipItem(w, i) PROVE Kept
  BY <1>8 DEF SkipItem, Take, TypeOK
<1>9. ASSUME NEW i \in Articles, NEW u \in Urls, NEW b \in BOOLEAN, StoreItem(w, i, u, b)
      PROVE  Kept
  <2>1. finished'[v] = finished[v]
    <3>1. CASE rows[u].stored
      BY <1>9, <3>1 DEF StoreItem, TypeOK
    <3>2. CASE ~rows[u].stored
      BY <1>9, <3>2 DEF StoreItem, TypeOK
    <3>. QED BY <3>1, <3>2
  <2>2. target'[v] = target[v]
    BY <1>9 DEF StoreItem, TypeOK
  <2>. QED BY <1>9, <2>1, <2>2 DEF StoreItem, Take, TypeOK
<1>10. CASE AnalysesDone(w)
  BY <1>10 DEF AnalysesDone, TypeOK
<1>11. CASE AnalyzeFinish(w)
  BY <1>11 DEF AnalyzeFinish, TypeOK
<1>12. ASSUME NEW u \in Urls,
              AnalyzeArticle(w, u) \/ AnalysisFails(w, u) \/ RecordLost(w, u) \/ SaveAnalysis(w, u)
       PROVE  Kept
  <2>1. u \in Rows
    BY DEF Rows
  <2>2. CASE AnalyzeArticle(w, u)
    BY <2>2 DEF AnalyzeArticle, Take, TypeOK
  <2>3. CASE AnalysisFails(w, u)
    <3>1. since[v] \subseteq since'[v]
      BY <1>5, <2>1, <2>3 DEF AnalysisFails
    <3>. QED BY <2>3, <3>1 DEF AnalysisFails, Take, TypeOK
  <2>4. CASE RecordLost(w, u)
    BY <2>4 DEF RecordLost, Take, TypeOK
  <2>5. CASE SaveAnalysis(w, u)
    BY <2>5 DEF SaveAnalysis, TypeOK
  <2>. QED BY <1>12, <2>2, <2>3, <2>4, <2>5
<1>13. CASE BuildDigest(w) \/ Return(w) \/ Abort(w)
  <2>1. Leave(w)
    BY <1>13 DEF BuildDigest, Return, Abort
  <2>. QED BY <2>1 DEF Leave, TypeOK
<1>. QED
  BY <1>1, <1>2, <1>3, <1>4, <1>6, <1>7, <1>8, <1>9, <1>10, <1>11, <1>12, <1>13
     DEF Acts, Step

(* A settled row stays settled: no process that was slower reopens it.     *)
LEMMA DoneForever ==
  ASSUME TypeOK, [Next]_vars
  PROVE  \A r \in Rows : rows[r].done => rows'[r].done
<1>. SUFFICES ASSUME NEW r \in Rows, rows[r].done PROVE rows'[r].done
  OBVIOUS
<1>1. CASE Quiet
  BY <1>1 DEF Quiet
<1>2. ASSUME NEW S, Insert(S) PROVE rows'[r].done
  BY <1>2, InsertEffect
<1>3. ASSUME NEW d, MarkProcessed(d) PROVE rows'[r].done
  BY <1>3, MarkEffect
<1>4. ASSUME NEW q \in Rows, RecordFailure(q) PROVE rows'[r].done
  BY <1>4, ChargeEffect
<1>5. ASSUME NEW w \in Workers, NEW u \in Urls, SaveAnalysis(w, u) PROVE rows'[r].done
  BY <1>5, SaveEffect
<1>6. ASSUME NEW w \in Workers, Leave(w) PROVE rows'[r].done
  BY <1>6 DEF Leave, db
<1>7. Roundups \subseteq Rows /\ Urls \subseteq Rows
  BY DEF Rows
<1>. QED
  BY <1>1, <1>2, <1>3, <1>4, <1>5, <1>6, <1>7, StepKinds
     DEF CollectSource, ExpandIssue, ExpandFails, MarkExpanded, MarkHydrated,
         SkipItem, StoreItem, AnalysisFails, db

-----------------------------------------------------------------------------
(* No row is attempted twice in one drain.                                 *)

(* A step that takes nothing from the chunk and forgets nothing.           *)
LEMMA OnceFrame ==
  ASSUME TypeOK, [Next]_vars, NEW w \in Workers, Once(w),
         todo'[w] \subseteq todo[w],
         UNCHANGED <<attempted[w], finished[w], results[w], lostRecord[w]>>,
         since[w] \subseteq since'[w]
  PROVE  Once(w)'
<1>1. attempted[w] \subseteq Rows
  BY DEF TypeOK
<1>. QED BY <1>1, DoneForever DEF Once, Remembered

(* A row is taken from the chunk, and something remembers it.              *)
LEMMA OnceTake ==
  ASSUME TypeOK, [Next]_vars, NEW w \in Workers, Once(w), NEW r \in Rows,
         Take(w, r), Remembered(w, r)',
         \A q \in Rows : Remembered(w, q) => Remembered(w, q)'
  PROVE  Once(w)'
BY DEF Once, Take, TypeOK

LEMMA OnceStep ==
  ASSUME ~ClockLag, TypeOK, MemoryShape, [Next]_vars,
         NEW w \in Workers, Acts(w), Once(w)
  PROVE  Once(w)'
<1>. USE DEF db, memory, drain
<1>0. /\ Roundups \subseteq Items /\ Roundups \cap Articles = {}
      /\ Articles \subseteq Items /\ Urls \cap Articles = {}
      /\ Items \subseteq Rows /\ Urls \subseteq Rows
      /\ None \notin Outcomes
  BY DEF Articles, Rows, None, Outcomes
<1>1. ASSUME NEW c \in Commands, StartCommand(w, c) PROVE Once(w)'
  <2>1. CASE c = "process"
    BY <1>1, <2>1 DEF StartCommand, BeginDrain, TypeOK, Once
  <2>2. CASE c # "process"
    BY <1>1, <2>2, OnceFrame DEF StartCommand
  <2>. QED BY <2>1, <2>2
<1>2. ASSUME NEW s \in Sources, CollectSource(w, s) PROVE Once(w)'
  BY <1>2, OnceFrame DEF CollectSource
<1>3. CASE CollectFinish(w)
  BY <1>3 DEF CollectFinish, BeginDrain, TypeOK, Once
<1>4. CASE SelectIssues(w) \/ SelectItems(w) \/ SelectArticles(w)
  <2>1. /\ pc[w] \in {"expand", "hydrate", "analyze"}
        /\ \A r \in todo'[w] :
             /\ r \in Rows /\ ~rows[r].done
             /\ r \in Articles \/ r \notin since[w]
        /\ UNCHANGED <<rows, finished, results, lostRecord, since, attempted>>
    <3>1. CASE SelectIssues(w)
      BY <1>0, <3>1 DEF SelectIssues, Chunks, Eligible, Waiting, TypeOK
    <3>2. CASE SelectItems(w)
      BY <1>0, <3>2 DEF SelectItems, Chunks, Waiting, TypeOK
    <3>3. CASE SelectArticles(w)
      BY <1>0, <3>3 DEF SelectArticles, Chunks, Eligible, Waiting, TypeOK
    <3>. QED BY <1>4, <3>1, <3>2, <3>3
  <2>2. /\ \A i \in Items : finished[w][i] = None
        /\ results[w] = {} /\ ~lostRecord[w]
    BY <2>1 DEF MemoryShape
  <2>3. \A r \in attempted[w] : rows[r].done \/ (r \in since[w] /\ r \notin Articles)
    BY <2>2 DEF Once, Remembered
  <2>. QED BY <2>1, <2>3 DEF Once, Remembered
<1>5. ASSUME NEW r \in Rows, RecordFailure(r)
      PROVE  r \in since'[w] /\ since[w] \subseteq since'[w]
  BY <1>5 DEF RecordFailure
<1>6. ASSUME NEW i \in Roundups, ExpandIssue(w, i) PROVE Once(w)'
  <2>1. \A j \in Items :
          finished'[w][j] = IF j = i THEN "expanded" ELSE finished[w][j]
    BY <1>6 DEF ExpandIssue, TypeOK
  <2>2. UNCHANGED <<results, lostRecord, since>> /\ Take(w, i)
    BY <1>6 DEF ExpandIssue
  <2>3. "expanded" # None /\ i \in Items /\ i \in Rows
    BY <1>0 DEF None
  <2>. QED BY <2>1, <2>2, <2>3, DoneForever, OnceTake DEF Remembered
<1>7. ASSUME NEW i \in Roundups, ExpandFails(w, i) PROVE Once(w)'
  <2>1. i \in Rows /\ i \notin Articles
    BY <1>0
  <2>2. i \in since'[w] /\ since[w] \subseteq since'[w]
    BY <1>5, <1>7, <2>1 DEF ExpandFails
  <2>3. UNCHANGED <<results, lostRecord, finished>> /\ Take(w, i)
    BY <1>7 DEF ExpandFails
  <2>. QED BY <2>1, <2>2, <2>3, DoneForever, OnceTake DEF Remembered
<1>8. CASE MarkExpanded(w) \/ MarkHydrated(w)
  <2>1. /\ MarkProcessed(finished[w])
        /\ UNCHANGED <<todo, attempted, results, lostRecord, since>>
    BY <1>8 DEF MarkExpanded, MarkHydrated
  <2>2. \A r \in Rows : r \in Items /\ finished[w][r] # None => rows'[r].done
    BY <2>1, MarkEffect
  <2>3. attempted[w] \subseteq Rows
    BY DEF TypeOK
  <2>4. \A r \in attempted[w] : Remembered(w, r) => Remembered(w, r)'
    BY <2>1, <2>2, <2>3, DoneForever DEF Remembered
  <2>. QED BY <2>1, <2>4 DEF Once
<1>9. ASSUME NEW i \in Articles, SkipItem(w, i) PROVE Once(w)'
  <2>1. \A j \in Items :
          finished'[w][j] = IF j = i THEN "skipped" ELSE finished[w][j]
    BY <1>9 DEF SkipItem, TypeOK
  <2>2. UNCHANGED <<results, lostRecord, since>> /\ Take(w, i)
    BY <1>9 DEF SkipItem
  <2>3. "skipped" # None /\ i \in Items /\ i \in Rows
    BY <1>0 DEF None
  <2>. QED BY <2>1, <2>2, <2>3, DoneForever, OnceTake DEF Remembered
<1>10. ASSUME NEW i \in Articles, NEW u \in Urls, NEW b \in BOOLEAN, StoreItem(w, i, u, b)
       PROVE  Once(w)'
  <2>1. PICK o \in {"duplicate", "stored"} : finished' = [finished EXCEPT ![w][i] = o]
    BY <1>10 DEF StoreItem
  <2>2. \A j \in Items : finished'[w][j] = IF j = i THEN o ELSE finished[w][j]
    BY <2>1 DEF TypeOK
  <2>3. UNCHANGED <<results, lostRecord, since>> /\ Take(w, i)
    BY <1>10 DEF StoreItem
  <2>4. o # None /\ i \in Items /\ i \in Rows
    BY <1>0 DEF None
  <2>. QED BY <2>2, <2>3, <2>4, DoneForever, OnceTake DEF Remembered
<1>11. CASE AnalysesDone(w) \/ AnalyzeFinish(w)
  BY <1>11, OnceFrame DEF AnalysesDone, AnalyzeFinish
<1>12. ASSUME NEW u \in Urls, AnalyzeArticle(w, u) PROVE Once(w)'
  <2>1. UNCHANGED <<finished, lostRecord, since>> /\ Take(w, u)
    BY <1>12 DEF AnalyzeArticle
  <2>2. results'[w] = results[w] \cup {u}
    BY <1>12 DEF AnalyzeArticle, TypeOK
  <2>. QED BY <1>0, <2>1, <2>2, DoneForever, OnceTake DEF Remembered
<1>13. ASSUME NEW u \in Urls, AnalysisFails(w, u) PROVE Once(w)'
  <2>1. u \in Rows /\ u \notin Articles
    BY <1>0
  <2>2. u \in since'[w] /\ since[w] \subseteq since'[w]
    BY <1>5, <1>13, <2>1 DEF AnalysisFails
  <2>3. UNCHANGED <<results, lostRecord, finished>> /\ Take(w, u)
    BY <1>13 DEF AnalysisFails
  <2>. QED BY <2>1, <2>2, <2>3, DoneForever, OnceTake DEF Remembered
<1>14. ASSUME NEW u \in Urls, RecordLost(w, u) PROVE Once(w)'
  <2>1. Take(w, u) /\ lostRecord'[w]
    BY <1>14 DEF RecordLost, TypeOK
  <2>. QED BY <1>0, <2>1, OnceTake DEF Remembered
<1>15. ASSUME NEW u \in Urls, SaveAnalysis(w, u) PROVE Once(w)'
  <2>1. UNCHANGED <<todo, attempted, finished, lostRecord, since>>
    BY <1>15 DEF SaveAnalysis
  <2>2. results'[w] = results[w] \ {u}
    BY <1>15 DEF SaveAnalysis, TypeOK
  <2>3. rows'[u].done
    BY <1>0, <1>15, SaveEffect
  <2>4. attempted[w] \subseteq Rows
    BY DEF TypeOK
  <2>5. \A r \in attempted[w] : Remembered(w, r) => Remembered(w, r)'
    BY <2>1, <2>2, <2>3, <2>4, DoneForever DEF Remembered
  <2>. QED BY <2>1, <2>5 DEF Once
<1>16. CASE BuildDigest(w) \/ Return(w) \/ Abort(w)
  <2>1. Leave(w)
    BY <1>16 DEF BuildDigest, Return, Abort
  <2>. QED BY <2>1 DEF Leave, TypeOK, Once
<1>. QED
  BY <1>1, <1>2, <1>3, <1>4, <1>6, <1>7, <1>8, <1>9, <1>10, <1>11, <1>12,
     <1>13, <1>14, <1>15, <1>16
     DEF Acts, Step

(* While the clock of the database does not lag behind, a drain never      *)
(* attempts a row twice: a failed row cannot loop within it.               *)
THEOREM AttemptsAreOnce ==
  ASSUME ~ClockLag
  PROVE  Spec => []AttemptedOnce
<1>. DEFINE OnceInv == MemoryShape /\ \A w \in Workers : Once(w)
<1>1. Init => OnceInv
  BY DEF Init, MemoryShape, Once, NothingFinished
<1>2. TypeOK /\ OnceInv /\ [Next]_vars => OnceInv'
  <2>. SUFFICES ASSUME TypeOK, OnceInv, [Next]_vars PROVE OnceInv'
    OBVIOUS
  <2>1. MemoryShape'
    BY MemoryShapeStep
  <2>2. ASSUME NEW v \in Workers PROVE Once(v)'
    <3>1. ASSUME NEW w \in Workers, Acts(w) PROVE Once(v)'
      <4>1. CASE v = w
        BY <3>1, <4>1, OnceStep
      <4>2. CASE v # w
        BY <3>1, <4>2, OthersUntouched, OnceFrame
      <4>. QED BY <4>1, <4>2
    <3>2. CASE UNCHANGED vars
      BY <3>2 DEF vars, drain, memory, db, Once, Remembered
    <3>. QED BY <3>1, <3>2 DEF Next, Acts
  <2>. QED BY <2>1, <2>2
<1>3. OnceInv => AttemptedOnce
  BY DEF Once, AttemptedOnce
<1>. QED BY <1>1, <1>2, <1>3, TypeCorrect, PTL DEF Spec

-----------------------------------------------------------------------------
(* A drain handles everything it owes.                                     *)

(* Only an empty queue gives an empty chunk.                               *)
LEMMA EmptyChunk ==
  ASSUME NEW S, {} \in Chunks(S)
  PROVE  S = {}
<1>1. Cardinality({}) = 0
  BY FS_EmptySet
<1>. QED BY <1>1 DEF Chunks

(* A row given up stays given up or is settled.                            *)
LEMMA FailedRow ==
  ASSUME TypeOK, FailedIsExhausted, [Next]_vars, NEW r \in Rows
  PROVE  /\ rows'[r].failed => rows'[r].failures >= MaxFailures
         /\ rows[r].failed => rows'[r].failed \/ rows'[r].done
<1>. DEFINE Kept == /\ rows'[r].failed => rows'[r].failures >= MaxFailures
                    /\ rows[r].failed => rows'[r].failed \/ rows'[r].done
<1>0. rows[r].failed => rows[r].failures >= MaxFailures
  BY DEF FailedIsExhausted
<1>1. rows'[r] = rows[r] => Kept
  BY <1>0
<1>2. CASE Quiet
  BY <1>1, <1>2 DEF Quiet
<1>3. ASSUME NEW S, Insert(S) PROVE Kept
  <2>1. rows'[r].failed = rows[r].failed /\ rows'[r].failures = rows[r].failures
    BY <1>3, InsertEffect
  <2>. QED BY <1>0, <2>1
<1>4. ASSUME NEW w \in Workers, MarkProcessed(finished[w]) PROVE Kept
  <2>1. CASE r \in Items /\ finished[w][r] # None
    <3>1. rows'[r].done /\ ~rows'[r].failed
      BY <1>4, <2>1, MarkEffect
    <3>. QED BY <3>1
  <2>2. CASE ~(r \in Items /\ finished[w][r] # None)
    <3>1. rows'[r] = rows[r]
      BY <1>4, <2>2, MarkEffect
    <3>. QED BY <1>1, <3>1
  <2>. QED BY <2>1, <2>2
<1>5. ASSUME NEW q \in Rows, RecordFailure(q) PROVE Kept
  <2>1. CASE r = q
    <3>1. /\ rows'[r].failures = rows[r].failures + 1
          /\ rows'[r].failed = (rows[r].failures + 1 >= MaxFailures)
      BY <1>5, <2>1, ChargeEffect
    <3>2. rows[r].failures \in Nat /\ MaxFailures \in Nat
      BY DEF TypeOK, RowState
    <3>3. rows[r].failures >= MaxFailures => rows[r].failures + 1 >= MaxFailures
      BY <3>2
    <3>. QED BY <1>0, <3>1, <3>3
  <2>2. CASE r # q
    <3>1. rows'[r] = rows[r]
      BY <1>5, <2>2, ChargeEffect
    <3>. QED BY <1>1, <3>1
  <2>. QED BY <2>1, <2>2
<1>6. ASSUME NEW w \in Workers, NEW u \in Urls, SaveAnalysis(w, u) PROVE Kept
  <2>1. CASE r = u
    <3>1. rows'[r].done /\ ~rows'[r].failed
      BY <1>6, <2>1, SaveEffect
    <3>. QED BY <3>1
  <2>2. CASE r # u
    <3>1. rows'[r] = rows[r]
      BY <1>6, <2>2, SaveEffect
    <3>. QED BY <1>1, <3>1
  <2>. QED BY <2>1, <2>2
<1>7. ASSUME NEW w \in Workers, Leave(w) PROVE Kept
  BY <1>1, <1>7 DEF Leave, db
<1>8. Roundups \subseteq Rows /\ Urls \subseteq Rows
  BY DEF Rows
<1>. QED
  BY <1>1, <1>2, <1>3, <1>4, <1>5, <1>6, <1>7, <1>8, StepKinds
     DEF CollectSource, ExpandIssue, ExpandFails, MarkExpanded, MarkHydrated,
         SkipItem, StoreItem, AnalysisFails, db

LEMMA FailedStep ==
  ASSUME TypeOK, FailedIsExhausted, [Next]_vars
  PROVE  /\ FailedIsExhausted'
         /\ \A r \in Rows : rows[r].failed => rows'[r].failed \/ rows'[r].done
BY FailedRow DEF FailedIsExhausted

(* What a drain has handled stays handled until it ends.                   *)
LEMMA HandledStep ==
  ASSUME TypeOK, FailedIsExhausted, [Next]_vars,
         NEW w \in Workers, since[w] \subseteq since'[w]
  PROVE  \A r \in Rows : Handled(w, r) => Handled(w, r)'
BY DoneForever, FailedStep DEF Handled

(* A step that takes on no work and enters no later stage.                 *)
LEMMA OwesFrame ==
  ASSUME TypeOK, FailedIsExhausted, [Next]_vars, NEW w \in Workers, Owes(w),
         UNCHANGED <<cmd[w], target[w]>>, since[w] \subseteq since'[w],
         pc'[w] \in Later => pc[w] \in Later,
         pc'[w] \in Last => pc[w] \in Last,
         pc'[w] = "digest" => pc[w] = "digest"
  PROVE  Owes(w)'
<1>1. target[w] \subseteq Rows
  BY DEF TypeOK
<1>2. \A r \in Rows : Handled(w, r) => Handled(w, r)'
  BY HandledStep
<1>. QED BY <1>1, <1>2, StoredForever DEF Owes

LEMMA OwesNothing ==
  ASSUME NEW w \in Workers, target'[w] = {}
  PROVE  Owes(w)'
BY DEF Owes

LEMMA OwesStep ==
  ASSUME TypeOK, MemoryShape, FailedIsExhausted, [Next]_vars,
         NEW w \in Workers, Acts(w), Owes(w)
  PROVE  Owes(w)'
<1>. USE DEF db, memory, drain
<1>0. /\ Roundups \cap Articles = {} /\ Urls \cap Articles = {}
      /\ Urls \cap Roundups = {}
      /\ Roundups \subseteq Rows /\ Articles \subseteq Rows /\ Urls \subseteq Rows
  BY DEF Articles, Rows
<1>1. ASSUME NEW c \in Commands, StartCommand(w, c) PROVE Owes(w)'
  <2>1. target'[w] = {}
    BY <1>1 DEF StartCommand, BeginDrain, TypeOK, MemoryShape
  <2>. QED BY <2>1, OwesNothing
<1>2. ASSUME NEW s \in Sources, CollectSource(w, s) PROVE Owes(w)'
  BY <1>2, OwesFrame DEF CollectSource
<1>3. CASE CollectFinish(w)
  <2>1. /\ target'[w] = Owed(w) /\ pc'[w] \notin Later
        /\ UNCHANGED <<rows, cmd>>
    BY <1>3 DEF CollectFinish, BeginDrain, TypeOK, Later
  <2>2. /\ Owed(w) \subseteq Roundups \cup Articles \cup Urls
        /\ \A r \in Owed(w) : rows[r].stored
        /\ Owed(w) # {} => cmd[w] \in Drains
        /\ Owed(w) \cap Urls # {} => cmd[w] = "daily"
    <3>1. CASE cmd[w] \notin Drains
      BY <3>1 DEF Owed
    <3>2. CASE cmd[w] = "daily"
      BY <3>2 DEF Owed, Waiting, Drains
    <3>3. CASE cmd[w] = "unanalyzed"
      BY <1>0, <3>3 DEF Owed, Waiting, Drains, Analyzes
    <3>. QED BY <3>1, <3>2, <3>3 DEF Drains
  <2>. QED BY <2>1, <2>2 DEF Owes, Later, Last
<1>4. CASE SelectIssues(w)
  <2>1. PICK c \in Chunks(Eligible(w, Roundups)) :
          /\ pc' = [pc EXCEPT ![w] = IF c = {} THEN "hydrate" ELSE "expanding"]
          /\ UNCHANGED <<rows, cmd, target, since>>
    BY <1>4 DEF SelectIssues
  <2>2. CASE c = {}
    <3>1. Eligible(w, Roundups) = {}
      BY <2>1, <2>2, EmptyChunk
    <3>2. \A r \in target[w] \cap Roundups : Handled(w, r)
      BY <3>1 DEF Eligible, Waiting, Handled, Owes
    <3>3. pc'[w] = "hydrate"
      BY <2>1, <2>2 DEF TypeOK
    <3>. QED BY <2>1, <3>2, <3>3 DEF Owes, Handled, Later, Last
  <2>3. CASE c # {}
    <3>1. pc'[w] = "expanding"
      BY <2>1, <2>3 DEF TypeOK
    <3>. QED BY <2>1, <3>1, OwesFrame DEF Later, Last
  <2>. QED BY <2>2, <2>3
<1>5. CASE SelectItems(w)
  <2>1. PICK c \in Chunks(Waiting(Articles)) :
          /\ pc' = [pc EXCEPT ![w] = IF c = {} THEN AfterHydrate(w) ELSE "hydrating"]
          /\ pc[w] = "hydrate"
          /\ UNCHANGED <<rows, cmd, target, since>>
    BY <1>5 DEF SelectItems
  <2>2. CASE c = {}
    <3>1. Waiting(Articles) = {}
      BY <2>1, <2>2, EmptyChunk
    <3>2. \A r \in target[w] \cap Articles : Handled(w, r)
      BY <3>1 DEF Waiting, Handled, Owes
    <3>3. pc'[w] = AfterHydrate(w)
      BY <2>1, <2>2 DEF TypeOK
    <3>4. pc'[w] = "digest" => target[w] \cap Urls = {}
      BY <3>3 DEF AfterHydrate, Owes
    <3>. QED BY <2>1, <3>2, <3>4 DEF Owes, Handled, Later
  <2>3. CASE c # {}
    <3>1. pc'[w] = "hydrating"
      BY <2>1, <2>3 DEF TypeOK
    <3>. QED BY <2>1, <3>1, OwesFrame DEF Later, Last
  <2>. QED BY <2>2, <2>3
<1>6. CASE SelectArticles(w)
  <2>1. PICK c \in Chunks(Eligible(w, Urls)) :
          /\ pc' = [pc EXCEPT ![w] =
                      IF c # {} THEN "analyzing"
                      ELSE IF cmd[w] = "daily" THEN "digest" ELSE "done"]
          /\ pc[w] = "analyze"
          /\ UNCHANGED <<rows, cmd, target, since>>
    BY <1>6 DEF SelectArticles
  <2>2. CASE c = {}
    <3>1. Eligible(w, Urls) = {}
      BY <2>1, <2>2, EmptyChunk
    <3>2. \A r \in target[w] \cap Urls : Handled(w, r)
      BY <3>1 DEF Eligible, Waiting, Handled, Owes
    <3>. QED BY <2>1, <3>2 DEF Owes, Handled, Later, Last
  <2>3. CASE c # {}
    <3>1. pc'[w] = "analyzing"
      BY <2>1, <2>3 DEF TypeOK
    <3>. QED BY <2>1, <3>1, OwesFrame DEF Later, Last
  <2>. QED BY <2>2, <2>3
<1>7. ASSUME NEW r \in Rows, RecordFailure(r)
      PROVE  since[w] \subseteq since'[w]
  BY <1>7 DEF RecordFailure
<1>8. ASSUME NEW i \in Roundups, ExpandIssue(w, i) PROVE Owes(w)'
  <2>1. /\ pc[w] = "expanding" /\ UNCHANGED <<pc, cmd, since>>
        /\ target'[w] = IF cmd[w] \in Drains THEN target[w] \cup Links[i] ELSE target[w]
    BY <1>8 DEF ExpandIssue, TypeOK
  <2>2. Links[i] \subseteq Articles
    OBVIOUS
  <2>3. \A j \in Links[i] : rows'[j].stored
    BY <1>0, <1>8, <2>2, InsertEffect DEF ExpandIssue
  <2>4. \A r \in target[w] : rows'[r].stored
    BY StoredForever DEF Owes, TypeOK
  <2>5. pc'[w] \notin Later /\ pc'[w] \notin Last /\ pc'[w] # "digest"
    BY <2>1 DEF Later, Last
  <2>6. Links[i] \cap Urls = {}
    BY <1>0, <2>2
  <2>. QED BY <2>1, <2>2, <2>3, <2>4, <2>5, <2>6 DEF Owes
<1>9. ASSUME NEW i \in Roundups, ExpandFails(w, i) PROVE Owes(w)'
  <2>1. since[w] \subseteq since'[w]
    BY <1>0, <1>7, <1>9 DEF ExpandFails
  <2>. QED BY <1>9, <2>1, OwesFrame DEF ExpandFails
<1>10. CASE MarkExpanded(w)
  <2>1. CASE cmd[w] \in Drains
    <3>1. pc'[w] = "expand" /\ UNCHANGED <<cmd, target, since>>
      BY <1>10, <2>1 DEF MarkExpanded, TypeOK
    <3>. QED BY <3>1, OwesFrame DEF Later, Last
  <2>2. CASE cmd[w] \notin Drains
    <3>1. target'[w] = {}
      BY <1>10, <2>2 DEF MarkExpanded, Owes
    <3>. QED BY <3>1, OwesNothing
  <2>. QED BY <2>1, <2>2
<1>11. CASE MarkHydrated(w)
  <2>1. /\ pc[w] = "hydrating" /\ pc'[w] \in {"hydrate", "done"}
        /\ UNCHANGED <<cmd, target, since>>
    BY <1>11 DEF MarkHydrated, TypeOK
  <2>. QED BY <2>1, OwesFrame DEF Later, Last
<1>12. ASSUME NEW i \in Articles, SkipItem(w, i) PROVE Owes(w)'
  BY <1>12, OwesFrame DEF SkipItem
<1>13. ASSUME NEW i \in Articles, NEW u \in Urls, NEW b \in BOOLEAN, StoreItem(w, i, u, b)
       PROVE  Owes(w)'
  <2>1. /\ pc[w] = "hydrating" /\ UNCHANGED <<pc, cmd, since>>
        /\ target'[w] = IF cmd[w] = "daily" THEN target[w] \cup {u} ELSE target[w]
    BY <1>13 DEF StoreItem, TypeOK
  <2>2. rows'[u].stored
    BY <1>0, <1>13, InsertEffect DEF StoreItem
  <2>3. \A r \in target[w] : rows'[r].stored
    BY StoredForever DEF Owes, TypeOK
  <2>4. pc'[w] \notin Last /\ pc'[w] # "digest"
    BY <2>1 DEF Last
  <2>5. \A r \in Rows : Handled(w, r) => Handled(w, r)'
    BY <2>1, HandledStep
  <2>6. target'[w] \cap Roundups = target[w] \cap Roundups
    BY <1>0, <2>1
  <2>7. \A r \in target'[w] \cap Roundups : Handled(w, r)'
    BY <1>0, <2>1, <2>5, <2>6 DEF Owes, Later
  <2>8. "daily" \in Drains
    BY DEF Drains
  <2>. QED BY <2>1, <2>2, <2>3, <2>4, <2>7, <2>8 DEF Owes
<1>14. CASE AnalysesDone(w)
  <2>1. /\ pc[w] = "analyzing" /\ pc'[w] \in {"saving", "done"}
        /\ UNCHANGED <<cmd, target, since>>
    BY <1>14 DEF AnalysesDone, TypeOK
  <2>. QED BY <2>1, OwesFrame DEF Later, Last
<1>15. CASE AnalyzeFinish(w)
  <2>1. /\ pc[w] = "saving" /\ pc'[w] \in {"analyze", "done"}
        /\ UNCHANGED <<cmd, target, since>>
    BY <1>15 DEF AnalyzeFinish, TypeOK
  <2>. QED BY <2>1, OwesFrame DEF Later, Last
<1>16. ASSUME NEW u \in Urls, AnalysisFails(w, u) PROVE Owes(w)'
  <2>1. since[w] \subseteq since'[w]
    BY <1>0, <1>7, <1>16 DEF AnalysisFails
  <2>. QED BY <1>16, <2>1, OwesFrame DEF AnalysisFails
<1>17. ASSUME NEW u \in Urls, AnalyzeArticle(w, u) \/ RecordLost(w, u) \/ SaveAnalysis(w, u)
       PROVE  Owes(w)'
  BY <1>17, OwesFrame DEF AnalyzeArticle, RecordLost, SaveAnalysis
<1>18. CASE BuildDigest(w) \/ Return(w) \/ Abort(w)
  <2>1. target'[w] = {}
    BY <1>18 DEF BuildDigest, Return, Abort, Leave, TypeOK
  <2>. QED BY <2>1, OwesNothing
<1>. QED
  BY <1>1, <1>2, <1>3, <1>4, <1>5, <1>6, <1>8, <1>9, <1>10, <1>11, <1>12,
     <1>13, <1>14, <1>15, <1>16, <1>17, <1>18
     DEF Acts, Step

(* When a complete run reaches its digest, it has handled every row that   *)
(* was waiting when its drain began and every row it made itself, for any  *)
(* chunk size and whatever other processes and the clocks did meanwhile.   *)
THEOREM DrainIsComplete == Spec => []DrainComplete
<1>. DEFINE DrainInv == /\ MemoryShape /\ FailedIsExhausted
                        /\ \A w \in Workers : Owes(w)
<1>1. Init => DrainInv
  BY DEF Init, MemoryShape, FailedIsExhausted, Owes, NothingFinished, Later, Last
<1>2. TypeOK /\ DrainInv /\ [Next]_vars => DrainInv'
  <2>. SUFFICES ASSUME TypeOK, DrainInv, [Next]_vars PROVE DrainInv'
    OBVIOUS
  <2>1. MemoryShape'
    BY MemoryShapeStep
  <2>2. FailedIsExhausted'
    BY FailedStep
  <2>3. ASSUME NEW v \in Workers PROVE Owes(v)'
    <3>1. ASSUME NEW w \in Workers, Acts(w) PROVE Owes(v)'
      <4>1. CASE v = w
        BY <3>1, <4>1, OwesStep
      <4>2. CASE v # w
        BY <3>1, <4>2, OthersUntouched, OwesFrame
      <4>. QED BY <4>1, <4>2
    <3>2. CASE UNCHANGED vars
      BY <3>2, OwesFrame DEF vars, drain
    <3>. QED BY <3>1, <3>2 DEF Next, Acts
  <2>. QED BY <2>1, <2>2, <2>3
<1>3. DrainInv => DrainComplete
  BY DEF Owes, DrainComplete, Later, Last
<1>. QED BY <1>1, <1>2, <1>3, TypeCorrect, PTL DEF Spec

-----------------------------------------------------------------------------
(* Both tables are the queues Backlog specifies.                           *)

(* A row is given up exactly when its attempts are used up, and a row that *)
(* is not stored was never attempted.                                      *)
RowInv(r) ==
  /\ rows[r].failed <=> rows[r].failures >= MaxFailures
  /\ ~rows[r].stored => ~rows[r].done /\ rows[r].failures = 0

(* What a worker has in hand, it read from the database.                   *)
Held(w) ==
  /\ \A r \in todo[w] \cup results[w] : rows[r].stored
  /\ \A i \in Items : finished[w][i] # None => rows[i].stored

QueueInv == (\A r \in Rows : RowInv(r)) /\ (\A w \in Workers : Held(w))

(* A row as the abstract queue sees it, by its columns.                    *)
LEMMA SameInQueue ==
  ASSUME NEW r \in Rows, rows'[r] = rows[r]
  PROVE  StatusOf(r)' = StatusOf(r) /\ ChargesOf(r)' = ChargesOf(r)
BY DEF StatusOf, ChargesOf

LEMMA SettledInQueue ==
  ASSUME NEW r \in Rows, rows'[r].stored, rows'[r].done
  PROVE  StatusOf(r)' = "done" /\ ChargesOf(r)' = 0
BY DEF StatusOf, ChargesOf

(* The actions of Backlog, row by row.                                     *)
LEMMA EnqueueStep ==
  ASSUME NEW S \in SUBSET QueueRows, \A r \in S : StatusOf(r) = "absent",
         \A r \in QueueRows : StatusOf(r)' = IF r \in S THEN "queued" ELSE StatusOf(r),
         \A r \in QueueRows : ChargesOf(r)' = ChargesOf(r)
  PROVE  Queue!Next
<1>1. Queue!Enqueue(S)
  BY DEF Queue!Enqueue
<1>. QED BY <1>1 DEF Queue!Next

LEMMA FinishStep ==
  ASSUME NEW S \in SUBSET QueueRows, \A r \in S : StatusOf(r) \in {"queued", "failed"},
         \A r \in QueueRows : StatusOf(r)' = IF r \in S THEN "done" ELSE StatusOf(r),
         \A r \in QueueRows : ChargesOf(r)' = IF r \in S THEN 0 ELSE ChargesOf(r)
  PROVE  Queue!Next
<1>1. Queue!Finish(S)
  BY DEF Queue!Finish
<1>. QED BY <1>1 DEF Queue!Next

LEMMA ChargeStep ==
  ASSUME NEW q \in QueueRows, StatusOf(q) = "queued",
         ChargesOf(q)' = ChargesOf(q) + 1,
         StatusOf(q)' = IF ChargesOf(q) + 1 = MaxFailures THEN "failed" ELSE "queued",
         \A r \in QueueRows \ {q} : StatusOf(r)' = StatusOf(r) /\ ChargesOf(r)' = ChargesOf(r)
  PROVE  Queue!Next
<1>1. Queue!Charge(q)
  BY DEF Queue!Charge
<1>. QED BY <1>1 DEF Queue!Next

LEMMA QueueStutter ==
  ASSUME \A r \in QueueRows : StatusOf(r)' = StatusOf(r) /\ ChargesOf(r)' = ChargesOf(r)
  PROVE  UNCHANGED Queue!vars
BY DEF Queue!vars

(* INSERT enqueues the rows that were not there.                           *)
LEMMA InsertIsEnqueue ==
  ASSUME TypeOK, QueueInv, NEW S, Insert(S)
  PROVE  [Queue!Next]_(Queue!vars)
<1>. DEFINE New == {r \in QueueRows : r \in S /\ ~rows[r].stored}
<1>0. QueueRows \subseteq Rows
  BY DEF QueueRows
<1>1. \A r \in New : StatusOf(r) = "absent"
  BY DEF StatusOf
<1>2. ASSUME NEW r \in QueueRows
      PROVE  /\ StatusOf(r)' = IF r \in New THEN "queued" ELSE StatusOf(r)
             /\ ChargesOf(r)' = ChargesOf(r)
  <2>1. /\ rows'[r].stored <=> rows[r].stored \/ r \in S
        /\ rows'[r].done = rows[r].done
        /\ rows'[r].failed = rows[r].failed
        /\ rows'[r].failures = rows[r].failures
    BY <1>0, InsertEffect
  <2>2. ChargesOf(r)' = ChargesOf(r)
    BY <2>1 DEF ChargesOf
  <2>3. ~rows[r].stored => ~rows[r].done /\ ~rows[r].failed
    <3>1. rows[r].failures = 0 => ~(rows[r].failures >= MaxFailures)
      OBVIOUS
    <3>. QED BY <1>0, <3>1 DEF QueueInv, RowInv
  <2>4. StatusOf(r)' = IF r \in New THEN "queued" ELSE StatusOf(r)
    BY <2>1, <2>3 DEF StatusOf
  <2>. QED BY <2>2, <2>4
<1>3. New \in SUBSET QueueRows
  OBVIOUS
<1>. HIDE DEF New
<1>. QED BY <1>1, <1>2, <1>3, EnqueueStep

(* recordFailure charges a queued row; a row that is done or given up does *)
(* not notice.                                                             *)
LEMMA FailureIsCharge ==
  ASSUME TypeOK, QueueInv, NEW q \in QueueRows, rows[q].stored, RecordFailure(q)
  PROVE  [Queue!Next]_(Queue!vars)
<1>0. QueueRows \subseteq Rows /\ q \in Rows
  BY DEF QueueRows
<1>1. \A r \in QueueRows \ {q} : StatusOf(r)' = StatusOf(r) /\ ChargesOf(r)' = ChargesOf(r)
  BY <1>0, ChargeEffect, SameInQueue
<1>2. /\ rows'[q].stored /\ rows'[q].done = rows[q].done
      /\ rows'[q].failures = rows[q].failures + 1
      /\ rows'[q].failed = (rows[q].failures + 1 >= MaxFailures)
  BY <1>0, ChargeEffect
<1>3. rows[q].failures \in Nat /\ (rows[q].failed <=> rows[q].failures >= MaxFailures)
  BY <1>0 DEF TypeOK, RowState, QueueInv, RowInv
<1>4. CASE rows[q].done
  <2>1. StatusOf(q)' = StatusOf(q) /\ ChargesOf(q)' = ChargesOf(q)
    BY <1>2, <1>4 DEF StatusOf, ChargesOf
  <2>. QED BY <1>1, <2>1, QueueStutter
<1>5. CASE ~rows[q].done /\ rows[q].failures >= MaxFailures
  <2>0. rows[q].failures + 1 >= MaxFailures
    BY <1>3, <1>5
  <2>1. rows[q].failed /\ rows'[q].failed /\ ~rows'[q].done
    BY <1>2, <1>3, <1>5, <2>0, Zenon
  <2>2. StatusOf(q)' = StatusOf(q)
    BY <1>2, <1>5, <2>1 DEF StatusOf
  <2>3. ChargesOf(q) = MaxFailures /\ ChargesOf(q)' = MaxFailures
    BY <1>2, <1>3, <1>5 DEF ChargesOf, Smaller
  <2>. QED BY <1>1, <2>2, <2>3, QueueStutter
<1>6. CASE ~rows[q].done /\ ~(rows[q].failures >= MaxFailures)
  <2>1. ~rows[q].failed /\ ~rows'[q].done
    BY <1>2, <1>3, <1>6
  <2>2. StatusOf(q) = "queued"
    BY <1>6, <2>1 DEF StatusOf
  <2>3. ChargesOf(q) = rows[q].failures /\ ChargesOf(q)' = rows[q].failures + 1
    BY <1>2, <1>3, <1>6 DEF ChargesOf, Smaller
  <2>4. rows'[q].failed <=> rows[q].failures + 1 = MaxFailures
    <3>1. (rows[q].failures + 1 >= MaxFailures) <=> rows[q].failures + 1 = MaxFailures
      BY <1>3, <1>6
    <3>. QED BY <1>2, <3>1, Zenon
  <2>5. StatusOf(q)' = IF ChargesOf(q) + 1 = MaxFailures THEN "failed" ELSE "queued"
    BY <1>2, <2>1, <2>3, <2>4 DEF StatusOf
  <2>. QED BY <1>1, <2>2, <2>3, <2>5, ChargeStep
<1>. QED BY <1>4, <1>5, <1>6

(* A batch or an analysis finishes the rows that were not done yet.        *)
LEMMA SettlingIsFinish ==
  ASSUME TypeOK, QueueInv, NEW S \in SUBSET Rows, \A r \in S : rows[r].stored,
         \A r \in Rows : r \in S => rows'[r].stored /\ rows'[r].done,
         \A r \in Rows : r \notin S => rows'[r] = rows[r]
  PROVE  [Queue!Next]_(Queue!vars)
<1>. DEFINE New == {r \in QueueRows : r \in S /\ ~rows[r].done}
<1>0. QueueRows \subseteq Rows
  BY DEF QueueRows
<1>1. \A r \in New : StatusOf(r) \in {"queued", "failed"}
  BY DEF StatusOf
<1>2. ASSUME NEW r \in QueueRows
      PROVE  /\ StatusOf(r)' = IF r \in New THEN "done" ELSE StatusOf(r)
             /\ ChargesOf(r)' = IF r \in New THEN 0 ELSE ChargesOf(r)
  <2>1. CASE r \notin S
    BY <1>0, <2>1, SameInQueue
  <2>2. CASE r \in S
    <3>1. StatusOf(r)' = "done" /\ ChargesOf(r)' = 0
      BY <1>0, <2>2, SettledInQueue
    <3>2. r \notin New => StatusOf(r) = "done" /\ ChargesOf(r) = 0
      BY <1>0, <2>2 DEF StatusOf, ChargesOf
    <3>. QED BY <3>1, <3>2
  <2>. QED BY <2>1, <2>2
<1>3. New \in SUBSET QueueRows
  OBVIOUS
<1>. HIDE DEF New
<1>. QED BY <1>1, <1>2, <1>3, FinishStep

(* The statements keep RowInv.                                             *)
LEMMA RowInsert ==
  ASSUME TypeOK, NEW S, Insert(S), NEW r \in Rows, RowInv(r)
  PROVE  RowInv(r)'
BY InsertEffect DEF RowInv

LEMMA RowSettled ==
  ASSUME NEW r \in Rows, rows'[r].stored, ~rows'[r].failed, rows'[r].failures = 0
  PROVE  RowInv(r)'
<1>1. ~(rows'[r].failures >= MaxFailures)
  OBVIOUS
<1>. QED BY <1>1 DEF RowInv

LEMMA RowCharged ==
  ASSUME TypeOK, NEW q \in Rows, rows[q].stored, RecordFailure(q),
         NEW r \in Rows, RowInv(r)
  PROVE  RowInv(r)'
<1>1. CASE r = q
  <2>1. /\ rows'[r].stored = rows[r].stored
        /\ rows'[r].failures = rows[r].failures + 1
        /\ rows'[r].failed = (rows[r].failures + 1 >= MaxFailures)
    BY <1>1, ChargeEffect
  <2>2. rows'[r].failed <=> rows'[r].failures >= MaxFailures
    BY <2>1, Zenon
  <2>. QED BY <1>1, <2>1, <2>2 DEF RowInv
<1>2. CASE r # q
  BY <1>2, ChargeEffect DEF RowInv
<1>. QED BY <1>1, <1>2

(* A step that takes nothing new in hand.                                  *)
LEMMA HeldFrame ==
  ASSUME TypeOK, [Next]_vars, NEW w \in Workers, Held(w),
         todo'[w] \subseteq todo[w], results'[w] \subseteq results[w],
         \A i \in Items : finished'[w][i] # None => finished[w][i] # None
  PROVE  Held(w)'
<1>1. todo[w] \subseteq Rows /\ results[w] \subseteq Rows /\ Items \subseteq Rows
  BY DEF TypeOK, Rows
<1>. QED BY <1>1, StoredForever DEF Held

(* A row is taken from the chunk and finished, or only charged.            *)
LEMMA HeldTake ==
  ASSUME TypeOK, [Next]_vars, NEW w \in Workers, Held(w), NEW r \in Rows, Take(w, r),
         results'[w] \subseteq results[w] \cup {r},
         \A i \in Items : finished'[w][i] # None => finished[w][i] # None \/ i = r
  PROVE  Held(w)'
<1>1. todo[w] \subseteq Rows /\ results[w] \subseteq Rows /\ Items \subseteq Rows
  BY DEF TypeOK, Rows
<1>2. todo'[w] \subseteq todo[w] /\ rows[r].stored
  BY DEF Take, TypeOK, Held
<1>. QED BY <1>1, <1>2, StoredForever DEF Held

LEMMA HeldStep ==
  ASSUME TypeOK, MemoryShape, [Next]_vars, NEW w \in Workers, Acts(w), Held(w)
  PROVE  Held(w)'
<1>. USE DEF db, memory, drain
<1>0. /\ Roundups \subseteq Rows /\ Articles \subseteq Rows /\ Urls \subseteq Rows
      /\ Items \subseteq Rows
  BY DEF Articles, Rows
<1>1. ASSUME NEW c \in Commands, StartCommand(w, c) PROVE Held(w)'
  BY <1>1, HeldFrame DEF StartCommand
<1>2. ASSUME NEW s \in Sources, CollectSource(w, s) PROVE Held(w)'
  BY <1>2, HeldFrame DEF CollectSource
<1>3. CASE CollectFinish(w) \/ AnalysesDone(w) \/ AnalyzeFinish(w)
  BY <1>3, HeldFrame DEF CollectFinish, AnalysesDone, AnalyzeFinish
<1>4. CASE SelectIssues(w) \/ SelectItems(w) \/ SelectArticles(w)
  <2>1. /\ \A r \in todo'[w] : rows[r].stored
        /\ UNCHANGED <<rows, finished, results>>
    BY <1>4 DEF SelectIssues, SelectItems, SelectArticles, Chunks, Eligible, Waiting, TypeOK
  <2>. QED BY <2>1 DEF Held
<1>5. ASSUME NEW i \in Roundups, ExpandIssue(w, i) PROVE Held(w)'
  <2>1. \A j \in Items :
          finished'[w][j] = IF j = i THEN "expanded" ELSE finished[w][j]
    BY <1>5 DEF ExpandIssue, TypeOK
  <2>. QED BY <1>0, <1>5, <2>1, HeldTake DEF ExpandIssue
<1>6. ASSUME NEW i \in Roundups, ExpandFails(w, i) PROVE Held(w)'
  BY <1>0, <1>6, HeldTake DEF ExpandFails
<1>7. CASE MarkExpanded(w) \/ MarkHydrated(w)
  <2>1. finished' = [finished EXCEPT ![w] = NothingFinished] /\ UNCHANGED <<todo, results>>
    BY <1>7 DEF MarkExpanded, MarkHydrated
  <2>. QED BY <2>1, HeldFrame DEF TypeOK, NothingFinished
<1>8. ASSUME NEW i \in Articles, SkipItem(w, i) PROVE Held(w)'
  <2>1. \A j \in Items :
          finished'[w][j] = IF j = i THEN "skipped" ELSE finished[w][j]
    BY <1>8 DEF SkipItem, TypeOK
  <2>. QED BY <1>0, <1>8, <2>1, HeldTake DEF SkipItem
<1>9. ASSUME NEW i \in Articles, NEW u \in Urls, NEW b \in BOOLEAN, StoreItem(w, i, u, b)
      PROVE  Held(w)'
  <2>1. PICK o \in {"duplicate", "stored"} : finished' = [finished EXCEPT ![w][i] = o]
    BY <1>9 DEF StoreItem
  <2>2. \A j \in Items : finished'[w][j] = IF j = i THEN o ELSE finished[w][j]
    BY <2>1 DEF TypeOK
  <2>. QED BY <1>0, <1>9, <2>2, HeldTake DEF StoreItem
<1>10. ASSUME NEW u \in Urls, AnalyzeArticle(w, u) PROVE Held(w)'
  <2>1. results'[w] = results[w] \cup {u}
    BY <1>10 DEF AnalyzeArticle, TypeOK
  <2>. QED BY <1>0, <1>10, <2>1, HeldTake DEF AnalyzeArticle
<1>11. ASSUME NEW u \in Urls, AnalysisFails(w, u) \/ RecordLost(w, u) PROVE Held(w)'
  BY <1>0, <1>11, HeldTake DEF AnalysisFails, RecordLost
<1>12. ASSUME NEW u \in Urls, SaveAnalysis(w, u) PROVE Held(w)'
  BY <1>12, HeldFrame DEF SaveAnalysis, TypeOK
<1>13. CASE BuildDigest(w) \/ Return(w) \/ Abort(w)
  <2>1. Leave(w)
    BY <1>13 DEF BuildDigest, Return, Abort
  <2>2. todo'[w] = {} /\ results'[w] = {} /\ finished'[w] = NothingFinished
    BY <2>1 DEF Leave, TypeOK
  <2>. QED BY <2>2, HeldFrame DEF NothingFinished
<1>. QED
  BY <1>1, <1>2, <1>3, <1>4, <1>5, <1>6, <1>7, <1>8, <1>9, <1>10, <1>11,
     <1>12, <1>13
     DEF Acts, Step

LEMMA QueueInvStep == TypeOK /\ MemoryShape /\ QueueInv /\ [Next]_vars => QueueInv'
<1>. SUFFICES ASSUME TypeOK, MemoryShape, QueueInv, [Next]_vars PROVE QueueInv'
  OBVIOUS
<1>1. ASSUME NEW v \in Workers PROVE Held(v)'
  <2>1. ASSUME NEW w \in Workers, Acts(w) PROVE Held(v)'
    <3>1. CASE v = w
      BY <2>1, <3>1, HeldStep DEF QueueInv
    <3>2. CASE v # w
      BY <2>1, <3>2, OthersUntouched, HeldFrame DEF QueueInv
    <3>. QED BY <3>1, <3>2
  <2>2. CASE UNCHANGED vars
    BY <2>2, HeldFrame DEF vars, memory, QueueInv
  <2>. QED BY <2>1, <2>2 DEF Next, Acts
<1>2. ASSUME NEW r \in Rows PROVE RowInv(r)'
  <2>. USE DEF QueueInv, db
  <2>1. CASE rows'[r] = rows[r]
    BY <2>1 DEF RowInv
  <2>2. ASSUME NEW S, Insert(S) PROVE RowInv(r)'
    BY <2>2, RowInsert
  <2>3. ASSUME NEW w \in Workers, MarkProcessed(finished[w]) PROVE RowInv(r)'
    <3>1. CASE r \in Items /\ finished[w][r] # None
      BY <2>3, <3>1, MarkEffect, RowSettled DEF Held
    <3>2. CASE ~(r \in Items /\ finished[w][r] # None)
      BY <2>1, <2>3, <3>2, MarkEffect
    <3>. QED BY <3>1, <3>2
  <2>4. ASSUME NEW w \in Workers, NEW q \in Rows, Take(w, q), RecordFailure(q)
        PROVE  RowInv(r)'
    BY <2>4, RowCharged DEF Held, Take
  <2>5. ASSUME NEW w \in Workers, NEW u \in Urls, SaveAnalysis(w, u) PROVE RowInv(r)'
    <3>1. rows[u].stored
      BY <2>5 DEF Held, SaveAnalysis
    <3>2. CASE r = u
      BY <2>5, <3>1, <3>2, SaveEffect, RowSettled
    <3>3. CASE r # u
      BY <2>1, <2>5, <3>3, SaveEffect
    <3>. QED BY <3>2, <3>3
  <2>6. Roundups \subseteq Rows /\ Urls \subseteq Rows
    BY DEF Rows
  <2>. QED
    BY <2>1, <2>2, <2>3, <2>4, <2>5, <2>6, StepKinds
       DEF Quiet, CollectSource, ExpandIssue, ExpandFails, MarkExpanded, MarkHydrated,
           SkipItem, StoreItem, AnalysisFails, Leave
<1>. QED BY <1>1, <1>2 DEF QueueInv

(* Every step is a step of the abstract queue, or none.                    *)
LEMMA QueueStep ==
  ASSUME TypeOK, MemoryShape, QueueInv, [Next]_vars
  PROVE  [Queue!Next]_(Queue!vars)
<1>. USE DEF db
<1>0. /\ Roundups \subseteq QueueRows /\ Urls \subseteq QueueRows
      /\ QueueRows \subseteq Rows /\ Items \subseteq Rows
  BY DEF Rows, QueueRows
<1>1. CASE rows' = rows
  BY <1>0, <1>1, SameInQueue, QueueStutter
<1>2. ASSUME NEW S, Insert(S) PROVE [Queue!Next]_(Queue!vars)
  BY <1>2, InsertIsEnqueue
<1>3. ASSUME NEW w \in Workers, MarkProcessed(finished[w])
      PROVE  [Queue!Next]_(Queue!vars)
  <2>. DEFINE S == {i \in Items : finished[w][i] # None}
  <2>1. S \in SUBSET Rows /\ \A r \in S : rows[r].stored
    BY <1>0 DEF QueueInv, Held
  <2>2. \A r \in Rows : r \in S => rows'[r].stored /\ rows'[r].done
    BY <1>3, <2>1, MarkEffect
  <2>3. \A r \in Rows : r \notin S => rows'[r] = rows[r]
    BY <1>3, MarkEffect
  <2>. HIDE DEF S
  <2>. QED BY <2>1, <2>2, <2>3, SettlingIsFinish
<1>4. ASSUME NEW w \in Workers, NEW q \in QueueRows, Take(w, q), RecordFailure(q)
      PROVE  [Queue!Next]_(Queue!vars)
  BY <1>4, FailureIsCharge DEF QueueInv, Held, Take
<1>5. ASSUME NEW w \in Workers, NEW u \in Urls, SaveAnalysis(w, u)
      PROVE  [Queue!Next]_(Queue!vars)
  <2>1. {u} \in SUBSET Rows /\ \A r \in {u} : rows[r].stored
    BY <1>0, <1>5 DEF QueueInv, Held, SaveAnalysis
  <2>2. \A r \in Rows : r \in {u} => rows'[r].stored /\ rows'[r].done
    BY <1>5, <2>1, SaveEffect
  <2>3. \A r \in Rows : r \notin {u} => rows'[r] = rows[r]
    BY <1>5, SaveEffect
  <2>. QED BY <2>1, <2>2, <2>3, SettlingIsFinish
<1>. QED
  BY <1>0, <1>1, <1>2, <1>3, <1>4, <1>5, StepKinds
     DEF Quiet, CollectSource, ExpandIssue, ExpandFails, MarkExpanded, MarkHydrated,
         SkipItem, StoreItem, AnalysisFails, Leave

(* The tables raw_items and articles implement the abstract queue, for any *)
(* number of processes, any crashes and any clocks: a row enters once, is  *)
(* charged one attempt at a time, leaves by success or by its last attempt *)
(* and, once done, does not come back.                                     *)
THEOREM PipelineImplementsBacklog == Spec => ImplementsBacklog
<1>. DEFINE RefInv == MemoryShape /\ QueueInv
<1>1. Init => RefInv
  BY DEF Init, MemoryShape, QueueInv, RowInv, Held, NothingFinished
<1>2. TypeOK /\ RefInv /\ [Next]_vars => RefInv'
  BY MemoryShapeStep, QueueInvStep
<1>3. Init => Queue!Init
  <2>. SUFFICES ASSUME Init PROVE Queue!Init
    OBVIOUS
  <2>1. \A r \in QueueRows : StatusOf(r) = "absent" /\ ChargesOf(r) = 0
    BY DEF Init, QueueRows, StatusOf, ChargesOf, Smaller
  <2>. QED BY <2>1 DEF Queue!Init
<1>4. TypeOK /\ RefInv /\ [Next]_vars => [Queue!Next]_(Queue!vars)
  BY QueueStep
<1>. QED
  BY <1>1, <1>2, <1>3, <1>4, TypeCorrect, PTL
     DEF Spec, ImplementsBacklog, Queue!SafeSpec

-----------------------------------------------------------------------------
(* A settled row is not given up by the failures that come late.           *)

(* The processes that still have the row in their chunk: every failure     *)
(* that can be charged to a row no longer waiting is one of theirs.        *)
Holders(r) == {w \in Workers : r \in todo[w]}

LateFailuresBounded(r) ==
  rows[r].done =>
    rows[r].failures + Cardinality(Holders(r)) <= Cardinality(Workers) - 1

(* Only who finds a row waiting takes it in hand.                          *)
LEMMA HoldersDwindle ==
  ASSUME TypeOK, [Next]_vars, NEW r \in Rows, rows[r].done \/ rows[r].failed
  PROVE  Holders(r)' \subseteq Holders(r)
<1>. USE DEF db, memory, drain
<1>1. ASSUME NEW w \in Workers, NEW v \in Workers, Acts(w), r \in todo'[v]
      PROVE  r \in todo[v]
  <2>1. CASE v # w
    BY <1>1, <2>1, OthersUntouched
  <2>2. CASE v = w
    <3>1. ASSUME NEW c \in Commands, StartCommand(w, c) PROVE r \in todo[v]
      BY <1>1, <2>2, <3>1 DEF StartCommand
    <3>2. CASE SelectIssues(w) \/ SelectItems(w) \/ SelectArticles(w)
      BY <1>1, <2>2, <3>2
         DEF SelectIssues, SelectItems, SelectArticles, Chunks, Eligible, Waiting, TypeOK
    <3>3. ASSUME NEW q, Take(w, q) PROVE r \in todo[v]
      BY <1>1, <2>2, <3>3 DEF Take, TypeOK
    <3>4. CASE Leave(w)
      BY <1>1, <2>2, <3>4 DEF Leave, TypeOK
    <3>5. CASE UNCHANGED todo
      BY <1>1, <3>5
    <3>. QED
      BY <1>1, <3>1, <3>2, <3>3, <3>4, <3>5
         DEF Acts, Step, CollectSource, CollectFinish, MarkExpanded, MarkHydrated,
             ExpandIssue, ExpandFails, SkipItem, StoreItem, AnalysesDone,
             AnalyzeFinish, AnalyzeArticle, AnalysisFails, RecordLost,
             SaveAnalysis, BuildDigest, Return, Abort
  <2>. QED BY <2>1, <2>2
<1>2. CASE UNCHANGED vars
  BY <1>2 DEF vars, Holders
<1>. QED BY <1>1, <1>2 DEF Next, Acts, Holders

LEMMA HoldersFinite ==
  ASSUME IsFiniteSet(Workers), NEW r
  PROVE  /\ IsFiniteSet(Holders(r)) /\ IsFiniteSet(Holders(r)')
         /\ Cardinality(Holders(r)) \in Nat /\ Cardinality(Holders(r)') \in Nat
         /\ Cardinality(Workers) \in Nat
<1>1. Holders(r) \in SUBSET Workers /\ Holders(r)' \in SUBSET Workers
  BY DEF Holders
<1>2. IsFiniteSet(Holders(r)) /\ IsFiniteSet(Holders(r)')
  BY <1>1, FS_Subset
<1>. QED BY <1>2, FS_CardinalityType

(* A step that charges nobody for a settled row.                           *)
LEMMA LateFrame ==
  ASSUME TypeOK, IsFiniteSet(Workers), [Next]_vars, NEW r \in Rows,
         LateFailuresBounded(r), rows[r].done, rows'[r].failures = rows[r].failures
  PROVE  LateFailuresBounded(r)'
<1>1. Cardinality(Holders(r)') <= Cardinality(Holders(r))
  BY HoldersDwindle, HoldersFinite, FS_Subset
<1>2. rows[r].failures \in Nat
  BY DEF TypeOK, RowState
<1>3. rows[r].failures + Cardinality(Holders(r)) <= Cardinality(Workers) - 1
  BY DEF LateFailuresBounded
<1>4. rows'[r].failures + Cardinality(Holders(r)') <= Cardinality(Workers) - 1
  BY <1>1, <1>2, <1>3, HoldersFinite
<1>. QED BY <1>4 DEF LateFailuresBounded

(* Who settles a row does not hold it.                                     *)
LEMMA LateSettled ==
  ASSUME IsFiniteSet(Workers), NEW w \in Workers, NEW r \in Rows,
         todo'[w] = {}, rows'[r].failures = 0
  PROVE  LateFailuresBounded(r)'
<1>1. Holders(r)' \in SUBSET (Workers \ {w})
  BY DEF Holders
<1>2. /\ IsFiniteSet(Workers \ {w})
      /\ Cardinality(Workers \ {w}) = Cardinality(Workers) - 1
  BY FS_RemoveElement
<1>3. Cardinality(Holders(r)') <= Cardinality(Workers) - 1
  BY <1>1, <1>2, FS_Subset
<1>4. rows'[r].failures + Cardinality(Holders(r)') <= Cardinality(Workers) - 1
  BY <1>3, HoldersFinite
<1>. QED BY <1>4 DEF LateFailuresBounded

(* Who charges a row gives it out of his hands.                            *)
LEMMA LateCharged ==
  ASSUME TypeOK, IsFiniteSet(Workers), [Next]_vars, NEW w \in Workers, NEW r \in Rows,
         Take(w, r), RecordFailure(r), rows[r].done, LateFailuresBounded(r)
  PROVE  LateFailuresBounded(r)'
<1>1. w \in Holders(r) /\ w \notin Holders(r)'
  BY DEF Holders, Take, TypeOK
<1>2. Holders(r)' \in SUBSET (Holders(r) \ {w})
  BY <1>1, HoldersDwindle
<1>3. /\ IsFiniteSet(Holders(r) \ {w})
      /\ Cardinality(Holders(r) \ {w}) = Cardinality(Holders(r)) - 1
  BY <1>1, HoldersFinite, FS_RemoveElement
<1>4. Cardinality(Holders(r)') <= Cardinality(Holders(r)) - 1
  BY <1>2, <1>3, FS_Subset
<1>5. rows[r].failures \in Nat /\ rows'[r].failures = rows[r].failures + 1
  BY ChargeEffect DEF TypeOK, RowState
<1>6. rows[r].failures + Cardinality(Holders(r)) <= Cardinality(Workers) - 1
  BY DEF LateFailuresBounded
<1>7. rows'[r].failures + Cardinality(Holders(r)') <= Cardinality(Workers) - 1
  BY <1>4, <1>5, <1>6, HoldersFinite
<1>. QED BY <1>7 DEF LateFailuresBounded

LEMMA LateStep ==
  ASSUME TypeOK, MemoryShape, IsFiniteSet(Workers), [Next]_vars, NEW r \in Rows,
         LateFailuresBounded(r)
  PROVE  LateFailuresBounded(r)'
<1>. USE DEF db
<1>1. CASE rows'[r].done = rows[r].done /\ rows'[r].failures = rows[r].failures
  <2>1. CASE rows[r].done
    BY <1>1, <2>1, LateFrame
  <2>2. CASE ~rows[r].done
    BY <1>1, <2>2 DEF LateFailuresBounded
  <2>. QED BY <2>1, <2>2
<1>2. ASSUME NEW S, Insert(S) PROVE LateFailuresBounded(r)'
  BY <1>1, <1>2, InsertEffect
<1>3. ASSUME NEW w \in Workers, MarkExpanded(w) \/ MarkHydrated(w)
      PROVE  LateFailuresBounded(r)'
  <2>1. MarkProcessed(finished[w]) /\ todo'[w] = {}
    BY <1>3 DEF MarkExpanded, MarkHydrated
  <2>2. CASE r \in Items /\ finished[w][r] # None
    BY <2>1, <2>2, MarkEffect, LateSettled
  <2>3. CASE ~(r \in Items /\ finished[w][r] # None)
    BY <1>1, <2>1, <2>3, MarkEffect
  <2>. QED BY <2>2, <2>3
<1>4. ASSUME NEW w \in Workers, NEW q \in Rows, Take(w, q), RecordFailure(q)
      PROVE  LateFailuresBounded(r)'
  <2>1. CASE r # q
    BY <1>1, <1>4, <2>1, ChargeEffect
  <2>2. CASE r = q /\ rows[r].done
    BY <1>4, <2>2, LateCharged
  <2>3. CASE r = q /\ ~rows[r].done
    BY <1>4, <2>3, ChargeEffect DEF LateFailuresBounded
  <2>. QED BY <2>1, <2>2, <2>3
<1>5. ASSUME NEW w \in Workers, NEW u \in Urls, SaveAnalysis(w, u)
      PROVE  LateFailuresBounded(r)'
  <2>1. todo'[w] = {}
    BY <1>5 DEF SaveAnalysis, MemoryShape
  <2>2. CASE r = u
    BY <1>5, <2>1, <2>2, SaveEffect, LateSettled
  <2>3. CASE r # u
    BY <1>1, <1>5, <2>3, SaveEffect
  <2>. QED BY <2>2, <2>3
<1>6. Roundups \subseteq Rows /\ Urls \subseteq Rows
  BY DEF Rows
<1>. QED
  BY <1>1, <1>2, <1>3, <1>4, <1>5, <1>6, StepKinds
     DEF Quiet, CollectSource, ExpandIssue, ExpandFails, SkipItem, StoreItem,
         AnalysisFails, Leave

(* With no more processes than attempts, a settled row is never reported   *)
(* as given up: success resets the count, and each of the other processes  *)
(* can add at most the one failure it had under way.                       *)
THEOREM SettledIsNotGivenUp ==
  ASSUME IsFiniteSet(Workers), Cardinality(Workers) <= MaxFailures
  PROVE  Spec => []SettledNotGivenUp
<1>. DEFINE LateInv == /\ MemoryShape /\ FailedIsExhausted
                       /\ \A r \in Rows : LateFailuresBounded(r)
<1>1. Init => LateInv
  BY DEF Init, MemoryShape, FailedIsExhausted, LateFailuresBounded, NothingFinished
<1>2. TypeOK /\ LateInv /\ [Next]_vars => LateInv'
  BY MemoryShapeStep, FailedStep, LateStep
<1>3. TypeOK /\ LateInv => SettledNotGivenUp
  <2>. SUFFICES ASSUME TypeOK, LateInv, NEW r \in Rows, rows[r].done, rows[r].failed
                PROVE  FALSE
    BY DEF SettledNotGivenUp
  <2>1. rows[r].failures >= MaxFailures /\ rows[r].failures \in Nat
    BY DEF FailedIsExhausted, TypeOK, RowState
  <2>2. rows[r].failures + Cardinality(Holders(r)) <= Cardinality(Workers) - 1
    BY DEF LateFailuresBounded
  <2>. QED BY <2>1, <2>2, HoldersFinite
<1>. QED BY <1>1, <1>2, <1>3, TypeCorrect, PTL DEF Spec

-----------------------------------------------------------------------------
(* The limit of attempts.                                                  *)

(* A row is given up with its last attempt; after that only those who have *)
(* it in hand can charge it, once each.                                    *)
LimitKept(r) ==
  IF rows[r].failed
  THEN rows[r].failures + Cardinality(Holders(r)) <= MaxFailures + Cardinality(Workers) - 1
  ELSE rows[r].failures < MaxFailures

(* A step that charges nobody.                                             *)
LEMMA LimitFrame ==
  ASSUME TypeOK, IsFiniteSet(Workers), [Next]_vars, NEW r \in Rows, LimitKept(r),
         rows'[r].failed = rows[r].failed, rows'[r].failures = rows[r].failures
  PROVE  LimitKept(r)'
<1>1. CASE rows[r].failed
  <2>1. Cardinality(Holders(r)') <= Cardinality(Holders(r))
    BY <1>1, HoldersDwindle, HoldersFinite, FS_Subset
  <2>2. rows[r].failures \in Nat /\ MaxFailures \in Nat
    BY BoundsAssumption DEF TypeOK, RowState
  <2>3. rows[r].failures + Cardinality(Holders(r)) <= MaxFailures + Cardinality(Workers) - 1
    BY <1>1 DEF LimitKept
  <2>4. rows'[r].failures + Cardinality(Holders(r)') <= MaxFailures + Cardinality(Workers) - 1
    BY <2>1, <2>2, <2>3, HoldersFinite
  <2>. QED BY <1>1, <2>4 DEF LimitKept
<1>2. CASE ~rows[r].failed
  BY <1>2 DEF LimitKept
<1>. QED BY <1>1, <1>2

LEMMA LimitCharged ==
  ASSUME TypeOK, IsFiniteSet(Workers), [Next]_vars, NEW w \in Workers, NEW r \in Rows,
         Take(w, r), RecordFailure(r), LimitKept(r)
  PROVE  LimitKept(r)'
<1>1. w \in Holders(r) /\ w \notin Holders(r)'
  BY DEF Holders, Take, TypeOK
<1>2. /\ rows[r].failures \in Nat /\ MaxFailures \in Nat
      /\ rows'[r].failures = rows[r].failures + 1
  BY ChargeEffect, BoundsAssumption DEF TypeOK, RowState
<1>3. ~rows'[r].failed => rows'[r].failures < MaxFailures
  <2>1. ~rows'[r].failed => ~(rows[r].failures + 1 >= MaxFailures)
    BY ChargeEffect, Zenon
  <2>. QED BY <1>2, <2>1
<1>4. CASE rows[r].failed
  <2>1. Holders(r)' \in SUBSET (Holders(r) \ {w})
    BY <1>1, <1>4, HoldersDwindle
  <2>2. /\ IsFiniteSet(Holders(r) \ {w})
        /\ Cardinality(Holders(r) \ {w}) = Cardinality(Holders(r)) - 1
    BY <1>1, HoldersFinite, FS_RemoveElement
  <2>3. Cardinality(Holders(r)') <= Cardinality(Holders(r)) - 1
    BY <2>1, <2>2, FS_Subset
  <2>4. rows[r].failures + Cardinality(Holders(r)) <= MaxFailures + Cardinality(Workers) - 1
    BY <1>4 DEF LimitKept
  <2>5. rows'[r].failures + Cardinality(Holders(r)') <= MaxFailures + Cardinality(Workers) - 1
    BY <1>2, <2>3, <2>4, HoldersFinite
  <2>. QED BY <1>3, <2>5 DEF LimitKept
<1>5. CASE ~rows[r].failed
  <2>1. rows[r].failures < MaxFailures
    BY <1>5 DEF LimitKept
  <2>2. Holders(r)' \in SUBSET (Workers \ {w})
    BY <1>1 DEF Holders
  <2>3. /\ IsFiniteSet(Workers \ {w})
        /\ Cardinality(Workers \ {w}) = Cardinality(Workers) - 1
    BY FS_RemoveElement
  <2>4. Cardinality(Holders(r)') <= Cardinality(Workers) - 1
    BY <2>2, <2>3, FS_Subset
  <2>5. rows'[r].failures + Cardinality(Holders(r)') <= MaxFailures + Cardinality(Workers) - 1
    BY <1>2, <2>1, <2>4, HoldersFinite
  <2>. QED BY <1>3, <2>5 DEF LimitKept
<1>. QED BY <1>4, <1>5

LEMMA LimitStep ==
  ASSUME TypeOK, IsFiniteSet(Workers), [Next]_vars, NEW r \in Rows, LimitKept(r)
  PROVE  LimitKept(r)'
<1>. USE DEF db
<1>1. CASE rows'[r].failed = rows[r].failed /\ rows'[r].failures = rows[r].failures
  BY <1>1, LimitFrame
<1>2. CASE ~rows'[r].failed /\ rows'[r].failures = 0
  BY <1>2, BoundsAssumption DEF LimitKept
<1>3. ASSUME NEW S, Insert(S) PROVE LimitKept(r)'
  BY <1>1, <1>3, InsertEffect
<1>4. ASSUME NEW w \in Workers, MarkExpanded(w) \/ MarkHydrated(w)
      PROVE  LimitKept(r)'
  <2>1. MarkProcessed(finished[w])
    BY <1>4 DEF MarkExpanded, MarkHydrated
  <2>. QED BY <1>1, <1>2, <2>1, MarkEffect
<1>5. ASSUME NEW w \in Workers, NEW q \in Rows, Take(w, q), RecordFailure(q)
      PROVE  LimitKept(r)'
  BY <1>1, <1>5, ChargeEffect, LimitCharged
<1>6. ASSUME NEW w \in Workers, NEW u \in Urls, SaveAnalysis(w, u)
      PROVE  LimitKept(r)'
  BY <1>1, <1>2, <1>6, SaveEffect
<1>7. Roundups \subseteq Rows /\ Urls \subseteq Rows
  BY DEF Rows
<1>. QED
  BY <1>1, <1>3, <1>4, <1>5, <1>6, <1>7, StepKinds
     DEF Quiet, CollectSource, ExpandIssue, ExpandFails, SkipItem, StoreItem,
         AnalysisFails, Leave

(* No row is attempted for ever: one process charges it MaxFailures times  *)
(* at most, and each further process may add the one attempt it had under  *)
(* way when the row was given up.                                          *)
THEOREM AttemptsAreLimited ==
  ASSUME IsFiniteSet(Workers)
  PROVE  Spec => [](\A r \in Rows : rows[r].failures < MaxFailures + Cardinality(Workers))
<1>. DEFINE LimitInv == \A r \in Rows : LimitKept(r)
<1>1. Init => LimitInv
  BY BoundsAssumption DEF Init, LimitKept
<1>2. TypeOK /\ LimitInv /\ [Next]_vars => LimitInv'
  BY LimitStep
<1>3. TypeOK /\ LimitInv
        => \A r \in Rows : rows[r].failures < MaxFailures + Cardinality(Workers)
  <2>. SUFFICES ASSUME TypeOK, NEW r \in Rows, LimitKept(r)
                PROVE  rows[r].failures < MaxFailures + Cardinality(Workers)
    OBVIOUS
  <2>1. rows[r].failures \in Nat /\ MaxFailures \in Nat
    BY BoundsAssumption DEF TypeOK, RowState
  <2>. QED BY <2>1, HoldersFinite DEF LimitKept
<1>. QED BY <1>1, <1>2, <1>3, TypeCorrect, PTL DEF Spec

-----------------------------------------------------------------------------
(* The statistics add up.                                                  *)

(* An item is out of its queue exactly when it has an outcome; records     *)
(* have none, and only an article item is ever "stored".                   *)
Consistent(i, what) ==
  what # None => i \notin Provenance /\ (what = "stored" => i \in Articles)

OutcomeInv ==
  /\ \A i \in Items : (outcome[i] # None <=> rows[i].done) /\ Consistent(i, outcome[i])
  /\ \A w \in Workers, i \in Items : Consistent(i, finished[w][i])

(* A step that marks nothing and finishes nothing.                         *)
LEMMA OutcomeFrame ==
  ASSUME TypeOK, OutcomeInv, outcome' = outcome,
         \A i \in Items : rows'[i].done = rows[i].done,
         \A w \in Workers, i \in Items : finished'[w][i] \in {finished[w][i], None}
  PROVE  OutcomeInv'
BY DEF OutcomeInv, Consistent

(* A step that finishes one item of a kind of its own.                     *)
LEMMA OutcomeTaken ==
  ASSUME TypeOK, OutcomeInv, outcome' = outcome,
         \A j \in Items : rows'[j].done = rows[j].done,
         NEW w \in Workers, NEW i \in Items, NEW what, Consistent(i, what),
         finished' = [finished EXCEPT ![w][i] = what]
  PROVE  OutcomeInv'
<1>1. \A v \in Workers, j \in Items :
        finished'[v][j] = IF v = w /\ j = i THEN what ELSE finished[v][j]
  BY DEF TypeOK
<1>. QED BY <1>1 DEF OutcomeInv, Consistent

LEMMA OutcomeStep == TypeOK /\ OutcomeInv /\ [Next]_vars => OutcomeInv'
<1>. SUFFICES ASSUME TypeOK, OutcomeInv, [Next]_vars PROVE OutcomeInv'
  OBVIOUS
<1>. USE DEF db
<1>0. /\ Items \subseteq Rows /\ Urls \subseteq Rows /\ Roundups \subseteq Items
      /\ Articles \subseteq Items /\ Items \cap Urls = {}
      /\ \A i \in Roundups : Consistent(i, "expanded")
      /\ \A i \in Articles : \A what \in Outcomes : Consistent(i, what)
  BY DEF Articles, Rows, Consistent
<1>1. CASE Quiet
  BY <1>1, OutcomeFrame DEF Quiet
<1>2. ASSUME NEW w \in Workers, NEW s \in Sources, CollectSource(w, s)
      PROVE  OutcomeInv'
  BY <1>0, <1>2, InsertEffect, OutcomeFrame DEF CollectSource
<1>3. ASSUME NEW w \in Workers, NEW i \in Roundups, ExpandIssue(w, i)
      PROVE  OutcomeInv'
  <2>1. \A j \in Items : rows'[j].done = rows[j].done
    BY <1>0, <1>3, InsertEffect DEF ExpandIssue
  <2>. QED BY <1>0, <1>3, <2>1, OutcomeTaken DEF ExpandIssue
<1>4. ASSUME NEW q \in Rows, RecordFailure(q), UNCHANGED <<outcome, finished>>
      PROVE  OutcomeInv'
  <2>1. \A j \in Items : rows'[j].done = rows[j].done
    BY <1>0, <1>4, ChargeEffect
  <2>. QED BY <1>4, <2>1, OutcomeFrame
<1>5. ASSUME NEW w \in Workers, MarkExpanded(w) \/ MarkHydrated(w)
      PROVE  OutcomeInv'
  <2>1. /\ MarkProcessed(finished[w])
        /\ finished' = [finished EXCEPT ![w] = NothingFinished]
    BY <1>5 DEF MarkExpanded, MarkHydrated
  <2>2. \A v \in Workers, j \in Items : finished'[v][j] \in {finished[v][j], None}
    BY <2>1 DEF TypeOK, NothingFinished
  <2>3. \A j \in Items : rows'[j].done <=> rows[j].done \/ finished[w][j] # None
    BY <1>0, <2>1, MarkEffect
  <2>4. \A j \in Items : outcome'[j] =
          IF finished[w][j] # None THEN finished[w][j] ELSE outcome[j]
    BY <2>1 DEF MarkProcessed
  <2>. QED BY <2>2, <2>3, <2>4 DEF OutcomeInv, Consistent
<1>6. ASSUME NEW w \in Workers, NEW i \in Articles, SkipItem(w, i)
      PROVE  OutcomeInv'
  <2>1. "skipped" \in Outcomes
    BY DEF Outcomes
  <2>. QED BY <1>0, <1>6, <2>1, OutcomeTaken DEF SkipItem
<1>7. ASSUME NEW w \in Workers, NEW i \in Articles, NEW u \in Urls, NEW b \in BOOLEAN,
             StoreItem(w, i, u, b)
      PROVE  OutcomeInv'
  <2>1. PICK o \in {"duplicate", "stored"} : finished' = [finished EXCEPT ![w][i] = o]
    BY <1>7 DEF StoreItem
  <2>2. o \in Outcomes
    BY DEF Outcomes
  <2>3. \A j \in Items : rows'[j].done = rows[j].done
    BY <1>0, <1>7, InsertEffect DEF StoreItem
  <2>. QED BY <1>0, <1>7, <2>1, <2>2, <2>3, OutcomeTaken DEF StoreItem
<1>8. ASSUME NEW w \in Workers, NEW u \in Urls, SaveAnalysis(w, u)
      PROVE  OutcomeInv'
  <2>1. \A j \in Items : rows'[j] = rows[j]
    BY <1>0, <1>8, SaveEffect
  <2>. QED BY <1>8, <2>1, OutcomeFrame DEF SaveAnalysis
<1>9. ASSUME NEW w \in Workers, Leave(w)
      PROVE  OutcomeInv'
  BY <1>9, OutcomeFrame DEF Leave, TypeOK, NothingFinished
<1>. QED
  BY <1>0, <1>1, <1>2, <1>3, <1>4, <1>5, <1>6, <1>7, <1>8, <1>9, StepKinds
     DEF ExpandFails, AnalysisFails

LEMMA OutcomeInit == Init => OutcomeInv
<1>1. \A i \in Items : NothingFinished[i] = None /\ i \in Rows
  BY DEF NothingFinished, Rows
<1>. QED BY <1>1 DEF Init, OutcomeInv, Consistent

(* Counting a set by its two halves.                                       *)
Splits(S, A, B) == A \cup B = S /\ A \cap B = {}

LEMMA CountSplit ==
  ASSUME NEW S, IsFiniteSet(S), NEW A, NEW B, Splits(S, A, B)
  PROVE  /\ IsFiniteSet(A) /\ IsFiniteSet(B)
         /\ Count(A) \in Nat /\ Count(B) \in Nat /\ Count(S) = Count(A) + Count(B)
<1>0. A \in SUBSET S /\ B \in SUBSET S
  BY DEF Splits
<1>1. IsFiniteSet(A) /\ IsFiniteSet(B)
  BY <1>0, FS_Subset
<1>2. Cardinality(A \cap B) = 0
  BY FS_EmptySet DEF Splits
<1>3. Cardinality(A) \in Nat /\ Cardinality(B) \in Nat
  BY <1>1, FS_CardinalityType
<1>4. Cardinality(A \cup B) = Cardinality(A) + Cardinality(B) - Cardinality(A \cap B)
  BY <1>1, FS_Union
<1>5. Cardinality(A \cup B) = Cardinality(A) + Cardinality(B)
  BY <1>2, <1>3, <1>4
<1>. QED BY <1>1, <1>3, <1>5, Zenon DEF Count, Splits

(* Every creator has an article of its own.                                *)
LEMMA StoredOwnArticles ==
  ASSUME TypeOK, OutcomeInv, CreatorKnown, StoredIsCreator
  PROVE  Count(Became(Items, "stored")) <= Count(Stored(Urls))
<1>. DEFINE S == Became(Items, "stored")
            T == Stored(Urls)
            f == [i \in S |-> CHOOSE u \in Urls : origin[u] = i]
<1>1. ASSUME NEW i \in S PROVE f[i] \in Urls /\ origin[f[i]] = i /\ f[i] \in T
  <2>1. i \in Items /\ outcome[i] = "stored"
    BY DEF Became, Stored
  <2>2. i \in Articles
    BY <2>1 DEF OutcomeInv, Consistent, None
  <2>3. \E u \in Urls : origin[u] = i
    BY <2>1, <2>2 DEF StoredIsCreator
  <2>4. f[i] \in Urls /\ origin[f[i]] = i
    BY <2>3
  <2>5. origin[f[i]] # None
    BY <2>1, <2>4
  <2>. QED BY <2>4, <2>5 DEF CreatorKnown, Stored
<1>2. IsFiniteSet(T)
  <2>1. T \in SUBSET Urls
    BY DEF Stored
  <2>. QED BY <2>1, FS_Subset
<1>3. f \in Injection(S, T)
  <2>1. f \in [S -> T]
    BY <1>1
  <2>2. \A i, j \in S : f[i] = f[j] => i = j
    BY <1>1
  <2>. HIDE DEF S, T, f
  <2>. QED BY <2>1, <2>2 DEF Injection, IsInjective
<1>. HIDE DEF S, T, f
<1>4. Cardinality(S) <= Cardinality(T)
  BY <1>2, <1>3, FS_Injection
<1>. QED BY <1>4 DEF S, T, Count

(* Of the articles.                                                        *)
LEMMA LibraryAddsUp ==
  ASSUME TypeOK
  PROVE  Library.total = Library.analyzed + Stage(Urls).pending + Stage(Urls).failed
<1>. DEFINE All == Stored(Urls)
            Done == {u \in All : rows[u].done}
            Open == {u \in All : ~rows[u].done}
            GivenUp == {u \in Urls : rows[u].stored /\ ~rows[u].done /\ rows[u].failed}
<1>1. IsFiniteSet(All)
  <2>1. All \in SUBSET Urls
    BY DEF Stored
  <2>. QED BY <2>1, FS_Subset
<1>2. /\ IsFiniteSet(Open) /\ Count(Done) \in Nat /\ Count(Open) \in Nat
      /\ Count(All) = Count(Done) + Count(Open)
  <2>1. Splits(All, Done, Open)
    BY DEF Splits
  <2>. HIDE DEF All, Done, Open
  <2>. QED BY <1>1, <2>1, CountSplit
<1>3. /\ Count(Waiting(Urls)) \in Nat /\ Count(GivenUp) \in Nat
      /\ Count(Open) = Count(Waiting(Urls)) + Count(GivenUp)
  <2>1. Splits(Open, Waiting(Urls), GivenUp)
    BY DEF Stored, Waiting, Splits
  <2>. HIDE DEF Open, GivenUp
  <2>. QED BY <1>2, <2>1, CountSplit
<1>4. /\ Library.total = Count(All) /\ Library.analyzed = Count(Done)
      /\ Stage(Urls).pending = Count(Waiting(Urls)) /\ Stage(Urls).failed = Count(GivenUp)
  BY DEF Library, Stage
<1>. HIDE DEF All, Done, Open, GivenUp
<1>. QED BY <1>2, <1>3, <1>4

LEMMA PageAddsUp ==
  ASSUME TypeOK, OutcomeInv
  PROVE  AddsUp
<1>. DEFINE All == Stored(Items)
            Records == Stored(Items \cap Provenance)
            Issues == Stored(Items \cap Roundups)
            Posts == Stored(Items \cap Articles)
            Work == Issues \cup Posts
            Done == {i \in Work : rows[i].done}
            Open == {i \in Work : ~rows[i].done}
            Known == Became(Items, "stored") \cup Became(Items, "expanded")
            Dropped == Became(Items, "duplicate") \cup Became(Items, "skipped")
            FailedIn(S) == {r \in S : rows[r].stored /\ ~rows[r].done /\ rows[r].failed}
            GivenUp == FailedIn(Roundups) \cup FailedIn(Articles)
            Unknown == {i \in Stored(Items) : rows[i].done /\ outcome[i] = None}
<1>0. /\ Articles \subseteq Items /\ Roundups \subseteq Items /\ Provenance \subseteq Items
      /\ Items = Provenance \cup Roundups \cup Articles
      /\ Articles \cap Roundups = {} /\ Articles \cap Provenance = {}
      /\ Roundups \cap Provenance = {}
  BY DEF Articles
<1>1. IsFiniteSet(All)
  <2>1. All \in SUBSET Items
    BY DEF Stored
  <2>. QED BY <2>1, FS_Subset
<1>2. /\ IsFiniteSet(Work) /\ Count(Records) \in Nat /\ Count(Work) \in Nat
      /\ Count(All) = Count(Records) + Count(Work)
  <2>1. Splits(All, Records, Work)
    BY <1>0 DEF Stored, Splits
  <2>. HIDE DEF All, Records, Work
  <2>. QED BY <1>1, <2>1, CountSplit
<1>3. /\ Count(Issues) \in Nat /\ Count(Posts) \in Nat
      /\ Count(Work) = Count(Issues) + Count(Posts)
  <2>1. Splits(Work, Issues, Posts)
    BY <1>0 DEF Stored, Splits
  <2>. HIDE DEF Issues, Posts, Work
  <2>. QED BY <1>2, <2>1, CountSplit
<1>4. /\ IsFiniteSet(Done) /\ IsFiniteSet(Open) /\ Count(Done) \in Nat /\ Count(Open) \in Nat
      /\ Count(Work) = Count(Done) + Count(Open)
  <2>1. Splits(Work, Done, Open)
    BY DEF Splits
  <2>. HIDE DEF Done, Open, Work
  <2>. QED BY <1>2, <2>1, CountSplit
<1>5. /\ IsFiniteSet(Known) /\ IsFiniteSet(Dropped)
      /\ Count(Known) \in Nat /\ Count(Dropped) \in Nat
      /\ Count(Done) = Count(Known) + Count(Dropped)
  <2>1. Known \cap Dropped = {}
    BY DEF Became
  <2>2. \A i \in Items : outcome[i] \in Outcomes \cup {None}
    BY DEF TypeOK
  <2>3. Known \cup Dropped \subseteq Done
    <3>1. ASSUME NEW i \in Known \cup Dropped PROVE i \in Done
      <4>1. i \in Items /\ rows[i].stored /\ outcome[i] # None
        BY DEF Became, Stored, None
      <4>2. rows[i].done /\ i \notin Provenance
        BY <4>1 DEF OutcomeInv, Consistent
      <4>. QED BY <1>0, <4>1, <4>2 DEF Stored
    <3>. QED BY <3>1
  <2>4. Done \subseteq Known \cup Dropped
    <3>1. ASSUME NEW i \in Done PROVE i \in Known \cup Dropped
      <4>1. i \in Items /\ rows[i].stored /\ rows[i].done
        BY <1>0 DEF Stored
      <4>2. outcome[i] \in Outcomes
        BY <2>2, <4>1 DEF OutcomeInv
      <4>. QED BY <4>1, <4>2 DEF Became, Stored, Outcomes
    <3>. QED BY <3>1
  <2>5. Splits(Done, Known, Dropped)
    <3>. HIDE DEF Done, Known, Dropped
    <3>. QED BY <2>1, <2>3, <2>4 DEF Splits
  <2>. HIDE DEF Done, Known, Dropped
  <2>. QED BY <1>4, <2>5, CountSplit
<1>6. /\ Count(Became(Items, "stored")) \in Nat /\ Count(Became(Items, "expanded")) \in Nat
      /\ Count(Known) = Count(Became(Items, "stored")) + Count(Became(Items, "expanded"))
  <2>1. Splits(Known, Became(Items, "stored"), Became(Items, "expanded"))
    BY DEF Became, Splits
  <2>. HIDE DEF Known
  <2>. QED BY <1>5, <2>1, CountSplit
<1>7. /\ Count(Became(Items, "duplicate")) \in Nat /\ Count(Became(Items, "skipped")) \in Nat
      /\ Count(Dropped) = Count(Became(Items, "duplicate")) + Count(Became(Items, "skipped"))
  <2>1. Splits(Dropped, Became(Items, "duplicate"), Became(Items, "skipped"))
    BY DEF Became, Splits
  <2>. HIDE DEF Dropped
  <2>. QED BY <1>5, <2>1, CountSplit
<1>8. /\ IsFiniteSet(Pending(Items)) /\ IsFiniteSet(GivenUp)
      /\ Count(Pending(Items)) \in Nat /\ Count(GivenUp) \in Nat
      /\ Count(Open) = Count(Pending(Items)) + Count(GivenUp)
  <2>1. Splits(Open, Pending(Items), GivenUp)
    BY <1>0 DEF Pending, Stored, Splits
  <2>. HIDE DEF Open, GivenUp
  <2>. QED BY <1>4, <2>1, CountSplit
<1>9. /\ Count(FailedIn(Roundups)) \in Nat /\ Count(FailedIn(Articles)) \in Nat
      /\ Count(GivenUp) = Count(FailedIn(Roundups)) + Count(FailedIn(Articles))
  <2>1. Splits(GivenUp, FailedIn(Roundups), FailedIn(Articles))
    BY <1>0 DEF Splits
  <2>. HIDE DEF FailedIn, GivenUp
  <2>. QED BY <1>8, <2>1, CountSplit
<1>10. Count(Pending(Items)) = Count(Waiting(Roundups)) + Count(Waiting(Articles))
  <2>1. Splits(Pending(Items), Waiting(Roundups), Waiting(Articles))
    BY <1>0 DEF Pending, Stored, Waiting, Splits
  <2>. QED BY <1>8, <2>1, CountSplit
<1>11. Count(Unknown) = 0
  <2>1. Unknown = {}
    BY DEF OutcomeInv, Stored
  <2>. QED BY <2>1, FS_EmptySet DEF Count
<1>. DEFINE t == Tally(Items)
            b == Backlogs
<1>12. /\ t.provenance = Count(Records) /\ t.roundups = Count(Issues)
       /\ t.links = Count(Posts) /\ t.stored = Count(Became(Items, "stored"))
       /\ t.duplicate = Count(Became(Items, "duplicate"))
       /\ t.skipped = Count(Became(Items, "skipped"))
       /\ t.pending = Count(Pending(Items)) /\ t.unknown = Count(Unknown)
       /\ b.expansion.failed = Count(FailedIn(Roundups))
       /\ b.retrieval.failed = Count(FailedIn(Articles))
       /\ b.expansion.pending = Count(Waiting(Roundups))
       /\ b.retrieval.pending = Count(Waiting(Articles))
  BY DEF Tally, Backlogs, Stage
<1>13. /\ Collected(t) = t.provenance + t.roundups + t.links
       /\ Discarded(t) = t.duplicate + t.skipped
  BY DEF Collected, Discarded
<1>. HIDE DEF t, b, Records, Issues, Posts, Work, Done, Open, Known, Dropped,
              FailedIn, GivenUp, Unknown, All
<1>14. Collected(t) = t.provenance + Count(Became(Items, "expanded")) + t.stored
                      + Discarded(t) + t.pending
                      + b.expansion.failed + b.retrieval.failed
  BY <1>2, <1>3, <1>4, <1>5, <1>6, <1>7, <1>8, <1>9, <1>12, <1>13
<1>15. t.unknown = 0 /\ t.pending = b.expansion.pending + b.retrieval.pending
  BY <1>10, <1>11, <1>12
<1>16. Library.total = Library.analyzed + b.analysis.pending + b.analysis.failed
  BY LibraryAddsUp DEF b, Backlogs
<1>. QED BY <1>14, <1>15, <1>16 DEF t, b, AddsUp

(* What the page remembers between its queries.                            *)
PageInv ==
  /\ StatsTypeOK
  /\ statsPage.stored <= Count(Stored(Urls))

LEMMA StoredGrows ==
  ASSUME TypeOK, [Next]_vars
  PROVE  /\ Count(Stored(Urls)) \in Nat /\ Count(Stored(Urls))' \in Nat
         /\ Count(Stored(Urls)) <= Count(Stored(Urls))'
<1>. DEFINE S == Stored(Urls)
<1>1. S \in SUBSET S'
  BY StoredForever DEF Stored, Rows
<1>2. S \in SUBSET Urls /\ S' \in SUBSET Urls
  BY DEF Stored
<1>. HIDE DEF S
<1>3. IsFiniteSet(S) /\ IsFiniteSet(S')
  BY <1>2, FS_Subset
<1>4. Cardinality(S) \in Nat /\ Cardinality(S') \in Nat /\ Cardinality(S) <= Cardinality(S')
  BY <1>1, <1>3, FS_CardinalityType, FS_Subset
<1>. QED BY <1>4 DEF S, Count

LEMMA PageStep ==
  ASSUME TypeOK, OutcomeInv, SavedInv, PageInv, [StatsNext]_statsVars
  PROVE  PageInv'
<1>1. Tally(Items).stored \in Nat /\ Tally(Items).stored <= Count(Stored(Urls))
  <2>1. Became(Items, "stored") \in SUBSET Items
    BY DEF Became, Stored
  <2>2. Count(Became(Items, "stored")) \in Nat
    BY <2>1, FS_Subset, FS_CardinalityType DEF Count
  <2>. QED BY <2>2, StoredOwnArticles DEF SavedInv, Tally
<1>2. Count(Stored(Urls)) \in Nat
  <2>1. Stored(Urls) \in SUBSET Urls
    BY DEF Stored
  <2>. QED BY <2>1, FS_Subset, FS_CardinalityType DEF Count
<1>3. CASE ReadTallies
  <2>1. Count(Stored(Urls))' = Count(Stored(Urls))
    BY <1>3 DEF ReadTallies, vars, db, Count, Stored
  <2>. HIDE DEF Tally
  <2>. QED BY <1>1, <1>3, <2>1 DEF ReadTallies, PageInv, StatsTypeOK
<1>4. CASE ReadArticles \/ ReadBacklogs
  <2>1. Count(Stored(Urls))' = Count(Stored(Urls))
    BY <1>4 DEF ReadArticles, ReadBacklogs, vars, db, Count, Stored
  <2>2. StatsTypeOK'
    <3>1. statsPage.written \in BOOLEAN
      BY DEF PageInv, StatsTypeOK
    <3>2. CASE ReadArticles
      BY <3>1, <3>2 DEF ReadArticles, StatsTypeOK
    <3>3. CASE ReadBacklogs
      BY <3>3 DEF ReadBacklogs, NoPage, StatsTypeOK
    <3>. QED BY <1>4, <3>2, <3>3
  <2>3. statsPage'.stored = 0
    BY <1>4 DEF ReadArticles, ReadBacklogs, NoPage, PageInv, StatsTypeOK
  <2>. QED BY <1>2, <2>1, <2>2, <2>3 DEF PageInv
<1>5. CASE RunStep
  <2>1. Count(Stored(Urls)) <= Count(Stored(Urls))' /\ Count(Stored(Urls))' \in Nat
    BY <1>5, StoredGrows DEF RunStep
  <2>2. StatsTypeOK'
    BY <1>5 DEF RunStep, PageInv, StatsTypeOK
  <2>3. statsPage'.stored = statsPage.stored /\ statsPage.stored \in Nat
    BY <1>5 DEF RunStep, PageInv, StatsTypeOK
  <2>. QED BY <1>2, <2>1, <2>2, <2>3 DEF PageInv
<1>6. CASE UNCHANGED statsVars
  BY <1>6 DEF statsVars, vars, db, PageInv, StatsTypeOK, Count, Stored
<1>. QED BY <1>3, <1>4, <1>5, <1>6 DEF StatsNext

(* The statistics page, whose queries each see another moment: if nothing  *)
(* was written meanwhile no collected item is lost from it or counted      *)
(* twice, and always there is an article for each item that it says made   *)
(* one.                                                                    *)
THEOREM PageAgrees == StatsSpec => StatisticsAgree
<1>. DEFINE Inv == OutcomeInv /\ SavedInv /\ PageInv
<1>1. StatsInit => Inv
  <2>. SUFFICES ASSUME StatsInit PROVE Inv
    OBVIOUS
  <2>1. Stored(Urls) \in SUBSET Urls
    BY DEF Stored
  <2>2. Count(Stored(Urls)) \in Nat
    BY <2>1, FS_Subset, FS_CardinalityType DEF Count
  <2>. QED BY <2>2, OutcomeInit, SavedInit DEF StatsInit, NoPage, PageInv, StatsTypeOK
<1>2. [StatsNext]_statsVars => [Next]_vars
  BY DEF StatsNext, ReadTallies, ReadArticles, ReadBacklogs, RunStep, statsVars
<1>3. TypeOK /\ Inv /\ [StatsNext]_statsVars => Inv'
  BY <1>2, OutcomeStep, SavedStep, PageStep
<1>4. TypeOK /\ Inv /\ [StatsNext]_statsVars =>
        [/\ ReadArticles => statsPage.stored <= Library.total
         /\ ReadBacklogs => statsPage.written \/ AddsUp]_statsVars
  BY PageAddsUp DEF PageInv, Library
<1>5. StatsSpec => Spec
  BY <1>2, PTL DEF StatsSpec, StatsInit, Spec
<1>. QED BY <1>1, <1>3, <1>4, <1>5, TypeCorrect, PTL DEF StatsSpec, StatisticsAgree

-----------------------------------------------------------------------------
(* "duplicate" means that the article was known before.                    *)

(* The creator of an article is past: not in the chunk any more, about to  *)
(* be marked or already out of its queue, and never called a duplicate.    *)
Past(w, i) ==
  /\ i \notin todo[w]
  /\ finished[w][i] # "duplicate" /\ outcome[i] # "duplicate"
  /\ finished[w][i] # None \/ rows[i].done

CreatorPast(w) ==
  /\ faults = 0 => \A i \in Articles, u \in Urls : origin[u] = i => Past(w, i)
  /\ \A i \in Articles : i \in todo[w] => outcome[i] = None

(* A step that leaves the item and the worker's memory of it alone.        *)
LEMMA PastFrame ==
  ASSUME TypeOK, [Next]_vars, NEW w \in Workers, NEW i \in Articles, Past(w, i),
         i \in todo'[w] => i \in todo[w],
         finished'[w][i] = finished[w][i], outcome'[i] = outcome[i]
  PROVE  Past(w, i)'
<1>1. i \in Rows
  BY DEF Articles, Rows
<1>. QED BY <1>1, DoneForever DEF Past

LEMMA CreatorFrame ==
  ASSUME TypeOK, [Next]_vars, NEW w \in Workers, CreatorPast(w),
         faults' = 0 => faults = 0, origin' = origin,
         \A i \in Articles :
           /\ i \in todo'[w] => i \in todo[w]
           /\ finished'[w][i] = finished[w][i] /\ outcome'[i] = outcome[i]
  PROVE  CreatorPast(w)'
BY PastFrame DEF CreatorPast

LEMMA CreatorStep ==
  ASSUME TypeOK, MemoryShape, OutcomeInv, [Next]_vars, NEW w \in Workers, Acts(w), CreatorPast(w)
  PROVE  CreatorPast(w)'
<1>. USE DEF db, memory, drain
<1>0. /\ Articles \subseteq Items /\ Items \subseteq Rows
      /\ Articles \cap Roundups = {} /\ Articles \cap Urls = {}
      /\ None \notin {"stored", "duplicate", "skipped", "expanded"}
  BY DEF Articles, Rows, None
<1>1. ASSUME NEW c \in Commands, StartCommand(w, c) PROVE CreatorPast(w)'
  BY <1>1, CreatorFrame DEF StartCommand
<1>2. ASSUME NEW s \in Sources, CollectSource(w, s) PROVE CreatorPast(w)'
  BY <1>2, CreatorFrame DEF CollectSource
<1>3. CASE CollectFinish(w) \/ AnalysesDone(w) \/ AnalyzeFinish(w)
  BY <1>3, CreatorFrame DEF CollectFinish, AnalysesDone, AnalyzeFinish
<1>4. CASE SelectIssues(w) \/ SelectArticles(w)
  <2>1. todo'[w] \cap Articles = {}
    BY <1>0, <1>4
       DEF SelectIssues, SelectArticles, Chunks, Eligible, Waiting, TypeOK
  <2>. QED BY <1>4, <2>1, CreatorFrame DEF SelectIssues, SelectArticles
<1>5. CASE SelectItems(w)
  <2>1. /\ \A i \in todo'[w] : ~rows[i].done
        /\ pc[w] = "hydrate"
        /\ UNCHANGED <<rows, finished, outcome, origin, faults>>
    BY <1>5 DEF SelectItems, Chunks, Waiting, TypeOK
  <2>2. \A i \in Articles : finished[w][i] = None
    BY <1>0, <2>1 DEF MemoryShape
  <2>3. \A i \in Articles : i \in todo'[w] => outcome[i] = None
    BY <1>0, <2>1 DEF OutcomeInv
  <2>. QED BY <2>1, <2>2, <2>3 DEF CreatorPast, Past
<1>6. ASSUME NEW i \in Roundups, ExpandIssue(w, i) PROVE CreatorPast(w)'
  <2>1. \A j \in Items :
          finished'[w][j] = IF j = i THEN "expanded" ELSE finished[w][j]
    BY <1>6 DEF ExpandIssue, TypeOK
  <2>2. todo'[w] \subseteq todo[w]
    BY <1>6 DEF ExpandIssue, Take, TypeOK
  <2>. QED BY <1>0, <1>6, <2>1, <2>2, CreatorFrame DEF ExpandIssue
<1>7. ASSUME NEW i \in Roundups, ExpandFails(w, i) PROVE CreatorPast(w)'
  <2>1. todo'[w] \subseteq todo[w]
    BY <1>7 DEF ExpandFails, Take, TypeOK
  <2>. QED BY <1>7, <2>1, CreatorFrame DEF ExpandFails
<1>8. CASE MarkExpanded(w) \/ MarkHydrated(w)
  <2>1. /\ MarkProcessed(finished[w]) /\ UNCHANGED <<todo, origin, faults>>
        /\ finished' = [finished EXCEPT ![w] = NothingFinished]
    BY <1>8 DEF MarkExpanded, MarkHydrated
  <2>2. ASSUME NEW i \in Articles, Past(w, i) PROVE Past(w, i)'
    <3>1. rows'[i].done
      BY <1>0, <2>1, <2>2, MarkEffect DEF Past
    <3>2. finished'[w][i] = None
      BY <1>0, <2>1 DEF TypeOK, NothingFinished
    <3>3. outcome'[i] \in {outcome[i], finished[w][i]}
      BY <1>0, <2>1 DEF MarkProcessed
    <3>. QED BY <1>0, <2>1, <2>2, <3>1, <3>2, <3>3 DEF Past
  <2>3. todo'[w] = {}
    BY <1>8 DEF MarkExpanded, MarkHydrated
  <2>. QED BY <2>1, <2>2, <2>3 DEF CreatorPast
<1>9. ASSUME NEW i \in Articles, SkipItem(w, i) PROVE CreatorPast(w)'
  <2>1. \A j \in Items :
          finished'[w][j] = IF j = i THEN "skipped" ELSE finished[w][j]
    BY <1>9 DEF SkipItem, TypeOK
  <2>2. todo'[w] = todo[w] \ {i} /\ UNCHANGED <<rows, outcome, origin, faults>>
    BY <1>9 DEF SkipItem, Take, TypeOK
  <2>. QED BY <1>0, <2>1, <2>2 DEF CreatorPast, Past
<1>10. ASSUME NEW i \in Articles, NEW u \in Urls, NEW b \in BOOLEAN, StoreItem(w, i, u, b)
       PROVE  CreatorPast(w)'
  <2>1. /\ i \in todo[w] /\ todo'[w] = todo[w] \ {i}
        /\ UNCHANGED <<outcome, faults>>
        /\ \A j \in Rows : rows[j].done => rows'[j].done
    BY <1>10, DoneForever DEF StoreItem, Take, TypeOK
  <2>2. (faults = 0 => \A v \in Urls : origin[v] # i) /\ outcome[i] = None
    BY <2>1 DEF CreatorPast, Past
  <2>3. CASE rows[u].stored
    <3>1. \A j \in Items : finished'[w][j] = IF j = i THEN "duplicate" ELSE finished[w][j]
      BY <1>10, <2>3 DEF StoreItem, TypeOK
    <3>2. origin' = origin
      BY <1>10, <2>3 DEF StoreItem
    <3>. QED BY <1>0, <2>1, <2>2, <3>1, <3>2 DEF CreatorPast, Past
  <2>4. CASE ~rows[u].stored
    <3>1. \A j \in Items : finished'[w][j] = IF j = i THEN "stored" ELSE finished[w][j]
      BY <1>10, <2>4 DEF StoreItem, TypeOK
    <3>2. \A v \in Urls : origin'[v] = IF v = u THEN i ELSE origin[v]
      BY <1>10, <2>4 DEF StoreItem, TypeOK
    <3>. QED BY <1>0, <2>1, <2>2, <3>1, <3>2 DEF CreatorPast, Past
  <2>. QED BY <2>3, <2>4
<1>11. ASSUME NEW u \in Urls, AnalyzeArticle(w, u) \/ AnalysisFails(w, u) \/ SaveAnalysis(w, u)
       PROVE  CreatorPast(w)'
  <2>1. todo'[w] \subseteq todo[w]
    BY <1>11 DEF AnalyzeArticle, AnalysisFails, SaveAnalysis, Take, TypeOK
  <2>. QED BY <1>11, <2>1, CreatorFrame DEF AnalyzeArticle, AnalysisFails, SaveAnalysis
<1>12. ASSUME NEW u \in Urls, RecordLost(w, u) PROVE CreatorPast(w)'
  <2>1. faults' # 0 /\ todo'[w] \subseteq todo[w] /\ UNCHANGED outcome
    BY <1>12 DEF RecordLost, Take, TypeOK
  <2>. QED BY <2>1 DEF CreatorPast
<1>13. CASE BuildDigest(w) \/ Return(w)
  <2>1. Leave(w) /\ pc[w] \in {"digest", "done"} /\ UNCHANGED faults
    BY <1>13 DEF BuildDigest, Return
  <2>2. \A i \in Articles : finished[w][i] = None
    BY <1>0, <2>1 DEF MemoryShape
  <2>3. todo'[w] = {} /\ finished'[w] = NothingFinished /\ UNCHANGED db
    BY <2>1 DEF Leave, TypeOK
  <2>. QED BY <1>0, <2>1, <2>2, <2>3, CreatorFrame DEF NothingFinished
<1>14. CASE Abort(w)
  <2>1. faults' # 0 /\ todo'[w] = {}
    BY <1>14 DEF Abort, Leave, TypeOK
  <2>. QED BY <2>1 DEF CreatorPast
<1>. QED
  BY <1>1, <1>2, <1>3, <1>4, <1>5, <1>6, <1>7, <1>8, <1>9, <1>10, <1>11,
     <1>12, <1>13, <1>14
     DEF Acts, Step

(* Of one process that was never interrupted, the item that created an     *)
(* article is not reported as a duplicate: a duplicate was known before.   *)
THEOREM DuplicatesWereKnown ==
  ASSUME NEW one, Workers = {one}
  PROVE  Spec => []DuplicateWasKnown
<1>. DEFINE DupInv == MemoryShape /\ OutcomeInv /\ \A w \in Workers : CreatorPast(w)
<1>1. Init => DupInv
  <2>. SUFFICES ASSUME Init PROVE DupInv
    OBVIOUS
  <2>1. MemoryShape
    BY DEF Init, MemoryShape, NothingFinished
  <2>2. ASSUME NEW w \in Workers PROVE CreatorPast(w)
    BY DEF Init, CreatorPast, Articles
  <2>. QED BY <2>1, <2>2, OutcomeInit
<1>2. TypeOK /\ DupInv /\ [Next]_vars => DupInv'
  <2>. SUFFICES ASSUME TypeOK, DupInv, [Next]_vars PROVE DupInv'
    OBVIOUS
  <2>1. ASSUME NEW v \in Workers PROVE CreatorPast(v)'
    <3>1. ASSUME NEW w \in Workers, Acts(w) PROVE CreatorPast(v)'
      <4>1. v = w
        OBVIOUS
      <4>. QED BY <3>1, <4>1, CreatorStep
    <3>2. CASE UNCHANGED vars
      BY <3>2, CreatorFrame DEF vars, db, memory
    <3>. QED BY <3>1, <3>2 DEF Next, Acts
  <2>. QED BY <2>1, MemoryShapeStep, OutcomeStep
<1>3. DupInv => DuplicateWasKnown
  BY DEF CreatorPast, Past, DuplicateWasKnown
<1>. QED BY <1>1, <1>2, <1>3, TypeCorrect, PTL DEF Spec
=============================================================================
