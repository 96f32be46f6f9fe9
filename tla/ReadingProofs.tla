--------------------------- MODULE ReadingProofs ---------------------------
(***************************************************************************)
(* The digest and the archive, for any number of processes, articles and   *)
(* dates: type correctness, OneSelection, SummaryShown and NoneSkipped of  *)
(* Reading.                                                                *)
(***************************************************************************)
EXTENDS Reading, FiniteSetTheorems, TLAPS

(* A transaction deletes all of the digest it replaces, and no other one   *)
(* writes the same date meanwhile.                                         *)
Exclusive ==
  /\ \A r \in Runs : step[r] = "select" => cleared[r] = digests[DateOf(r)]
  /\ \A r, o \in Runs :
       r # o /\ InTransaction(r) /\ InTransaction(o) => DateOf(r) # DateOf(o)

(* The page being loaded may list whatever is not archived.                *)
Loading == page = "opened" => Articles \ archived \subseteq unread

InHand == \A r \in Runs : step[r] = "analyzing" => inHand[r].article \in Articles

(* Unless the settings loosen what was spared, runs that work side by side *)
(* have one threshold, not above the one in use; and what was spared is    *)
(* below both and not declared, now or when it was taken.                  *)
OneThreshold ==
  \A r \in Runs : Working(r) =>
    /\ snapshot[r].threshold <= settings.threshold
    /\ \A o \in Runs : Working(o) => snapshot[o].threshold = snapshot[r].threshold

TakenUndeclared ==
  \A r \in Runs : step[r] = "analyzing" /\ ~inHand[r].declared =>
    inHand[r].article \notin settings.declared

SparedLeftOut ==
  \A a \in Articles : Spared(a) =>
    /\ analysis[a].score < settings.threshold /\ a \notin settings.declared
    /\ \A r \in Runs : Working(r) => analysis[a].score < snapshot[r].threshold

Judged == ~loose => OneThreshold /\ TakenUndeclared /\ SparedLeftOut

(* A digest lists analysed articles, which have not been spared.           *)
Selected ==
  \A d \in Dates : \A a \in digests[d] :
    Analyzed(a) /\ (~loose /\ ~again => ~Spared(a))

Inv ==
  ReadingTypeOK /\ InHand /\ Exclusive /\ Loading /\ OneSelection /\ Judged /\ Selected

LEMMA DivMonotone ==
  ASSUME NEW a \in Nat, NEW b \in Nat, a <= b
  PROVE  a \div Day \in Nat /\ a \div Day <= b \div Day
BY ReadingAssumption, SMT

LEMMA BoundType == Horizon \in Nat /\ Day \in Nat \ {0} /\ PageSize \in Nat \ {0}
BY ReadingAssumption, Zenon

LEMMA DateOfType == ReadingTypeOK => \A r \in Runs : DateOf(r) \in Dates
<1> SUFFICES ASSUME ReadingTypeOK, NEW r \in Runs PROVE DateOf(r) \in Dates
  OBVIOUS
<1>0. end \in [Runs -> 0..Horizon]
  BY Zenon DEF ReadingTypeOK
<1>1. end[r] \in Nat /\ Horizon \in Nat /\ end[r] <= Horizon
  BY <1>0, BoundType
<1>2. /\ end[r] \div Day \in Nat /\ end[r] \div Day <= Horizon \div Day
      /\ Horizon \div Day \in Nat
  BY <1>1, DivMonotone
<1> QED BY <1>2 DEF DateOf, Dates

LEMMA ZeroType == 0 \in Dates /\ 0 \in 0..Horizon
<1>1. Horizon \in Nat /\ Horizon \div Day \in Nat
  BY ReadingAssumption, DivMonotone
<1> QED BY <1>1 DEF Dates

LEMMA ChoiceType ==
  ASSUME NEW c \in Choices
  PROVE  /\ c.threshold \in Levels /\ c.threshold \in Nat
         /\ c.interests \subseteq Topics /\ c.declared \subseteq Articles
BY ReadingAssumption

LEMMA ScoreType == \A n \in Levels \cup {0} : n \in Nat
<1>1. Levels \subseteq Nat
  BY ReadingAssumption, Zenon
<1> QED BY <1>1

LEMMA NumberType ==
  ReadingTypeOK =>
    /\ settings.threshold \in Nat
    /\ \A r \in Runs : snapshot[r].threshold \in Nat
    /\ \A a \in Articles : analysis[a].score \in Nat
<1> SUFFICES ASSUME ReadingTypeOK
             PROVE  /\ settings.threshold \in Nat
                    /\ \A r \in Runs : snapshot[r].threshold \in Nat
                    /\ \A a \in Articles : analysis[a].score \in Nat
  OBVIOUS
<1>1. settings \in Choices /\ \A r \in Runs : snapshot[r] \in Choices \cup {Blank}
  BY DEF ReadingTypeOK
<1>2. Blank.threshold \in Nat
  BY DEF Blank
<1>3. \A c \in Choices : c.threshold \in Nat
  BY ChoiceType
<1>4. \A a \in Articles : analysis[a].score \in Levels \cup {0}
  BY DEF ReadingTypeOK
<1> QED BY <1>1, <1>2, <1>3, <1>4, ScoreType

LEMMA HandType ==
  ASSUME NEW a \in Articles, NEW b \in BOOLEAN
  PROVE  [article |-> a, declared |-> b]
           \in [article : Articles \cup {Nothing}, declared : BOOLEAN]
OBVIOUS

LEMMA InvInit == ReadingInit => Inv
<1> SUFFICES ASSUME ReadingInit PROVE Inv
  OBVIOUS
<1> USE DEF ReadingInit
<1>2. ReadingTypeOK
  BY ZeroType DEF ReadingTypeOK, Unseen, Free, Blank, Nothing, Articles
<1>3. InHand /\ Exclusive /\ Loading /\ OneSelection
  BY DEF InHand, Exclusive, InTransaction, Loading, OneSelection
<1>4. Judged /\ Selected
  BY DEF Judged, OneThreshold, TakenUndeclared, SparedLeftOut, Working, Spared, Selected,
         Unseen
<1> QED BY <1>2, <1>3, <1>4 DEF Inv

-----------------------------------------------------------------------------
LEMMA FinishType ==
  ASSUME ReadingTypeOK, NEW r \in Runs, Finish(r)
  PROVE  /\ step' \in [Runs -> {"new", "running", "analyzing", "upsert", "clear", "select", "over"}]
         /\ snapshot' \in [Runs -> Choices \cup {Blank}]
         /\ inHand' \in [Runs -> [article : Articles \cup {Nothing}, declared : BOOLEAN]]
         /\ end' \in [Runs -> 0..Horizon]
         /\ cleared' \in [Runs -> SUBSET Articles]
<1>1. Free \in [article : Articles \cup {Nothing}, declared : BOOLEAN]
  BY DEF Free
<1> QED BY <1>1, ZeroType DEF Finish, ReadingTypeOK

LEMMA SaveAnalysisType ==
  ASSUME Inv, NEW r \in Runs, SaveAnalysis(r)
  PROVE  ReadingTypeOK'
<1> DEFINE a == inHand[r].article
<1>1. a \in Articles
  BY DEF Inv, InHand, SaveAnalysis
<1>2. PICK v \in Verdicts[a] :
        analysis' = [analysis EXCEPT ![a] =
          [score |-> v[1], topics |-> {v[2]},
           summary |-> Summary(a, v[1], snapshot[r].threshold, inHand[r].declared)]]
  BY DEF SaveAnalysis
<1>3. v[1] \in Levels /\ v[2] \in Topics
  BY <1>1, ReadingAssumption
<1>4. Summary(a, v[1], snapshot[r].threshold, inHand[r].declared) \in {"tried", "no text", "spared"}
  BY DEF Summary
<1>5. analysis' \in [Articles -> [score : Levels \cup {0}, topics : SUBSET Topics,
                                  summary : {"none", "tried", "no text", "spared"}]]
  <2> HIDE DEF a
  <2> QED BY <1>1, <1>2, <1>3, <1>4 DEF Inv, ReadingTypeOK
<1>6. again' \in BOOLEAN
  BY DEF SaveAnalysis, Inv, ReadingTypeOK
<1> QED BY <1>5, <1>6
     DEF SaveAnalysis, Inv, ReadingTypeOK, reader, bounds, Free, Nothing, Dates, Articles

LEMMA TypeStep == Inv /\ [ReadingNext]_readingVars => ReadingTypeOK'
<1> SUFFICES ASSUME Inv, [ReadingNext]_readingVars PROVE ReadingTypeOK'
  OBVIOUS
<1>0. ReadingTypeOK
  BY DEF Inv
<1> USE DEF ReadingTypeOK, database, run, reader, bounds
<1>1. CASE PassTime
  <2>1. now \in 0..Horizon /\ now < Horizon /\ now' = now + 1
    BY <1>0, <1>1, Zenon DEF PassTime
  <2>2. now' \in 0..Horizon
    <3> HIDE DEF ReadingTypeOK
    <3> QED BY <2>1, BoundType
  <2> QED BY <1>0, <1>1, <2>2 DEF PassTime
<1>2. CASE SaveSettings
  BY <1>0, <1>2 DEF SaveSettings
<1>3. CASE Leave
  BY <1>0, <1>3, ZeroType DEF Leave
<1>4. ASSUME NEW a \in Articles, NEW away \in BOOLEAN, SetArchived(a, away) PROVE ReadingTypeOK'
  BY <1>0, <1>4 DEF SetArchived
<1>5. ASSUME NEW r \in Runs, StartRun(r) PROVE ReadingTypeOK'
  BY <1>0, <1>5 DEF StartRun
<1>6. ASSUME NEW r \in Runs, NEW a \in Articles, TakeArticle(r, a) PROVE ReadingTypeOK'
  <2> DEFINE taken == [article |-> a, declared |-> a \in settings.declared]
  <2>0. taken \in [article : Articles \cup {Nothing}, declared : BOOLEAN]
    <3>1. (a \in settings.declared) \in BOOLEAN
      OBVIOUS
    <3> QED BY <3>1, HandType
  <2>1. inHand' \in [Runs -> [article : Articles \cup {Nothing}, declared : BOOLEAN]]
    <3>1. inHand' = [inHand EXCEPT ![r] = taken]
      BY <1>6 DEF TakeArticle
    <3> HIDE DEF taken
    <3> QED BY <1>0, <2>0, <3>1
  <2>2. step' \in [Runs -> {"new", "running", "analyzing", "upsert", "clear", "select", "over"}]
    BY <1>0, <1>6 DEF TakeArticle
  <2> QED BY <1>0, <1>6, <2>1, <2>2 DEF TakeArticle
<1>7. ASSUME NEW r \in Runs, SaveAnalysis(r) PROVE ReadingTypeOK'
  BY <1>7, SaveAnalysisType
<1>8. ASSUME NEW r \in Runs, Stop(r) PROVE ReadingTypeOK'
  BY <1>0, <1>8, FinishType DEF Stop
<1>9. CASE OpenDigest
  BY <1>0, <1>9 DEF OpenDigest
<1>10. CASE ShowDigest
  BY <1>0, <1>10 DEF ShowDigest
<1>11. ASSUME NEW r \in Runs, BeginDigest(r) PROVE ReadingTypeOK'
  BY <1>0, <1>11 DEF BeginDigest
<1>12. ASSUME NEW r \in Runs, Upsert(r) PROVE ReadingTypeOK'
  BY <1>0, <1>12 DEF Upsert
<1>13. ASSUME NEW r \in Runs, Clear(r) PROVE ReadingTypeOK'
  BY <1>0, <1>13, DateOfType DEF Clear
<1>14. ASSUME NEW r \in Runs, SelectArticles(r) PROVE ReadingTypeOK'
  <2>1. Selection(r) \subseteq Articles /\ DateOf(r) \in Dates /\ cleared[r] \subseteq Articles
    BY <1>0, DateOfType DEF Selection, Listed
  <2>2. /\ made' = made \cup {DateOf(r)}
        /\ digests' = [digests EXCEPT
             ![DateOf(r)] = (digests[DateOf(r)] \ cleared[r]) \cup Selection(r)]
    BY <1>14 DEF SelectArticles
  <2>3. made' \subseteq Dates /\ digests' \in [Dates -> SUBSET Articles]
    BY <1>0, <2>1, <2>2
  <2> QED BY <1>0, <1>14, <2>3, FinishType DEF SelectArticles
<1>15. CASE NextPage
  <2>1. PageAt(Archive, offset) \subseteq Articles
    BY DEF PageAt, Archive
  <2>2. /\ seen' = seen \cup PageAt(Archive, offset) /\ offset' = offset + PageSize
        /\ page' \in {"paging", "paged"}
    BY <1>15 DEF NextPage
  <2>3. seen' \subseteq Articles /\ offset' \in Nat
    <3>1. seen \subseteq Articles /\ offset \in Nat
      BY <1>0, Zenon
    <3> HIDE DEF ReadingTypeOK
    <3> QED BY <2>1, <2>2, <3>1, BoundType
  <2> QED BY <1>0, <1>15, <2>2, <2>3 DEF NextPage
<1>16. CASE UNCHANGED readingVars
  BY <1>0, <1>16 DEF readingVars
<1> QED BY <1>1, <1>2, <1>3, <1>4, <1>5, <1>6, <1>7, <1>8, <1>9, <1>10, <1>11, <1>12,
           <1>13, <1>14, <1>15, <1>16 DEF ReadingNext, Judging, Digesting

-----------------------------------------------------------------------------
(* A run outside a transaction that moves on within its own column.        *)
LEMMA OutsideKeeps ==
  ASSUME ReadingTypeOK, Exclusive, NEW r \in Runs, NEW e, NEW to,
         to \notin {"clear", "select"},
         step' = [step EXCEPT ![r] = to],
         end' = [end EXCEPT ![r] = e],
         UNCHANGED <<cleared, digests>>
  PROVE  Exclusive'
<1>1. /\ \A o \in Runs : InTransaction(o)' => o # r /\ InTransaction(o)
      /\ \A o \in Runs : o # r => DateOf(o)' = DateOf(o) /\ step'[o] = step[o]
      /\ step'[r] = to
  BY DEF ReadingTypeOK, InTransaction, DateOf
<1> QED BY <1>1 DEF Exclusive

LEMMA FinishKeeps ==
  ASSUME ReadingTypeOK, NEW r \in Runs, Finish(r)
  PROVE  /\ step'[r] = "over" /\ ~InTransaction(r)'
         /\ \A o \in Runs : o # r =>
              /\ step'[o] = step[o] /\ snapshot'[o] = snapshot[o] /\ inHand'[o] = inHand[o]
              /\ cleared'[o] = cleared[o] /\ DateOf(o)' = DateOf(o)
              /\ InTransaction(o)' = InTransaction(o)
BY DEF ReadingTypeOK, Finish, InTransaction, DateOf

(* The digest a transaction replaces is exactly what it has deleted.       *)
LEMMA SelectKeeps ==
  ASSUME ReadingTypeOK, Exclusive, digests = picked, NEW r \in Runs, SelectArticles(r)
  PROVE  /\ Exclusive'
         /\ digests' = picked'
         /\ digests' = [digests EXCEPT ![DateOf(r)] = Selection(r)]
<1>1. /\ step[r] = "select" /\ Finish(r)
      /\ digests' = [digests EXCEPT
           ![DateOf(r)] = (digests[DateOf(r)] \ cleared[r]) \cup Selection(r)]
      /\ picked' = [picked EXCEPT ![DateOf(r)] = Selection(r)]
  BY DEF SelectArticles
<1>2. cleared[r] = digests[DateOf(r)]
  BY <1>1 DEF Exclusive
<1>3. (digests[DateOf(r)] \ cleared[r]) \cup Selection(r) = Selection(r)
  BY <1>2
<1>4. digests' = [digests EXCEPT ![DateOf(r)] = Selection(r)]
  BY <1>1, <1>3
<1>5. InTransaction(r)
  BY <1>1 DEF InTransaction
<1>6. \A o \in Runs : o # r /\ InTransaction(o) => digests'[DateOf(o)] = digests[DateOf(o)]
  BY <1>4, <1>5, DateOfType DEF Exclusive, ReadingTypeOK
<1>7. Exclusive'
  <2>1. \A o \in Runs : step'[o] = "select" => cleared'[o] = digests'[DateOf(o)']
    BY <1>1, <1>6, FinishKeeps DEF Exclusive, InTransaction
  <2>2. \A o, q \in Runs :
          o # q /\ InTransaction(o)' /\ InTransaction(q)' => DateOf(o)' # DateOf(q)'
    BY <1>1, FinishKeeps DEF Exclusive
  <2> QED BY <2>1, <2>2 DEF Exclusive
<1> QED BY <1>1, <1>4, <1>7

LEMMA ExclusiveStep ==
  Inv /\ [ReadingNext]_readingVars => Exclusive' /\ digests' = picked'
<1> SUFFICES ASSUME Inv, [ReadingNext]_readingVars
             PROVE  Exclusive' /\ digests' = picked'
  OBVIOUS
<1>0. ReadingTypeOK /\ Exclusive /\ digests = picked
  BY DEF Inv, OneSelection
<1> USE <1>0
<1>1. ASSUME UNCHANGED <<step, end, cleared, digests, picked>>
      PROVE  Exclusive' /\ digests' = picked'
  BY <1>1 DEF Exclusive, InTransaction, DateOf
<1>2. CASE PassTime \/ SaveSettings \/ Leave \/ OpenDigest \/ ShowDigest \/ NextPage
  BY <1>1, <1>2 DEF PassTime, SaveSettings, Leave, OpenDigest, ShowDigest, NextPage,
                    database, run
<1>3. ASSUME NEW a \in Articles, NEW away \in BOOLEAN, SetArchived(a, away)
      PROVE  Exclusive' /\ digests' = picked'
  BY <1>1, <1>3 DEF SetArchived, run
<1>4. ASSUME NEW r \in Runs, NEW to, to \notin {"clear", "select"},
             step' = [step EXCEPT ![r] = to], UNCHANGED <<end, cleared, digests, picked>>
      PROVE  Exclusive' /\ digests' = picked'
  <2>1. end' = [end EXCEPT ![r] = end[r]]
    BY <1>4 DEF ReadingTypeOK
  <2> QED BY <1>4, <2>1, OutsideKeeps
<1>5. ASSUME NEW r \in Runs, StartRun(r) \/ (\E a \in Articles : TakeArticle(r, a)) \/ SaveAnalysis(r)
      PROVE  Exclusive' /\ digests' = picked'
  <2>1. UNCHANGED <<end, cleared, digests, picked>>
    BY <1>5 DEF StartRun, TakeArticle, SaveAnalysis, database
  <2>2. step' = [step EXCEPT ![r] = "running"] \/ step' = [step EXCEPT ![r] = "analyzing"]
    BY <1>5 DEF StartRun, TakeArticle, SaveAnalysis
  <2> QED BY <1>4, <2>1, <2>2
<1>6. ASSUME NEW r \in Runs, BeginDigest(r) PROVE Exclusive' /\ digests' = picked'
  BY <1>6, OutsideKeeps DEF BeginDigest, database
<1>7. ASSUME NEW r \in Runs, Stop(r) PROVE Exclusive' /\ digests' = picked'
  <2>1. digests' = digests /\ picked' = picked /\ Finish(r)
    BY <1>7 DEF Stop, database
  <2>2. Exclusive'
    BY <2>1, FinishKeeps DEF Exclusive
  <2> QED BY <2>1, <2>2
<1>8. ASSUME NEW r \in Runs, Upsert(r) PROVE Exclusive' /\ digests' = picked'
  <2>1. /\ \A o \in Runs : InTransaction(o) => DateOf(o) # DateOf(r)
        /\ UNCHANGED <<end, cleared, digests, picked>>
        /\ step'[r] = "clear" /\ \A o \in Runs : o # r => step'[o] = step[o]
    BY <1>8 DEF Upsert, database, ReadingTypeOK
  <2>2. /\ \A o \in Runs : DateOf(o)' = DateOf(o)
        /\ \A o \in Runs : InTransaction(o)' => o = r \/ InTransaction(o)
    BY <2>1 DEF DateOf, InTransaction
  <2> QED BY <2>1, <2>2 DEF Exclusive
<1>9. ASSUME NEW r \in Runs, Clear(r) PROVE Exclusive' /\ digests' = picked'
  <2>1. /\ UNCHANGED <<end, digests, picked>> /\ step[r] = "clear" /\ step'[r] = "select"
        /\ cleared'[r] = digests[DateOf(r)]
        /\ \A o \in Runs : o # r => step'[o] = step[o] /\ cleared'[o] = cleared[o]
    BY <1>9 DEF Clear, database, ReadingTypeOK
  <2>2. /\ \A o \in Runs : DateOf(o)' = DateOf(o)
        /\ \A o \in Runs : InTransaction(o)' => InTransaction(o)
    BY <2>1 DEF DateOf, InTransaction
  <2> QED BY <2>1, <2>2 DEF Exclusive
<1>10. ASSUME NEW r \in Runs, SelectArticles(r) PROVE Exclusive' /\ digests' = picked'
  BY <1>10, SelectKeeps
<1>11. CASE UNCHANGED readingVars
  BY <1>1, <1>11 DEF readingVars, database, run
<1> QED BY <1>2, <1>3, <1>5, <1>6, <1>7, <1>8, <1>9, <1>10, <1>11
     DEF ReadingNext, Judging, Digesting

-----------------------------------------------------------------------------
(* The page shows nothing that was archived while it was loading.          *)
LEMMA ReaderStep ==
  Inv /\ [ReadingNext]_readingVars => Loading' /\ (page = "shown" => shown \subseteq unread)'
<1> SUFFICES ASSUME Inv, [ReadingNext]_readingVars
             PROVE  Loading' /\ (page = "shown" => shown \subseteq unread)'
  OBVIOUS
<1>0. /\ digests \in [Dates -> SUBSET Articles] /\ date \in Dates
      /\ Loading /\ (page = "shown" => shown \subseteq unread)
  BY DEF Inv, ReadingTypeOK, OneSelection
<1>1. ASSUME UNCHANGED <<reader, archived>>
      PROVE  Loading' /\ (page = "shown" => shown \subseteq unread)'
  BY <1>0, <1>1 DEF Loading, reader
<1>2. CASE PassTime
  BY <1>1, <1>2 DEF PassTime, database
<1>3. ASSUME NEW r \in Runs,
             \/ StartRun(r) \/ (\E a \in Articles : TakeArticle(r, a)) \/ SaveAnalysis(r)
             \/ Stop(r) \/ BeginDigest(r) \/ Upsert(r) \/ Clear(r) \/ SelectArticles(r)
      PROVE  Loading' /\ (page = "shown" => shown \subseteq unread)'
  BY <1>1, <1>3 DEF StartRun, TakeArticle, SaveAnalysis, Stop, BeginDigest, Upsert, Clear,
                    SelectArticles, database
<1>4. CASE SaveSettings
  BY <1>0, <1>4 DEF SaveSettings, Loading
<1>5. CASE Leave \/ NextPage
  BY <1>0, <1>5 DEF Leave, NextPage, Loading, database
<1>6. ASSUME NEW a \in Articles, NEW away \in BOOLEAN, SetArchived(a, away)
      PROVE  Loading' /\ (page = "shown" => shown \subseteq unread)'
  <2>1. page' = page /\ shown' = shown
    BY <1>6 DEF SetArchived
  <2>2. CASE page = "opened"
    BY <1>0, <1>6, <2>1, <2>2 DEF SetArchived, Loading
  <2>3. CASE page # "opened"
    BY <1>0, <1>6, <2>1, <2>3 DEF SetArchived, Loading
  <2> QED BY <2>2, <2>3
<1>7. CASE OpenDigest
  BY <1>7 DEF OpenDigest, Loading, database
<1>8. CASE ShowDigest
  BY <1>0, <1>8 DEF ShowDigest, Loading, database
<1>9. CASE UNCHANGED readingVars
  BY <1>1, <1>9 DEF readingVars, database
<1> QED BY <1>2, <1>3, <1>4, <1>5, <1>6, <1>7, <1>8, <1>9
     DEF ReadingNext, Judging, Digesting

LEMMA InHandStep == Inv /\ [ReadingNext]_readingVars => InHand'
<1> SUFFICES ASSUME Inv, [ReadingNext]_readingVars PROVE InHand'
  OBVIOUS
<1>0. ReadingTypeOK /\ InHand
  BY DEF Inv
<1>1. ASSUME UNCHANGED <<step, inHand>> PROVE InHand'
  BY <1>0, <1>1 DEF InHand
<1>2. CASE PassTime \/ SaveSettings \/ Leave \/ OpenDigest \/ ShowDigest \/ NextPage
  BY <1>1, <1>2 DEF PassTime, SaveSettings, Leave, OpenDigest, ShowDigest, NextPage, run
<1>3. ASSUME NEW a \in Articles, NEW away \in BOOLEAN, SetArchived(a, away) PROVE InHand'
  BY <1>1, <1>3 DEF SetArchived, run
<1>4. ASSUME NEW r \in Runs, NEW a \in Articles, TakeArticle(r, a) PROVE InHand'
  BY <1>0, <1>4 DEF TakeArticle, InHand, ReadingTypeOK
<1>5. ASSUME NEW r \in Runs,
             StartRun(r) \/ BeginDigest(r) \/ Upsert(r) \/ Clear(r)
      PROVE  InHand'
  <2>1. inHand' = inHand /\ step'[r] # "analyzing" /\ \A o \in Runs : o # r => step'[o] = step[o]
    BY <1>0, <1>5 DEF StartRun, BeginDigest, Upsert, Clear, ReadingTypeOK
  <2> QED BY <1>0, <2>1 DEF InHand
<1>6. ASSUME NEW r \in Runs, SaveAnalysis(r) \/ Stop(r) \/ SelectArticles(r)
      PROVE  InHand'
  <2>1. /\ step'[r] # "analyzing"
        /\ \A o \in Runs : o # r => step'[o] = step[o] /\ inHand'[o] = inHand[o]
    BY <1>0, <1>6 DEF SaveAnalysis, Stop, SelectArticles, Finish, ReadingTypeOK
  <2> QED BY <1>0, <2>1 DEF InHand
<1>7. CASE UNCHANGED readingVars
  BY <1>1, <1>7 DEF readingVars, run
<1> QED BY <1>2, <1>3, <1>4, <1>5, <1>6, <1>7 DEF ReadingNext, Judging, Digesting

-----------------------------------------------------------------------------
(* Settings that do not loosen list no more, or nothing has been spared    *)
(* and nobody works by the old ones.                                       *)
LEMMA SettingsKeepJudged ==
  ASSUME Inv, SaveSettings
  PROVE  Judged'
<1> SUFFICES ASSUME ~loose'
             PROVE  OneThreshold' /\ TakenUndeclared' /\ SparedLeftOut'
  BY DEF Judged
<1>1. /\ ~loose /\ ~Loosens(settings') /\ settings' \in Choices
      /\ step' = step /\ snapshot' = snapshot /\ inHand' = inHand /\ analysis' = analysis
  BY DEF SaveSettings, run
<1>2. ReadingTypeOK /\ OneThreshold /\ TakenUndeclared /\ SparedLeftOut
  BY <1>1 DEF Inv, Judged
<1>3. /\ settings.threshold \in Nat /\ settings'.threshold \in Nat
      /\ \A r \in Runs : snapshot[r].threshold \in Nat
      /\ \A a \in Articles : analysis[a].score \in Nat
  BY <1>1, <1>2, NumberType, ChoiceType
<1>4. CASE ~(\E a \in Articles : Spared(a)) /\ ~(\E r \in Runs : Working(r))
  BY <1>1, <1>4 DEF OneThreshold, TakenUndeclared, SparedLeftOut, Working, Spared
<1>5. CASE ~(settings'.threshold < settings.threshold)
           /\ settings'.declared \subseteq settings.declared
  <2>1. settings.threshold <= settings'.threshold
    BY <1>3, <1>5
  <2>2. OneThreshold'
    BY <1>1, <1>2, <1>3, <2>1 DEF OneThreshold, Working
  <2>3. TakenUndeclared'
    BY <1>1, <1>2, <1>5 DEF TakenUndeclared
  <2>4. SparedLeftOut'
    BY <1>1, <1>2, <1>3, <1>5, <2>1 DEF SparedLeftOut, Spared, Working
  <2> QED BY <2>2, <2>3, <2>4
<1> QED BY <1>1, <1>4, <1>5 DEF Loosens

LEMMA SavedAnalysis ==
  ASSUME Inv, NEW r \in Runs, SaveAnalysis(r)
  PROVE  LET a == inHand[r].article IN
         /\ a \in Articles /\ step[r] = "analyzing"
         /\ analysis'[a].summary \in {"tried", "no text", "spared"}
         /\ analysis'[a].summary = "spared" =>
              analysis'[a].score < snapshot[r].threshold /\ ~inHand[r].declared
         /\ \A b \in Articles : b # a => analysis'[b] = analysis[b]
<1> DEFINE a == inHand[r].article
<1>1. a \in Articles /\ step[r] = "analyzing"
  BY DEF Inv, InHand, SaveAnalysis
<1>2. PICK v \in Verdicts[a] :
        analysis' = [analysis EXCEPT ![a] =
          [score |-> v[1], topics |-> {v[2]},
           summary |-> Summary(a, v[1], snapshot[r].threshold, inHand[r].declared)]]
  BY DEF SaveAnalysis
<1> HIDE DEF a
<1>3. /\ analysis'[a].score = v[1]
      /\ analysis'[a].summary = Summary(a, v[1], snapshot[r].threshold, inHand[r].declared)
      /\ \A b \in Articles : b # a => analysis'[b] = analysis[b]
  BY <1>1, <1>2 DEF Inv, ReadingTypeOK
<1> QED BY <1>1, <1>3 DEF a, Summary

LEMMA AnalysisKeepsJudged ==
  ASSUME Inv, NEW r \in Runs, SaveAnalysis(r)
  PROVE  Judged'
<1> SUFFICES ASSUME ~loose'
             PROVE  OneThreshold' /\ TakenUndeclared' /\ SparedLeftOut'
  BY DEF Judged
<1>0. PICK a \in Articles : a = inHand[r].article
  BY SavedAnalysis
<1>1. /\ ~loose /\ settings' = settings /\ snapshot' = snapshot
      /\ step[r] = "analyzing" /\ step'[r] = "running"
      /\ \A o \in Runs : o # r => step'[o] = step[o] /\ inHand'[o] = inHand[o]
  BY DEF SaveAnalysis, Inv, ReadingTypeOK
<1>2. ReadingTypeOK /\ OneThreshold /\ TakenUndeclared /\ SparedLeftOut
  BY <1>1 DEF Inv, Judged
<1>3. Working(r) /\ \A o \in Runs : Working(o)' => Working(o)
  BY <1>1 DEF Working
<1>4. OneThreshold'
  BY <1>1, <1>2, <1>3 DEF OneThreshold
<1>5. TakenUndeclared'
  BY <1>1, <1>2 DEF TakenUndeclared
<1>6. /\ Spared(a)' => analysis'[a].score < snapshot[r].threshold /\ ~inHand[r].declared
      /\ \A b \in Articles : b # a => analysis'[b] = analysis[b]
  BY <1>0, SavedAnalysis DEF Spared
<1>7. ASSUME Spared(a)'
      PROVE  /\ analysis'[a].score < settings.threshold /\ a \notin settings.declared
             /\ \A o \in Runs : Working(o) => analysis'[a].score < snapshot[o].threshold
  <2>1. a \notin settings.declared
    BY <1>0, <1>1, <1>2, <1>6, <1>7 DEF TakenUndeclared
  <2>2. /\ snapshot[r].threshold <= settings.threshold
        /\ \A o \in Runs : Working(o) => snapshot[o].threshold = snapshot[r].threshold
    BY <1>2, <1>3 DEF OneThreshold
  <2>3. analysis'[a].score \in Nat
    <3>1. analysis'[a].score \in Levels \cup {0}
      BY SaveAnalysisType DEF ReadingTypeOK
    <3> QED BY <3>1, ScoreType
  <2> QED BY <1>2, <1>6, <1>7, <2>1, <2>2, <2>3, NumberType
<1>8. SparedLeftOut'
  <2> SUFFICES ASSUME NEW b \in Articles, Spared(b)'
               PROVE  /\ analysis'[b].score < settings.threshold /\ b \notin settings.declared
                      /\ \A o \in Runs : Working(o) => analysis'[b].score < snapshot[o].threshold
    BY <1>1, <1>3 DEF SparedLeftOut
  <2>1. CASE b = a
    BY <1>7, <2>1
  <2>2. CASE b # a
    BY <1>2, <1>6, <2>2 DEF SparedLeftOut, Spared
  <2> QED BY <2>1, <2>2
<1> QED BY <1>4, <1>5, <1>8

(* Runs that go on or end; the settings and analyses are the same.         *)
RunMoves(r) ==
  /\ UNCHANGED <<loose, settings, analysis>>
  /\ \A o \in Runs : o # r =>
       step'[o] = step[o] /\ snapshot'[o] = snapshot[o] /\ inHand'[o] = inHand[o]
  /\ Working(r)' => Working(r) /\ snapshot'[r] = snapshot[r]
  /\ step'[r] = "analyzing" =>
       inHand'[r].declared = (inHand'[r].article \in settings.declared)

LEMMA RunKeepsJudged ==
  ASSUME Inv, NEW r \in Runs, RunMoves(r)
  PROVE  Judged'
<1> SUFFICES ASSUME ~loose
             PROVE  OneThreshold' /\ TakenUndeclared' /\ SparedLeftOut'
  BY DEF Judged, RunMoves
<1>1. OneThreshold /\ TakenUndeclared /\ SparedLeftOut
  BY DEF Inv, Judged
<1>2. \A o \in Runs : Working(o)' => Working(o) /\ snapshot'[o] = snapshot[o]
  BY DEF RunMoves, Working
<1>3. OneThreshold'
  BY <1>1, <1>2 DEF OneThreshold, RunMoves
<1>4. TakenUndeclared'
  BY <1>1 DEF TakenUndeclared, RunMoves
<1>5. SparedLeftOut'
  BY <1>1, <1>2 DEF SparedLeftOut, Spared, RunMoves
<1> QED BY <1>3, <1>4, <1>5

(* A run that begins has the threshold in use, and so have the others.     *)
LEMMA StartKeepsJudged ==
  ASSUME Inv, NEW r \in Runs, StartRun(r)
  PROVE  Judged'
<1> SUFFICES ASSUME ~loose'
             PROVE  OneThreshold' /\ TakenUndeclared' /\ SparedLeftOut'
  BY DEF Judged
<1>1. /\ ~loose /\ UNCHANGED <<settings, analysis, inHand>>
      /\ step'[r] = "running" /\ snapshot'[r] = settings
      /\ \A o \in Runs : o # r => step'[o] = step[o] /\ snapshot'[o] = snapshot[o]
      /\ \A o \in Runs : Working(o) => ~(snapshot[o].threshold < settings.threshold)
  BY DEF StartRun, database, Inv, ReadingTypeOK
<1>2. ReadingTypeOK /\ OneThreshold /\ TakenUndeclared /\ SparedLeftOut
  BY <1>1 DEF Inv, Judged
<1>3. /\ settings.threshold \in Nat
      /\ \A o \in Runs : snapshot[o].threshold \in Nat
  BY <1>2, NumberType
<1>4. \A o \in Runs : Working(o)' => snapshot'[o].threshold = settings.threshold
  <2> SUFFICES ASSUME NEW o \in Runs, Working(o)'
               PROVE  snapshot'[o].threshold = settings.threshold
    OBVIOUS
  <2>1. CASE o = r
    BY <1>1, <2>1
  <2>2. CASE o # r
    <3>1. Working(o) /\ snapshot'[o] = snapshot[o]
      BY <1>1, <2>2 DEF Working
    <3>2. snapshot[o].threshold <= settings.threshold
      BY <1>2, <3>1 DEF OneThreshold
    <3> QED BY <1>1, <1>3, <3>1, <3>2
  <2> QED BY <2>1, <2>2
<1>5. OneThreshold'
  BY <1>1, <1>3, <1>4 DEF OneThreshold
<1>6. TakenUndeclared'
  BY <1>1, <1>2 DEF TakenUndeclared
<1>7. SparedLeftOut'
  BY <1>1, <1>2, <1>4 DEF SparedLeftOut, Spared
<1> QED BY <1>5, <1>6, <1>7

LEMMA JudgedStep == Inv /\ [ReadingNext]_readingVars => Judged'
<1> SUFFICES ASSUME Inv, [ReadingNext]_readingVars PROVE Judged'
  OBVIOUS
<1>0. Judged /\ ReadingTypeOK
  BY DEF Inv
<1>1. ASSUME UNCHANGED <<loose, settings, analysis, step, snapshot, inHand>> PROVE Judged'
  BY <1>0, <1>1
     DEF Judged, OneThreshold, TakenUndeclared, SparedLeftOut, Working, Spared
<1>2. CASE PassTime \/ Leave \/ OpenDigest \/ ShowDigest \/ NextPage
  BY <1>1, <1>2 DEF PassTime, Leave, OpenDigest, ShowDigest, NextPage, run, database
<1>3. ASSUME NEW a \in Articles, NEW away \in BOOLEAN, SetArchived(a, away) PROVE Judged'
  BY <1>1, <1>3 DEF SetArchived, run
<1>4. CASE SaveSettings
  BY <1>4, SettingsKeepJudged
<1>5. ASSUME NEW r \in Runs, StartRun(r) PROVE Judged'
  BY <1>5, StartKeepsJudged
<1>6. ASSUME NEW r \in Runs, NEW a \in Articles, TakeArticle(r, a) PROVE Judged'
  <2>1. /\ UNCHANGED <<loose, settings, analysis>>
        /\ \A o \in Runs : o # r =>
             step'[o] = step[o] /\ snapshot'[o] = snapshot[o] /\ inHand'[o] = inHand[o]
        /\ step[r] = "running" /\ step'[r] = "analyzing" /\ snapshot'[r] = snapshot[r]
    BY <1>0, <1>6 DEF TakeArticle, database, ReadingTypeOK
  <2>2. inHand'[r] = [article |-> a, declared |-> a \in settings.declared]
    BY <1>0, <1>6 DEF TakeArticle, ReadingTypeOK
  <2>3. inHand'[r].declared = (inHand'[r].article \in settings.declared)
    BY <2>2
  <2>4. RunMoves(r)
    BY <2>1, <2>3 DEF RunMoves, Working
  <2> QED BY <2>4, RunKeepsJudged
<1>7. ASSUME NEW r \in Runs, SaveAnalysis(r) PROVE Judged'
  BY <1>7, AnalysisKeepsJudged
<1>8. ASSUME NEW r \in Runs, BeginDigest(r) \/ Upsert(r) \/ Clear(r) PROVE Judged'
  <2>1. /\ UNCHANGED <<loose, settings, analysis>>
        /\ \A o \in Runs : o # r =>
             step'[o] = step[o] /\ snapshot'[o] = snapshot[o] /\ inHand'[o] = inHand[o]
        /\ step[r] \notin {"new", "over"} /\ step'[r] # "analyzing"
        /\ snapshot'[r] = snapshot[r]
    BY <1>0, <1>8 DEF BeginDigest, Upsert, Clear, database, ReadingTypeOK
  <2>2. RunMoves(r)
    BY <2>1 DEF RunMoves, Working
  <2> QED BY <2>2, RunKeepsJudged
<1>9. ASSUME NEW r \in Runs, Stop(r) \/ SelectArticles(r) PROVE Judged'
  <2>1. /\ UNCHANGED <<loose, settings, analysis>> /\ Finish(r)
    BY <1>9 DEF Stop, SelectArticles, database
  <2>2. RunMoves(r)
    BY <1>0, <2>1, FinishKeeps DEF RunMoves, Working
  <2> QED BY <2>2, RunKeepsJudged
<1>10. CASE UNCHANGED readingVars
  BY <1>1, <1>10 DEF readingVars, database, run
<1> QED BY <1>2, <1>3, <1>4, <1>5, <1>6, <1>7, <1>8, <1>9, <1>10
     DEF ReadingNext, Judging, Digesting

LEMMA SelectedStep == Inv /\ [ReadingNext]_readingVars => Selected'
<1> SUFFICES ASSUME Inv, [ReadingNext]_readingVars PROVE Selected'
  OBVIOUS
<1>0. Selected /\ ReadingTypeOK
  BY DEF Inv
<1>1. ASSUME UNCHANGED <<digests, analysis>>, loose => loose', again => again'
      PROVE  Selected'
  BY <1>0, <1>1 DEF Selected, Analyzed, Spared
<1>2. CASE PassTime \/ SaveSettings \/ Leave \/ OpenDigest \/ ShowDigest \/ NextPage
  BY <1>1, <1>2 DEF PassTime, SaveSettings, Leave, OpenDigest, ShowDigest, NextPage, database
<1>3. ASSUME NEW a \in Articles, NEW away \in BOOLEAN, SetArchived(a, away) PROVE Selected'
  BY <1>1, <1>3 DEF SetArchived
<1>4. ASSUME NEW r \in Runs,
             \/ StartRun(r) \/ (\E a \in Articles : TakeArticle(r, a)) \/ BeginDigest(r)
             \/ Upsert(r) \/ Clear(r) \/ Stop(r)
      PROVE  Selected'
  BY <1>1, <1>4 DEF StartRun, TakeArticle, BeginDigest, Upsert, Clear, Stop, database
<1>5. ASSUME NEW r \in Runs, SaveAnalysis(r) PROVE Selected'
  <2> DEFINE a == inHand[r].article
  <2>1. digests' = digests /\ loose' = loose /\ again' = (again \/ Analyzed(a))
    BY <1>5 DEF SaveAnalysis
  <2>2. /\ analysis'[a].summary \in {"tried", "no text", "spared"}
        /\ \A b \in Articles : b # a => analysis'[b] = analysis[b]
    BY <1>5, SavedAnalysis
  <2> SUFFICES ASSUME NEW d \in Dates, NEW b \in digests[d]
               PROVE  Analyzed(b)' /\ (~loose' /\ ~again' => ~Spared(b)')
    BY <2>1 DEF Selected
  <2>3. b \in Articles /\ Analyzed(b) /\ (~loose /\ ~again => ~Spared(b))
    BY <1>0 DEF Selected, ReadingTypeOK
  <2>4. CASE b = a
    <3>1. Unseen.summary = "none"
      BY DEF Unseen
    <3>2. Analyzed(b)'
      BY <2>2, <2>4, <3>1 DEF Analyzed
    <3> QED BY <2>1, <2>3, <2>4, <3>2
  <2>5. CASE b # a
    BY <2>1, <2>2, <2>3, <2>5 DEF Analyzed, Spared
  <2> QED BY <2>4, <2>5
<1>6. ASSUME NEW r \in Runs, SelectArticles(r) PROVE Selected'
  <2>1. /\ digests' = [digests EXCEPT ![DateOf(r)] = Selection(r)]
        /\ analysis' = analysis /\ loose' = loose /\ again' = again /\ step[r] = "select"
    BY <1>6, SelectKeeps DEF Inv, OneSelection, SelectArticles
  <2> SUFFICES ASSUME NEW d \in Dates, NEW a \in digests'[d]
               PROVE  Analyzed(a) /\ (~loose /\ ~again => ~Spared(a))
    BY <2>1 DEF Selected, Analyzed, Spared
  <2>2. CASE a \in digests[d]
    BY <1>0, <2>2 DEF Selected
  <2>3. CASE a \in Selection(r)
    <3>1. /\ a \in Articles /\ Analyzed(a)
          /\ analysis[a].score >= snapshot[r].threshold \/ a \in settings.declared
      BY <2>3 DEF Selection, Listed
    <3>2. ASSUME ~loose, Spared(a) PROVE FALSE
      <4>1. /\ analysis[a].score < snapshot[r].threshold /\ a \notin settings.declared
        BY <2>1, <3>1, <3>2 DEF Inv, Judged, SparedLeftOut, Working
      <4> QED BY <1>0, <3>1, <4>1, NumberType
    <3> QED BY <3>1, <3>2
  <2> QED BY <1>0, <2>1, <2>2, <2>3 DEF ReadingTypeOK
<1>7. CASE UNCHANGED readingVars
  BY <1>1, <1>7 DEF readingVars, database
<1> QED BY <1>2, <1>3, <1>4, <1>5, <1>6, <1>7 DEF ReadingNext, Judging, Digesting

-----------------------------------------------------------------------------
LEMMA InvStep == Inv /\ [ReadingNext]_readingVars => Inv'
BY TypeStep, InHandStep, ExclusiveStep, ReaderStep, JudgedStep, SelectedStep
   DEF Inv, OneSelection

(* What is read, judged and shown has its type.                            *)
THEOREM ReadingTypeCorrect == ReadingSpec => []ReadingTypeOK
<1>1. Inv => ReadingTypeOK
  BY DEF Inv
<1> QED BY <1>1, InvInit, InvStep, PTL DEF ReadingSpec

(* A digest is one selection, and its page lists nothing archived, for any *)
(* number of processes that refresh it at once.                            *)
THEOREM OneSelectionHolds == ReadingSpec => []OneSelection
<1>1. Inv => OneSelection
  BY DEF Inv
<1> QED BY <1>1, InvInit, InvStep, PTL DEF ReadingSpec

LEMMA InvShowsSummaries == Inv => SummaryShown
<1> SUFFICES ASSUME Inv, ~loose, ~again,
                    NEW a \in Listed(settings.threshold, settings.interests)
                              \cup UNION {digests[d] : d \in Dates}
             PROVE  ~Spared(a)
  BY DEF SummaryShown
<1>1. CASE a \in Listed(settings.threshold, settings.interests)
  <2>1. a \in Articles /\ (analysis[a].score >= settings.threshold \/ a \in settings.declared)
    BY <1>1 DEF Listed
  <2>2. Spared(a) => analysis[a].score < settings.threshold /\ a \notin settings.declared
    BY <2>1 DEF Inv, Judged, SparedLeftOut
  <2> QED BY <2>1, <2>2, NumberType DEF Inv
<1>2. CASE a \in UNION {digests[d] : d \in Dates}
  BY <1>2 DEF Inv, Selected
<1> QED BY <1>1, <1>2

(* Every listed article has a summary unless there was none to be had,     *)
(* however often the settings change between the moment it is judged and   *)
(* the moment it is listed: apart from settings that list more, saved once *)
(* something was spared or while a run works, runs of different thresholds *)
(* side by side, and articles analysed twice.                              *)
THEOREM SummaryShownHolds == ReadingSpec => []SummaryShown
BY InvShowsSummaries, InvInit, InvStep, PTL DEF ReadingSpec

-----------------------------------------------------------------------------

(* The articles a list shows before a.                                     *)
Before(list, a) == Cardinality({b \in list : b > a})

(* The pages of a list: its members are numbered from its end without      *)
(* gaps, so a page that is followed by another one is full.                *)
LEMMA FullPages ==
  ASSUME NEW S \in SUBSET Nat, IsFiniteSet(S), NEW from \in Nat,
         NEW a \in S, Before(S, a) >= from + PageSize
  PROVE  Cardinality(PageAt(S, from)) = PageSize
<1> DEFINE size == PageSize
           Rest(x) == {b \in S : b > x}
           rank(x) == Cardinality(Rest(x))
           n == Cardinality(S)
           P == {x \in S : rank(x) \in from..(from + size - 1)}
           f == [x \in S |-> rank(x)]
           g == [x \in P |-> rank(x)]
<1>0. size \in Nat \ {0}
  BY BoundType
<1>1. n \in Nat
  BY FS_CardinalityType
<1> HIDE DEF size
<1>2. ASSUME NEW x \in S PROVE IsFiniteSet(Rest(x)) /\ rank(x) \in Nat /\ rank(x) < n
  <2>1. IsFiniteSet(S \ {x}) /\ Cardinality(S \ {x}) = n - 1
    BY FS_RemoveElement
  <2>2. Rest(x) \in SUBSET (S \ {x})
    OBVIOUS
  <2>3. IsFiniteSet(Rest(x)) /\ rank(x) <= n - 1
    BY <2>1, <2>2, FS_Subset
  <2> QED BY <1>1, <2>3, FS_CardinalityType
<1>3. ASSUME NEW x \in S, NEW y \in S, x < y PROVE rank(y) < rank(x)
  <2>1. IsFiniteSet(Rest(x)) /\ y \in Rest(x)
    BY <1>2, <1>3
  <2>2. IsFiniteSet(Rest(x) \ {y}) /\ Cardinality(Rest(x) \ {y}) = rank(x) - 1
    BY <2>1, FS_RemoveElement
  <2>3. Rest(y) \in SUBSET (Rest(x) \ {y})
    <3>1. \A b \in S : b > y => b > x /\ b # y
      BY <1>3
    <3> QED BY <3>1
  <2>4. rank(y) <= rank(x) - 1
    BY <2>2, <2>3, FS_Subset
  <2>5. rank(x) \in Nat /\ rank(y) \in Nat
    BY <1>2
  <2> HIDE DEF rank
  <2> QED BY <2>4, <2>5
<1> HIDE DEF Rest, rank, n
<1>4. \A x, y \in S : rank(x) = rank(y) => x = y
  <2> SUFFICES ASSUME NEW x \in S, NEW y \in S, rank(x) = rank(y), x # y PROVE FALSE
    OBVIOUS
  <2>1. x < y \/ y < x
    OBVIOUS
  <2> QED BY <1>2, <1>3, <2>1
<1>5. f \in Surjection(S, 0..(n - 1))
  <2>1. f \in [S -> 0..(n - 1)]
    BY <1>1, <1>2
  <2>2. f \in Injection(S, 0..(n - 1))
    BY <1>4, <2>1 DEF Injection, IsInjective
  <2>3. IsFiniteSet(0..(n - 1)) /\ Cardinality(0..(n - 1)) = n
    BY <1>1, FS_Interval
  <2> QED BY <2>2, <2>3, FS_Injection DEF n
<1>6. g \in Bijection(P, from..(from + size - 1))
  <2>1. g \in [P -> from..(from + size - 1)]
    BY <1>0
  <2>2. ASSUME NEW t \in from..(from + size - 1) PROVE \E x \in P : g[x] = t
    <3>1. from + size <= rank(a)
      BY DEF rank, Rest, Before, size
    <3>2. t \in 0..(n - 1)
      BY <1>0, <1>1, <1>2, <3>1
    <3>3. PICK x \in S : f[x] = t
      BY <1>5, <3>2 DEF Surjection
    <3>4. rank(x) = t
      BY <3>3
    <3> QED BY <3>4
  <2>3. g \in Injection(P, from..(from + size - 1))
    BY <1>4, <2>1 DEF Injection, IsInjective
  <2>4. g \in Surjection(P, from..(from + size - 1))
    BY <2>1, <2>2 DEF Surjection
  <2> QED BY <2>3, <2>4 DEF Bijection
<1>7. IsFiniteSet(P)
  <2>1. P \in SUBSET S
    OBVIOUS
  <2> QED BY <2>1, FS_Subset
<1>8. Cardinality(from..(from + size - 1)) = size
  BY <1>0, FS_Interval
<1>9. Cardinality(P) = size
  <2>1. ExistsBijection(P, from..(from + size - 1))
    BY <1>6 DEF ExistsBijection
  <2> QED BY <1>7, <1>8, <2>1, FS_Bijection
<1> QED BY <1>9 DEF rank, Rest, PageAt, size

(* Of the articles that were there, those the reader has not seen are on   *)
(* the pages to come.                                                      *)
Ahead ==
  there \subseteq Archive /\ \A a \in there : a \in seen \/ Before(Archive, a) >= offset

Paging ==
  /\ page = "none" => offset = 0
  /\ page = "paging" /\ ~turned /\ ~again => Ahead
  /\ NoneSkipped

LEMMA ArchiveFinite ==
  /\ Archive \in SUBSET Nat /\ IsFiniteSet(Archive)
  /\ \A a : Before(Archive, a) \in Nat
<1>1. IsFiniteSet(Articles) /\ Articles \in SUBSET Nat
  BY ReadingAssumption, FS_Interval DEF Articles
<1>2. Archive \in SUBSET Articles
  BY DEF Archive
<1>3. IsFiniteSet(Archive)
  BY <1>1, <1>2, FS_Subset
<1>4. ASSUME NEW a PROVE Before(Archive, a) \in Nat
  <2>1. {b \in Archive : b > a} \in SUBSET Archive
    OBVIOUS
  <2> QED BY <1>3, <2>1, FS_Subset, FS_CardinalityType DEF Before
<1> QED BY <1>1, <1>2, <1>3, <1>4

(* A longer archive moves articles to later pages only.                    *)
LEMMA LaterPages ==
  ASSUME Archive \subseteq Archive', Archive' \subseteq Articles, NEW a
  PROVE  Before(Archive, a)' \in Nat /\ Before(Archive, a) <= Before(Archive, a)'
<1>1. IsFiniteSet(Articles)
  BY ReadingAssumption, FS_Interval DEF Articles
<1>2. IsFiniteSet({b \in Archive' : b > a})
  <2>1. {b \in Archive' : b > a} \in SUBSET Articles
    OBVIOUS
  <2> QED BY <1>1, <2>1, FS_Subset
<1>3. {b \in Archive : b > a} \in SUBSET {b \in Archive' : b > a}
  OBVIOUS
<1> QED BY <1>2, <1>3, FS_Subset, FS_CardinalityType DEF Before

LEMMA GrowthKeepsPaging ==
  ASSUME Paging, page' = page, UNCHANGED <<offset, there, seen>>, offset \in Nat,
         turned => turned', again => again',
         page = "paging" /\ ~turned' /\ ~again' => Archive \subseteq Archive'
  PROVE  Paging'
<1>1. CASE page = "paging" /\ ~turned' /\ ~again'
  <2>1. Ahead /\ Archive \subseteq Archive'
    BY <1>1 DEF Paging
  <2>2. Archive' \subseteq Articles
    BY DEF Archive, Articles
  <2>3. \A a \in there : /\ Before(Archive, a) \in Nat /\ Before(Archive, a)' \in Nat
                         /\ Before(Archive, a) <= Before(Archive, a)'
    BY <2>1, <2>2, ArchiveFinite, LaterPages
  <2>4. Ahead'
    BY <2>1, <2>3 DEF Ahead
  <2> QED BY <1>1, <2>4 DEF Paging, NoneSkipped
<1>2. CASE ~(page = "paging" /\ ~turned' /\ ~again')
  BY <1>2 DEF Paging, NoneSkipped
<1> QED BY <1>1, <1>2

LEMMA NextPageKeepsPaging ==
  ASSUME Paging, ReadingTypeOK, NextPage
  PROVE  Paging'
<1> DEFINE articles == PageAt(Archive, offset)
<1>1. /\ page \in {"none", "paging"} /\ seen' = seen \cup articles
      /\ page' = IF Cardinality(articles) = PageSize THEN "paging" ELSE "paged"
      /\ offset' = offset + PageSize
      /\ there' = IF page = "none" THEN Archive ELSE there
      /\ UNCHANGED <<now, settings, analysis, turned, again>>
  BY DEF NextPage, database, bounds
<1>2. Archive' = Archive /\ \A a : Before(Archive, a)' = Before(Archive, a)
  BY <1>1 DEF Archive, Collected, Before, Articles
<1>3. offset \in Nat /\ PageSize \in Nat \ {0}
  BY BoundType DEF ReadingTypeOK
<1>4. ASSUME ~turned, ~again
      PROVE  /\ there' \subseteq Archive
             /\ \A a \in there' : a \in seen' \/ Before(Archive, a) >= offset'
  <2>1. there' \subseteq Archive /\ \A a \in there' : a \in seen \/ Before(Archive, a) >= offset
    BY <1>1, <1>3, <1>4, ArchiveFinite DEF Paging, Ahead
  <2>2. \A a \in Archive : a \in articles <=> Before(Archive, a) \in offset..(offset + PageSize - 1)
    BY DEF PageAt, Before
  <2> QED BY <1>1, <1>3, <2>1, <2>2, ArchiveFinite
<1>5. ASSUME NEW a \in Archive, Before(Archive, a) >= offset + PageSize
      PROVE  Cardinality(articles) = PageSize
  <2>1. Archive \in SUBSET Nat /\ IsFiniteSet(Archive)
    BY ArchiveFinite
  <2> QED BY <1>3, <1>5, <2>1, FullPages
<1> HIDE DEF articles
<1>6. page' = "paging" /\ ~turned' /\ ~again' => Ahead'
  BY <1>1, <1>2, <1>4 DEF Ahead
<1>7. NoneSkipped'
  <2> SUFFICES ASSUME page' = "paged", ~turned, ~again, NEW a \in there' PROVE a \in seen'
    BY <1>1 DEF NoneSkipped
  <2>1. Cardinality(articles) # PageSize
    BY <1>1
  <2> QED BY <1>1, <1>4, <1>5, <2>1
<1>8. page' # "none"
  BY <1>1
<1> QED BY <1>6, <1>7, <1>8 DEF Paging

LEMMA PagingStep == Inv /\ Paging /\ [ReadingNext]_readingVars => Paging'
<1> SUFFICES ASSUME Inv, Paging, [ReadingNext]_readingVars PROVE Paging'
  OBVIOUS
<1>0. ReadingTypeOK /\ offset \in Nat
  BY DEF Inv, ReadingTypeOK
<1>1. ASSUME UNCHANGED <<now, analysis, settings, reader, again>> PROVE Paging'
  <2>1. Archive' = Archive
    BY <1>1 DEF Archive, Collected, Articles
  <2> QED BY <1>0, <1>1, <2>1, GrowthKeepsPaging DEF reader
<1>2. CASE PassTime
  <2>1. /\ now' = now + 1 /\ UNCHANGED <<analysis, settings, again>>
        /\ UNCHANGED <<page, offset, seen, there, turned>>
    BY <1>2 DEF PassTime, database, reader
  <2>2. \A a \in Articles : CollectedAt[a] \in Nat /\ now \in Nat
    <3>1. now \in 0..Horizon /\ CollectedAt \in [Articles -> Nat]
      BY <1>0, ReadingAssumption, Zenon DEF ReadingTypeOK
    <3> QED BY <3>1
  <2>3. Archive \subseteq Archive'
    BY <2>1, <2>2 DEF Archive, Collected, Articles
  <2> QED BY <1>0, <2>1, <2>3, GrowthKeepsPaging
<1>3. CASE SaveSettings
  <2>1. /\ UNCHANGED <<now, analysis, again, page, offset, there, seen>>
        /\ turned => turned'
        /\ page = "paging" /\ ~turned' => settings'.interests = settings.interests
    BY <1>3 DEF SaveSettings
  <2>2. page = "paging" /\ ~turned' /\ ~again' => Archive \subseteq Archive'
    BY <2>1 DEF Archive, Collected, Articles
  <2> QED BY <1>0, <2>1, <2>2, GrowthKeepsPaging
<1>4. ASSUME NEW r \in Runs, SaveAnalysis(r) PROVE Paging'
  <2> DEFINE a == inHand[r].article
  <2>1. /\ UNCHANGED <<now, settings, page, offset, there, seen, turned>>
        /\ again' = (again \/ Analyzed(a))
    BY <1>4 DEF SaveAnalysis, reader, bounds
  <2>2. a \in Articles /\ \A b \in Articles : b # a => analysis'[b] = analysis[b]
    BY <1>4, SavedAnalysis
  <2>3. ~Analyzed(a) => a \notin Archive
    BY DEF Analyzed, Archive, Unseen
  <2> HIDE DEF a
  <2>4. ~again' => Archive \subseteq Archive'
    BY <2>1, <2>2, <2>3 DEF Archive, Collected, Articles
  <2> QED BY <1>0, <2>1, <2>4, GrowthKeepsPaging
<1>5. ASSUME NEW b \in Articles, NEW away \in BOOLEAN, SetArchived(b, away) PROVE Paging'
  <2>1. UNCHANGED <<now, analysis, settings, again, page, offset, there, seen, turned>>
    BY <1>5 DEF SetArchived
  <2>2. Archive' = Archive
    BY <2>1 DEF Archive, Collected, Articles
  <2> QED BY <1>0, <2>1, <2>2, GrowthKeepsPaging
<1>6. CASE Leave \/ OpenDigest \/ ShowDigest
  BY <1>6 DEF Leave, OpenDigest, ShowDigest, Paging, NoneSkipped
<1>7. ASSUME NEW r \in Runs,
             \/ StartRun(r) \/ (\E a \in Articles : TakeArticle(r, a)) \/ Stop(r)
             \/ BeginDigest(r) \/ Upsert(r) \/ Clear(r) \/ SelectArticles(r)
      PROVE  Paging'
  BY <1>1, <1>7 DEF StartRun, TakeArticle, Stop, BeginDigest, Upsert, Clear, SelectArticles,
                    database, bounds
<1>8. CASE UNCHANGED readingVars
  BY <1>1, <1>8 DEF readingVars, database, bounds
<1> QED BY <1>0, <1>2, <1>3, <1>4, <1>5, <1>6, <1>7, <1>8, NextPageKeepsPaging
     DEF ReadingNext, Judging, Digesting

(* Who pages through the archive to its end has seen every article that    *)
(* was there at the start, for any length of page and however many are     *)
(* added meanwhile.                                                        *)
THEOREM NoneSkippedHolds == ReadingSpec => []NoneSkipped
<1>1. ReadingInit => Paging
  BY DEF ReadingInit, Paging, NoneSkipped
<1>2. Paging => NoneSkipped
  BY DEF Paging
<1> QED BY <1>1, <1>2, InvInit, InvStep, PagingStep, PTL DEF ReadingSpec
=============================================================================
