--------------------------- MODULE SettingsProofs ---------------------------
(***************************************************************************)
(* The configuration and who rewrites it, for any number of tabs,          *)
(* collecting processes, interests, sources, requests and collections.     *)
(***************************************************************************)
EXTENDS Settings, TLAPS

-----------------------------------------------------------------------------
(* The inductive invariant.                                                *)

Saving == {"begin", "commit"}

(* Setup is completed at most once, unless a late save of the wizard       *)
(* undoes it.                                                              *)
History ==
  /\ configured => finished
  /\ finished /\ ~reopened => configured

(* What each kind of save was given by the handlers.                       *)
JobFits(j, inSetup) ==
  /\ j.kind \in {"interests", "drafts", "all"}
  /\ j.kind = "drafts" => inSetup
  /\ j.kind = "interests" => j.topics # {} /\ j.turned = {}
  /\ j.kind = "all" /\ ~reopened => j.topics # {} /\ Present(j.sources) # {}
  /\ \A k \in j.turned : j.sources[k] # "absent"

(* A page of Settings works on a copy that has an interest and a source,   *)
(* since the gate saw that setup was complete and nobody has undone it.    *)
Copied(r) ==
  ~reopened /\ ~setup[r] =>
    /\ pc[r] # "idle" => configured
    /\ pc[r] \in {"sources", "edit"} => snapshot[r].topics # {}
    /\ pc[r] = "edit" => Present(snapshot[r].sources) # {}

Page(r) == Copied(r) /\ (pc[r] \in Saving => JobFits(job[r], setup[r]))

(* While requests do not overlap there is one at most, and it is where the *)
(* gate let it.                                                            *)
OneAtATime ==
  ~overlapped =>
    /\ \A r, q \in Tabs : pc[r] # "idle" /\ pc[q] # "idle" => r = q
    /\ \A r \in Tabs : pc[r] # "idle" => (setup[r] <=> ~configured)

(* Before setup is complete there is nothing to collect.                   *)
BeforeSetup ==
  ~overlapped /\ ~configured =>
    items = {} /\ \A c \in Collectors : stage[c] = "idle"

(* Between collections a process remembers nothing.                        *)
Rested(c) ==
  stage[c] = "idle" =>
    /\ plan[c] = NoSources /\ left[c] = {}
    /\ \A k \in Keys : offAtStart[c][k] = "no"

(* The user has turned the source off while nothing was collected, as far  *)
(* as the database or a collection in progress can tell.                   *)
IsOff(k) == off[k] = "safe" \/ \E c \in Collectors : offAtStart[c][k] = "safe"

(* Then nobody holds a copy in which it is on, but the request that is     *)
(* about to turn it on again.                                              *)
StaysOff(k) ==
  ~overlapped /\ IsOff(k) =>
    /\ sources[k] # "on"
    /\ \A c \in Collectors : plan[c][k] # "on" /\ k \notin left[c]
    /\ \A r \in Tabs :
         /\ pc[r] = "edit" => snapshot[r].sources[k] # "on"
         /\ pc[r] \in Saving => job[r].sources[k] # "on" \/ k \in job[r].turned

Inv ==
  /\ TypeOK
  /\ History /\ ReadyToRun /\ SetupIsFinal /\ DraftsOwnNothing
  /\ OneAtATime /\ BeforeSetup
  /\ \A r \in Tabs : Page(r)
  /\ \A c \in Collectors : Rested(c)
  /\ \A k \in Keys : StaysOff(k)

LEMMA InitInv == Init => Inv
<1> SUFFICES ASSUME Init PROVE Inv
  OBVIOUS
<1> USE DEF Init
<1>1. NoSources \in [Keys -> Flags] /\ \A k \in Keys : NoSources[k] # "on"
  BY DEF NoSources, Flags
<1>2. /\ topics \subseteq Topics /\ sources \in [Keys -> Flags] /\ configured \in BOOLEAN
      /\ configured => topics # {} /\ Present(sources) # {}
  <2>1. CASE configured = FALSE /\ topics = {} /\ sources = NoSources
    BY <1>1, <2>1
  <2>2. CASE \E t \in Topics, k \in Keys :
               /\ configured \in BOOLEAN
               /\ topics = {t} /\ sources = [NoSources EXCEPT ![k] = "on"]
    <3>1. PICK t \in Topics, k \in Keys :
               /\ configured \in BOOLEAN
               /\ topics = {t} /\ sources = [NoSources EXCEPT ![k] = "on"]
      BY <2>2
    <3>2. sources[k] = "on" /\ sources \in [Keys -> Flags]
      BY <1>1, <3>1 DEF Flags
    <3>3. k \in Present(sources)
      BY <3>2 DEF Present
    <3> QED BY <3>1, <3>2, <3>3
  <2> QED BY <2>1, <2>2
<1>3. Blank \in Config /\ NoJob \in Job
  BY <1>1 DEF Blank, Config, NoJob, Job
<1>4. TypeOK
  <2>1. /\ pc \in [Tabs -> {"idle", "settings", "interests", "sources", "edit", "begin", "commit"}]
        /\ stage \in [Collectors -> {"idle", "sources", "sync", "collect"}]
        /\ off \in [Keys -> {"no", "racing", "safe"}]
        /\ offAtStart \in [Collectors -> [Keys -> {"no", "racing", "safe"}]]
        /\ setup \in [Tabs -> BOOLEAN]
    BY SMT
  <2>2. /\ snapshot \in [Tabs -> Config] /\ job \in [Tabs -> Job]
        /\ seen \in [Tabs -> SUBSET Topics] /\ possible \in [Tabs -> SUBSET Config]
        /\ plan \in [Collectors -> [Keys -> Flags]] /\ left \in [Collectors -> SUBSET Keys]
    BY <1>1, <1>3, Zenon
  <2>3. requests \in 0..MaxRequests /\ runs \in 0..MaxRuns
    BY SettingsAssumption
  <2> QED BY <1>2, <2>1, <2>2, <2>3, Zenon DEF TypeOK
<1>5. History /\ ReadyToRun /\ SetupIsFinal /\ DraftsOwnNothing /\ BeforeSetup
  BY <1>2 DEF History, ReadyToRun, SetupIsFinal, DraftsOwnNothing, BeforeSetup
<1>6. OneAtATime /\ \A r \in Tabs : Page(r)
  BY DEF OneAtATime, Page, Copied, Saving
<1>7. (\A c \in Collectors : Rested(c)) /\ \A k \in Keys : StaysOff(k)
  BY DEF Rested, StaysOff, IsOff
<1> QED BY <1>4, <1>5, <1>6, <1>7 DEF Inv

(* A request that another step leaves alone keeps what holds of it, unless *)
(* that step undoes the setup.                                             *)
LEMMA OthersKeepPage ==
  ASSUME NEW q \in Tabs, Page(q), pc'[q] = pc[q], setup'[q] = setup[q],
         snapshot'[q] = snapshot[q], job'[q] = job[q],
         reopened => reopened', ~reopened' /\ configured => configured'
  PROVE  Page(q)'
<1>1. Copied(q)'
  BY Zenon DEF Page, Copied, Present
<1>2. pc'[q] \in Saving => JobFits(job[q], setup[q])'
  <2>1. pc'[q] \in Saving => JobFits(job[q], setup[q])
    BY DEF Page, Saving
  <2>2. JobFits(job[q], setup[q]) => JobFits(job[q], setup[q])'
    BY Zenon DEF JobFits, Present
  <2> QED BY <2>1, <2>2
<1> QED BY <1>1, <1>2 DEF Page

(* One field of a configuration replaced.                                  *)
LEMMA ConfigFields ==
  ASSUME NEW c \in Config
  PROVE  /\ \A b \in BOOLEAN : [c EXCEPT !.configured = b] \in Config
         /\ \A T \in SUBSET Topics : [c EXCEPT !.topics = T] \in Config
         /\ \A S \in [Keys -> Flags] : [c EXCEPT !.sources = S] \in Config
BY DEF Config

-----------------------------------------------------------------------------
(* A page request that has not reached the database.                       *)

LEMMA GateInv ==
  ASSUME NEW r \in Tabs, Inv, Gate(r) PROVE Inv'
<1> USE DEF Inv, Gate, database, collection
<1>1. Stored \in Config
  BY DEF TypeOK, Stored, Config
<1>2. TypeOK'
  BY <1>1, SettingsAssumption DEF TypeOK
<1>3. History' /\ ReadyToRun' /\ SetupIsFinal' /\ DraftsOwnNothing' /\ BeforeSetup'
  BY DEF TypeOK, History, ReadyToRun, SetupIsFinal, DraftsOwnNothing, BeforeSetup, Present
<1>4. OneAtATime'
  BY DEF TypeOK, OneAtATime
<1>5. ASSUME NEW q \in Tabs PROVE Page(q)'
  <2>1. CASE q # r
    BY <2>1, OthersKeepPage DEF TypeOK
  <2>2. CASE q = r
    BY <2>2 DEF TypeOK, Page, Copied, Saving
  <2> QED BY <2>1, <2>2
<1>6. ASSUME NEW c \in Collectors PROVE Rested(c)'
  BY DEF Rested
<1>7. ASSUME NEW k \in Keys PROVE StaysOff(k)'
  BY DEF TypeOK, StaysOff, IsOff, Saving
<1> QED BY <1>2, <1>3, <1>4, <1>5, <1>6, <1>7

LEMMA ReadSettingsInv ==
  ASSUME NEW r \in Tabs, Inv, ReadSettings(r) PROVE Inv'
<1> USE DEF Inv, ReadSettings, database, collection, observed
<1>1. TypeOK'
  <2>1. [snapshot[r] EXCEPT !.configured = configured] \in Config
    BY ConfigFields, Zenon DEF TypeOK
  <2>2. snapshot' \in [Tabs -> Config]
    BY <2>1, Zenon DEF TypeOK
  <2>3. pc' \in [Tabs -> {"idle", "settings", "interests", "sources", "edit", "begin", "commit"}]
    BY DEF TypeOK
  <2> QED BY <2>2, <2>3 DEF TypeOK
<1>2. History' /\ ReadyToRun' /\ SetupIsFinal' /\ DraftsOwnNothing' /\ BeforeSetup'
  BY DEF TypeOK, History, ReadyToRun, SetupIsFinal, DraftsOwnNothing, BeforeSetup, Present
<1>3. OneAtATime'
  BY DEF TypeOK, OneAtATime
<1>4. ASSUME NEW q \in Tabs PROVE Page(q)'
  BY DEF TypeOK, Page, Copied, Saving, JobFits, Present
<1>5. ASSUME NEW c \in Collectors PROVE Rested(c)'
  BY DEF Rested
<1>6. ASSUME NEW k \in Keys PROVE StaysOff(k)'
  BY DEF TypeOK, StaysOff, IsOff, Saving
<1> QED BY <1>1, <1>2, <1>3, <1>4, <1>5, <1>6

LEMMA ReadInterestsInv ==
  ASSUME NEW r \in Tabs, Inv, ReadInterests(r) PROVE Inv'
<1> USE DEF Inv, ReadInterests, database, collection, observed
<1>1. TypeOK'
  <2>1. [snapshot[r] EXCEPT !.topics = topics] \in Config
    BY ConfigFields, Zenon DEF TypeOK
  <2>2. snapshot' \in [Tabs -> Config]
    BY <2>1, Zenon DEF TypeOK
  <2>3. pc' \in [Tabs -> {"idle", "settings", "interests", "sources", "edit", "begin", "commit"}]
    BY DEF TypeOK
  <2> QED BY <2>2, <2>3 DEF TypeOK
<1>2. History' /\ ReadyToRun' /\ SetupIsFinal' /\ DraftsOwnNothing' /\ BeforeSetup'
  BY DEF TypeOK, History, ReadyToRun, SetupIsFinal, DraftsOwnNothing, BeforeSetup, Present
<1>3. OneAtATime'
  BY DEF TypeOK, OneAtATime
<1>4. ASSUME NEW q \in Tabs PROVE Page(q)'
  <2>1. CASE q # r
    BY <2>1, OthersKeepPage DEF TypeOK
  <2>2. CASE q = r
    BY <2>2 DEF TypeOK, Config, ReadyToRun, Page, Copied, Saving
  <2> QED BY <2>1, <2>2
<1>5. ASSUME NEW c \in Collectors PROVE Rested(c)'
  BY DEF Rested
<1>6. ASSUME NEW k \in Keys PROVE StaysOff(k)'
  BY DEF TypeOK, StaysOff, IsOff, Saving
<1> QED BY <1>1, <1>2, <1>3, <1>4, <1>5, <1>6

LEMMA ReadSourcesInv ==
  ASSUME NEW r \in Tabs, Inv, ReadSources(r) PROVE Inv'
<1> USE DEF Inv, ReadSources, database, collection
<1>1. TypeOK'
  <2>1. [snapshot[r] EXCEPT !.sources = sources] \in Config
    BY ConfigFields, Zenon DEF TypeOK
  <2>2. snapshot' \in [Tabs -> Config] /\ possible' \in [Tabs -> SUBSET Config]
    BY <2>1, Zenon DEF TypeOK
  <2>3. /\ pc' \in [Tabs -> {"idle", "settings", "interests", "sources", "edit", "begin", "commit"}]
        /\ torn' \in BOOLEAN
    BY DEF TypeOK
  <2> QED BY <2>2, <2>3 DEF TypeOK
<1>2. History' /\ ReadyToRun' /\ SetupIsFinal' /\ DraftsOwnNothing' /\ BeforeSetup'
  BY DEF TypeOK, History, ReadyToRun, SetupIsFinal, DraftsOwnNothing, BeforeSetup, Present
<1>3. OneAtATime'
  BY DEF TypeOK, OneAtATime
<1>4. ASSUME NEW q \in Tabs PROVE Page(q)'
  <2>1. CASE q # r
    BY <2>1, OthersKeepPage DEF TypeOK
  <2>2. CASE q = r
    BY <2>2 DEF TypeOK, Config, ReadyToRun, Page, Copied, Saving
  <2> QED BY <2>1, <2>2
<1>5. ASSUME NEW c \in Collectors PROVE Rested(c)'
  BY DEF Rested
<1>6. ASSUME NEW k \in Keys PROVE StaysOff(k)'
  BY DEF TypeOK, Config, StaysOff, IsOff, Saving
<1> QED BY <1>1, <1>2, <1>3, <1>4, <1>5, <1>6

LEMMA BeginSaveInv ==
  ASSUME NEW r \in Tabs, Inv, BeginSave(r) PROVE Inv'
<1> USE DEF Inv, BeginSave, database, collection, observed
<1>1. TypeOK'
  BY DEF TypeOK
<1>2. History' /\ ReadyToRun' /\ SetupIsFinal' /\ DraftsOwnNothing' /\ BeforeSetup'
  BY DEF TypeOK, History, ReadyToRun, SetupIsFinal, DraftsOwnNothing, BeforeSetup, Present
<1>3. OneAtATime'
  BY DEF TypeOK, OneAtATime
<1>4. ASSUME NEW q \in Tabs PROVE Page(q)'
  BY DEF TypeOK, Page, Copied, Saving, JobFits, Present
<1>5. ASSUME NEW c \in Collectors PROVE Rested(c)'
  BY DEF Rested
<1>6. ASSUME NEW k \in Keys PROVE StaysOff(k)'
  BY DEF TypeOK, StaysOff, IsOff, Saving
<1> QED BY <1>1, <1>2, <1>3, <1>4, <1>5, <1>6

LEMMA AnswerInv ==
  ASSUME NEW r \in Tabs, Inv, Answer(r) PROVE Inv'
<1> USE DEF Inv, Answer, Replied, database, collection, observed
<1>0. Blank \in Config /\ NoJob \in Job
  BY DEF Blank, Config, NoJob, Job, NoSources, Flags
<1>1. TypeOK'
  BY <1>0 DEF TypeOK
<1>2. History' /\ ReadyToRun' /\ SetupIsFinal' /\ DraftsOwnNothing' /\ BeforeSetup'
  BY DEF TypeOK, History, ReadyToRun, SetupIsFinal, DraftsOwnNothing, BeforeSetup, Present
<1>3. OneAtATime'
  BY DEF TypeOK, OneAtATime
<1>4. ASSUME NEW q \in Tabs PROVE Page(q)'
  <2>1. CASE q # r
    BY <2>1, OthersKeepPage DEF TypeOK
  <2>2. CASE q = r
    BY <2>2 DEF TypeOK, Page, Copied, Saving
  <2> QED BY <2>1, <2>2
<1>5. ASSUME NEW c \in Collectors PROVE Rested(c)'
  BY DEF Rested
<1>6. ASSUME NEW k \in Keys PROVE StaysOff(k)'
  BY DEF TypeOK, StaysOff, IsOff, Saving
<1> QED BY <1>1, <1>2, <1>3, <1>4, <1>5, <1>6

-----------------------------------------------------------------------------
(* A handler passes its copy to the store.                                 *)

(* What the handlers see to before they call the store.                    *)
MaySubmit(r, kind, T, S, turned, duplicate) ==
  /\ pc[r] = "edit"
  /\ kind \in {"interests", "drafts", "all"} /\ T \subseteq Topics /\ S \in [Keys -> Flags]
  /\ turned \subseteq Keys /\ duplicate \in BOOLEAN
  /\ kind = "drafts" => setup[r]
  /\ kind = "interests" => T # {} /\ turned = {}
  /\ kind = "all" /\ ~reopened => T # {} /\ Present(S) # {}
  /\ \A k \in turned : S[k] # "absent"
  /\ \A k \in Keys : S[k] = "on" => k \in turned \/ snapshot[r].sources[k] = "on"

LEMMA SubmitInv ==
  ASSUME NEW r \in Tabs, Inv, NEW kind, NEW T, NEW S, NEW turned, NEW duplicate,
         MaySubmit(r, kind, T, S, turned, duplicate),
         Submit(r, kind, T, S, turned, duplicate)
  PROVE  Inv'
<1> USE DEF Inv, MaySubmit, Submit, database, collection, observed
<1> DEFINE j == [kind |-> kind, topics |-> T, sources |-> S, turned |-> turned,
                 duplicate |-> duplicate]
<1>0. j \in Job
  BY DEF Job
<1>1. TypeOK'
  <2>1. job' \in [Tabs -> Job]
    BY <1>0, Zenon DEF TypeOK
  <2>2. pc' \in [Tabs -> {"idle", "settings", "interests", "sources", "edit", "begin", "commit"}]
    BY DEF TypeOK
  <2> QED BY <2>1, <2>2 DEF TypeOK
<1>2. History' /\ ReadyToRun' /\ SetupIsFinal' /\ DraftsOwnNothing' /\ BeforeSetup'
  BY DEF TypeOK, History, ReadyToRun, SetupIsFinal, DraftsOwnNothing, BeforeSetup, Present
<1>3. OneAtATime'
  BY DEF TypeOK, OneAtATime
<1>4. ASSUME NEW q \in Tabs PROVE Page(q)'
  <2>1. CASE q # r
    BY <2>1, OthersKeepPage DEF TypeOK
  <2>2. CASE q = r
    <3>1. job'[r] = j /\ setup'[r] = setup[r] /\ reopened' = reopened /\ pc'[r] = "begin"
      BY DEF TypeOK
    <3>2. JobFits(j, setup[r])
      BY Zenon DEF JobFits
    <3>3. JobFits(job[r], setup[r])'
      <4>1. /\ job'[r].kind = kind /\ job'[r].topics = T /\ job'[r].sources = S
            /\ job'[r].turned = turned
        BY <3>1
      <4>2. Present(S)' = Present(S)
        BY Zenon DEF Present
      <4> QED BY <3>1, <4>1, <4>2 DEF JobFits
    <3>4. Copied(r)'
      BY <3>1 DEF Page, Copied
    <3> QED BY <2>2, <3>3, <3>4, Zenon DEF Page
  <2> QED BY <2>1, <2>2
<1>5. ASSUME NEW c \in Collectors PROVE Rested(c)'
  BY DEF Rested
<1>6. ASSUME NEW k \in Keys PROVE StaysOff(k)'
  <2> SUFFICES ASSUME ~overlapped, IsOff(k) PROVE StaysOff(k)'
    BY DEF StaysOff, IsOff
  <2>1. /\ sources[k] # "on"
        /\ \A c \in Collectors : plan[c][k] # "on" /\ k \notin left[c]
        /\ snapshot[r].sources[k] # "on"
    BY DEF StaysOff
  <2>2. S[k] # "on" \/ k \in turned
    BY <2>1
  <2>3. ASSUME NEW q \in Tabs
        PROVE  /\ pc'[q] = "edit" => snapshot'[q].sources[k] # "on"
               /\ pc'[q] \in Saving => job'[q].sources[k] # "on" \/ k \in job'[q].turned
    <3>1. CASE q # r
      BY <3>1 DEF TypeOK, StaysOff, Saving
    <3>2. CASE q = r
      BY <2>2, <3>2 DEF TypeOK, Saving
    <3> QED BY <3>1, <3>2
  <2> QED BY <2>1, <2>3 DEF StaysOff
<1> QED BY <1>1, <1>2, <1>3, <1>4, <1>5, <1>6

LEMMA SaveInterestsInv ==
  ASSUME NEW r \in Tabs, Inv, NEW T, NEW duplicate,
         pc[r] = "edit" /\ T \subseteq Topics /\ T # {} /\ duplicate \in BOOLEAN,
         SaveInterests(r, T, duplicate)
  PROVE  Inv'
<1>1. snapshot[r].sources \in [Keys -> Flags]
  BY DEF Inv, TypeOK, Config
<1>2. ~setup[r] /\ ~reopened => Present(snapshot[r].sources) # {}
  BY DEF Inv, Page, Copied
<1>3. MaySubmit(r, IF setup[r] THEN "interests" ELSE "all", T, snapshot[r].sources, {},
                duplicate)
  BY <1>1, <1>2 DEF MaySubmit
<1> QED BY <1>3, SubmitInv, Zenon DEF SaveInterests

(* handleInterestForm, handleInterestPreset, handleSetupInterestRemove and *)
(* handleThreshold never save an empty list.                               *)
LEMMA InterestsInv ==
  ASSUME NEW r \in Tabs, Inv,
         \/ SaveThreshold(r)
         \/ \E t \in Topics :
              AddInterest(r, t) \/ RemoveInterest(r, t)
                \/ \E old \in Topics : EditInterest(r, old, t)
  PROVE  Inv'
<1>1. snapshot[r].topics \subseteq Topics
  BY DEF Inv, TypeOK, Config
<1>2. ASSUME NEW T, NEW duplicate,
             pc[r] = "edit" /\ T \subseteq Topics /\ T # {} /\ duplicate \in BOOLEAN,
             SaveInterests(r, T, duplicate)
      PROVE  Inv'
  BY <1>2, SaveInterestsInv, Zenon
<1>3. CASE SaveThreshold(r)
  BY <1>1, <1>2, <1>3, Zenon DEF SaveThreshold
<1>4. ASSUME NEW t \in Topics, AddInterest(r, t) PROVE Inv'
  <2>1. snapshot[r].topics \cup {t} \subseteq Topics /\ snapshot[r].topics \cup {t} # {}
        /\ (t \in snapshot[r].topics) \in BOOLEAN
    BY <1>1
  <2> QED BY <1>2, <1>4, <2>1, Zenon DEF AddInterest
<1>5. ASSUME NEW t \in Topics, RemoveInterest(r, t) PROVE Inv'
  <2>1. snapshot[r].topics \ {t} \subseteq Topics /\ snapshot[r].topics \ {t} # {}
    BY <1>1, <1>5 DEF RemoveInterest
  <2> QED BY <1>2, <1>5, <2>1, Zenon DEF RemoveInterest
<1>6. ASSUME NEW t \in Topics, NEW old \in Topics, EditInterest(r, old, t) PROVE Inv'
  <2> DEFINE T == (snapshot[r].topics \ {old}) \cup {t}
  <2>1. T \subseteq Topics /\ T # {} /\ (t \in snapshot[r].topics \ {old}) \in BOOLEAN
    BY <1>1
  <2> QED BY <1>2, <1>6, <2>1, Zenon DEF EditInterest
<1> QED BY <1>3, <1>4, <1>5, <1>6, Zenon

(* handleSource and handleSourcePreset always leave the source they save.  *)
LEMMA SourceMaySubmit ==
  ASSUME NEW r \in Tabs, Inv, NEW k \in Keys, NEW S,
         /\ pc[r] = "edit" /\ S \in [Keys -> Flags] /\ S[k] # "absent"
         /\ \A i \in Keys \ {k} : S[i] = "on" => snapshot[r].sources[i] = "on"
  PROVE  MaySubmit(r, IF setup[r] THEN "drafts" ELSE "all", snapshot[r].topics, S, {k},
                   FALSE)
<1>1. snapshot[r].topics \subseteq Topics
  BY DEF Inv, TypeOK, Config
<1>2. ~setup[r] /\ ~reopened => snapshot[r].topics # {}
  BY DEF Inv, Page, Copied
<1>3. Present(S) # {}
  BY DEF Present
<1> QED BY <1>1, <1>2, <1>3 DEF MaySubmit

LEMMA SaveSourceInv ==
  ASSUME NEW r \in Tabs, Inv, NEW k \in Keys, NEW flag \in {"on", "off"},
         SaveSource(r, k, flag)
  PROVE  Inv'
<1> DEFINE S == [snapshot[r].sources EXCEPT ![k] = flag]
<1>1. snapshot[r].sources \in [Keys -> Flags]
  BY DEF Inv, TypeOK, Config
<1>2. /\ S \in [Keys -> Flags] /\ S[k] # "absent"
      /\ \A i \in Keys \ {k} : S[i] = "on" => snapshot[r].sources[i] = "on"
  BY <1>1 DEF Flags
<1>3. pc[r] = "edit"
  BY DEF SaveSource
<1> HIDE DEF S
<1>4. MaySubmit(r, IF setup[r] THEN "drafts" ELSE "all", snapshot[r].topics, S, {k}, FALSE)
  BY <1>2, <1>3, SourceMaySubmit, Zenon
<1>5. Submit(r, IF setup[r] THEN "drafts" ELSE "all", snapshot[r].topics, S, {k}, FALSE)
  BY Zenon DEF SaveSource, S
<1> QED BY <1>4, <1>5, SubmitInv, Zenon

LEMMA MoveSourceInv ==
  ASSUME NEW r \in Tabs, Inv, NEW k \in Keys, NEW to \in Keys, NEW flag \in {"on", "off"},
         MoveSource(r, k, to, flag)
  PROVE  Inv'
<1> DEFINE S == [snapshot[r].sources EXCEPT ![k] = "absent", ![to] = flag]
<1>1. snapshot[r].sources \in [Keys -> Flags]
  BY DEF Inv, TypeOK, Config
<1>2. /\ S \in [Keys -> Flags] /\ S[to] # "absent"
      /\ \A i \in Keys \ {to} : S[i] = "on" => snapshot[r].sources[i] = "on"
  BY <1>1 DEF Flags
<1>3. pc[r] = "edit"
  BY DEF MoveSource
<1> HIDE DEF S
<1>4. MaySubmit(r, IF setup[r] THEN "drafts" ELSE "all", snapshot[r].topics, S, {to}, FALSE)
  BY <1>2, <1>3, SourceMaySubmit, Zenon
<1>5. Submit(r, IF setup[r] THEN "drafts" ELSE "all", snapshot[r].topics, S, {to}, FALSE)
  BY Zenon DEF MoveSource, S
<1> QED BY <1>4, <1>5, SubmitInv, Zenon

LEMMA FinishInv ==
  ASSUME NEW r \in Tabs, Inv, Finish(r) PROVE Inv'
<1>1. snapshot[r].sources \in [Keys -> Flags] /\ snapshot[r].topics \subseteq Topics
  BY DEF Inv, TypeOK, Config
<1>2. MaySubmit(r, "all", snapshot[r].topics, snapshot[r].sources, {}, FALSE)
  BY <1>1 DEF Finish, MaySubmit
<1> QED BY <1>2, SubmitInv, Zenon DEF Finish

-----------------------------------------------------------------------------
(* A page request that changes the database.                               *)

(* Readers are shown configurations only.                                  *)
LEMMA WatchedType ==
  ASSUME TypeOK, configured' \in BOOLEAN, topics' \subseteq Topics,
         sources' \in [Keys -> Flags]
  PROVE  /\ Watched(Stored') \in [Tabs -> SUBSET Config]
         /\ \A r \in Tabs : [Watched(Stored') EXCEPT ![r] = {}] \in [Tabs -> SUBSET Config]
<1>1. Stored' \in Config
  BY DEF Stored, Config
<1>2. possible \in [Tabs -> SUBSET Config]
  BY DEF TypeOK
<1>3. \A c \in Config : Watched(c) \in [Tabs -> SUBSET Config]
  BY <1>2, Zenon DEF Watched
<1> QED BY <1>1, <1>3, Zenon

LEMMA RepliedType ==
  ASSUME NEW r \in Tabs, TypeOK, Replied(r)
  PROVE  /\ pc' \in [Tabs -> {"idle", "settings", "interests", "sources", "edit", "begin",
                              "commit"}]
         /\ setup' \in [Tabs -> BOOLEAN]
         /\ snapshot' \in [Tabs -> Config] /\ job' \in [Tabs -> Job]
<1>1. Blank \in Config /\ NoJob \in Job
  BY DEF Blank, Config, NoJob, Job, NoSources, Flags
<1> QED BY <1>1 DEF TypeOK, Replied

LEMMA DeleteSourceInv ==
  ASSUME NEW r \in Tabs, NEW k \in Keys, Inv, DeleteSource(r, k) PROVE Inv'
<1> USE DEF Inv, DeleteSource, Replied, collection
<1>1. TypeOK'
  <2>1. sources' \in [Keys -> Flags]
    BY DEF TypeOK, Flags
  <2>2. possible' \in [Tabs -> SUBSET Config]
    BY <2>1, WatchedType DEF TypeOK
  <2>3. items' \subseteq {i \in Keys : sources'[i] # "absent"}
    BY DEF TypeOK
  <2>4. off' \in [Keys -> {"no", "racing", "safe"}] /\ wiped' \in BOOLEAN
    BY DEF TypeOK
  <2>5. /\ pc' \in [Tabs -> {"idle", "settings", "interests", "sources", "edit", "begin",
                              "commit"}]
        /\ setup' \in [Tabs -> BOOLEAN]
        /\ snapshot' \in [Tabs -> Config] /\ job' \in [Tabs -> Job]
    BY RepliedType
  <2> QED BY <2>1, <2>2, <2>3, <2>4, <2>5 DEF TypeOK
<1>2. History' /\ ReadyToRun' /\ SetupIsFinal' /\ DraftsOwnNothing' /\ BeforeSetup'
  BY DEF TypeOK, History, ReadyToRun, SetupIsFinal, DraftsOwnNothing, BeforeSetup
<1>3. OneAtATime'
  BY DEF TypeOK, OneAtATime
<1>4. ASSUME NEW q \in Tabs PROVE Page(q)'
  <2>1. CASE q # r
    BY <2>1, OthersKeepPage DEF TypeOK
  <2>2. CASE q = r
    BY <2>2 DEF TypeOK, Page, Copied, Saving
  <2> QED BY <2>1, <2>2
<1>5. ASSUME NEW c \in Collectors PROVE Rested(c)'
  BY DEF Rested
<1>6. ASSUME NEW i \in Keys PROVE StaysOff(i)'
  BY DEF TypeOK, StaysOff, IsOff, Saving
<1> QED BY <1>1, <1>2, <1>3, <1>4, <1>5, <1>6

(* What a save leaves of the sources.                                      *)
LEMMA ReplacedSources ==
  ASSUME TypeOK, NEW S \in [Keys -> Flags]
  PROVE  /\ Upserted(S) \in [Keys -> Flags] /\ Replaced(S) \in [Keys -> Flags]
         /\ Present(sources) \subseteq Present(Upserted(S))
         /\ Present(sources) \subseteq Present(Replaced(S))
         /\ Present(S) \subseteq Present(Replaced(S))
         /\ \A k \in Keys : S[k] # "on" => Upserted(S)[k] # "on"
         /\ \A k \in Keys : S[k] # "on" /\ (sources[k] # "on" \/ S[k] # "absent")
              => Replaced(S)[k] # "on"
<1> USE DEF TypeOK, Flags
<1>1. /\ Upserted(S) \in [Keys -> Flags]
      /\ Present(sources) \subseteq Present(Upserted(S))
      /\ Present(S) \subseteq Present(Upserted(S))
      /\ \A k \in Keys : S[k] # "on" => Upserted(S)[k] # "on"
  BY DEF Upserted, Present
<1>2. CASE Present(S) = {}
  <2>1. Replaced(S) = sources /\ \A k \in Keys : S[k] = "absent"
    BY <1>2 DEF Replaced, Present
  <2> QED BY <1>1, <1>2, <2>1
<1>3. CASE Present(S) # {}
  BY <1>1, <1>3 DEF Replaced
<1> QED BY <1>2, <1>3

LEMMA CommitSaveInv ==
  ASSUME NEW r \in Tabs, Inv, CommitSave(r) PROVE Inv'
<1> USE DEF Inv
<1>1. /\ pc[r] = "commit" /\ job[r] \in Job /\ JobFits(job[r], setup[r])
      /\ topics' = (topics \ seen[r]) \cup job[r].topics
      /\ off' = Turned(r) /\ Replied(r)
      /\ finished' = (finished \/ configured')
      /\ reopened' = (reopened \/ (configured /\ ~configured'))
      /\ offAtStart' = [c \in Collectors |->
           [k \in Keys |-> IF off'[k] = "no" THEN "no" ELSE offAtStart[c][k]]]
      /\ possible' = [Watched(Stored') EXCEPT ![r] = {}]
      /\ seen' = [q \in Tabs |-> IF q = r THEN {} ELSE seen[q] \ seen[r]]
      /\ UNCHANGED <<items, stage, plan, left, overlapped, torn, wiped, requests, runs>>
  BY DEF CommitSave, TypeOK, Page, Saving
<1>2. /\ job[r].kind \in {"interests", "drafts", "all"}
      /\ job[r].topics \subseteq Topics /\ job[r].sources \in [Keys -> Flags]
      /\ job[r].turned \subseteq Keys
  BY <1>1 DEF Job, JobFits
<1>3. /\ job[r].kind = "interests" => configured' = configured /\ sources' = sources
      /\ job[r].kind # "interests" =>
           /\ sources' = Replaced(job[r].sources)
           /\ configured' = (job[r].kind = "all")
  BY DEF CommitSave
<1>4. /\ sources' \in [Keys -> Flags] /\ Present(sources) \subseteq Present(sources')
      /\ job[r].kind # "interests" => Present(job[r].sources) \subseteq Present(sources')
      /\ configured' \in BOOLEAN
  BY <1>2, <1>3, ReplacedSources DEF TypeOK
<1>5. /\ pc' = [pc EXCEPT ![r] = "idle"] /\ setup' = [setup EXCEPT ![r] = FALSE]
      /\ snapshot' = [snapshot EXCEPT ![r] = Blank] /\ job' = [job EXCEPT ![r] = NoJob]
  BY <1>1 DEF Replied
<1>6. TypeOK'
  <2>1. topics' \subseteq Topics
    BY <1>1, <1>2 DEF TypeOK
  <2>2. possible' \in [Tabs -> SUBSET Config]
    BY <1>1, <1>4, <2>1, WatchedType
  <2>3. items' \subseteq {i \in Keys : sources'[i] # "absent"}
    BY <1>1, <1>4 DEF TypeOK, Present
  <2>4. off' \in [Keys -> {"no", "racing", "safe"}]
    BY <1>1 DEF Turned, TypeOK
  <2>5. offAtStart' \in [Collectors -> [Keys -> {"no", "racing", "safe"}]]
    BY <1>1 DEF TypeOK
  <2>6. /\ pc' \in [Tabs -> {"idle", "settings", "interests", "sources", "edit", "begin",
                              "commit"}]
        /\ setup' \in [Tabs -> BOOLEAN]
        /\ snapshot' \in [Tabs -> Config] /\ job' \in [Tabs -> Job]
    BY <1>1, RepliedType
  <2>7. seen' \in [Tabs -> SUBSET Topics]
    BY <1>1 DEF TypeOK
  <2>8. finished' \in BOOLEAN /\ reopened' \in BOOLEAN
    BY <1>1, <1>4 DEF TypeOK
  <2> QED BY <1>1, <1>4, <2>1, <2>2, <2>3, <2>4, <2>5, <2>6, <2>7, <2>8 DEF TypeOK
<1>7. ~overlapped /\ configured => configured'
  BY <1>1, <1>3 DEF OneAtATime, JobFits
<1>8. History' /\ SetupIsFinal' /\ DraftsOwnNothing'
  BY <1>1, <1>4, <1>7 DEF History, SetupIsFinal, DraftsOwnNothing, TypeOK
<1>9. ReadyToRun'
  <2> SUFFICES ASSUME configured', ~reopened' PROVE topics' # {} /\ Present(sources') # {}
    BY DEF ReadyToRun, Present
  <2>1. CASE job[r].kind = "interests"
    BY <1>1, <1>3, <1>4, <2>1 DEF JobFits, ReadyToRun
  <2>2. CASE job[r].kind # "interests"
    BY <1>1, <1>3, <1>4, <2>2 DEF JobFits
  <2> QED BY <2>1, <2>2
<1>10. BeforeSetup'
  BY <1>1, <1>7 DEF BeforeSetup
<1>11. OneAtATime'
  BY <1>1, <1>5 DEF OneAtATime, TypeOK
<1>12. ASSUME NEW q \in Tabs PROVE Page(q)'
  <2>1. CASE q # r
    <3>1. reopened => reopened'
      BY <1>1
    <3>2. ~reopened' /\ configured => configured'
      BY <1>1
    <3> QED BY <1>5, <2>1, <3>1, <3>2, OthersKeepPage DEF TypeOK
  <2>2. CASE q = r
    BY <1>5, <2>2 DEF TypeOK, Page, Copied, Saving
  <2> QED BY <2>1, <2>2
<1>13. ASSUME NEW c \in Collectors PROVE Rested(c)'
  BY <1>1 DEF Rested
<1>14. ASSUME NEW k \in Keys PROVE StaysOff(k)'
  <2> SUFFICES ASSUME ~overlapped', IsOff(k)' PROVE StaysOff(k)'
    BY DEF StaysOff
  <2>1. ~overlapped /\ off'[k] # "no"
    BY <1>1 DEF IsOff
  <2>2. k \in job[r].turned => job[r].sources[k] # "on" /\ job[r].sources[k] # "absent"
    BY <1>1, <2>1 DEF Turned, JobFits
  <2>3. IsOff(k) \/ (k \in job[r].turned /\ \A c \in Collectors : stage[c] = "idle")
    BY <1>1, <2>1 DEF IsOff, Turned
  <2>4. /\ job[r].sources[k] # "on"
        /\ sources[k] # "on" \/ (job[r].kind # "interests" /\ job[r].sources[k] # "absent")
        /\ \A c \in Collectors : plan[c][k] # "on" /\ k \notin left[c]
    <3>1. CASE IsOff(k)
      <4>1. StaysOff(k) /\ pc[r] \in Saving
        BY <1>1 DEF Saving
      <4>2. /\ sources[k] # "on"
            /\ \A c \in Collectors : plan[c][k] # "on" /\ k \notin left[c]
            /\ job[r].sources[k] # "on" \/ k \in job[r].turned
        BY <2>1, <3>1, <4>1, SMT DEF StaysOff
      <4> QED BY <2>2, <4>2, SMT
    <3>2. CASE k \in job[r].turned /\ \A c \in Collectors : stage[c] = "idle"
      BY <1>1, <2>2, <3>2 DEF Rested, NoSources, JobFits
    <3> QED BY <2>3, <3>1, <3>2
  <2>5. sources'[k] # "on"
    BY <1>2, <1>3, <2>4, ReplacedSources
  <2>6. \A q \in Tabs : pc'[q] = "idle"
    BY <1>1, <1>5, <2>1 DEF OneAtATime, TypeOK
  <2> QED BY <1>1, <2>4, <2>5, <2>6 DEF StaysOff, Saving
<1> QED BY <1>6, <1>8, <1>9, <1>10, <1>11, <1>12, <1>13, <1>14

-----------------------------------------------------------------------------
(* A collection.                                                           *)

LEMMA StartRunInv ==
  ASSUME NEW c \in Collectors, Inv, StartRun(c) PROVE Inv'
<1> USE DEF Inv, StartRun, database, request, observed
<1>1. TypeOK'
  BY SettingsAssumption DEF TypeOK
<1>2. History' /\ ReadyToRun' /\ SetupIsFinal' /\ DraftsOwnNothing' /\ BeforeSetup'
  BY DEF TypeOK, History, ReadyToRun, SetupIsFinal, DraftsOwnNothing, BeforeSetup, Present
<1>3. OneAtATime'
  BY DEF OneAtATime
<1>4. ASSUME NEW q \in Tabs PROVE Page(q)'
  BY OthersKeepPage
<1>5. ASSUME NEW d \in Collectors PROVE Rested(d)'
  BY DEF TypeOK, Rested
<1>6. ASSUME NEW k \in Keys PROVE StaysOff(k)'
  BY DEF TypeOK, StaysOff, IsOff, Saving
<1> QED BY <1>1, <1>2, <1>3, <1>4, <1>5, <1>6

LEMMA ReadPlanInv ==
  ASSUME NEW c \in Collectors, Inv, ReadPlan(c) PROVE Inv'
<1> USE DEF Inv, ReadPlan, database, request, observed
<1>1. TypeOK'
  BY DEF TypeOK
<1>2. History' /\ ReadyToRun' /\ SetupIsFinal' /\ DraftsOwnNothing' /\ BeforeSetup'
  BY DEF TypeOK, History, ReadyToRun, SetupIsFinal, DraftsOwnNothing, BeforeSetup, Present
<1>3. OneAtATime'
  BY DEF OneAtATime
<1>4. ASSUME NEW q \in Tabs PROVE Page(q)'
  BY OthersKeepPage
<1>5. ASSUME NEW d \in Collectors PROVE Rested(d)'
  BY DEF TypeOK, Rested
<1>6. ASSUME NEW k \in Keys PROVE StaysOff(k)'
  BY DEF TypeOK, StaysOff, IsOff, Saving
<1> QED BY <1>1, <1>2, <1>3, <1>4, <1>5, <1>6

(* The end of a collection disturbs nothing.                               *)
LEMMA EndRunKeeps ==
  ASSUME NEW c \in Collectors, Inv, EndRun(c)
  PROVE  /\ stage' \in [Collectors -> {"idle", "sources", "sync", "collect"}]
         /\ plan' \in [Collectors -> [Keys -> Flags]] /\ left' \in [Collectors -> SUBSET Keys]
         /\ offAtStart' \in [Collectors -> [Keys -> {"no", "racing", "safe"}]]
         /\ \A d \in Collectors : Rested(d)'
         /\ \A d \in Collectors :
              /\ stage[d] = "idle" => stage'[d] = "idle"
              /\ \A k \in Keys :
                   /\ plan[d][k] # "on" => plan'[d][k] # "on"
                   /\ k \notin left[d] => k \notin left'[d]
                   /\ offAtStart'[d][k] = "safe" => offAtStart[d][k] = "safe"
<1> USE DEF Inv, TypeOK, EndRun
<1>1. NoSources \in [Keys -> Flags] /\ \A k \in Keys : NoSources[k] # "on"
  BY DEF NoSources, Flags
<1>2. [k \in Keys |-> "no"] \in [Keys -> {"no", "racing", "safe"}]
  OBVIOUS
<1>3. /\ stage' \in [Collectors -> {"idle", "sources", "sync", "collect"}]
      /\ plan' \in [Collectors -> [Keys -> Flags]] /\ left' \in [Collectors -> SUBSET Keys]
      /\ offAtStart' \in [Collectors -> [Keys -> {"no", "racing", "safe"}]]
  BY <1>1, <1>2
<1>4. ASSUME NEW d \in Collectors PROVE Rested(d)'
  BY DEF Rested
<1>5. ASSUME NEW d \in Collectors
      PROVE  /\ stage[d] = "idle" => stage'[d] = "idle"
             /\ \A k \in Keys :
                  /\ plan[d][k] # "on" => plan'[d][k] # "on"
                  /\ k \notin left[d] => k \notin left'[d]
                  /\ offAtStart'[d][k] = "safe" => offAtStart[d][k] = "safe"
  BY <1>1
<1> QED BY <1>3, <1>4, <1>5

LEMMA FinishRunInv ==
  ASSUME NEW c \in Collectors, Inv, FinishRun(c) PROVE Inv'
<1> USE DEF Inv, FinishRun, database, request, observed
<1>1. TypeOK'
  BY EndRunKeeps DEF TypeOK
<1>2. History' /\ ReadyToRun' /\ SetupIsFinal' /\ DraftsOwnNothing' /\ BeforeSetup'
  BY EndRunKeeps DEF History, ReadyToRun, SetupIsFinal, DraftsOwnNothing, BeforeSetup, Present
<1>3. OneAtATime'
  BY DEF OneAtATime
<1>4. ASSUME NEW q \in Tabs PROVE Page(q)'
  BY OthersKeepPage
<1>5. \A d \in Collectors : Rested(d)'
  BY EndRunKeeps
<1>6. ASSUME NEW k \in Keys PROVE StaysOff(k)'
  BY EndRunKeeps DEF StaysOff, IsOff, Saving
<1> QED BY <1>1, <1>2, <1>3, <1>4, <1>5, <1>6

LEMMA SyncSourcesInv ==
  ASSUME NEW c \in Collectors, Inv, SyncSources(c) PROVE Inv'
<1> USE DEF Inv
<1> DEFINE enabled == {k \in Keys : plan[c][k] = "on"}
<1>1. /\ stage[c] = "sync" /\ sources' = Upserted(plan[c])
      /\ possible' = Watched(Stored')
      /\ UNCHANGED <<configured, topics, items, pc, setup, snapshot, job, seen, observed,
                     requests, runs>>
      /\ plan[c] \in [Keys -> Flags]
  BY DEF SyncSources, TypeOK
<1>2. /\ sources' \in [Keys -> Flags] /\ Present(sources) \subseteq Present(sources')
      /\ \A k \in Keys : plan[c][k] # "on" => sources'[k] # "on"
  BY <1>1, ReplacedSources
<1>3. \/ EndRun(c)
      \/ /\ left' = [left EXCEPT ![c] = enabled]
         /\ stage' = [stage EXCEPT ![c] = "collect"]
         /\ UNCHANGED <<plan, offAtStart>>
  BY DEF SyncSources
<1>4. /\ stage' \in [Collectors -> {"idle", "sources", "sync", "collect"}]
      /\ plan' \in [Collectors -> [Keys -> Flags]] /\ left' \in [Collectors -> SUBSET Keys]
      /\ offAtStart' \in [Collectors -> [Keys -> {"no", "racing", "safe"}]]
      /\ \A d \in Collectors : Rested(d)'
      /\ \A d \in Collectors :
           /\ stage[d] = "idle" => stage'[d] = "idle"
           /\ \A k \in Keys :
                /\ plan[d][k] # "on" => plan'[d][k] # "on"
                /\ k \notin left[d] /\ plan[d][k] # "on" => k \notin left'[d]
                /\ offAtStart'[d][k] = "safe" => offAtStart[d][k] = "safe"
  <2>1. CASE EndRun(c)
    BY <2>1, EndRunKeeps
  <2>2. CASE /\ left' = [left EXCEPT ![c] = enabled]
             /\ stage' = [stage EXCEPT ![c] = "collect"]
             /\ UNCHANGED <<plan, offAtStart>>
    BY <1>1, <2>2 DEF TypeOK, Rested
  <2> QED BY <1>3, <2>1, <2>2
<1>5. TypeOK'
  <2>1. possible' \in [Tabs -> SUBSET Config]
    BY <1>1, <1>2, WatchedType DEF TypeOK
  <2>2. items' \subseteq {i \in Keys : sources'[i] # "absent"}
    BY <1>1, <1>2 DEF TypeOK, Present
  <2> QED BY <1>1, <1>2, <1>4, <2>1, <2>2 DEF TypeOK, observed
<1>6. History' /\ ReadyToRun' /\ SetupIsFinal' /\ DraftsOwnNothing' /\ BeforeSetup'
  BY <1>1, <1>2, <1>4
  DEF History, ReadyToRun, SetupIsFinal, DraftsOwnNothing, BeforeSetup, observed
<1>7. OneAtATime'
  BY <1>1 DEF OneAtATime, observed
<1>8. ASSUME NEW q \in Tabs PROVE Page(q)'
  BY <1>1, OthersKeepPage DEF observed
<1>9. ASSUME NEW k \in Keys PROVE StaysOff(k)'
  <2> SUFFICES ASSUME ~overlapped', IsOff(k)' PROVE StaysOff(k)'
    BY DEF StaysOff
  <2>1. ~overlapped /\ IsOff(k)
    BY <1>1, <1>4 DEF IsOff, observed
  <2> QED BY <1>1, <1>2, <1>4, <2>1 DEF StaysOff, Saving
<1> QED BY <1>4, <1>5, <1>6, <1>7, <1>8, <1>9

LEMMA CollectSourceInv ==
  ASSUME NEW c \in Collectors, NEW k \in Keys, Inv, CollectSource(c, k) PROVE Inv'
<1> USE DEF Inv
<1>1. /\ stage[c] = "collect"
      /\ UNCHANGED <<configured, topics, sources, request, observed, requests, runs>>
      /\ items' \in {items, items \cup {k}} /\ (items' = items \/ sources[k] # "absent")
      /\ \/ EndRun(c)
         \/ left' = [left EXCEPT ![c] = @ \ {k}] /\ UNCHANGED <<stage, plan, offAtStart>>
  BY DEF CollectSource
<1>2. /\ stage' \in [Collectors -> {"idle", "sources", "sync", "collect"}]
      /\ plan' \in [Collectors -> [Keys -> Flags]] /\ left' \in [Collectors -> SUBSET Keys]
      /\ offAtStart' \in [Collectors -> [Keys -> {"no", "racing", "safe"}]]
      /\ \A d \in Collectors : Rested(d)'
      /\ \A d \in Collectors :
           /\ stage[d] = "idle" => stage'[d] = "idle"
           /\ \A i \in Keys :
                /\ plan[d][i] # "on" => plan'[d][i] # "on"
                /\ i \notin left[d] => i \notin left'[d]
                /\ offAtStart'[d][i] = "safe" => offAtStart[d][i] = "safe"
  <2>1. CASE EndRun(c)
    BY <2>1, EndRunKeeps
  <2>2. CASE left' = [left EXCEPT ![c] = @ \ {k}] /\ UNCHANGED <<stage, plan, offAtStart>>
    BY <1>1, <2>2 DEF TypeOK, Rested
  <2> QED BY <1>1, <2>1, <2>2
<1>3. TypeOK'
  <2>1. items' \subseteq {i \in Keys : sources'[i] # "absent"}
    BY <1>1 DEF TypeOK
  <2> QED BY <1>1, <1>2, <2>1 DEF TypeOK, request, observed
<1>4. History' /\ ReadyToRun' /\ SetupIsFinal' /\ DraftsOwnNothing' /\ BeforeSetup'
  BY <1>1, <1>2
  DEF History, ReadyToRun, SetupIsFinal, DraftsOwnNothing, BeforeSetup, Present, observed
<1>5. OneAtATime'
  BY <1>1 DEF OneAtATime, request, observed
<1>6. ASSUME NEW q \in Tabs PROVE Page(q)'
  BY <1>1, OthersKeepPage DEF request, observed
<1>7. ASSUME NEW i \in Keys PROVE StaysOff(i)'
  <2> SUFFICES ASSUME ~overlapped', IsOff(i)' PROVE StaysOff(i)'
    BY DEF StaysOff
  <2>1. ~overlapped /\ IsOff(i)
    BY <1>1, <1>2 DEF IsOff, observed
  <2> QED BY <1>1, <1>2, <2>1 DEF StaysOff, Saving, request
<1> QED BY <1>2, <1>3, <1>4, <1>5, <1>6, <1>7

-----------------------------------------------------------------------------
(* Every step.                                                             *)

LEMMA NextInv == Inv /\ [Next]_vars => Inv'
<1> SUFFICES ASSUME Inv, [Next]_vars PROVE Inv'
  OBVIOUS
<1>1. ASSUME NEW r \in Tabs,
             \/ Gate(r) \/ ReadSettings(r) \/ ReadInterests(r) \/ ReadSources(r)
             \/ \E t \in Topics :
                  AddInterest(r, t) \/ RemoveInterest(r, t)
                    \/ \E old \in Topics : EditInterest(r, old, t)
             \/ \E k \in Keys, flag \in {"on", "off"} :
                  SaveSource(r, k, flag) \/ \E to \in Keys : MoveSource(r, k, to, flag)
             \/ \E k \in Keys : DeleteSource(r, k)
             \/ SaveThreshold(r) \/ Finish(r) \/ BeginSave(r) \/ CommitSave(r) \/ NoChange(r)
      PROVE  Inv'
  <2>1. CASE Gate(r)
    BY <2>1, GateInv
  <2>2. CASE ReadSettings(r)
    BY <2>2, ReadSettingsInv
  <2>3. CASE ReadInterests(r)
    BY <2>3, ReadInterestsInv
  <2>4. CASE ReadSources(r)
    BY <2>4, ReadSourcesInv
  <2>5. CASE \/ SaveThreshold(r)
             \/ \E t \in Topics :
                  AddInterest(r, t) \/ RemoveInterest(r, t)
                    \/ \E old \in Topics : EditInterest(r, old, t)
    BY <2>5, InterestsInv, Zenon
  <2>6. ASSUME NEW k \in Keys, NEW flag \in {"on", "off"},
               SaveSource(r, k, flag) \/ \E to \in Keys : MoveSource(r, k, to, flag)
        PROVE  Inv'
    BY <2>6, SaveSourceInv, MoveSourceInv, Zenon
  <2>7. ASSUME NEW k \in Keys, DeleteSource(r, k) PROVE Inv'
    BY <2>7, DeleteSourceInv
  <2>8. CASE Finish(r)
    BY <2>8, FinishInv
  <2>9. CASE BeginSave(r)
    BY <2>9, BeginSaveInv
  <2>10. CASE CommitSave(r)
    BY <2>10, CommitSaveInv
  <2>11. CASE NoChange(r)
    BY <2>11, AnswerInv DEF NoChange
  <2> QED BY <1>1, <2>1, <2>2, <2>3, <2>4, <2>5, <2>6, <2>7, <2>8, <2>9, <2>10, <2>11, Zenon
<1>2. ASSUME NEW c \in Collectors,
             \/ StartRun(c) \/ ReadPlan(c) \/ SyncSources(c) \/ FinishRun(c)
             \/ \E k \in Keys : CollectSource(c, k)
      PROVE  Inv'
  BY <1>2, StartRunInv, ReadPlanInv, SyncSourcesInv, FinishRunInv, CollectSourceInv, Zenon
<1>3. CASE UNCHANGED vars
  <2> USE <1>3 DEF Inv, vars, database, request, collection, observed
  <2>1. TypeOK'
    BY DEF TypeOK
  <2>2. History' /\ ReadyToRun' /\ SetupIsFinal' /\ DraftsOwnNothing'
    BY DEF History, ReadyToRun, SetupIsFinal, DraftsOwnNothing, Present
  <2>3. OneAtATime' /\ BeforeSetup'
    BY DEF OneAtATime, BeforeSetup
  <2>4. ASSUME NEW r \in Tabs PROVE Page(r)'
    BY OthersKeepPage
  <2>5. ASSUME NEW c \in Collectors PROVE Rested(c)'
    BY DEF Rested
  <2>6. ASSUME NEW k \in Keys PROVE StaysOff(k)'
    BY DEF StaysOff, IsOff, Saving
  <2> QED BY <2>1, <2>2, <2>3, <2>4, <2>5, <2>6
<1> QED BY <1>1, <1>2, <1>3, Zenon DEF Next

LEMMA InvHolds == Spec => []Inv
<1>1. Init => Inv
  BY InitInv
<1>2. Inv /\ [Next]_vars => Inv'
  BY NextInv
<1> QED BY <1>1, <1>2, PTL DEF Spec

-----------------------------------------------------------------------------
(* The theorems.                                                           *)

(* The types hold; in particular items belong to sources that exist, and   *)
(* what a handler saves is a configuration.                                *)
THEOREM SettingsTypeCorrect == Spec => []TypeOK
<1>1. Inv => TypeOK
  BY DEF Inv
<1> QED BY <1>1, InvHolds, PTL

(* What counts as configured can be run, however many tabs and collections *)
(* interleave, unless a wizard's save has come after the setup.            *)
THEOREM ReadyToRunHolds == Spec => []ReadyToRun
<1>1. Inv => ReadyToRun
  BY DEF Inv
<1> QED BY <1>1, InvHolds, PTL

(* Without overlapping page requests setup stays complete: setupGate is    *)
(* enough to keep the wizard from writing configured=FALSE.                *)
THEOREM SetupIsFinalHolds == Spec => []SetupIsFinal
<1>1. Inv => SetupIsFinal
  BY DEF Inv
<1> QED BY <1>1, InvHolds, PTL

(* Without overlapping page requests DeleteSetupSource removes nothing     *)
(* that was collected.                                                     *)
THEOREM DraftsOwnNothingHolds == Spec => []DraftsOwnNothing
<1>1. Inv => DraftsOwnNothing
  BY DEF Inv
<1> QED BY <1>1, InvHolds, PTL

(* Without overlapping page requests a source turned off while nothing was *)
(* collected is read by no later collection, for any number of processes   *)
(* that collect at the same time.                                          *)
THEOREM TurnedOffStaysOffHolds == Spec => []TurnedOffStaysOff
<1>1. Inv => TurnedOffStaysOff
  BY DEF Inv, StaysOff, IsOff, TurnedOffStaysOff, TypeOK
<1> QED BY <1>1, InvHolds, PTL
=============================================================================
