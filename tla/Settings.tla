------------------------------ MODULE Settings ------------------------------
(***************************************************************************)
(* The configuration in PostgreSQL and everyone who rewrites it: the       *)
(* wizard and Settings pages (internal/web/settings.go), the store's       *)
(* transactions (internal/store/configuration.go) and SyncSources, with    *)
(* which every collection writes its own snapshot back.                    *)
(*                                                                         *)
(* A page request reads the whole configuration, changes one thing in its  *)
(* copy and saves the copy.  Requests of several tabs, and collections     *)
(* started by the scheduler or by hand, interleave between statements.     *)
(*                                                                         *)
(* An interest is its topic and a source its natural key (type, url) with  *)
(* its enabled flag; their other fields, the threshold, and the order of   *)
(* the lists, are left out.                                                *)
(***************************************************************************)
EXTENDS Naturals, FiniteSets

CONSTANTS
  Tabs,         \* browser tabs: page requests that may overlap
  Collectors,   \* processes that may run a collection
  Topics,       \* interests the user may enter
  Keys,         \* addresses of sources the user may enter
  MaxRequests,  \* bound: page requests
  MaxRuns       \* bound: collections

ASSUME SettingsAssumption ==
  Keys # {} /\ Topics # {} /\ MaxRequests \in Nat /\ MaxRuns \in Nat

VARIABLES
  \* the database
  configured,
  topics,      \* interests
  sources,     \* sources: absent, or enabled or not
  items,       \* sources that own raw items
  \* page requests
  pc,
  setup,       \* the request is for a page of the wizard
  snapshot,    \* the configuration the handler works on
  job,         \* what it is about to save
  seen,        \* interests the transaction's DELETE has seen
  \* collections
  stage,
  plan,        \* the sources of the runner
  left,        \* sources still to be collected
  \* history
  possible,    \* configurations the database had while the request read it
  overlapped,  \* two page requests were in progress at the same time
  finished,    \* setup has been completed
  reopened,    \* it was undone by a wizard's save that came late
  torn,        \* a request worked on a configuration that never was
  wiped,       \* a source was deleted with items it had collected
  off,         \* sources the user turned off
  offAtStart,  \* of those, the ones already off when the collection began
  requests, runs

database == <<configured, topics, sources, items>>
request == <<pc, setup, snapshot, job, seen, possible>>
collection == <<stage, plan, left, offAtStart>>
observed == <<overlapped, finished, reopened, torn, wiped, off>>
vars == <<database, request, collection, observed, requests, runs>>

Flags == {"absent", "on", "off"}
Config == [configured : BOOLEAN, topics : SUBSET Topics, sources : [Keys -> Flags]]
NoSources == [k \in Keys |-> "absent"]
Blank == [configured |-> FALSE, topics |-> {}, sources |-> NoSources]

(* What a handler passes to the store.                                     *)
Job == [kind : {"none", "interests", "drafts", "all"}, topics : SUBSET Topics,
        sources : [Keys -> Flags], turned : SUBSET Keys, duplicate : BOOLEAN]
NoJob == [kind |-> "none", topics |-> {}, sources |-> NoSources, turned |-> {},
          duplicate |-> FALSE]

TypeOK ==
  /\ configured \in BOOLEAN
  /\ topics \subseteq Topics
  /\ sources \in [Keys -> Flags]
  /\ items \subseteq {k \in Keys : sources[k] # "absent"}
  /\ pc \in [Tabs -> {"idle", "settings", "interests", "sources", "edit", "begin", "commit"}]
  /\ setup \in [Tabs -> BOOLEAN]
  /\ snapshot \in [Tabs -> Config]
  /\ job \in [Tabs -> Job]
  /\ seen \in [Tabs -> SUBSET Topics]
  /\ possible \in [Tabs -> SUBSET Config]
  /\ stage \in [Collectors -> {"idle", "sources", "sync", "collect"}]
  /\ plan \in [Collectors -> [Keys -> Flags]]
  /\ left \in [Collectors -> SUBSET Keys]
  /\ offAtStart \in [Collectors -> [Keys -> {"no", "racing", "safe"}]]
  /\ overlapped \in BOOLEAN /\ finished \in BOOLEAN /\ reopened \in BOOLEAN
  /\ torn \in BOOLEAN /\ wiped \in BOOLEAN
  /\ off \in [Keys -> {"no", "racing", "safe"}]
  /\ requests \in 0..MaxRequests /\ runs \in 0..MaxRuns

Stored == [configured |-> configured, topics |-> topics, sources |-> sources]

(* A new installation, a wizard left half-way, or one that was finished.   *)
Init ==
  /\ \/ configured = FALSE /\ topics = {} /\ sources = NoSources
     \/ \E t \in Topics, k \in Keys :
          /\ configured \in BOOLEAN
          /\ topics = {t} /\ sources = [NoSources EXCEPT ![k] = "on"]
  /\ items = {}
  /\ pc = [r \in Tabs |-> "idle"]
  /\ setup = [r \in Tabs |-> FALSE]
  /\ snapshot = [r \in Tabs |-> Blank]
  /\ job = [r \in Tabs |-> NoJob]
  /\ seen = [r \in Tabs |-> {}]
  /\ possible = [r \in Tabs |-> {}]
  /\ stage = [c \in Collectors |-> "idle"]
  /\ plan = [c \in Collectors |-> NoSources]
  /\ left = [c \in Collectors |-> {}]
  /\ offAtStart = [c \in Collectors |-> [k \in Keys |-> "no"]]
  /\ overlapped = FALSE /\ finished = configured /\ reopened = FALSE
  /\ torn = FALSE /\ wiped = FALSE
  /\ off = [k \in Keys |-> "no"]
  /\ requests = 0 /\ runs = 0

-----------------------------------------------------------------------------
(* The statements of internal/store.                                       *)

Present(S) == {k \in Keys : S[k] # "absent"}

(* Mutant: ON CONFLICT DO NOTHING.                                         *)
UpsertedOnce(S) ==
  [k \in Keys |-> IF sources[k] # "absent" THEN sources[k] ELSE S[k]]

(* INSERT ... ON CONFLICT DO UPDATE for every source given, then UPDATE    *)
(* ... SET enabled=FALSE for the others.                                   *)
Upserted(S) ==
  [k \in Keys |-> IF S[k] # "absent" THEN S[k]
                  ELSE IF sources[k] = "on" THEN "off" ELSE sources[k]]

(* The same, unless no source is given: then nothing is disabled.          *)
Replaced(S) == IF Present(S) = {} THEN sources ELSE Upserted(S)

(* Every request that is reading sees the new configuration go by.         *)
Watched(c) ==
  [r \in Tabs |-> IF pc[r] \in {"settings", "interests", "sources"}
                  THEN possible[r] \cup {c} ELSE possible[r]]

(* The request is answered and its locals are gone.                        *)
Replied(r) ==
  /\ pc' = [pc EXCEPT ![r] = "idle"]
  /\ setup' = [setup EXCEPT ![r] = FALSE]
  /\ snapshot' = [snapshot EXCEPT ![r] = Blank]
  /\ job' = [job EXCEPT ![r] = NoJob]

(* Nothing is changed: a validation or database error, or a 404.           *)
Answer(r) ==
  /\ Replied(r)
  /\ seen' = [seen EXCEPT ![r] = {}]
  /\ possible' = [possible EXCEPT ![r] = {}]
  /\ UNCHANGED <<database, collection, observed, requests, runs>>

-----------------------------------------------------------------------------
(* A page request.                                                         *)

(* Mutant: the wizard's pages stay reachable.                              *)
GateOpen(r) ==
  /\ pc[r] = "idle" /\ requests < MaxRequests
  /\ setup' \in {[setup EXCEPT ![r] = s] : s \in {TRUE, ~configured}}
  /\ pc' = [pc EXCEPT ![r] = "settings"]
  /\ possible' = [possible EXCEPT ![r] = {Stored}]
  /\ overlapped' = (overlapped \/ \E q \in Tabs : pc[q] # "idle")
  /\ requests' = requests + 1
  /\ UNCHANGED <<database, snapshot, job, seen, collection, finished, reopened, torn,
                 wiped, off, runs>>

(* setupGate: the wizard before setup is complete, Settings after.         *)
Gate(r) ==
  /\ pc[r] = "idle" /\ requests < MaxRequests
  /\ setup' = [setup EXCEPT ![r] = ~configured]
  /\ pc' = [pc EXCEPT ![r] = "settings"]
  /\ possible' = [possible EXCEPT ![r] = {Stored}]
  /\ overlapped' = (overlapped \/ \E q \in Tabs : pc[q] # "idle")
  /\ requests' = requests + 1
  /\ UNCHANGED <<database, snapshot, job, seen, collection, finished, reopened, torn,
                 wiped, off, runs>>

(* Store.Configuration: three queries.                                     *)
ReadSettings(r) ==
  /\ pc[r] = "settings"
  /\ snapshot' = [snapshot EXCEPT ![r].configured = configured]
  /\ pc' = [pc EXCEPT ![r] = "interests"]
  /\ UNCHANGED <<database, setup, job, seen, possible, collection, observed, requests,
                 runs>>

ReadInterests(r) ==
  /\ pc[r] = "interests"
  /\ snapshot' = [snapshot EXCEPT ![r].topics = topics]
  /\ pc' = [pc EXCEPT ![r] = "sources"]
  /\ UNCHANGED <<database, setup, job, seen, possible, collection, observed, requests,
                 runs>>

ReadSources(r) ==
  /\ pc[r] = "sources"
  /\ snapshot' = [snapshot EXCEPT ![r].sources = sources]
  /\ pc' = [pc EXCEPT ![r] = "edit"]
  /\ torn' = (torn \/ snapshot'[r] \notin possible[r])
  /\ possible' = [possible EXCEPT ![r] = {}]
  /\ UNCHANGED <<database, setup, job, seen, collection, overlapped, finished,
                 reopened, wiped, off, requests, runs>>

(* The handler has its copy changed and calls the store.                   *)
Submit(r, kind, T, S, turned, duplicate) ==
  /\ job' = [job EXCEPT ![r] = [kind |-> kind, topics |-> T, sources |-> S,
                                turned |-> turned, duplicate |-> duplicate]]
  /\ pc' = [pc EXCEPT ![r] = "begin"]
  /\ UNCHANGED <<database, setup, snapshot, seen, possible, collection, observed,
                 requests, runs>>

SaveInterests(r, T, duplicate) ==
  Submit(r, IF setup[r] THEN "interests" ELSE "all", T, snapshot[r].sources, {}, duplicate)

(* handleInterestForm, handleInterestPreset: add one, or overwrite the one *)
(* at the position the page showed.                                        *)
AddInterest(r, t) ==
  /\ pc[r] = "edit"
  /\ SaveInterests(r, snapshot[r].topics \cup {t}, t \in snapshot[r].topics)

EditInterest(r, old, t) ==
  /\ pc[r] = "edit" /\ old \in snapshot[r].topics
  /\ SaveInterests(r, (snapshot[r].topics \ {old}) \cup {t},
                   t \in snapshot[r].topics \ {old})

(* Mutant: even the only one.                                              *)
RemoveInterestAny(r, t) ==
  /\ pc[r] = "edit" /\ setup[r] /\ t \in snapshot[r].topics
  /\ SaveInterests(r, snapshot[r].topics \ {t}, FALSE)

(* handleSetupInterestRemove: never the only one.                          *)
RemoveInterest(r, t) ==
  /\ pc[r] = "edit" /\ setup[r]
  /\ t \in snapshot[r].topics /\ snapshot[r].topics # {t}
  /\ SaveInterests(r, snapshot[r].topics \ {t}, FALSE)

(* handleThreshold: the rest is saved as it was read.                      *)
SaveThreshold(r) ==
  /\ pc[r] = "edit" /\ ~setup[r] /\ snapshot[r].topics # {}
  /\ SaveInterests(r, snapshot[r].topics, FALSE)

(* Mutant: always through SaveSetupSources.                                *)
SaveSourceDraft(r, k, flag) ==
  /\ pc[r] = "edit"
  /\ Submit(r, "drafts", snapshot[r].topics,
            [snapshot[r].sources EXCEPT ![k] = flag], {k}, FALSE)

(* handleSource, handleSourcePreset: add a source, or edit one.            *)
SaveSource(r, k, flag) ==
  /\ pc[r] = "edit"
  /\ Submit(r, IF setup[r] THEN "drafts" ELSE "all", snapshot[r].topics,
            [snapshot[r].sources EXCEPT ![k] = flag], {k}, FALSE)

(* The address of a source is edited: another key takes its place, which   *)
(* may be the key of another source in the list; the last of them wins.    *)
MoveSource(r, k, to, flag) ==
  /\ pc[r] = "edit"
  /\ k # to /\ snapshot[r].sources[k] # "absent"
  /\ Submit(r, IF setup[r] THEN "drafts" ELSE "all", snapshot[r].topics,
            [snapshot[r].sources EXCEPT ![k] = "absent", ![to] = flag], {to}, FALSE)

(* handleSetupSchedule, the last page, after SaveSchedule.                 *)
Finish(r) ==
  /\ pc[r] = "edit" /\ setup[r]
  /\ snapshot[r].topics # {} /\ Present(snapshot[r].sources) # {}
  /\ Submit(r, "all", snapshot[r].topics, snapshot[r].sources, {}, FALSE)

(* The DELETE FROM interests of the transaction.  What others insert after *)
(* its snapshot and commit first is not deleted (READ COMMITTED).          *)
BeginSave(r) ==
  /\ pc[r] = "begin"
  /\ seen' = [seen EXCEPT ![r] = topics]
  /\ pc' = [pc EXCEPT ![r] = "commit"]
  /\ UNCHANGED <<database, setup, snapshot, job, possible, collection, observed,
                 requests, runs>>

(* The topics are UNIQUE.                                                  *)
Conflict(r) ==
  job[r].duplicate \/ (topics \ seen[r]) \cap job[r].topics # {}

(* What the user turned on or off, and whether a collection was under way. *)
Turned(r) ==
  [k \in Keys |->
     IF k \notin job[r].turned THEN off[k]
     ELSE IF job[r].sources[k] = "on" THEN "no"
     ELSE IF \A c \in Collectors : stage[c] = "idle" THEN "safe" ELSE "racing"]

(* The rest of SaveSetupInterests or saveConfiguration, at its COMMIT.     *)
(* The rows it deleted are gone, and new rows stand for those it keeps, so *)
(* nothing is left of what the DELETE of an overlapping save had found.    *)
CommitSave(r) ==
  /\ pc[r] = "commit" /\ ~Conflict(r)
  /\ topics' = (topics \ seen[r]) \cup job[r].topics
  /\ IF job[r].kind = "interests"
     THEN UNCHANGED <<configured, sources>>
     ELSE /\ sources' = Replaced(job[r].sources)
          /\ configured' = (job[r].kind = "all")
  /\ finished' = (finished \/ configured')
  /\ reopened' = (reopened \/ (configured /\ ~configured'))
  /\ off' = Turned(r)
  /\ offAtStart' = [c \in Collectors |->
       [k \in Keys |-> IF off'[k] = "no" THEN "no" ELSE offAtStart[c][k]]]
  /\ possible' = [Watched(Stored') EXCEPT ![r] = {}]
  /\ Replied(r)
  /\ seen' = [q \in Tabs |-> IF q = r THEN {} ELSE seen[q] \ seen[r]]
  /\ UNCHANGED <<items, stage, plan, left, overlapped, torn, wiped, requests, runs>>

(* Mutant: no ON DELETE CASCADE.                                           *)
DeleteSourceOnly(r, k) ==
  /\ pc[r] = "edit" /\ setup[r]
  /\ snapshot[r].sources[k] # "absent" /\ sources[k] # "absent"
  /\ ~configured
  /\ sources' = [sources EXCEPT ![k] = "absent"]
  /\ off' = [off EXCEPT ![k] = "no"]
  /\ UNCHANGED <<configured, topics, items, seen, collection, overlapped, finished,
                 reopened, torn, wiped, requests, runs>>
  /\ possible' = [Watched(Stored') EXCEPT ![r] = {}]
  /\ Replied(r)

(* handleSetupSourceRemove and DeleteSetupSource.  Items go with their     *)
(* source; a source that owns articles cannot be deleted.                  *)
DeleteSource(r, k) ==
  /\ pc[r] = "edit" /\ setup[r]
  /\ snapshot[r].sources[k] # "absent" /\ sources[k] # "absent"
  /\ ~configured
  /\ sources' = [sources EXCEPT ![k] = "absent"]
  /\ items' = items \ {k}
  /\ wiped' = (wiped \/ k \in items)
  /\ off' = [off EXCEPT ![k] = "no"]
  /\ UNCHANGED <<configured, topics, seen, collection, overlapped, finished, reopened,
                 torn, requests, runs>>
  /\ possible' = [Watched(Stored') EXCEPT ![r] = {}]
  /\ Replied(r)

(* A page that only shows something, invalid input, or an error.           *)
NoChange(r) ==
  \/ pc[r] = "edit" /\ Answer(r)
  \/ pc[r] = "commit" /\ Conflict(r) /\ Answer(r)

-----------------------------------------------------------------------------
(* A collection.                                                           *)

(* currentRunner, or newSetup of a command: the settings are read first.   *)
StartRun(c) ==
  /\ stage[c] = "idle" /\ configured /\ runs < MaxRuns
  /\ stage' = [stage EXCEPT ![c] = "sources"]
  /\ offAtStart' = [offAtStart EXCEPT ![c] = off]
  /\ runs' = runs + 1
  /\ UNCHANGED <<database, request, plan, left, observed, requests>>

ReadPlan(c) ==
  /\ stage[c] = "sources"
  /\ plan' = [plan EXCEPT ![c] = sources]
  /\ stage' = [stage EXCEPT ![c] = "sync"]
  /\ UNCHANGED <<database, request, left, offAtStart, observed, requests, runs>>

EndRun(c) ==
  /\ stage' = [stage EXCEPT ![c] = "idle"]
  /\ plan' = [plan EXCEPT ![c] = NoSources]
  /\ left' = [left EXCEPT ![c] = {}]
  /\ offAtStart' = [offAtStart EXCEPT ![c] = [k \in Keys |-> "no"]]

(* SyncSources writes the plan back; without an enabled source Collect     *)
(* ends with an error.                                                     *)
SyncSources(c) ==
  /\ stage[c] = "sync"
  /\ sources' = Upserted(plan[c])
  /\ LET enabled == {k \in Keys : plan[c][k] = "on"}
     IN IF enabled = {} THEN EndRun(c)
        ELSE /\ left' = [left EXCEPT ![c] = enabled]
             /\ stage' = [stage EXCEPT ![c] = "collect"]
             /\ UNCHANGED <<plan, offAtStart>>
  /\ UNCHANGED <<configured, topics, items, pc, setup, snapshot, job, seen, observed,
                 requests, runs>>
  /\ possible' = Watched(Stored')

(* One source: nothing new, or items.  A source that is gone fails the run *)
(* (foreign key).                                                          *)
CollectSource(c, k) ==
  /\ stage[c] = "collect" /\ k \in left[c]
  /\ \/ /\ left' = [left EXCEPT ![c] = @ \ {k}]
        /\ UNCHANGED <<items, stage, plan, offAtStart>>
     \/ /\ sources[k] # "absent"
        /\ left' = [left EXCEPT ![c] = @ \ {k}]
        /\ items' = items \cup {k}
        /\ UNCHANGED <<stage, plan, offAtStart>>
     \/ sources[k] = "absent" /\ EndRun(c) /\ UNCHANGED items
  /\ UNCHANGED <<configured, topics, sources, request, observed, requests, runs>>

(* The collection is over, failed or was killed.                           *)
FinishRun(c) ==
  /\ stage[c] # "idle"
  /\ EndRun(c)
  /\ UNCHANGED <<database, request, observed, requests, runs>>

-----------------------------------------------------------------------------
Next ==
  \/ \E r \in Tabs :
       \/ Gate(r) \/ ReadSettings(r) \/ ReadInterests(r) \/ ReadSources(r)
       \/ \E t \in Topics :
            AddInterest(r, t) \/ RemoveInterest(r, t)
              \/ \E old \in Topics : EditInterest(r, old, t)
       \/ \E k \in Keys, flag \in {"on", "off"} :
            SaveSource(r, k, flag) \/ \E to \in Keys : MoveSource(r, k, to, flag)
       \/ \E k \in Keys : DeleteSource(r, k)
       \/ SaveThreshold(r) \/ Finish(r) \/ BeginSave(r) \/ CommitSave(r) \/ NoChange(r)
  \/ \E c \in Collectors :
       \/ StartRun(c) \/ ReadPlan(c) \/ SyncSources(c) \/ FinishRun(c)
       \/ \E k \in Keys : CollectSource(c, k)

Spec == Init /\ [][Next]_vars

-----------------------------------------------------------------------------
(* Properties.                                                             *)

(* What counts as configured can be run: it has an interest and a source,  *)
(* whatever tabs and collections raced to get there, although the pages    *)
(* check it on their copies and not on what they overwrite.  The exception *)
(* is a wizard's save that came after the setup was completed: it may take *)
(* away what a page of Settings takes for granted.                         *)
ReadyToRun ==
  configured /\ ~reopened => topics # {} /\ Present(sources) # {}

(* Once setup is complete it stays complete, so the wizard's operations    *)
(* stay unavailable, as long as page requests do not overlap: the wizard   *)
(* cannot write configured=FALSE back.                                     *)
SetupIsFinal == finished /\ ~overlapped => configured

(* "Collection cannot run in setup mode, so a draft source cannot own      *)
(* collected articles" (DeleteSetupSource): deleting a draft removes       *)
(* nothing that was collected, as long as page requests do not overlap.    *)
DraftsOwnNothing == ~overlapped => ~wiped

(* A source turned off while no collection was in progress is not read by  *)
(* any that begins later, as long as page requests do not overlap.         *)
TurnedOffStaysOff ==
  ~overlapped => \A c \in Collectors : \A k \in left[c] : offAtStart[c][k] # "safe"

(* "Turning off collection for a source stops future collection" (README): *)
(* no collection that began after a source was turned off reads it.  Not   *)
(* so: one in progress writes its snapshot of the sources back.            *)
TurnedOffNotCollected ==
  ~overlapped => \A c \in Collectors : \A k \in left[c] : offAtStart[c][k] = "no"

(* "Configuration returns one consistent snapshot from PostgreSQL": what a *)
(* handler works on was the configuration at some moment of the request.   *)
(* Not so: its three queries see what others commit in between.            *)
ConsistentSnapshot == ~torn
=============================================================================
