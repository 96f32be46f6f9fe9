------------------------------ MODULE Scheduler ------------------------------
(***************************************************************************)
(* Unattended collection: Scheduler.Run of internal/job/schedule.go, the   *)
(* work cmd/ziba/serve.go gives it, and the settings, the one-time request *)
(* and the digests of internal/store that it reads.                        *)
(*                                                                         *)
(* Servers are processes of "ziba serve".  One is the normal deployment;   *)
(* two overlap when a container is replaced.  What a run does to articles  *)
(* is the subject of Pipeline: here it takes time and ends with a digest   *)
(* or with an error.                                                       *)
(***************************************************************************)
EXTENDS ScheduleTimes, FiniteSets

CONSTANTS
  Servers,    \* processes of "ziba serve"
  Schedules,  \* the schedules the user may save: [every, at]
  Horizon,    \* bound: the last instant
  MaxChanges, \* bound: schedules saved, digests built by hand and late
              \* wizard requests that reopen the setup
  MaxAsks,    \* bound: submissions of the last page of the wizard
  MaxCrashes, \* bound: processes that die
  MaxErrors   \* bound: database errors and failed runs

ASSUME SchedulesAssumption ==
  /\ Schedules \subseteq [every : 0..Day, at : 0..(Day - 1)] /\ Schedules # {}
  /\ Horizon \in Nat /\ MaxChanges \in Nat /\ MaxAsks \in Nat
  /\ MaxCrashes \in Nat /\ MaxErrors \in Nat

Never == -(2 * Day)  \* the zero time: before every occurrence

VARIABLES
  now,
  \* the database
  schedule,       \* collect_every and collect_at
  configured,
  requested,      \* collection_requested
  digestAt,       \* the latest generated_at
  \* each process
  pc,
  lastOccurrence,
  due,            \* occurrence, a local of Run
  reason,         \* why the run in progress was started
  running,        \* collectionRunning
  \* history
  handled,        \* occurrences the process started a run for
  asks, claims,   \* requests made, and claimed
  askedAt,        \* when the latest request was made
  configuredAt,   \* when setup was last completed
  dropped,        \* a process died with a request it had claimed, or the setup
                  \* was reopened before its run began
  failedAt,       \* the latest failure of a query or a run
  changes, crashes, errors

settings == <<schedule, configured, requested>>
process == <<pc, lastOccurrence, due, reason, running, handled>>
history == <<asks, claims, askedAt, configuredAt, dropped, failedAt>>
bounds == <<changes, crashes, errors>>
vars == <<now, settings, digestAt, process, history, bounds>>

Stages == {"down", "request", "claimed", "schedule", "check", "working",
           "collecting", "sleep"}

TypeOK ==
  /\ now \in 0..Horizon
  /\ schedule \in Schedules
  /\ configured \in BOOLEAN /\ requested \in BOOLEAN
  /\ digestAt \in {Never} \cup 0..Horizon
  /\ pc \in [Servers -> Stages]
  /\ lastOccurrence \in [Servers -> Never..Horizon]
  /\ due \in [Servers -> Never..Horizon]
  /\ reason \in [Servers -> {"none", "first", "scheduled"}]
  /\ running \in [Servers -> BOOLEAN]
  /\ handled \in [Servers -> SUBSET (Never..Horizon)]
  /\ asks \in 0..MaxAsks /\ claims \in 0..MaxAsks
  /\ askedAt \in {Never} \cup 0..Horizon /\ configuredAt \in {Never} \cup 0..Horizon
  /\ dropped \in BOOLEAN /\ failedAt \in {Never} \cup 0..Horizon
  /\ changes \in 0..MaxChanges /\ crashes \in 0..MaxCrashes /\ errors \in 0..MaxErrors

Init ==
  /\ now = 0
  /\ schedule \in Schedules
  /\ configured = FALSE /\ requested = FALSE
  /\ digestAt = Never
  /\ pc = [s \in Servers |-> "down"]
  /\ lastOccurrence = [s \in Servers |-> Never]
  /\ due = [s \in Servers |-> Never]
  /\ reason = [s \in Servers |-> "none"]
  /\ running = [s \in Servers |-> FALSE]
  /\ handled = [s \in Servers |-> {}]
  /\ asks = 0 /\ claims = 0
  /\ askedAt = Never /\ configuredAt = Never
  /\ dropped = FALSE /\ failedAt = Never
  /\ changes = 0 /\ crashes = 0 /\ errors = 0

-----------------------------------------------------------------------------
(* Around the scheduler.                                                   *)

Tick ==
  /\ now < Horizon
  /\ now' = now + 1
  /\ UNCHANGED <<settings, digestAt, process, history, bounds>>

(* From Settings, or from the last page of the wizard just before it       *)
(* finishes the setup.                                                     *)
SaveSchedule(new) ==
  /\ changes < MaxChanges /\ new # schedule
  /\ schedule' = new
  /\ changes' = changes + 1
  /\ UNCHANGED <<now, configured, requested, digestAt, process, history,
                 crashes, errors>>

(* The form may be submitted twice: both requests passed the setup gate.   *)
FinishSetup(collectNow) ==
  /\ collectNow => asks < MaxAsks
  /\ configured => collectNow
  /\ configured' = TRUE
  /\ requested' = (requested \/ collectNow)
  /\ asks' = IF collectNow THEN asks + 1 ELSE asks
  /\ askedAt' = IF collectNow THEN now ELSE askedAt
  /\ configuredAt' = now
  /\ UNCHANGED <<now, schedule, digestAt, process, claims, dropped, failedAt, bounds>>

(* SaveSetupSources of a wizard page that passed the setup gate before the *)
(* last page was submitted: the setup is incomplete again, the request for *)
(* a first collection stays.                                               *)
ReopenSetup ==
  /\ configured /\ changes < MaxChanges
  /\ configured' = FALSE
  /\ dropped' = (dropped \/ \E s \in Servers :
                    reason[s] = "first" /\ pc[s] \in {"claimed", "working"})
  /\ changes' = changes + 1
  /\ UNCHANGED <<now, schedule, requested, digestAt, process, asks, claims, askedAt,
                 configuredAt, failedAt, crashes, errors>>

(* "ziba digest" or "ziba run", by hand.                                   *)
DigestByHand ==
  /\ configured /\ changes < MaxChanges
  /\ digestAt' = now
  /\ changes' = changes + 1
  /\ UNCHANGED <<now, settings, process, history, crashes, errors>>

-----------------------------------------------------------------------------
(* A process.                                                              *)

Goto(s, stage) == pc' = [pc EXCEPT ![s] = stage]

Start(s) ==
  /\ pc[s] = "down"
  /\ Goto(s, "request")
  /\ UNCHANGED <<now, settings, digestAt, lastOccurrence, due, reason, running,
                 handled, history, bounds>>

(* Everything but the database is gone.                                    *)
Crash(s) ==
  /\ pc[s] # "down" /\ crashes < MaxCrashes
  /\ Goto(s, "down")
  /\ lastOccurrence' = [lastOccurrence EXCEPT ![s] = Never]
  /\ due' = [due EXCEPT ![s] = Never]
  /\ reason' = [reason EXCEPT ![s] = "none"]
  /\ running' = [running EXCEPT ![s] = FALSE]
  /\ handled' = [handled EXCEPT ![s] = {}]
  /\ dropped' = (dropped \/ reason[s] = "first")
  /\ crashes' = crashes + 1
  /\ UNCHANGED <<now, settings, digestAt, asks, claims, askedAt, configuredAt,
                 failedAt, changes, errors>>

(* Mutants: the request is not cleared; it is cleared and not honoured.    *)
ClaimKeeps(s) ==
  /\ pc[s] = "request"
  /\ IF configured /\ requested
     THEN /\ claims' = claims + 1
          /\ reason' = [reason EXCEPT ![s] = "first"]
          /\ Goto(s, "claimed")
     ELSE Goto(s, "schedule") /\ UNCHANGED <<claims, reason>>
  /\ UNCHANGED <<now, settings, digestAt, lastOccurrence, due, running, handled,
                 asks, askedAt, configuredAt, dropped, failedAt, bounds>>
ClaimForgets(s) ==
  /\ pc[s] = "request"
  /\ requested' = (requested /\ ~configured)
  /\ Goto(s, "schedule")
  /\ UNCHANGED <<now, schedule, configured, digestAt, lastOccurrence, due, reason,
                 running, handled, history, bounds>>

(* The UPDATE of ClaimCollectionRequest.                                   *)
Claim(s) ==
  /\ pc[s] = "request"
  /\ IF configured /\ requested
     THEN /\ requested' = FALSE
          /\ claims' = claims + 1
          /\ reason' = [reason EXCEPT ![s] = "first"]
          /\ Goto(s, "claimed")
     ELSE /\ Goto(s, "schedule")
          /\ UNCHANGED <<requested, claims, reason>>
  /\ UNCHANGED <<now, schedule, configured, digestAt, lastOccurrence, due,
                 running, handled, asks, askedAt, configuredAt, dropped, failedAt,
                 bounds>>

(* Its collectionRunning.Store(true), and the start of the work.           *)
StartFirst(s) ==
  /\ pc[s] = "claimed"
  /\ Goto(s, "working")
  /\ running' = [running EXCEPT ![s] = TRUE]
  /\ UNCHANGED <<now, settings, digestAt, lastOccurrence, due, reason, handled,
                 history, bounds>>

(* Mutants: an occurrence that differs from the last one is due; the next  *)
(* occurrence is taken for the previous one.                               *)
ReadScheduleChanged(s) ==
  /\ pc[s] = "schedule"
  /\ IF schedule.every = 0
     THEN Goto(s, "sleep") /\ UNCHANGED due
     ELSE LET occurrence == PreviousEvery(schedule.at, schedule.every, now)
          IN /\ due' = [due EXCEPT ![s] = occurrence]
             /\ Goto(s, IF occurrence # lastOccurrence[s] THEN "check" ELSE "sleep")
  /\ UNCHANGED <<now, settings, digestAt, lastOccurrence, reason, running, handled,
                 history, bounds>>
ReadScheduleNext(s) ==
  /\ pc[s] = "schedule" /\ schedule.every > 0
  /\ due' = [due EXCEPT ![s] = NextEvery(schedule.at, schedule.every, now)]
  /\ Goto(s, "check")
  /\ UNCHANGED <<now, settings, digestAt, lastOccurrence, reason, running, handled,
                 history, bounds>>

(* The schedule is read and compared with the time.                        *)
ReadSchedule(s) ==
  /\ pc[s] = "schedule"
  /\ IF schedule.every = 0
     THEN Goto(s, "sleep") /\ UNCHANGED due
     ELSE LET occurrence == PreviousEvery(schedule.at, schedule.every, now)
          IN /\ due' = [due EXCEPT ![s] = occurrence]
             /\ Goto(s, IF occurrence > lastOccurrence[s] THEN "check" ELSE "sleep")
  /\ UNCHANGED <<now, settings, digestAt, lastOccurrence, reason, running, handled,
                 history, bounds>>

(* lastOccurrence = occurrence, whatever catchUp did.                      *)
Consume(s) == lastOccurrence' = [lastOccurrence EXCEPT ![s] = due[s]]

(* Mutant: a digest of the last 24 hours is enough.                        *)
CatchUpByDay(s) ==
  /\ pc[s] = "check"
  /\ IF digestAt > due[s] - Day
     THEN /\ Goto(s, "sleep") /\ Consume(s)
          /\ UNCHANGED <<reason, running, handled>>
     ELSE /\ Goto(s, "working")
          /\ reason' = [reason EXCEPT ![s] = "scheduled"]
          /\ running' = [running EXCEPT ![s] = TRUE]
          /\ handled' = [handled EXCEPT ![s] = @ \cup {due[s]}]
          /\ UNCHANGED lastOccurrence
  /\ UNCHANGED <<now, settings, digestAt, due, history, bounds>>

(* catchUp: a digest since the occurrence makes the run unnecessary.       *)
CatchUp(s) ==
  /\ pc[s] = "check"
  /\ IF digestAt >= due[s]
     THEN /\ Goto(s, "sleep") /\ Consume(s)
          /\ UNCHANGED <<reason, running, handled>>
     ELSE /\ Goto(s, "working")
          /\ reason' = [reason EXCEPT ![s] = "scheduled"]
          /\ running' = [running EXCEPT ![s] = TRUE]
          /\ handled' = [handled EXCEPT ![s] = @ \cup {due[s]}]
          /\ UNCHANGED lastOccurrence
  /\ UNCHANGED <<now, settings, digestAt, due, history, bounds>>

(* What follows a run: the schedule, or the end of the turn.               *)
EndWork(s) ==
  /\ running' = [running EXCEPT ![s] = FALSE]
  /\ reason' = [reason EXCEPT ![s] = "none"]
  /\ IF reason[s] = "first"
     THEN Goto(s, "schedule") /\ UNCHANGED lastOccurrence
     ELSE Goto(s, "sleep") /\ Consume(s)
  /\ UNCHANGED <<due, handled>>

(* currentRunner: a run that finds the setup incomplete ends with an error *)
(* and, like any failed run, is not repeated.                              *)
ResolveRunner(s) ==
  /\ pc[s] = "working"
  /\ IF configured
     THEN Goto(s, "collecting") /\ UNCHANGED <<lastOccurrence, due, reason, running, handled>>
     ELSE EndWork(s)
  /\ UNCHANGED <<now, settings, digestAt, history, bounds>>

(* ScheduledCollection ends with the digest.                               *)
Succeed(s) ==
  /\ pc[s] = "collecting"
  /\ EndWork(s)
  /\ digestAt' = now
  /\ UNCHANGED <<now, settings, history, bounds>>

(* Mutant: EndCollection is called only when the run succeeds.             *)
FailKeepsMarker(s) ==
  /\ pc[s] \in {"working", "collecting"} /\ errors < MaxErrors
  /\ reason' = [reason EXCEPT ![s] = "none"]
  /\ Goto(s, "sleep") /\ Consume(s)
  /\ errors' = errors + 1 /\ failedAt' = now
  /\ UNCHANGED <<now, settings, digestAt, due, handled, running, asks, claims, askedAt,
                 configuredAt, dropped, changes, crashes>>

(* A failed run must not end the schedule.                                 *)
Fail(s) ==
  /\ pc[s] \in {"working", "collecting"} /\ errors < MaxErrors
  /\ EndWork(s)
  /\ errors' = errors + 1 /\ failedAt' = now
  /\ UNCHANGED <<now, settings, digestAt, asks, claims, askedAt, configuredAt, dropped,
                 changes, crashes>>

(* A query that failed is logged; the turn goes on without its answer.     *)
QueryFails(s) ==
  /\ errors < MaxErrors /\ errors' = errors + 1 /\ failedAt' = now
  /\ \/ pc[s] = "request" /\ Goto(s, "schedule") /\ UNCHANGED lastOccurrence
     \/ pc[s] = "schedule" /\ Goto(s, "sleep") /\ UNCHANGED lastOccurrence
     \/ pc[s] = "check" /\ Goto(s, "sleep") /\ Consume(s)
  /\ UNCHANGED <<now, settings, digestAt, due, reason, running, handled, asks, claims,
                 askedAt, configuredAt, dropped, changes, crashes>>

Wake(s) ==
  /\ pc[s] = "sleep"
  /\ Goto(s, "request")
  /\ UNCHANGED <<now, settings, digestAt, lastOccurrence, due, reason, running,
                 handled, history, bounds>>

-----------------------------------------------------------------------------
Step(s) ==
  \/ Claim(s) \/ StartFirst(s) \/ ReadSchedule(s) \/ CatchUp(s)
  \/ ResolveRunner(s) \/ Succeed(s) \/ Fail(s) \/ QueryFails(s) \/ Wake(s)

Next ==
  \/ Tick
  \/ \E new \in Schedules : SaveSchedule(new)
  \/ \E collectNow \in BOOLEAN : FinishSetup(collectNow)
  \/ ReopenSetup
  \/ DigestByHand
  \/ \E s \in Servers : Start(s) \/ Crash(s) \/ Step(s)

Spec == Init /\ [][Next]_vars

(* Time passes, a process that died is restarted, the loop goes on and     *)
(* every run ends (fetches and model calls have timeouts; mail servers are *)
(* taken to answer).                                                       *)
Fairness == WF_vars(Tick) /\ \A s \in Servers : WF_vars(Start(s)) /\ WF_vars(Step(s))

FairSpec == Spec /\ Fairness

-----------------------------------------------------------------------------
(* Properties.                                                             *)

(* "Only one scheduler can receive true" (ClaimCollectionRequest): there   *)
(* are never more first collections than requests, however many processes  *)
(* poll and however often the form was submitted.                          *)
ClaimedOnce == claims + (IF requested THEN 1 ELSE 0) <= asks

(* A process starts at most one run for an occurrence, and never goes back *)
(* to an earlier one, whatever the user does to the schedule meanwhile and *)
(* however the run ended: catchUp is "never a replay of every run".        *)
NoReplay ==
  \A s \in Servers : pc[s] = "check" => \A o \in handled[s] : o < due[s]

(* The marker the pages show is on exactly while a run is in progress:     *)
(* neither a failed run nor a restart leaves it behind (store.go).         *)
MarkerMatches ==
  \A s \in Servers : running[s] <=> pc[s] \in {"working", "collecting"}

Current(s) == IF s.every = 0 THEN Never ELSE PreviousEvery(s.at, s.every, now)

(* The selection ends up as recent as the schedule asks, also after a      *)
(* crash in the middle of a run or while the setup was reopened, unless a  *)
(* query or a run failed after the current occurrence or the setup was     *)
(* completed only then: a failure costs its own occurrence and no other.   *)
Refreshed ==
  <>[](\/ ~configured
       \/ digestAt >= Current(schedule) \/ failedAt >= Current(schedule)
       \/ configuredAt >= Current(schedule))

(* The first collection asked for in the wizard is made, also when a late  *)
(* page of the wizard reopens the setup before the request is claimed and  *)
(* the user completes it again.  Excused are the cases in which the code   *)
(* loses it: a query or the run fails, or between the claim and the start  *)
(* of the run the process dies or the setup is reopened.                   *)
FirstCollectionMade ==
  requested ~> (\/ digestAt >= askedAt \/ failedAt >= askedAt \/ dropped
                \/ []~configured)

(* The next run the pages announce is the next one that happens: no        *)
(* occurrence begins between now and then (README: "`6h` starting at       *)
(* `04:00` runs at 04:00, 10:00, 16:00, and 22:00").                       *)
NextRunShown ==
  configured /\ schedule.every > 0 =>
    \A t \in now .. NextEvery(schedule.at, schedule.every, now) - 1 :
      PreviousEvery(schedule.at, schedule.every, t) <= now
=============================================================================
