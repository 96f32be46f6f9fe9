------------------------------- MODULE Sidecar -------------------------------
(***************************************************************************)
(* The Firefox sidecar (browser/server.mjs): POST /fetch requests share a  *)
(* few page permits, handed over first come, first served.                 *)
(*                                                                         *)
(* A job is one request in the process.  The sidecar never looks at        *)
(* whether its client still listens: an abandoned request keeps its place  *)
(* in the queue, or its page, until it is through.                         *)
(*                                                                         *)
(* Navigation and the wait for a challenge have deadlines in the code and  *)
(* so always end; reading a response body has none, so it may never end.   *)
(***************************************************************************)
EXTENDS Naturals, Sequences, FiniteSets

CONSTANTS
  Jobs,   \* requests the process may hold at once
  Limit   \* maxConcurrentPages

ASSUME SidecarAssumption ==
  Limit \in Nat \ {0} /\ IsFiniteSet(Jobs)

VARIABLES
  available,  \* permits of the semaphore
  waiters,    \* requests waiting for one
  stage,      \* how far a request is
  verdict,    \* what its client will be told
  lost,       \* permits taken and never to be released
  connected   \* Firefox is running

sidecarVars == <<available, waiters, stage, verdict, lost, connected>>

Paged == {"page", "body", "challenge", "last body"}
Stages == Paged \cup {"idle", "checking", "queued", "opening", "stalled", "closing", "answered"}

(* Requests between acquire() and release().                               *)
Holding == {j \in Jobs : stage[j] \in Paged \cup {"opening", "stalled", "closing"}}
Stalled == {j \in Jobs : stage[j] = "stalled"}

SidecarTypeOK ==
  /\ available \in Nat
  /\ waiters \in Seq(Jobs)
  /\ stage \in [Jobs -> Stages]
  /\ verdict \in [Jobs -> {"none", "feed", "error"}]
  /\ lost \in Nat
  /\ connected \in BOOLEAN

SidecarInit ==
  /\ available = Limit
  /\ waiters = <<>>
  /\ stage = [j \in Jobs |-> "idle"]
  /\ verdict = [j \in Jobs |-> "none"]
  /\ lost = 0
  /\ connected = TRUE

-----------------------------------------------------------------------------
Move(j, from, to) ==
  /\ stage[j] \in from
  /\ stage' = [stage EXCEPT ![j] = to]

Answer(j, value) == verdict' = [verdict EXCEPT ![j] = value]

permits == <<available, waiters, lost>>

Arrive(j) ==
  /\ Move(j, {"idle"}, "checking")
  /\ UNCHANGED <<permits, verdict, connected>>

(* The body is no JSON or has no url, the address is not public, or its    *)
(* name does not resolve.                                                  *)
Refuse(j) ==
  /\ Move(j, {"checking"}, "answered")
  /\ Answer(j, "error")
  /\ UNCHANGED <<permits, connected>>

(* Mutant: the last to come is served first.                               *)
AcquireLast(j) ==
  /\ \/ /\ available > 0
        /\ available' = available - 1
        /\ Move(j, {"checking"}, "opening")
        /\ UNCHANGED waiters
     \/ /\ available = 0
        /\ waiters' = <<j>> \o waiters
        /\ Move(j, {"checking"}, "queued")
        /\ UNCHANGED available
  /\ UNCHANGED <<verdict, lost, connected>>

Acquire(j) ==
  /\ \/ /\ available > 0
        /\ available' = available - 1
        /\ Move(j, {"checking"}, "opening")
        /\ UNCHANGED waiters
     \/ /\ available = 0
        /\ waiters' = Append(waiters, j)
        /\ Move(j, {"checking"}, "queued")
        /\ UNCHANGED available
  /\ UNCHANGED <<verdict, lost, connected>>

OpenContext(j) ==
  /\ connected
  /\ Move(j, {"opening"}, "page")
  /\ UNCHANGED <<permits, verdict, connected>>

(* newContext is awaited outside the try whose finally would release.      *)
OpenFails(j) ==
  /\ Move(j, {"opening"}, "answered")
  /\ Answer(j, "error")
  /\ lost' = lost + 1
  /\ UNCHANGED <<available, waiters, connected>>

(* The navigation ends, be it as the download Firefox makes of a feed.     *)
Navigate(j) ==
  /\ connected
  /\ Move(j, {"page"}, "body")
  /\ UNCHANGED <<permits, verdict, connected>>

ReadFeed(j) ==
  /\ Move(j, {"body", "last body"}, "closing")
  /\ Answer(j, "feed")
  /\ UNCHANGED <<permits, connected>>

(* The body is no feed yet: give the page time to navigate again, once.    *)
AwaitChallenge(j) ==
  /\ Move(j, {"body"}, "challenge")
  /\ UNCHANGED <<permits, verdict, connected>>

ReadAgain(j) ==
  /\ connected
  /\ Move(j, {"challenge"}, "last body")
  /\ UNCHANGED <<permits, verdict, connected>>

(* Anything that throws inside the try: a navigation that fails or takes   *)
(* too long, no response, a body too large, a bad status, no feed.         *)
PageFails(j) ==
  /\ Move(j, Paged, "closing")
  /\ Answer(j, "error")
  /\ UNCHANGED <<permits, connected>>

(* A body without end: nothing bounds response.finished and body.          *)
Stall(j) ==
  /\ connected
  /\ Move(j, {"body", "last body"}, "stalled")
  /\ UNCHANGED <<permits, verdict, connected>>

(* Mutants: a permit handed over is also counted; none is handed over.     *)
CloseTwice(j) ==
  /\ stage[j] = "closing"
  /\ \/ /\ waiters # <<>>
        /\ stage' = [stage EXCEPT ![j] = "answered", ![Head(waiters)] = "opening"]
        /\ waiters' = Tail(waiters)
     \/ /\ waiters = <<>>
        /\ stage' = [stage EXCEPT ![j] = "answered"]
        /\ UNCHANGED waiters
  /\ available' = available + 1
  /\ UNCHANGED <<verdict, lost, connected>>

CloseUnqueued(j) ==
  /\ Move(j, {"closing"}, "answered")
  /\ available' = available + 1
  /\ UNCHANGED <<waiters, verdict, lost, connected>>

(* context.close, then release: the permit goes to the first waiter.       *)
Close(j) ==
  /\ stage[j] = "closing"
  /\ \/ /\ waiters # <<>>
        /\ stage' = [stage EXCEPT ![j] = "answered", ![Head(waiters)] = "opening"]
        /\ waiters' = Tail(waiters)
        /\ UNCHANGED available
     \/ /\ waiters = <<>>
        /\ stage' = [stage EXCEPT ![j] = "answered"]
        /\ available' = available + 1
        /\ UNCHANGED waiters
  /\ UNCHANGED <<verdict, lost, connected>>

(* close rejects in the finally block: release is skipped and its error    *)
(* replaces the result.                                                    *)
CloseFails(j) ==
  /\ Move(j, {"closing"}, "answered")
  /\ Answer(j, "error")
  /\ lost' = lost + 1
  /\ UNCHANGED <<available, waiters, connected>>

(* The response is written, or dropped because its client has gone.        *)
Respond(j) ==
  /\ Move(j, {"answered"}, "idle")
  /\ Answer(j, "none")
  /\ UNCHANGED <<permits, connected>>

-----------------------------------------------------------------------------
(* Firefox dies; the process stays up and never launches another.  What    *)
(* waits for a body is rejected with it and goes on to its finally.        *)
BrowserDies ==
  /\ connected
  /\ connected' = FALSE
  /\ stage' = [j \in Jobs |-> IF j \in Stalled THEN "closing" ELSE stage[j]]
  /\ verdict' = [j \in Jobs |-> IF j \in Stalled THEN "error" ELSE verdict[j]]
  /\ UNCHANGED permits

(* The container is restarted: connections of the requests in it break.    *)
Restart ==
  /\ available' = Limit /\ waiters' = <<>> /\ lost' = 0
  /\ connected' = TRUE
  /\ stage' = [j \in Jobs |-> IF stage[j] = "idle" THEN "idle" ELSE "answered"]
  /\ verdict' = [j \in Jobs |-> IF stage[j] \in {"idle", "answered"} THEN verdict[j] ELSE "error"]

(* What the process does by itself with a request.                         *)
Serve(j) ==
  \/ Refuse(j) \/ Acquire(j) \/ OpenContext(j) \/ OpenFails(j)
  \/ Navigate(j) \/ ReadFeed(j) \/ AwaitChallenge(j) \/ ReadAgain(j)
  \/ PageFails(j) \/ Close(j) \/ CloseFails(j)

SidecarNext ==
  \/ \E j \in Jobs : Arrive(j) \/ Serve(j) \/ Stall(j) \/ Respond(j)
  \/ BrowserDies
  \/ Restart

SidecarSpec == SidecarInit /\ [][SidecarNext]_sidecarVars

-----------------------------------------------------------------------------
(* Every permit is available, held by exactly one request, or lost for     *)
(* good: handing a permit to a waiter neither duplicates nor drops it,     *)
(* whatever fails in the page (Semaphore and the finally of fetchFeed).    *)
PermitsAccounted == available + Cardinality(Holding) + lost = Limit

(* No permit lies idle while a request waits, and exactly the requests     *)
(* that wait are queued, once each (Semaphore.acquire, Semaphore.release). *)
NoIdlePermit ==
  /\ waiters # <<>> => available = 0
  /\ \A j \in Jobs : stage[j] = "queued" <=> \E i \in DOMAIN waiters : waiters[i] = j
  /\ \A i, k \in DOMAIN waiters : waiters[i] = waiters[k] => i = k

OutOfPermits == lost + Cardinality(Stalled) = Limit

(* A queued request gets its page unless every permit has been lost or is  *)
(* held by a body without end: the queue of the semaphore starves nobody.  *)
QueuedIsServed == \A j \in Jobs : stage[j] = "queued" ~> (stage[j] # "queued" \/ OutOfPermits)
=============================================================================
