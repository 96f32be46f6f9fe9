------------------------------- MODULE Collect -------------------------------
(***************************************************************************)
(* One collection from every enabled source (internal/collect/collect.go,  *)
(* rss.go, browser_feed.go): feeds over the polite transport, feeds        *)
(* through the Firefox sidecar, and a mailbox, a few at a time.            *)
(*                                                                         *)
(* Throttle, Sidecar and Mailbox are the parts; their actions are taken    *)
(* here by the sources and by the sidecar's process.  Collections follow   *)
(* each other without end; the sidecar outlives them.                      *)
(*                                                                         *)
(* Only the deadline of a plain HTTP request is counted.  The deadline of  *)
(* a sidecar request passes at some time: what happens in the sidecar      *)
(* meanwhile may take longer or not.                                       *)
(***************************************************************************)
EXTENDS Throttle, Sidecar, Mailbox

CONSTANTS
  Browsers,  \* feeds retrieved through the sidecar
  Letters,   \* the mailbox
  HostOf,    \* feed: the host of its address
  Plans,     \* the sets of sources that may be enabled
  MailPlans, \* bound: those of them in which mail comes and days pass
  Parallel,  \* maxParallelSources
  Timeout,   \* httpTimeout
  MaxHops    \* bound: redirects followed

Sources == Feeds \cup Browsers \cup {Letters}

ASSUME CollectAssumption ==
  /\ HostOf \in [Feeds -> Hosts]
  /\ Plans \subseteq (SUBSET Sources) \ {{}} /\ MailPlans \subseteq Plans
  /\ Parallel \in Nat \ {0} /\ Timeout \in Nat /\ MaxHops \in Nat
  /\ Feeds \cap Browsers = {} /\ Letters \notin Feeds \cup Browsers

VARIABLES
  enabled,    \* the sources of the configuration
  endpoint,   \* ZIBA_BROWSER_URL is set
  running,    \* a collection is in progress
  cancelled,  \* its context has ended
  result,     \* source: what became of it
  left,       \* feed: until the deadline of its request
  hops,       \* feed: redirects followed
  call,       \* browser feed: its request in the sidecar, or none
  hurt        \* feeds whose host failed or was silent, or that sent late

collection == <<running, cancelled, result>>
calls == <<left, hops, call, hurt>>
vars == <<enabled, endpoint, collection, calls, throttleVars, sidecarVars, mailboxVars>>

NoCall == "none"

TypeOK ==
  /\ ThrottleTypeOK /\ SidecarTypeOK /\ MailboxTypeOK
  /\ enabled \in Plans
  /\ endpoint \in BOOLEAN /\ running \in BOOLEAN /\ cancelled \in BOOLEAN
  /\ result \in [Sources -> {"none", "pending", "busy", "items", "error"}]
  /\ left \in [Feeds -> 0..Timeout]
  /\ hops \in [Feeds -> 0..MaxHops]
  /\ call \in [Browsers -> Jobs \cup {NoCall}]
  /\ hurt \subseteq Feeds

Init ==
  /\ ThrottleInit /\ host = HostOf
  /\ SidecarInit
  /\ MailboxInit
  /\ enabled \in Plans
  /\ endpoint \in {FALSE, enabled \cap Browsers # {}}
  /\ running = FALSE /\ cancelled = FALSE
  /\ result = [s \in Sources |-> "none"]
  /\ left = [f \in Feeds |-> 0] /\ hops = [f \in Feeds |-> 0]
  /\ call = [b \in Browsers |-> NoCall]
  /\ hurt = {}

-----------------------------------------------------------------------------
(* Mutant: all sources at once.                                            *)
BeginUnlimited(s) == running /\ result[s] = "pending"

(* A source takes one of the slots of the group.                           *)
Begin(s) ==
  /\ running
  /\ result[s] = "pending"
  /\ Cardinality({o \in Sources : result[o] = "busy"}) < Parallel

Become(s, r) == result' = [result EXCEPT ![s] = r]

(* The errors of one source travel in its result.                          *)
Return(s, r) ==
  /\ result[s] = "busy"
  /\ Become(s, r)
  /\ UNCHANGED <<enabled, endpoint, running, cancelled>>

-----------------------------------------------------------------------------
(* A feed over HTTP: get and RSS.Collect.                                  *)

others == <<sidecarVars, mailboxVars, call>>

GetFeed(f) ==
  /\ Begin(f)
  /\ Become(f, "busy")
  /\ Reserve(f, HostOf[f])
  /\ left' = [left EXCEPT ![f] = Timeout]
  /\ hops' = [hops EXCEPT ![f] = 0]
  /\ hurt' = hurt \ {f}
  /\ UNCHANGED <<enabled, endpoint, running, cancelled, others>>

SendFeed(f) ==
  /\ Send(f)
  /\ UNCHANGED <<enabled, endpoint, collection, calls, sidecarVars, mailboxVars>>

(* A redirect is a request of its own to the transport.                    *)
Redirect(f, h) ==
  /\ request[f] = "sent" /\ hops[f] < MaxHops
  /\ Reserve(f, h)
  /\ hops' = [hops EXCEPT ![f] = @ + 1]
  /\ UNCHANGED <<enabled, endpoint, collection, left, hurt, others>>

(* The request and its deadline are gone.                                  *)
Forget(f) ==
  /\ Leave(f)
  /\ left' = [left EXCEPT ![f] = 0]
  /\ hops' = [hops EXCEPT ![f] = 0]

FeedArrives(f) ==
  /\ request[f] = "sent"
  /\ Return(f, "items")
  /\ Forget(f)
  /\ UNCHANGED <<hurt, others>>

(* A refused connection, a bad status, or a body that is no feed.          *)
FeedFails(f) ==
  /\ request[f] = "sent"
  /\ Return(f, "error")
  /\ Forget(f)
  /\ hurt' = hurt \cup {f}
  /\ UNCHANGED others

(* The deadline of the client covers the wait for the slot too.            *)
FeedTimesOut(f) ==
  /\ request[f] # "none"
  /\ left[f] = 0 \/ cancelled
  /\ Return(f, "error")
  /\ Forget(f)
  /\ UNCHANGED <<hurt, others>>

-----------------------------------------------------------------------------
(* A feed through the sidecar: BrowserFeed.Fetch and RSS.Collect.          *)

unthrottled == <<throttleVars, left, hops, hurt>>

PostFetch(b) ==
  /\ Begin(b) /\ endpoint
  /\ Become(b, "busy")
  /\ \E j \in Jobs :
       /\ Arrive(j)
       /\ call' = [call EXCEPT ![b] = j]
  /\ UNCHANGED <<enabled, endpoint, running, cancelled, unthrottled, mailboxVars>>

(* No address is configured, or nobody answers at it.                      *)
Unreachable(b) ==
  /\ Begin(b)
  /\ Become(b, "error")
  /\ UNCHANGED <<enabled, endpoint, running, cancelled, unthrottled, call,
                 sidecarVars, mailboxVars>>

(* What the sidecar calls a feed may still be too large or not parse.      *)
FetchReturns(b) ==
  /\ call[b] # NoCall
  /\ Respond(call[b])
  /\ \E r \in {"items", "error"} :
       /\ verdict[call[b]] = "error" => r = "error"
       /\ Return(b, r)
  /\ call' = [call EXCEPT ![b] = NoCall]
  /\ UNCHANGED <<unthrottled, mailboxVars>>

(* Mutant: only the end of the run ends the wait for the sidecar.          *)
FetchWaits(b) ==
  /\ call[b] # NoCall /\ cancelled
  /\ Return(b, "error")
  /\ call' = [call EXCEPT ![b] = NoCall]
  /\ UNCHANGED <<unthrottled, sidecarVars, mailboxVars>>

(* browserTimeout has passed or the context has ended; the sidecar is not  *)
(* told.                                                                   *)
FetchTimesOut(b) ==
  /\ call[b] # NoCall
  /\ Return(b, "error")
  /\ call' = [call EXCEPT ![b] = NoCall]
  /\ UNCHANGED <<unthrottled, sidecarVars, mailboxVars>>

(* The answer to a request whose client has gone.                          *)
Discard(j) ==
  /\ \A b \in Browsers : call[b] # j
  /\ Respond(j)
  /\ UNCHANGED <<enabled, endpoint, collection, calls, throttleVars, mailboxVars>>

SidecarAlone(A) ==
  /\ endpoint
  /\ A
  /\ UNCHANGED <<enabled, endpoint, collection, calls, throttleVars, mailboxVars>>

-----------------------------------------------------------------------------
(* The mailbox: Newsletter.Collect.                                        *)

Connect ==
  /\ Begin(Letters)
  /\ Become(Letters, "busy")
  /\ UNCHANGED <<enabled, endpoint, running, cancelled, calls, throttleVars,
                 sidecarVars, mailboxVars>>

MailboxReturns(r) ==
  /\ Return(Letters, r)
  /\ UNCHANGED <<calls, throttleVars, sidecarVars, mailboxVars>>

-----------------------------------------------------------------------------
(* The run around the sources: Runner.Collect.                             *)

StartRun ==
  /\ ~running
  /\ running' = TRUE
  /\ result' = [s \in Sources |-> IF s \in enabled THEN "pending" ELSE "none"]
  /\ NewClient
  /\ UNCHANGED <<enabled, endpoint, cancelled, calls, sidecarVars, mailboxVars>>

Cancel ==
  /\ running /\ ~cancelled
  /\ cancelled' = TRUE
  /\ UNCHANGED <<enabled, endpoint, running, result, calls, throttleVars,
                 sidecarVars, mailboxVars>>

(* All have returned.  The mailbox has read what was in its window; the    *)
(* items its source accepts are saved, unless the database fails or the    *)
(* context has ended.                                                      *)
FinishRun ==
  /\ running
  /\ \A s \in enabled : result[s] \in {"items", "error"}
  /\ running' = FALSE /\ cancelled' = FALSE
  /\ result' = [s \in Sources |-> "none"] /\ hurt' = {}
  /\ \/ result[Letters] = "items" /\ ~cancelled /\ ReadMail
     \/ UNCHANGED mailboxVars
  /\ UNCHANGED <<enabled, endpoint, left, hops, call, throttleVars, sidecarVars>>

Tick ==
  /\ running
  /\ PassTime
  /\ left' = [f \in Feeds |-> Less(left[f])]
  /\ hurt' = hurt \cup {f \in Feeds : request[f] = "sent" \/ f \in late'}
  /\ UNCHANGED <<enabled, endpoint, collection, hops, others>>

(* Mail arrives and days pass between collections.                         *)
MailChanges ==
  /\ ~running /\ enabled \in MailPlans
  /\ NextDay \/ \E form \in Forms, age \in 0..1, old \in BOOLEAN : Receive(form, age, old)
  /\ UNCHANGED <<enabled, endpoint, collection, calls, throttleVars, sidecarVars>>

-----------------------------------------------------------------------------
Feed(f) ==
  GetFeed(f) \/ SendFeed(f) \/ (\E h \in Hosts : Redirect(f, h))
    \/ FeedArrives(f) \/ FeedFails(f) \/ FeedTimesOut(f)

Browser(b) == PostFetch(b) \/ Unreachable(b) \/ FetchReturns(b) \/ FetchTimesOut(b)

Next ==
  \/ \E f \in Feeds : Feed(f)
  \/ \E b \in Browsers : Browser(b)
  \/ \E j \in Jobs : SidecarAlone(Serve(j) \/ Stall(j)) \/ Discard(j)
  \/ SidecarAlone(BrowserDies \/ Restart)
  \/ Connect \/ MailboxReturns("items") \/ MailboxReturns("error")
  \/ StartRun \/ Cancel \/ FinishRun \/ Tick \/ MailChanges

Spec == Init /\ [][Next]_vars

(* Clocks and goroutines run, deadlines fire and the sidecar's process     *)
(* works; no server is trusted to answer, and none that reads mail, for    *)
(* which the code has no deadline.                                         *)
Fairness ==
  /\ WF_vars(Tick)
  /\ WF_vars(FinishRun)
  /\ \A f \in Feeds : WF_vars(GetFeed(f)) /\ WF_vars(FeedTimesOut(f))
  /\ \A b \in Browsers : WF_vars(PostFetch(b) \/ Unreachable(b)) /\ WF_vars(FetchTimesOut(b))
  /\ \A j \in Jobs : WF_vars(SidecarAlone(Serve(j))) /\ WF_vars(Discard(j))
  /\ WF_vars(Connect)

FairSpec == Spec /\ Fairness

-----------------------------------------------------------------------------
(* A feed whose host answered without delay is collected, whatever the     *)
(* other sources do: waiting for slots behind them, or behind slots that   *)
(* cancelled requests wasted, never uses up its deadline (Registry.Run,    *)
(* "a failing source does not stop the others").                           *)
HealthyIsCollected ==
  \A f \in Feeds : result[f] = "error" => f \in hurt \/ cancelled

(* A mail server that has fallen silent: nothing bounds the wait for it,   *)
(* not even the context of the run, while every other source has returned. *)
Hung ==
  /\ result[Letters] = "busy"
  /\ \A s \in enabled \ {Letters} : result[s] \in {"items", "error"}

(* A collection ends, though hosts fall silent, pages never finish and     *)
(* every permit of the sidecar is gone; a silent mail server holds it up,  *)
(* but no other source of it (httpTimeout: "short enough that one bad      *)
(* source does not stall the run", job.go, is true of feeds only).         *)
CollectionEnds == running ~> (~running \/ Hung)
=============================================================================
