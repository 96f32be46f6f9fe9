---------------------------- MODULE CollectProofs ----------------------------
(***************************************************************************)
(* Collections use the transport and the sidecar as their specifications   *)
(* say, so what is proved of these holds of every collection, for any      *)
(* number of sources, hosts and permits.  Of the whole are proved its      *)
(* types, NoMailMissed of the mailbox, and HealthyIsCollected when the     *)
(* deadline of a request exceeds the slots that all feeds may claim, or    *)
(* those that may lie before a request with the places of the group.       *)
(***************************************************************************)
EXTENDS Collect, ThrottleProofs, SidecarProofs

(* Only a source that is being retrieved has a request under way.          *)
RequestsAreBusy ==
  /\ request \in [Feeds -> {"none", "waiting", "sent"}]
  /\ result \in [Sources -> {"none", "pending", "busy", "items", "error"}]
  /\ \A f \in Feeds : result[f] # "busy" => request[f] = "none"
  /\ \A s \in Sources \ enabled : result[s] = "none"

CallsAreJobs == call \in [Browsers -> Jobs \cup {NoCall}]

LEMMA SourceFacts ==
  /\ Feeds \subseteq Sources /\ Browsers \subseteq Sources /\ Letters \in Sources
  /\ Feeds \cap Browsers = {} /\ Letters \notin Feeds
BY CollectAssumption DEF Sources

LEMMA BusyInit == Init => RequestsAreBusy /\ CallsAreJobs
BY DEF Init, ThrottleInit, RequestsAreBusy, CallsAreJobs

LEMMA CallsStep == CallsAreJobs /\ [Next]_vars => CallsAreJobs'
<1> SUFFICES ASSUME CallsAreJobs, [Next]_vars PROVE CallsAreJobs'
  OBVIOUS
<1>1. \/ call' = call
      \/ \E b \in Browsers : call' = [call EXCEPT ![b] = NoCall]
      \/ \E b \in Browsers, j \in Jobs : call' = [call EXCEPT ![b] = j]
  BY DEF Next, vars, calls, Feed, Browser, others, GetFeed, SendFeed, Redirect, FeedArrives,
         FeedFails, FeedTimesOut, PostFetch, Unreachable, FetchReturns, FetchTimesOut,
         SidecarAlone, Discard, Connect, MailboxReturns, StartRun, Cancel, FinishRun, Tick,
         MailChanges
<1> QED BY <1>1 DEF CallsAreJobs

(* A feed is given a result exactly when its request is over.              *)
LEMMA FeedKeeps ==
  ASSUME RequestsAreBusy, NEW f \in Feeds, Feed(f)
  PROVE  RequestsAreBusy'
<1>0. f \in Sources
  BY SourceFacts
<1>1. CASE GetFeed(f)
  <2>1. result[f] = "pending" /\ enabled' = enabled
        /\ result' = [result EXCEPT ![f] = "busy"]
        /\ request' = [request EXCEPT ![f] = "waiting"]
    BY <1>1 DEF GetFeed, Begin, Become, Reserve
  <2> QED BY <1>0, <2>1, SourceFacts DEF RequestsAreBusy
<1>2. CASE SendFeed(f) \/ (\E h \in Hosts : Redirect(f, h))
  <2>1. /\ request[f] # "none" /\ enabled' = enabled /\ result' = result
        /\ \/ request' = [request EXCEPT ![f] = "waiting"]
           \/ request' = [request EXCEPT ![f] = "sent"]
    BY <1>2 DEF SendFeed, Redirect, Send, Reserve, collection
  <2> QED BY <1>0, <2>1 DEF RequestsAreBusy
<1>3. CASE FeedArrives(f) \/ FeedFails(f) \/ FeedTimesOut(f)
  <2>1. /\ result[f] = "busy" /\ enabled' = enabled
        /\ request' = [request EXCEPT ![f] = "none"]
    BY <1>3 DEF FeedArrives, FeedFails, FeedTimesOut, Return, Forget, Leave
  <2>2. PICK r \in {"items", "error"} : result' = [result EXCEPT ![f] = r]
    BY <1>3 DEF FeedArrives, FeedFails, FeedTimesOut, Return, Become
  <2>3. /\ request' \in [Feeds -> {"none", "waiting", "sent"}]
        /\ result' \in [Sources -> {"none", "pending", "busy", "items", "error"}]
    BY <1>0, <2>1, <2>2 DEF RequestsAreBusy
  <2>4. \A g \in Feeds : result'[g] # "busy" => request'[g] = "none"
    BY <1>0, <2>1, <2>2, SourceFacts DEF RequestsAreBusy
  <2>5. \A s \in Sources \ enabled : result'[s] = "none"
    BY <1>0, <2>1, <2>2 DEF RequestsAreBusy
  <2> QED BY <2>1, <2>3, <2>4, <2>5 DEF RequestsAreBusy
<1> QED BY <1>1, <1>2, <1>3 DEF Feed

LEMMA OtherKeeps ==
  ASSUME RequestsAreBusy, NEW s \in Sources \ Feeds,
         NEW r \in {"busy", "items", "error"},
         result[s] \in {"pending", "busy"},
         result' = [result EXCEPT ![s] = r],
         UNCHANGED <<request, enabled>>
  PROVE  RequestsAreBusy'
BY SourceFacts DEF RequestsAreBusy

LEMMA BusyStep == RequestsAreBusy /\ [Next]_vars => RequestsAreBusy'
<1> SUFFICES ASSUME RequestsAreBusy, [Next]_vars PROVE RequestsAreBusy'
  OBVIOUS
<1>1. ASSUME NEW f \in Feeds, Feed(f) PROVE RequestsAreBusy'
  BY <1>1, FeedKeeps
<1>2. ASSUME NEW b \in Browsers, Browser(b) PROVE RequestsAreBusy'
  <2>1. b \in Sources \ Feeds
    BY SourceFacts
  <2>2. /\ UNCHANGED <<request, enabled>> /\ result[b] \in {"pending", "busy"}
        /\ \E r \in {"busy", "items", "error"} : result' = [result EXCEPT ![b] = r]
    BY <1>2 DEF Browser, PostFetch, Unreachable, FetchReturns, FetchTimesOut, Begin, Become,
                Return, unthrottled, throttleVars
  <2> QED BY <2>1, <2>2, OtherKeeps
<1>3. CASE Connect \/ MailboxReturns("items") \/ MailboxReturns("error")
  <2>1. Letters \in Sources \ Feeds
    BY SourceFacts
  <2>2. /\ UNCHANGED <<request, enabled>> /\ result[Letters] \in {"pending", "busy"}
        /\ \E r \in {"busy", "items", "error"} : result' = [result EXCEPT ![Letters] = r]
    BY <1>3 DEF Connect, MailboxReturns, Begin, Become, Return, throttleVars
  <2> QED BY <2>1, <2>2, OtherKeeps
<1>4. CASE StartRun
  <2>1. /\ result' = [s \in Sources |-> IF s \in enabled THEN "pending" ELSE "none"]
        /\ request' = request /\ enabled' = enabled /\ \A f \in Feeds : request[f] = "none"
    BY <1>4 DEF StartRun, NewClient
  <2> QED BY <2>1, SourceFacts DEF RequestsAreBusy
<1>5. CASE FinishRun
  <2>1. /\ result' = [s \in Sources |-> "none"]
        /\ request' = request /\ enabled' = enabled
        /\ \A s \in enabled : result[s] \in {"items", "error"}
    BY <1>5 DEF FinishRun, throttleVars
  <2>2. \A f \in Feeds : request[f] = "none"
    BY <2>1, SourceFacts DEF RequestsAreBusy
  <2> QED BY <2>1, <2>2, SourceFacts DEF RequestsAreBusy
<1>6. ASSUME UNCHANGED <<request, result, enabled>> PROVE RequestsAreBusy'
  BY <1>6 DEF RequestsAreBusy
<1>7. ASSUME NEW j \in Jobs, SidecarAlone(Serve(j) \/ Stall(j)) \/ Discard(j)
      PROVE  RequestsAreBusy'
  BY <1>6, <1>7 DEF SidecarAlone, Discard, collection, throttleVars
<1>8. CASE SidecarAlone(BrowserDies \/ Restart) \/ Cancel \/ Tick \/ MailChanges \/ UNCHANGED vars
  BY <1>6, <1>8 DEF SidecarAlone, Cancel, Tick, PassTime, MailChanges, collection,
                    throttleVars, vars
<1> QED BY <1>1, <1>2, <1>3, <1>4, <1>5, <1>7, <1>8 DEF Next

-----------------------------------------------------------------------------
LEMMA ThrottleUse == RequestsAreBusy /\ [Next]_vars => [ThrottleNext]_throttleVars
<1> SUFFICES ASSUME RequestsAreBusy, [Next]_vars PROVE [ThrottleNext]_throttleVars
  OBVIOUS
<1>1. ASSUME NEW f \in Feeds, Feed(f) PROVE ThrottleNext
  <2>1. CASE GetFeed(f)
    <3>1. Reserve(f, HostOf[f]) /\ HostOf[f] \in Hosts /\ request[f] # "waiting"
      BY <2>1, CollectAssumption, SourceFacts DEF GetFeed, Begin, RequestsAreBusy
    <3> QED BY <3>1 DEF ThrottleNext
  <2>2. CASE SendFeed(f)
    BY <2>2 DEF SendFeed, ThrottleNext
  <2>3. ASSUME NEW h \in Hosts, Redirect(f, h) PROVE ThrottleNext
    BY <2>3 DEF Redirect, ThrottleNext
  <2>4. CASE FeedArrives(f) \/ FeedFails(f) \/ FeedTimesOut(f)
    BY <2>4 DEF FeedArrives, FeedFails, FeedTimesOut, Forget, ThrottleNext
  <2> QED BY <1>1, <2>1, <2>2, <2>3, <2>4 DEF Feed
<1>2. ASSUME NEW b \in Browsers, Browser(b) PROVE UNCHANGED throttleVars
  BY <1>2 DEF Browser, PostFetch, Unreachable, FetchReturns, FetchTimesOut, unthrottled
<1>3. ASSUME NEW j \in Jobs, SidecarAlone(Serve(j) \/ Stall(j)) \/ Discard(j)
      PROVE  UNCHANGED throttleVars
  BY <1>3 DEF SidecarAlone, Discard
<1>4. CASE SidecarAlone(BrowserDies \/ Restart) \/ Connect \/ MailboxReturns("items")
             \/ MailboxReturns("error") \/ Cancel \/ FinishRun \/ MailChanges \/ UNCHANGED vars
  BY <1>4 DEF SidecarAlone, Connect, MailboxReturns, Cancel, FinishRun, MailChanges, vars
<1>5. CASE StartRun \/ Tick
  BY <1>5 DEF StartRun, Tick, ThrottleNext
<1> QED BY <1>1, <1>2, <1>3, <1>4, <1>5 DEF Next

LEMMA SidecarUse == CallsAreJobs /\ [Next]_vars => [SidecarNext]_sidecarVars
<1> SUFFICES ASSUME CallsAreJobs, [Next]_vars PROVE [SidecarNext]_sidecarVars
  OBVIOUS
<1>1. ASSUME NEW f \in Feeds, Feed(f) PROVE UNCHANGED sidecarVars
  BY <1>1 DEF Feed, GetFeed, SendFeed, Redirect, FeedArrives, FeedFails, FeedTimesOut, others
<1>2. ASSUME NEW b \in Browsers, Browser(b) PROVE [SidecarNext]_sidecarVars
  <2>1. CASE PostFetch(b)
    BY <2>1 DEF PostFetch, SidecarNext
  <2>2. CASE FetchReturns(b)
    <3>1. call[b] \in Jobs /\ Respond(call[b])
      BY <2>2 DEF FetchReturns, CallsAreJobs
    <3> QED BY <3>1 DEF SidecarNext
  <2>3. CASE Unreachable(b) \/ FetchTimesOut(b)
    BY <2>3 DEF Unreachable, FetchTimesOut
  <2> QED BY <1>2, <2>1, <2>2, <2>3 DEF Browser
<1>3. ASSUME NEW j \in Jobs, SidecarAlone(Serve(j) \/ Stall(j)) \/ Discard(j)
      PROVE  SidecarNext
  BY <1>3 DEF SidecarAlone, Discard, SidecarNext
<1>4. CASE SidecarAlone(BrowserDies \/ Restart)
  BY <1>4 DEF SidecarAlone, SidecarNext
<1>5. CASE Connect \/ MailboxReturns("items") \/ MailboxReturns("error") \/ StartRun
             \/ Cancel \/ FinishRun \/ Tick \/ MailChanges \/ UNCHANGED vars
  BY <1>5 DEF Connect, MailboxReturns, StartRun, Cancel, FinishRun, Tick, MailChanges, others,
              vars
<1> QED BY <1>1, <1>2, <1>3, <1>4, <1>5 DEF Next

-----------------------------------------------------------------------------
(* Collections drive the transport as it is specified: a source reserves   *)
(* no second slot while it waits for one.                                  *)
THEOREM CollectUsesThrottle == Spec => ThrottleSpec
<1>1. Init => ThrottleInit
  BY DEF Init
<1> QED BY <1>1, BusyInit, BusyStep, ThrottleUse, PTL DEF Spec, ThrottleSpec

(* Collections and the sidecar's own process drive it as it is specified.  *)
THEOREM CollectUsesSidecar == Spec => SidecarSpec
<1>1. Init => SidecarInit
  BY DEF Init
<1> QED BY <1>1, BusyInit, CallsStep, SidecarUse, PTL DEF Spec, SidecarSpec

(* Every collection keeps the interval between requests to one host.       *)
THEOREM CollectIsPolite == Spec => Polite
BY CollectUsesThrottle, PoliteHolds, PTL

(* Whatever collections abandon, every permit is accounted for.            *)
THEOREM CollectKeepsPermits == Spec => [](PermitsAccounted /\ NoIdlePermit)
BY CollectUsesSidecar, PermitsHold, NoPermitIdles, PTL

-----------------------------------------------------------------------------

(* What a collection keeps for itself has its type.                        *)
ShapeOK ==
  /\ enabled \in Plans
  /\ endpoint \in BOOLEAN /\ running \in BOOLEAN /\ cancelled \in BOOLEAN
  /\ left \in [Feeds -> 0..Timeout]
  /\ hops \in [Feeds -> 0..MaxHops]
  /\ hurt \subseteq Feeds

LEMMA ShapeInit == Init => ShapeOK
<1> SUFFICES ASSUME Init PROVE ShapeOK
  OBVIOUS
<1>1. /\ enabled \in Plans /\ endpoint \in BOOLEAN
      /\ running \in BOOLEAN /\ cancelled \in BOOLEAN
  BY DEF Init
<1>2. left = [f \in Feeds |-> 0] /\ hops = [f \in Feeds |-> 0] /\ hurt = {}
  BY DEF Init
<1>3. 0 \in 0..Timeout /\ 0 \in 0..MaxHops
  BY CollectAssumption
<1> QED BY <1>1, <1>2, <1>3 DEF ShapeOK

LEMMA FeedKeepsShape ==
  ASSUME ShapeOK, NEW f \in Feeds, Feed(f)
  PROVE  ShapeOK'
<1> USE CollectAssumption DEF ShapeOK
<1>1. CASE GetFeed(f)
  BY <1>1 DEF GetFeed
<1>2. CASE SendFeed(f)
  BY <1>2 DEF SendFeed, collection, calls
<1>3. ASSUME NEW h \in Hosts, Redirect(f, h) PROVE ShapeOK'
  BY <1>3 DEF Redirect, collection
<1>4. CASE FeedArrives(f) \/ FeedFails(f) \/ FeedTimesOut(f)
  <2>1. /\ UNCHANGED <<enabled, endpoint, running, cancelled>>
        /\ left' = [left EXCEPT ![f] = 0] /\ hops' = [hops EXCEPT ![f] = 0]
        /\ hurt' = hurt \/ hurt' = hurt \cup {f}
    BY <1>4 DEF FeedArrives, FeedFails, FeedTimesOut, Return, Forget
  <2> QED BY <2>1
<1> QED BY <1>1, <1>2, <1>3, <1>4 DEF Feed

LEMMA ShapeStep == ShapeOK /\ [Next]_vars => ShapeOK'
<1> SUFFICES ASSUME ShapeOK, [Next]_vars PROVE ShapeOK'
  OBVIOUS
<1>1. ASSUME NEW f \in Feeds, Feed(f) PROVE ShapeOK'
  BY <1>1, FeedKeepsShape
<1>2. ASSUME UNCHANGED <<enabled, endpoint, left, hops>>,
             running' \in BOOLEAN, cancelled' \in BOOLEAN, hurt' = hurt \/ hurt' = {}
      PROVE  ShapeOK'
  BY <1>2 DEF ShapeOK
<1>3. ASSUME NEW b \in Browsers, Browser(b) PROVE ShapeOK'
  BY <1>2, <1>3 DEF Browser, PostFetch, Unreachable, FetchReturns, FetchTimesOut, Return,
                    unthrottled, ShapeOK
<1>4. ASSUME NEW j \in Jobs, SidecarAlone(Serve(j) \/ Stall(j)) \/ Discard(j) PROVE ShapeOK'
  BY <1>2, <1>4 DEF SidecarAlone, Discard, collection, calls, ShapeOK
<1>5. CASE SidecarAlone(BrowserDies \/ Restart) \/ Connect \/ MailboxReturns("items")
             \/ MailboxReturns("error") \/ StartRun \/ Cancel \/ MailChanges \/ UNCHANGED vars
  BY <1>2, <1>5 DEF SidecarAlone, Connect, MailboxReturns, Return, StartRun, Cancel,
                    MailChanges, collection, calls, vars, ShapeOK
<1>6. CASE FinishRun
  BY <1>2, <1>6 DEF FinishRun
<1>7. CASE Tick
  <2>1. /\ UNCHANGED <<enabled, endpoint, running, cancelled, hops>>
        /\ left' = [f \in Feeds |-> Less(left[f])]
        /\ hurt' = hurt \cup {f \in Feeds : request[f] = "sent" \/ f \in late'}
    BY <1>7 DEF Tick, collection
  <2>2. \A n \in 0..Timeout : Less(n) \in 0..Timeout
    BY CollectAssumption DEF Less
  <2> QED BY <2>1, <2>2 DEF ShapeOK
<1> QED BY <1>1, <1>3, <1>4, <1>5, <1>6, <1>7 DEF Next

-----------------------------------------------------------------------------
(* The mailbox.                                                            *)

MailboxNext ==
  NextDay \/ ReadMail \/ \E form \in Forms, age \in 0..1, old \in BOOLEAN : Receive(form, age, old)

LEMMA MailboxUse == [Next]_vars => [MailboxNext]_mailboxVars
<1> SUFFICES ASSUME [Next]_vars PROVE [MailboxNext]_mailboxVars
  OBVIOUS
<1>1. ASSUME NEW f \in Feeds, Feed(f) PROVE UNCHANGED mailboxVars
  BY <1>1 DEF Feed, GetFeed, SendFeed, Redirect, FeedArrives, FeedFails, FeedTimesOut, others
<1>2. ASSUME NEW b \in Browsers, Browser(b) PROVE UNCHANGED mailboxVars
  BY <1>2 DEF Browser, PostFetch, Unreachable, FetchReturns, FetchTimesOut
<1>3. ASSUME NEW j \in Jobs, SidecarAlone(Serve(j) \/ Stall(j)) \/ Discard(j)
      PROVE  UNCHANGED mailboxVars
  BY <1>3 DEF SidecarAlone, Discard
<1>4. CASE SidecarAlone(BrowserDies \/ Restart) \/ Connect \/ MailboxReturns("items")
             \/ MailboxReturns("error") \/ StartRun \/ Cancel \/ Tick \/ UNCHANGED vars
  BY <1>4 DEF SidecarAlone, Connect, MailboxReturns, StartRun, Cancel, Tick, others, vars
<1>5. CASE FinishRun \/ MailChanges
  BY <1>5 DEF FinishRun, MailChanges, MailboxNext
<1> QED BY <1>1, <1>2, <1>3, <1>4, <1>5 DEF Next

(* As long as the window has exceeded every gap, what a reading has yet to *)
(* collect arrived after the last one, or the day before it by the clock   *)
(* of the server.                                                          *)
NotYetDue ==
  prompt /\ ~crowded =>
    /\ gap < Days
    /\ \A i \in DOMAIN box :
         ~(Kept(box[i]) \subseteq taken[i]) => box[i].age <= gap + 1

MailboxInv == MailboxTypeOK /\ Len(box) <= MaxMail /\ NotYetDue

LEMMA DaysType == Days \in Nat \ {0} /\ Oldest = Days + 2
BY MailboxAssumption DEF Days, Oldest

LEMMA SeqFacts ==
  ASSUME NEW S, NEW s \in Seq(S)
  PROVE  Len(s) \in Nat /\ DOMAIN s = 1..Len(s) /\ \A i \in DOMAIN s : s[i] \in S
OBVIOUS

Messages == [form : Forms, age : 0..Oldest, old : BOOLEAN]

(* A message of the folder has a form and an age in days.                  *)
LEMMA BoxFacts ==
  ASSUME MailboxTypeOK
  PROVE  /\ Len(box) \in Nat /\ DOMAIN box = 1..Len(box)
         /\ \A i \in DOMAIN box :
              box[i] \in Messages /\ box[i].form \in Forms /\ box[i].age \in Nat
<1>1. box \in Seq(Messages)
  BY DEF MailboxTypeOK, Messages
<1>2. \A m \in Messages : m.form \in Forms /\ m.age \in Nat
  BY DaysType DEF Messages
<1> QED BY <1>1, <1>2, SeqFacts

LEMMA MailboxInvInit == MailboxInit => MailboxInv
<1> SUFFICES ASSUME MailboxInit PROVE MailboxInv
  OBVIOUS
<1> USE MailboxAssumption, DaysType DEF MailboxInit
<1>1. MailboxTypeOK
  <2>1. 0 \in 0..Oldest
    OBVIOUS
  <2>2. prompt \in BOOLEAN /\ crowded \in BOOLEAN /\ box = <<>>
    OBVIOUS
  <2>3. taken \in [1..MaxMail -> SUBSET {"article", "provenance", "links"}]
    OBVIOUS
  <2> QED BY <2>1, <2>2, <2>3 DEF MailboxTypeOK
<1>2. Len(box) <= MaxMail /\ NotYetDue
  BY DEF NotYetDue
<1> QED BY <1>1, <1>2 DEF MailboxInv

LEMMA ReceiveKeeps ==
  ASSUME MailboxInv, NEW form \in Forms, NEW age \in 0..1, NEW old \in BOOLEAN,
         Receive(form, age, old)
  PROVE  MailboxInv'
<1> USE MailboxAssumption, DaysType DEF MailboxInv, MailboxTypeOK, Messages
<1>1. /\ [form |-> form, age |-> age, old |-> old] \in Messages
      /\ box' = Append(box, [form |-> form, age |-> age, old |-> old])
      /\ Len(box) < MaxMail
      /\ UNCHANGED <<taken, gap, prompt, crowded>>
  BY DEF Receive
<1>2. MailboxTypeOK' /\ Len(box') <= MaxMail
  BY <1>1
<1>3. NotYetDue'
  <2> SUFFICES ASSUME prompt, ~crowded, NEW i \in DOMAIN box',
                      ~(Kept(box'[i]) \subseteq taken[i])
               PROVE  gap < Days /\ box'[i].age <= gap + 1
    BY <1>1 DEF NotYetDue
  <2>1. CASE i \in DOMAIN box
    <3>1. box'[i] = box[i]
      BY <1>1, <2>1
    <3> QED BY <2>1, <3>1 DEF NotYetDue
  <2>2. CASE i \notin DOMAIN box
    <3>1. box'[i].age = age
      BY <1>1, <2>2
    <3> QED BY <3>1 DEF NotYetDue
  <2> QED BY <2>1, <2>2
<1> QED BY <1>2, <1>3

LEMMA NextDayKeeps == MailboxInv /\ NextDay => MailboxInv'
<1> SUFFICES ASSUME MailboxInv, NextDay PROVE MailboxInv'
  OBVIOUS
<1> USE MailboxAssumption, DaysType DEF MailboxInv, MailboxTypeOK
<1> DEFINE Older(m) == [m EXCEPT !.age = IF @ = Oldest THEN @ ELSE @ + 1]
<1>1. /\ box' = [i \in DOMAIN box |-> Older(box[i])]
      /\ gap' = IF gap = Oldest THEN gap ELSE gap + 1
      /\ prompt' = (prompt /\ gap + 1 < Days)
      /\ UNCHANGED <<taken, crowded>>
  BY DEF NextDay
<1>2. ASSUME NEW m \in Messages
      PROVE  /\ Older(m) \in Messages
             /\ Kept(Older(m)) = Kept(m)
             /\ Older(m).age \in Nat /\ Older(m).age <= m.age + 1
  <2>1. Older(m).form = m.form /\ Older(m).old = m.old
    BY DEF Messages
  <2>2. Kept(Older(m)) = Kept(m)
    BY <2>1, Zenon DEF Kept
  <2>3. Older(m) \in Messages
    <3>1. m.age \in 0..Oldest
      BY DEF Messages
    <3>2. (IF m.age = Oldest THEN m.age ELSE m.age + 1) \in 0..Oldest
      BY <3>1
    <3> QED BY ONLY <3>2, m \in Messages DEF Messages
  <2>4. Older(m).age \in Nat /\ Older(m).age <= m.age + 1
    BY DEF Messages
  <2> QED BY <2>2, <2>3, <2>4
<1> HIDE DEF Older
<1>3. \A i \in DOMAIN box :
        box[i] \in Messages /\ box[i].form \in Forms /\ box[i].age \in Nat
  BY BoxFacts
<1>4. DOMAIN box = 1..Len(box) /\ Len(box) \in Nat
  BY BoxFacts
<1>5. box' \in Seq(Messages) /\ DOMAIN box' = DOMAIN box
  BY <1>1, <1>2, <1>3, <1>4
<1>6. Len(box') = Len(box)
  BY <1>4, <1>5
<1>7. MailboxTypeOK'
  <2>1. gap' \in 0..Oldest
    BY <1>1
  <2>2. prompt' \in BOOLEAN
    BY <1>1
  <2> QED BY <1>1, <1>5, <2>1, <2>2 DEF Messages
<1>8. NotYetDue'
  <2> SUFFICES ASSUME prompt', ~crowded'
               PROVE  /\ gap' < Days
                      /\ \A i \in DOMAIN box' :
                           ~(Kept(box'[i]) \subseteq taken'[i]) => box'[i].age <= gap' + 1
    BY DEF NotYetDue
  <2>1. prompt /\ gap + 1 < Days /\ ~crowded
    BY <1>1
  <2>2. gap' = gap + 1
    BY <1>1, <2>1
  <2>3. ASSUME NEW i \in DOMAIN box, ~(Kept(box'[i]) \subseteq taken[i])
        PROVE  box'[i].age <= gap' + 1
    <3>1. box'[i] = Older(box[i])
      BY <1>1
    <3>2. box[i].age <= gap + 1
      <4>1. Kept(box'[i]) = Kept(box[i])
        BY <1>2, <1>3, <3>1
      <4> QED BY <2>1, <2>3, <4>1 DEF NotYetDue
    <3>3. /\ Older(box[i]).age \in Nat /\ Older(box[i]).age <= box[i].age + 1
          /\ box[i].age \in Nat /\ gap \in Nat
      BY <1>2, <1>3
    <3> QED BY <2>2, <3>1, <3>2, <3>3
  <2> QED BY <1>1, <1>5, <2>1, <2>2, <2>3
<1> QED BY <1>6, <1>7, <1>8

LEMMA ReadMailKeeps == MailboxInv /\ ReadMail => MailboxInv'
<1> SUFFICES ASSUME MailboxInv, ReadMail PROVE MailboxInv'
  OBVIOUS
<1> USE MailboxAssumption, DaysType DEF MailboxInv, MailboxTypeOK
<1>1. /\ taken' = [i \in 1..MaxMail |-> IF i \in Newest THEN Kept(box[i]) ELSE taken[i]]
      /\ gap' = 0
      /\ crowded' = (crowded \/ Newest # Window)
      /\ UNCHANGED <<box, prompt>>
  BY DEF ReadMail
<1>2. \A i \in DOMAIN box :
        box[i] \in Messages /\ box[i].age \in Nat /\ i \in 1..MaxMail
  BY BoxFacts
<1>3. \A m \in Messages : Kept(m) \in SUBSET {"article", "provenance", "links"}
  BY DEF Messages, Forms, ItemsFromMessage, WithinCutoff, Kept
<1>4. MailboxTypeOK'
  <2>1. Newest \subseteq DOMAIN box
    BY DEF Newest, Window
  <2>2. taken' \in [1..MaxMail -> SUBSET {"article", "provenance", "links"}]
    BY <1>1, <1>2, <1>3, <2>1
  <2>3. crowded' \in BOOLEAN
    BY <1>1
  <2>4. gap' \in 0..Oldest
    BY <1>1
  <2> QED BY <1>1, <2>2, <2>3, <2>4
<1>5. NotYetDue'
  <2> SUFFICES ASSUME prompt', ~crowded'
               PROVE  /\ gap' < Days
                      /\ \A i \in DOMAIN box' :
                           ~(Kept(box'[i]) \subseteq taken'[i]) => box'[i].age <= gap' + 1
    BY DEF NotYetDue
  <2>1. prompt /\ ~crowded /\ Newest = Window
    BY <1>1
  <2>2. ASSUME NEW i \in DOMAIN box PROVE Kept(box[i]) \subseteq taken'[i]
    <3>1. CASE i \in Window
      BY <1>1, <1>2, <2>1, <3>1
    <3>2. CASE i \notin Window
      <4>1. taken'[i] = taken[i]
        BY <1>1, <1>2, <2>1, <3>2
      <4>2. box[i].age > Days
        BY <1>2, <3>2 DEF Window
      <4>3. gap < Days /\ (~(Kept(box[i]) \subseteq taken[i]) => box[i].age <= gap + 1)
        BY <2>1 DEF NotYetDue
      <4> QED BY <1>2, <4>1, <4>2, <4>3
    <3> QED BY <3>1, <3>2
  <2>3. gap' < Days
    BY <1>1
  <2>4. box' = box
    BY <1>1
  <2> QED BY ONLY <2>2, <2>3, <2>4
<1> QED BY <1>1, <1>4, <1>5

LEMMA MailboxInvStep == MailboxInv /\ [MailboxNext]_mailboxVars => MailboxInv'
<1>1. MailboxInv /\ UNCHANGED mailboxVars => MailboxInv'
  BY DEF MailboxInv, MailboxTypeOK, NotYetDue, mailboxVars
<1> QED BY <1>1, ReceiveKeeps, NextDayKeeps, ReadMailKeeps DEF MailboxNext

-----------------------------------------------------------------------------
LEMMA MailboxInvHolds == Spec => []MailboxInv
<1>1. Init => MailboxInit
  BY DEF Init
<1> QED BY <1>1, MailboxInvInit, MailboxUse, MailboxInvStep, PTL DEF Spec

(* Nothing its source accepts of a message leaves the window of the        *)
(* mailbox uncollected, for any look-back and any number of messages, as   *)
(* long as the window exceeds every gap and no reading finds more than it  *)
(* may read.  What the source accepts goes by the date the sender claims   *)
(* (withinCutoff).                                                         *)
THEOREM NoMailMissedHolds == Spec => []NoMailMissed
<1>1. MailboxInv => NoMailMissed
  <2> SUFFICES ASSUME MailboxInv, prompt, ~crowded, NEW i \in DOMAIN box,
                      box[i].age > Days, ~(Kept(box[i]) \subseteq taken[i])
               PROVE  FALSE
    BY DEF NoMailMissed
  <2>1. gap < Days /\ box[i].age <= gap + 1
    BY DEF MailboxInv, NotYetDue
  <2>2. box[i].age \in Nat /\ gap \in Nat
    BY BoxFacts, DaysType DEF MailboxInv, MailboxTypeOK
  <2> QED BY <2>1, <2>2, DaysType
<1> QED BY <1>1, MailboxInvHolds, PTL

(* The transport, the sidecar, the mailbox and the run around them have    *)
(* their types: deadlines and redirects stay within their bounds.          *)
THEOREM CollectTypeCorrect == Spec => []TypeOK
<1>1. Spec => []ThrottleTypeOK
  BY CollectUsesThrottle, ThrottleTypeCorrect, PTL
<1>2. Spec => []SidecarTypeOK
  BY CollectUsesSidecar, SidecarTypeCorrect, PTL
<1>3. Spec => [](ShapeOK /\ RequestsAreBusy /\ CallsAreJobs)
  BY ShapeInit, ShapeStep, BusyInit, BusyStep, CallsStep, PTL DEF Spec
<1>4. /\ ThrottleTypeOK /\ SidecarTypeOK /\ MailboxInv
      /\ ShapeOK /\ RequestsAreBusy /\ CallsAreJobs
      => TypeOK
  BY DEF TypeOK, MailboxInv, ShapeOK, RequestsAreBusy, CallsAreJobs
<1> QED BY <1>1, <1>2, <1>3, <1>4, MailboxInvHolds, PTL

-----------------------------------------------------------------------------

(* The requests a collection has made: a feed may make one and follow      *)
(* MaxHops redirects.                                                      *)
Turns == Feeds \X (0..MaxHops)
Claimed ==
  {c \in Turns :
     \/ result[c[1]] \in {"items", "error"}
     \/ result[c[1]] = "busy" /\ c[2] <= hops[c[1]]}

(* What their slots can have put before a host's next free one.            *)
Budget == Interval * Cardinality(Claimed)

(* The deadline of a request exceeds the slots all feeds may claim.        *)
SlotsFit ==
  /\ IsFiniteSet(Feeds)
  /\ Interval * (Cardinality(Feeds) * (MaxHops + 1) - 1) < Timeout

OnTime == {f \in Feeds : result[f] = "busy" /\ f \notin hurt}
Waited(f) == Timeout - left[f]

(* A feed that nothing has delayed but slots waits, and will wait, for no  *)
(* more of them than have been claimed.                                    *)
WaitsForSlots(f) ==
  /\ f \notin late
  /\ wait[f] + Interval <= due[host[f]]
  /\ \A h \in Hosts : Waited(f) + due[h] <= Budget

SlotsInv ==
  /\ \A f \in Feeds : result[f] = "busy" => running /\ request[f] # "none"
  /\ running => \A h \in Hosts : due[h] <= Budget
  /\ \A f \in OnTime : WaitsForSlots(f)
  /\ HealthyIsCollected

CollectInv == ThrottleTypeOK /\ ShapeOK /\ RequestsAreBusy /\ SlotsInv

LEMMA TimesMonotone ==
  ASSUME NEW n \in Nat, NEW a \in Nat, NEW b \in Nat, a <= b
  PROVE  n * a <= n * b
<1>1. PICK k \in Nat : b = a + k
  <2>1. b - a \in Nat /\ b = a + (b - a)
    OBVIOUS
  <2> QED BY <2>1
<1>2. n * b = n * a + n * k /\ n * k \in Nat
  BY <1>1
<1>3. n * a \in Nat
  OBVIOUS
<1> QED BY <1>2, <1>3

LEMMA ClaimedFinite ==
  ASSUME IsFiniteSet(Feeds)
  PROVE  /\ IsFiniteSet(Turns) /\ Cardinality(Turns) = Cardinality(Feeds) * (MaxHops + 1)
         /\ IsFiniteSet(Claimed) /\ Cardinality(Claimed) \in Nat
         /\ Cardinality(Claimed) <= Cardinality(Feeds) * (MaxHops + 1)
<1>1. IsFiniteSet(0..MaxHops) /\ Cardinality(0..MaxHops) = MaxHops + 1
  BY CollectAssumption, FS_Interval
<1>2. IsFiniteSet(Turns) /\ Cardinality(Turns) = Cardinality(Feeds) * (MaxHops + 1)
  BY <1>1, FS_Product DEF Turns
<1>3. Claimed \in SUBSET Turns
  BY DEF Claimed
<1>4. IsFiniteSet(Claimed) /\ Cardinality(Claimed) <= Cardinality(Turns)
  BY <1>2, <1>3, FS_Subset
<1> QED BY <1>2, <1>4, FS_CardinalityType

LEMMA ClaimedNext ==
  ASSUME IsFiniteSet(Feeds)
  PROVE  IsFiniteSet(Claimed') /\ Cardinality(Claimed') \in Nat
<1>1. Claimed' \in SUBSET Turns
  BY DEF Claimed, Turns
<1> QED BY <1>1, ClaimedFinite, FS_Subset, FS_CardinalityType

LEMMA BudgetType ==
  ASSUME IsFiniteSet(Feeds)
  PROVE  Budget \in Nat /\ Budget' \in Nat
BY ClaimedFinite, ClaimedNext, ThrottleAssumption DEF Budget

LEMMA BudgetMonotone ==
  ASSUME IsFiniteSet(Feeds), Claimed \subseteq Claimed'
  PROVE  Budget <= Budget'
<1>1. Cardinality(Claimed) \in Nat
  BY ClaimedFinite
<1>3. IsFiniteSet(Claimed') /\ Cardinality(Claimed') \in Nat
  BY ClaimedNext
<1>4. Cardinality(Claimed) <= Cardinality(Claimed')
  <2>1. Claimed \in SUBSET (Claimed')
    OBVIOUS
  <2> QED BY <1>3, <2>1, FS_Subset
<1> QED BY <1>1, <1>3, <1>4, TimesMonotone, ThrottleAssumption DEF Budget

LEMMA BudgetGrows ==
  ASSUME IsFiniteSet(Feeds), NEW c, c \notin Claimed, Claimed' = Claimed \cup {c}
  PROVE  Budget' = Budget + Interval
<1>1. IsFiniteSet(Claimed) /\ Cardinality(Claimed) \in Nat
  BY ClaimedFinite
<1>2. Cardinality(Claimed') = Cardinality(Claimed) + 1
  BY <1>1, FS_AddElement
<1> QED BY <1>1, <1>2, ThrottleAssumption DEF Budget

(* The wait for slots alone never uses up a deadline.                      *)
LEMMA OnTimeHasTime ==
  ASSUME SlotsFit, ThrottleTypeOK, ShapeOK, NEW f \in OnTime, WaitsForSlots(f)
  PROVE  left[f] # 0
<1> DEFINE most == Cardinality(Feeds) * (MaxHops + 1)
<1>1. /\ f \in Feeds /\ host[f] \in Hosts /\ wait[f] \in Nat /\ due[host[f]] \in Nat
      /\ left[f] \in 0..Timeout /\ Interval \in Nat /\ Timeout \in Nat
  BY ThrottleAssumption, CollectAssumption DEF OnTime, ThrottleTypeOK, ShapeOK
<1>2. Cardinality(Claimed) \in Nat /\ Cardinality(Claimed) <= most /\ most \in Nat
  <2>1. most \in Nat
    BY FS_CardinalityType, CollectAssumption DEF SlotsFit
  <2> QED BY <2>1, ClaimedFinite DEF SlotsFit
<1>3. Budget <= Interval * most
  BY <1>1, <1>2, TimesMonotone DEF Budget
<1>4. Interval * (most - 1) = Interval * most - Interval /\ Interval * most \in Nat
  BY <1>1, <1>2
<1>5. Budget \in Nat
  BY BudgetType DEF SlotsFit
<1>6. Interval * (most - 1) < Timeout
  BY DEF SlotsFit
<1> HIDE DEF most
<1>7. (Timeout - left[f]) + due[host[f]] <= Budget /\ wait[f] + Interval <= due[host[f]]
  BY <1>1 DEF WaitsForSlots, Waited
<1> QED BY <1>1, <1>3, <1>4, <1>5, <1>6, <1>7
-----------------------------------------------------------------------------
(* A request that claims a slot: the first of a feed or a redirect.        *)
LEMMA ClaimKeeps ==
  ASSUME CollectInv, IsFiniteSet(Feeds), NEW f \in Feeds, NEW h \in Hosts, Reserve(f, h),
         NEW c, c \notin Claimed, Claimed' = Claimed \cup {c},
         running, running' = running, result'[f] = "busy", left'[f] \in 0..Timeout,
         \A g \in Feeds : g # f =>
           result'[g] = result[g] /\ left'[g] = left[g] /\ (g \in hurt <=> g \in hurt'),
         f \in OnTime' => \A k \in Hosts : Waited(f)' + due[k] <= Budget,
         cancelled' = cancelled
  PROVE  SlotsInv'
<1> USE ThrottleAssumption, CollectAssumption
<1>1. Budget' = Budget + Interval /\ Budget \in Nat /\ Interval \in Nat
  BY BudgetGrows, BudgetType
<1>2. /\ due' = [due EXCEPT ![h] = due[h] + Interval]
      /\ host' = [host EXCEPT ![f] = h] /\ wait' = [wait EXCEPT ![f] = due[h]]
      /\ request' = [request EXCEPT ![f] = "waiting"] /\ late' = late \ {f}
  BY DEF Reserve
<1>3. /\ due \in [Hosts -> Nat] /\ host \in [Feeds -> Hosts] /\ wait \in [Feeds -> Nat]
      /\ \A g \in Feeds : left[g] \in 0..Timeout
  BY DEF CollectInv, ThrottleTypeOK, ShapeOK
<1>4. \A k \in Hosts : /\ due'[k] \in Nat /\ due[k] <= due'[k] /\ due'[k] <= due[k] + Interval
                       /\ due[k] \in Nat
  BY <1>2, <1>3
<1>5. \A g \in Feeds : result'[g] = "busy" => request'[g] # "none"
  BY <1>2 DEF CollectInv, SlotsInv, ThrottleTypeOK
<1>6. \A k \in Hosts : due'[k] <= Budget'
  BY <1>1, <1>4 DEF CollectInv, SlotsInv
<1>7. ASSUME NEW g \in OnTime' PROVE WaitsForSlots(g)'
  <2>1. CASE g = f
    <3>1. f \notin late' /\ host'[f] = h /\ wait'[f] + Interval = due'[h]
      BY <1>2, <1>3
    <3>2. \A k \in Hosts : Waited(f)' + due[k] <= Budget
      BY <1>7, <2>1
    <3>3. Waited(f)' \in Int
      BY DEF Waited
    <3>4. \A k \in Hosts : Waited(f)' + due'[k] <= Budget'
      BY <1>1, <1>4, <3>2, <3>3
    <3>5. wait'[f] + Interval \in Nat /\ due'[h] \in Nat
      BY <1>2, <1>3
    <3> QED BY <2>1, <3>1, <3>4, <3>5 DEF WaitsForSlots
  <2>2. CASE g # f
    <3>1. g \in OnTime /\ Waited(g)' = Waited(g) /\ Waited(g) \in Int /\ g \in Feeds
      BY <1>3, <1>7, <2>2 DEF OnTime, Waited
    <3>2. WaitsForSlots(g)
      BY <3>1 DEF CollectInv, SlotsInv
    <3>3. wait'[g] = wait[g] /\ host'[g] = host[g] /\ g \notin late' /\ host[g] \in Hosts
          /\ wait[g] \in Nat
      BY <1>2, <1>3, <2>2, <3>1, <3>2 DEF WaitsForSlots
    <3>4. wait'[g] + Interval <= due'[host'[g]]
      BY <1>1, <1>4, <3>2, <3>3 DEF WaitsForSlots
    <3>5. \A k \in Hosts : Waited(g)' + due'[k] <= Budget'
      BY <1>1, <1>4, <3>1, <3>2 DEF WaitsForSlots
    <3> QED BY <3>3, <3>4, <3>5 DEF WaitsForSlots
  <2> QED BY <2>1, <2>2
<1>8. HealthyIsCollected'
  BY DEF CollectInv, SlotsInv, HealthyIsCollected
<1> QED BY <1>5, <1>6, <1>7, <1>8 DEF SlotsInv

(* A step that claims and sends nothing, of one feed or of none.           *)
LEMMA OtherFeedsKeep ==
  ASSUME CollectInv, IsFiniteSet(Feeds), Claimed \subseteq Claimed',
         UNCHANGED <<due, host, running>>,
         \A g \in Feeds : result'[g] = "busy" =>
           /\ result[g] = "busy" /\ request'[g] # "none" /\ (g \in hurt => g \in hurt')
           /\ wait'[g] = wait[g] /\ left'[g] = left[g] /\ (g \in late' => g \in late),
         HealthyIsCollected'
  PROVE  SlotsInv'
<1>1. Budget \in Nat /\ Budget' \in Nat /\ Budget <= Budget'
  BY BudgetMonotone, BudgetType
<1>2. \A k \in Hosts : due[k] \in Nat
  BY DEF CollectInv, ThrottleTypeOK
<1>3. running' => \A k \in Hosts : due'[k] <= Budget'
  BY <1>1, <1>2 DEF CollectInv, SlotsInv
<1>4. ASSUME NEW g \in OnTime' PROVE WaitsForSlots(g)'
  <2>1. g \in OnTime /\ g \in Feeds /\ result'[g] = "busy"
    BY <1>4 DEF OnTime
  <2>2. WaitsForSlots(g)
    BY <2>1 DEF CollectInv, SlotsInv
  <2>3. Waited(g)' = Waited(g) /\ Waited(g) \in Int
    BY <2>1, CollectAssumption DEF Waited, CollectInv, ShapeOK
  <2>4. \A k \in Hosts : Waited(g)' + due'[k] <= Budget'
    BY <1>1, <1>2, <2>2, <2>3 DEF WaitsForSlots
  <2> QED BY <2>1, <2>2, <2>4 DEF WaitsForSlots
<1>5. \A g \in Feeds : result'[g] = "busy" => running' /\ request'[g] # "none"
  BY DEF CollectInv, SlotsInv
<1> QED BY <1>3, <1>4, <1>5 DEF SlotsInv

LEMMA GetFeedKeeps ==
  ASSUME CollectInv, SlotsFit, NEW f \in Feeds, GetFeed(f)
  PROVE  SlotsInv'
<1> USE CollectAssumption, SourceFacts
<1>1. /\ running /\ result[f] = "pending" /\ result' = [result EXCEPT ![f] = "busy"]
      /\ Reserve(f, HostOf[f]) /\ HostOf[f] \in Hosts
      /\ left' = [left EXCEPT ![f] = Timeout] /\ hops' = [hops EXCEPT ![f] = 0]
      /\ hurt' = hurt \ {f} /\ running' = running /\ cancelled' = cancelled
  BY DEF GetFeed, Begin, Become
<1>2. /\ result \in [Sources -> {"none", "pending", "busy", "items", "error"}]
      /\ left \in [Feeds -> 0..Timeout] /\ hops \in [Feeds -> 0..MaxHops]
      /\ due \in [Hosts -> Nat] /\ f \in Sources
  BY DEF CollectInv, RequestsAreBusy, ShapeOK, ThrottleTypeOK
<1>3. /\ result'[f] = "busy" /\ left'[f] = Timeout /\ hops'[f] = 0
      /\ \A g \in Feeds : g # f =>
           result'[g] = result[g] /\ left'[g] = left[g] /\ hops'[g] = hops[g]
  BY <1>1, <1>2
<1>4. <<f, 0>> \in Turns /\ <<f, 0>> \notin Claimed
  BY <1>1 DEF Turns, Claimed
<1>5. Claimed' = Claimed \cup {<<f, 0>>}
  <2>1. ASSUME NEW c \in Turns, c[1] # f PROVE c \in Claimed' <=> c \in Claimed
    <3>1. c[1] \in Feeds
      BY DEF Turns
    <3> QED BY <1>3, <2>1, <3>1 DEF Claimed, Turns
  <2>2. ASSUME NEW c \in Turns, c[1] = f PROVE c \notin Claimed
    BY <1>1, <2>2 DEF Claimed
  <2>3. ASSUME NEW c \in Turns, c[1] = f PROVE c \in Claimed' <=> c = <<f, 0>>
    <3>1. c[2] \in 0..MaxHops /\ c = <<c[1], c[2]>>
      BY DEF Turns
    <3>2. c \in Claimed' <=> c[2] <= 0
      BY <1>3, <2>3 DEF Claimed, Turns
    <3> QED BY <2>3, <3>1, <3>2
  <2>4. Claimed \subseteq Turns /\ Claimed' \subseteq Turns
    BY DEF Claimed, Turns
  <2> QED BY <1>4, <2>1, <2>2, <2>3, <2>4
<1>6. \A k \in Hosts : Waited(f)' + due[k] <= Budget
  <2>1. Waited(f)' = 0
    BY <1>3 DEF Waited
  <2> QED BY <1>1, <1>2, <2>1 DEF CollectInv, SlotsInv
<1>7. left'[f] \in 0..Timeout
  BY <1>3
<1> QED BY <1>1, <1>3, <1>4, <1>5, <1>6, <1>7, ClaimKeeps DEF SlotsFit

LEMMA RedirectKeeps ==
  ASSUME CollectInv, SlotsFit, NEW f \in Feeds, NEW h \in Hosts, Redirect(f, h)
  PROVE  SlotsInv'
<1> USE CollectAssumption, SourceFacts
<1>1. /\ request[f] = "sent" /\ hops[f] < MaxHops /\ result' = result /\ Reserve(f, h)
      /\ hops' = [hops EXCEPT ![f] = hops[f] + 1]
      /\ UNCHANGED <<running, cancelled, left, hurt>>
  BY DEF Redirect, collection
<1>2. left \in [Feeds -> 0..Timeout] /\ hops \in [Feeds -> 0..MaxHops]
  BY DEF CollectInv, ShapeOK
<1>3. result[f] = "busy" /\ running
  <2>1. result[f] = "busy"
    BY <1>1 DEF CollectInv, RequestsAreBusy
  <2> QED BY <2>1 DEF CollectInv, SlotsInv
<1>4. hops'[f] = hops[f] + 1 /\ hops[f] \in 0..MaxHops
      /\ \A g \in Feeds : g # f => hops'[g] = hops[g]
  BY <1>1, <1>2
<1>5. <<f, hops[f] + 1>> \in Turns /\ <<f, hops[f] + 1>> \notin Claimed
  BY <1>1, <1>3, <1>4 DEF Turns, Claimed
<1>6. Claimed' = Claimed \cup {<<f, hops[f] + 1>>}
  <2>1. ASSUME NEW c \in Turns, c[1] # f PROVE c \in Claimed' <=> c \in Claimed
    <3>1. c[1] \in Feeds
      BY DEF Turns
    <3> QED BY <1>1, <1>4, <2>1, <3>1 DEF Claimed, Turns
  <2>2. ASSUME NEW c \in Turns, c[1] = f
        PROVE  c \in Claimed' <=> c \in Claimed \/ c = <<f, hops[f] + 1>>
    <3>1. c[2] \in 0..MaxHops /\ c = <<c[1], c[2]>>
      BY DEF Turns
    <3>2. /\ c \in Claimed' <=> c[2] <= hops[f] + 1
          /\ c \in Claimed <=> c[2] <= hops[f]
      BY <1>1, <1>3, <1>4, <2>2 DEF Claimed, Turns
    <3>3. c = <<f, hops[f] + 1>> <=> c[2] = hops[f] + 1
      BY <2>2, <3>1
    <3> QED BY <1>4, <3>1, <3>2, <3>3
  <2>3. Claimed \subseteq Turns /\ Claimed' \subseteq Turns
    BY DEF Claimed, Turns
  <2> QED BY <1>5, <2>1, <2>2, <2>3
<1>7. f \in OnTime' => \A k \in Hosts : Waited(f)' + due[k] <= Budget
  BY <1>1 DEF OnTime, Waited, CollectInv, SlotsInv, WaitsForSlots
<1>8. left'[f] \in 0..Timeout
  BY <1>1, <1>2
<1> QED BY <1>1, <1>3, <1>5, <1>6, <1>7, <1>8, ClaimKeeps DEF SlotsFit

LEMMA EndKeeps ==
  ASSUME CollectInv, SlotsFit, NEW f \in Feeds,
         FeedArrives(f) \/ FeedFails(f) \/ FeedTimesOut(f)
  PROVE  SlotsInv'
<1> USE CollectAssumption, SourceFacts
<1>1. PICK r \in {"items", "error"} :
        /\ result[f] = "busy" /\ result' = [result EXCEPT ![f] = r]
        /\ Forget(f) /\ UNCHANGED <<running, cancelled>>
        /\ hurt' = hurt \/ hurt' = hurt \cup {f}
        /\ r = "error" => f \in hurt' \/ left[f] = 0 \/ cancelled
  BY DEF FeedArrives, FeedFails, FeedTimesOut, Return, Become
<1>2. /\ UNCHANGED <<due, host>> /\ request' = [request EXCEPT ![f] = "none"]
      /\ wait' = [wait EXCEPT ![f] = 0] /\ late' = late \ {f}
      /\ left' = [left EXCEPT ![f] = 0] /\ hops' = [hops EXCEPT ![f] = 0]
  BY <1>1 DEF Forget, Leave
<1>3. /\ result \in [Sources -> {"none", "pending", "busy", "items", "error"}]
      /\ left \in [Feeds -> 0..Timeout] /\ hops \in [Feeds -> 0..MaxHops]
      /\ wait \in [Feeds -> Nat] /\ request \in [Feeds -> {"none", "waiting", "sent"}]
      /\ f \in Sources
  BY DEF CollectInv, RequestsAreBusy, ShapeOK, ThrottleTypeOK
<1>4. result'[f] = r /\ \A g \in Feeds : g # f =>
        /\ result'[g] = result[g] /\ left'[g] = left[g] /\ hops'[g] = hops[g]
        /\ wait'[g] = wait[g] /\ request'[g] = request[g]
  BY <1>1, <1>2, <1>3
<1>5. Claimed \subseteq Claimed'
  <2> SUFFICES ASSUME NEW c \in Claimed PROVE c \in Claimed'
    OBVIOUS
  <2>1. c \in Turns /\ c[1] \in Feeds
    BY DEF Claimed, Turns
  <2>2. CASE c[1] = f
    BY <1>4, <2>1, <2>2 DEF Claimed, Turns
  <2>3. CASE c[1] # f
    BY <1>4, <2>1, <2>3 DEF Claimed, Turns
  <2> QED BY <2>2, <2>3
<1>6. HealthyIsCollected'
  <2>1. f \notin hurt => left[f] # 0
    BY <1>1, OnTimeHasTime DEF OnTime, CollectInv, SlotsInv
  <2>2. r = "error" => f \in hurt' \/ cancelled'
    BY <1>1, <2>1
  <2>3. \A g \in Feeds : g # f => (result'[g] = "error" => g \in hurt' \/ cancelled')
    BY <1>1, <1>4 DEF CollectInv, SlotsInv, HealthyIsCollected
  <2> QED BY <1>4, <2>2, <2>3 DEF HealthyIsCollected
<1>7. \A g \in Feeds : result'[g] = "busy" =>
        /\ result[g] = "busy" /\ request'[g] # "none" /\ (g \in hurt => g \in hurt')
        /\ wait'[g] = wait[g] /\ left'[g] = left[g] /\ (g \in late' => g \in late)
  BY <1>1, <1>2, <1>4 DEF CollectInv, SlotsInv
<1> QED BY <1>1, <1>2, <1>5, <1>6, <1>7, OtherFeedsKeep DEF SlotsFit

(* Time passes: who waits for his slot comes nearer to it, and who has     *)
(* missed it or waits for his host is hurt.                                *)
LEMMA TickKeeps == CollectInv /\ SlotsFit /\ Tick => SlotsInv'
<1> SUFFICES ASSUME CollectInv, SlotsFit, Tick PROVE SlotsInv'
  OBVIOUS
<1> USE ThrottleAssumption, CollectAssumption
<1>1. /\ UNCHANGED <<request, host, running, cancelled, result, hops>>
      /\ due' = [h \in Hosts |-> Less(due[h])] /\ wait' = [f \in Feeds |-> Less(wait[f])]
      /\ late' = late \cup {f \in Feeds : request[f] = "waiting" /\ wait[f] = 0}
      /\ left' = [f \in Feeds |-> Less(left[f])]
      /\ hurt' = hurt \cup {f \in Feeds : request[f] = "sent" \/ f \in late'}
  BY DEF Tick, PassTime, collection
<1>2. /\ due \in [Hosts -> Nat] /\ host \in [Feeds -> Hosts] /\ wait \in [Feeds -> Nat]
      /\ left \in [Feeds -> 0..Timeout]
      /\ request \in [Feeds -> {"none", "waiting", "sent"}]
  BY DEF CollectInv, ThrottleTypeOK, ShapeOK
<1>3. Claimed' = Claimed /\ Budget' = Budget /\ Budget \in Nat
  BY <1>1, BudgetType DEF Claimed, Budget, SlotsFit, Turns
<1>4. \A f \in Feeds : result'[f] = "busy" => running' /\ request'[f] # "none"
  BY <1>1 DEF CollectInv, SlotsInv
<1>5. running' => \A h \in Hosts : due'[h] <= Budget'
  <2>1. \A h \in Hosts : due'[h] <= due[h] /\ due'[h] \in Nat /\ due[h] \in Nat
    BY <1>1, <1>2 DEF Less
  <2> QED BY <1>1, <1>3, <2>1 DEF CollectInv, SlotsInv
<1>6. ASSUME NEW f \in OnTime' PROVE WaitsForSlots(f)'
  <2>1. f \in Feeds /\ f \in OnTime /\ request[f] # "sent" /\ f \notin late'
    BY <1>1, <1>6 DEF OnTime
  <2>2. WaitsForSlots(f) /\ request[f] = "waiting"
    BY <1>2, <2>1 DEF OnTime, CollectInv, SlotsInv
  <2>3. /\ wait[f] # 0 /\ wait[f] \in Nat /\ host[f] \in Hosts /\ due[host[f]] \in Nat
        /\ left[f] \in 0..Timeout
    BY <1>1, <1>2, <2>1, <2>2
  <2>4. wait[f] + Interval <= due[host[f]] /\ \A h \in Hosts : Waited(f) + due[h] <= Budget
    BY <2>2 DEF WaitsForSlots
  <2>5. wait'[f] = wait[f] - 1 /\ due'[host[f]] = due[host[f]] - 1
    BY <1>1, <2>1, <2>3, <2>4 DEF Less
  <2>6. Waited(f) \in Nat /\ Waited(f)' \in Nat /\ Waited(f)' <= Waited(f) + 1
    BY <1>1, <2>1, <2>3 DEF Waited, Less
  <2>7. Waited(f) + 1 <= Budget
    BY <1>3, <2>3, <2>4, <2>6
  <2>8. ASSUME NEW h \in Hosts PROVE Waited(f)' + due'[h] <= Budget'
    <3>1. due[h] \in Nat /\ Waited(f) + due[h] <= Budget
          /\ due'[h] = IF due[h] = 0 THEN 0 ELSE due[h] - 1
      BY <1>1, <1>2, <2>4 DEF Less
    <3> QED BY <1>3, <2>6, <2>7, <3>1
  <2>9. wait'[f] + Interval <= due'[host'[f]]
    BY <1>1, <2>3, <2>4, <2>5
  <2> QED BY <2>1, <2>8, <2>9 DEF WaitsForSlots
<1>7. HealthyIsCollected'
  BY <1>1 DEF CollectInv, SlotsInv, HealthyIsCollected
<1> QED BY <1>4, <1>5, <1>6, <1>7 DEF SlotsInv

(* A step of the sidecar, the mailbox or the run that leaves the feeds.    *)
LEMMA ElsewhereKeeps ==
  ASSUME CollectInv, SlotsFit, UNCHANGED <<throttleVars, hops, left, hurt, running>>,
         \A f \in Feeds : result'[f] = result[f], cancelled => cancelled'
  PROVE  SlotsInv'
<1>1. Claimed \subseteq Claimed'
  <2>1. \A c \in Claimed : c \in Turns /\ c[1] \in Feeds
    BY DEF Claimed, Turns
  <2> QED BY <2>1 DEF Claimed, Turns
<1>2. HealthyIsCollected'
  BY DEF CollectInv, SlotsInv, HealthyIsCollected
<1> QED BY <1>1, <1>2, OtherFeedsKeep DEF throttleVars, CollectInv, SlotsInv, SlotsFit

LEMMA RunKeeps ==
  ASSUME CollectInv, SlotsFit, StartRun \/ FinishRun
  PROVE  SlotsInv'
<1>1. \A f \in Feeds : result'[f] \in {"none", "pending"}
  BY SourceFacts DEF StartRun, FinishRun
<1>2. OnTime' = {} /\ HealthyIsCollected'
  BY <1>1 DEF OnTime, HealthyIsCollected
<1>3. running' => \A h \in Hosts : due'[h] = 0
  BY DEF StartRun, FinishRun, NewClient
<1>4. Budget' \in Nat
  BY BudgetType DEF SlotsFit
<1> QED BY <1>1, <1>2, <1>3, <1>4 DEF SlotsInv

LEMMA SlotsStep == CollectInv /\ SlotsFit /\ [Next]_vars => SlotsInv'
<1> SUFFICES ASSUME CollectInv, SlotsFit, [Next]_vars PROVE SlotsInv'
  OBVIOUS
<1>1. ASSUME NEW f \in Feeds, Feed(f) PROVE SlotsInv'
  <2>1. CASE SendFeed(f)
    <3>1. /\ UNCHANGED <<hops, left, hurt, running, result, cancelled, due, host, wait, late>>
          /\ request' = [request EXCEPT ![f] = "sent"]
      BY <2>1 DEF SendFeed, Send, collection, calls
    <3>2. Claimed' = Claimed
      BY <3>1 DEF Claimed, Turns
    <3>3. HealthyIsCollected'
      BY <3>1 DEF CollectInv, SlotsInv, HealthyIsCollected
    <3>4. \A g \in Feeds : result'[g] = "busy" => request'[g] # "none"
      BY <3>1 DEF CollectInv, SlotsInv, ThrottleTypeOK
    <3> QED BY <3>1, <3>2, <3>3, <3>4, OtherFeedsKeep DEF SlotsFit
  <2> QED BY <1>1, <2>1, GetFeedKeeps, RedirectKeeps, EndKeeps DEF Feed
<1>2. ASSUME NEW b \in Browsers, Browser(b) PROVE SlotsInv'
  <2>1. /\ UNCHANGED <<throttleVars, hops, left, hurt, running, cancelled>>
        /\ \E r \in {"busy", "items", "error"} : result' = [result EXCEPT ![b] = r]
    BY <1>2 DEF Browser, PostFetch, Unreachable, FetchReturns, FetchTimesOut, Become, Return,
                unthrottled
  <2>2. \A f \in Feeds : result'[f] = result[f]
    BY <2>1, SourceFacts DEF CollectInv, RequestsAreBusy
  <2> QED BY <2>1, <2>2, ElsewhereKeeps
<1>3. CASE Connect \/ MailboxReturns("items") \/ MailboxReturns("error")
  <2>1. /\ UNCHANGED <<throttleVars, hops, left, hurt, running, cancelled>>
        /\ \E r \in {"busy", "items", "error"} : result' = [result EXCEPT ![Letters] = r]
    BY <1>3 DEF Connect, MailboxReturns, Become, Return, calls
  <2>2. \A f \in Feeds : result'[f] = result[f]
    BY <2>1, SourceFacts DEF CollectInv, RequestsAreBusy
  <2> QED BY <2>1, <2>2, ElsewhereKeeps
<1>4. ASSUME NEW j \in Jobs, SidecarAlone(Serve(j) \/ Stall(j)) \/ Discard(j) PROVE SlotsInv'
  BY <1>4, ElsewhereKeeps DEF SidecarAlone, Discard, collection, calls
<1>5. CASE SidecarAlone(BrowserDies \/ Restart) \/ Cancel \/ MailChanges \/ UNCHANGED vars
  BY <1>5, ElsewhereKeeps DEF SidecarAlone, Cancel, MailChanges, collection, calls, vars
<1> QED BY <1>1, <1>2, <1>3, <1>4, <1>5, TickKeeps, RunKeeps DEF Next

LEMMA SlotsInit == Init => SlotsInv
<1> SUFFICES ASSUME Init PROVE SlotsInv
  OBVIOUS
<1>1. ~running /\ \A f \in Feeds : result[f] = "none"
  BY SourceFacts DEF Init
<1> QED BY <1>1 DEF SlotsInv, OnTime, HealthyIsCollected

(* A feed fails only when its own host was at fault or the run was         *)
(* cancelled, however many others wait for the same host, if the requests  *)
(* all feeds may make in a run fit into the deadline of one.  (In less     *)
(* time, as in the instance TLC checks, it takes the limit on sources at   *)
(* once to keep the queue for a host short enough.)                        *)
THEOREM HealthyIsCollectedHolds ==
  ASSUME SlotsFit
  PROVE  Spec => []HealthyIsCollected
<1>1. Spec => []ThrottleTypeOK
  BY CollectUsesThrottle, ThrottleTypeCorrect, PTL
<1>2. Spec => [](ShapeOK /\ RequestsAreBusy)
  BY ShapeInit, ShapeStep, BusyInit, BusyStep, PTL DEF Spec
<1>3. ThrottleTypeOK /\ ShapeOK /\ RequestsAreBusy /\ SlotsInv /\ [Next]_vars => SlotsInv'
  BY SlotsStep DEF CollectInv
<1>4. Spec => []SlotsInv
  BY <1>1, <1>2, <1>3, SlotsInit, PTL DEF Spec
<1>5. SlotsInv => HealthyIsCollected
  BY DEF SlotsInv
<1> QED BY <1>4, <1>5, PTL
-----------------------------------------------------------------------------
(* However many feeds share a host: the group takes a few at a time.       *)

Taken == {f \in Feeds : result[f] = "busy"}

(* Two slots for each place of the group: the one its feed waits for, and  *)
(* the one a feed before it has left behind.                               *)
Longest == Interval * (2 * Parallel)

(* The deadline of a request exceeds the wait for all it may claim.        *)
GroupFits ==
  /\ IsFiniteSet(Feeds) /\ IsFiniteSet(Browsers)
  /\ (MaxHops + 1) * Longest < Timeout

(* How far ahead the slot of a feed lies, of those under way and of those  *)
(* that are gone: their slots remain.                                      *)
Slot(gone, f) == IF result[f] = "busy" THEN wait[f] ELSE gone[f]

Ahead(gone, x) == {f \in Feeds : gone[f] >= x}
Long(x) == {f \in Taken : Longest < Waited(f) + x}

(* What lies before the next free slot of a host is slots of feeds.        *)
SlotsHeld(gone) ==
  \A h \in Hosts, k \in Nat \ {0} :
    due[h] > Interval * k
      => \E f \in Feeds : host[f] = h /\ Slot(gone, f) = due[h] - Interval * k

(* A feed that left a slot behind had used up its deadline: before its     *)
(* place in the group is left that way again, the slot has passed.         *)
FewBehind(gone) ==
  \A x \in 1..Longest : Cardinality(Ahead(gone, x)) + Cardinality(Long(x)) <= Parallel

Queue(gone) ==
  /\ \A f \in Feeds : gone[f] # 0 => result[f] = "error"
  /\ SlotsHeld(gone) /\ FewBehind(gone)
  /\ \A f \in Taken : wait[f] <= Longest
  /\ \A f \in OnTime : f \notin late /\ Waited(f) + wait[f] <= (hops[f] + 1) * Longest

GroupInv ==
  /\ Cardinality(Taken) <= Parallel
  /\ \A f \in Feeds : /\ result[f] = "busy" => running /\ request[f] # "none"
                      /\ request[f] = "sent" => wait[f] = 0
  /\ running /\ ~cancelled => \E gone \in [Feeds -> 0..Longest] : Queue(gone)
  /\ HealthyIsCollected

GroupTyped == ThrottleTypeOK /\ ShapeOK /\ RequestsAreBusy

LEMMA TimesStrict ==
  ASSUME NEW n \in Nat \ {0}, NEW a \in Nat, NEW b \in Nat, a < b
  PROVE  n * a < n * b
<1>1. n * (a + 1) <= n * b
  BY TimesMonotone
<1>2. n * (a + 1) = n * a + n /\ n * a \in Nat /\ n * b \in Nat
  OBVIOUS
<1> QED BY <1>1, <1>2

LEMMA LongestType ==
  ASSUME GroupFits
  PROVE  Longest \in Nat /\ Longest < Timeout /\ Parallel \in Nat \ {0} /\ Timeout \in Nat
<1>1. /\ Interval \in Nat /\ Parallel \in Nat \ {0} /\ Timeout \in Nat /\ MaxHops \in Nat
  BY ThrottleAssumption, CollectAssumption
<1>2. Longest \in Nat
  BY <1>1 DEF Longest
<1>3. (MaxHops + 1) * Longest = Longest * MaxHops + Longest /\ Longest * MaxHops \in Nat
  BY <1>1, <1>2
<1> QED BY <1>1, <1>2, <1>3 DEF GroupFits

LEMMA SomeFeeds ==
  ASSUME GroupFits, NEW S \in SUBSET Feeds, NEW T \in SUBSET S
  PROVE  /\ IsFiniteSet(S) /\ Cardinality(S) \in Nat /\ Cardinality(T) \in Nat
         /\ Cardinality(T) <= Cardinality(S)
<1>1. IsFiniteSet(S)
  BY FS_Subset DEF GroupFits
<1>2. IsFiniteSet(T) /\ Cardinality(T) <= Cardinality(S)
  BY <1>1, FS_Subset
<1> QED BY <1>1, <1>2, FS_CardinalityType

(* The next free slot of a host is not far, for a feed that is given one.  *)
LEMMA SlotIsNear ==
  ASSUME GroupFits, GroupTyped, Interval # 0, NEW gone \in [Feeds -> 0..Longest], Queue(gone),
         NEW f \in Feeds, Slot(gone, f) = 0, Cardinality(Taken \ {f}) < Parallel,
         NEW h \in Hosts
  PROVE  due[h] <= Longest
<1> DEFINE before == {g \in Feeds : host[g] = h /\ Slot(gone, g) # 0}
           rest == (Taken \ {f}) \cup Ahead(gone, 1)
           P == 2 * Parallel
<1>1. /\ Interval \in Nat \ {0} /\ Parallel \in Nat \ {0} /\ Longest \in Nat /\ due[h] \in Nat
      /\ P \in Nat \ {0} /\ Longest = Interval * P
  BY LongestType, ThrottleAssumption DEF GroupTyped, ThrottleTypeOK, Longest
<1>2. IsFiniteSet(before) /\ Cardinality(before) < P
  <2>1. before \subseteq rest
    BY DEF Ahead, Taken, Slot
  <2>2. 1 \in 1..Longest
    BY <1>1
  <2>3. Cardinality(Ahead(gone, 1)) + Cardinality(Long(1)) <= Parallel
    BY <2>2 DEF Queue, FewBehind
  <2>4. IsFiniteSet(Ahead(gone, 1)) /\ Cardinality(Ahead(gone, 1)) \in Nat
    BY SomeFeeds DEF Ahead
  <2>5. Cardinality(Long(1)) \in Nat
    BY SomeFeeds DEF Long, Taken
  <2>6. IsFiniteSet(Taken \ {f}) /\ Cardinality(Taken \ {f}) \in Nat
    BY SomeFeeds DEF Taken
  <2>7. /\ IsFiniteSet(rest) /\ Cardinality((Taken \ {f}) \cap Ahead(gone, 1)) \in Nat
        /\ Cardinality(rest) = Cardinality(Taken \ {f}) + Cardinality(Ahead(gone, 1))
                               - Cardinality((Taken \ {f}) \cap Ahead(gone, 1))
    BY <2>4, <2>6, FS_Union, FS_Intersection, FS_CardinalityType
  <2>8. IsFiniteSet(before) /\ Cardinality(before) <= Cardinality(rest)
        /\ Cardinality(before) \in Nat
    BY <2>1, <2>7, FS_Subset, FS_CardinalityType
  <2> HIDE DEF before, rest
  <2> QED BY <1>1, <2>3, <2>4, <2>5, <2>6, <2>7, <2>8
<1> SUFFICES ASSUME ~(due[h] <= Longest) PROVE FALSE
  OBVIOUS
<1>3. ASSUME NEW k \in 1..P
      PROVE  Interval * k \in Nat /\ Interval * k < due[h] /\ k \in Nat \ {0}
  <2>1. Interval * k <= Interval * P
    BY <1>1, TimesMonotone
  <2> QED BY <1>1, <2>1
<1>4. \A k \in 1..P : \E g \in before : Slot(gone, g) = due[h] - Interval * k
  <2> SUFFICES ASSUME NEW k \in 1..P PROVE \E g \in before : Slot(gone, g) = due[h] - Interval * k
    OBVIOUS
  <2>1. PICK g \in Feeds : host[g] = h /\ Slot(gone, g) = due[h] - Interval * k
    BY <1>3 DEF Queue, SlotsHeld
  <2>2. Slot(gone, g) # 0
    BY <1>1, <1>3, <2>1
  <2> QED BY <2>1, <2>2
<1> DEFINE holder == [k \in 1..P |-> CHOOSE g \in before : Slot(gone, g) = due[h] - Interval * k]
<1>5. holder \in [1..P -> before]
      /\ \A k \in 1..P : Slot(gone, holder[k]) = due[h] - Interval * k
  BY <1>4
<1>6. \A j, k \in 1..P : holder[j] = holder[k] => j = k
  <2> SUFFICES ASSUME NEW j \in 1..P, NEW k \in 1..P, holder[j] = holder[k], j # k PROVE FALSE
    OBVIOUS
  <2>1. Interval * j = Interval * k
    <3>1. due[h] - Interval * j = due[h] - Interval * k
      BY <1>5
    <3> QED BY <1>1, <1>3, <3>1
  <2>2. j < k \/ k < j
    BY <1>3
  <2> QED BY <1>1, <1>3, <2>1, <2>2, TimesStrict
<1> HIDE DEF holder, before, P
<1>7. holder \in Injection(1..P, before)
  BY <1>5, <1>6 DEF Injection, IsInjective
<1>8. Cardinality(1..P) <= Cardinality(before)
  BY <1>2, <1>7, FS_Injection
<1>9. Cardinality(1..P) = P
  BY <1>1, FS_Interval
<1> QED BY <1>1, <1>2, <1>8, <1>9, FS_CardinalityType

(* A feed claims a slot: a place of the group has a claim at a time.       *)
LEMMA ClaimQueues ==
  ASSUME GroupFits, GroupTyped, Interval # 0, NEW gone \in [Feeds -> 0..Longest], Queue(gone),
         NEW f \in Feeds, NEW h \in Hosts, Reserve(f, h),
         Slot(gone, f) = 0, gone[f] = 0, Cardinality(Taken \ {f}) < Parallel,
         result'[f] = "busy", left'[f] \in 0..Timeout, hops'[f] \in 0..MaxHops,
         \A g \in Feeds : g # f =>
           /\ result'[g] = result[g] /\ left'[g] = left[g] /\ hops'[g] = hops[g]
           /\ g \in hurt <=> g \in hurt',
         Waited(f)' = 0 \/ (f \in Taken /\ Waited(f)' = Waited(f)),
         f \in OnTime' => Waited(f)' <= hops'[f] * Longest
  PROVE  Queue(gone)' /\ Cardinality(Taken') <= Parallel
<1>1. /\ Interval \in Nat \ {0} /\ Longest \in Nat /\ Timeout \in Nat /\ MaxHops \in Nat
      /\ due[h] \in Nat /\ Parallel \in Nat
  BY LongestType, ThrottleAssumption, CollectAssumption DEF GroupTyped, ThrottleTypeOK
<1>2. /\ due' = [due EXCEPT ![h] = due[h] + Interval]
      /\ host' = [host EXCEPT ![f] = h] /\ wait' = [wait EXCEPT ![f] = due[h]]
      /\ late' = late \ {f}
  BY DEF Reserve
<1>3. /\ due \in [Hosts -> Nat] /\ host \in [Feeds -> Hosts] /\ wait \in [Feeds -> Nat]
  BY DEF GroupTyped, ThrottleTypeOK
<1>4. due[h] <= Longest
  BY SlotIsNear
<1>5. /\ wait'[f] = due[h] /\ host'[f] = h /\ due'[h] = due[h] + Interval /\ f \notin late'
      /\ \A g \in Feeds : g # f => wait'[g] = wait[g] /\ host'[g] = host[g]
      /\ \A k \in Hosts : k # h => due'[k] = due[k]
  BY <1>2, <1>3
<1>6. /\ Slot(gone, f)' = due[h]
      /\ \A g \in Feeds : g # f => Slot(gone, g)' = Slot(gone, g)
  BY <1>5 DEF Slot
<1>7. SlotsHeld(gone)'
  <2> SUFFICES ASSUME NEW i \in Hosts, NEW k \in Nat \ {0}, due'[i] > Interval * k
               PROVE  \E g \in Feeds : host'[g] = i /\ Slot(gone, g)' = due'[i] - Interval * k
    BY DEF SlotsHeld
  <2>1. CASE i # h
    <3>1. PICK g \in Feeds : host[g] = i /\ Slot(gone, g) = due[i] - Interval * k
      BY <1>5, <2>1 DEF Queue, SlotsHeld
    <3>2. g # f
      BY <1>1, <1>3, <1>5, <2>1, <3>1
    <3> QED BY <1>5, <1>6, <2>1, <3>1, <3>2
  <2>2. CASE i = h /\ k = 1
    BY <1>1, <1>5, <1>6, <2>2
  <2>3. CASE i = h /\ k # 1
    <3>1. k - 1 \in Nat \ {0} /\ Interval * k = Interval * (k - 1) + Interval
          /\ Interval * (k - 1) \in Nat
      BY <1>1, <2>3
    <3>2. due[h] > Interval * (k - 1)
      BY <1>1, <1>5, <2>3, <3>1
    <3>3. PICK g \in Feeds : host[g] = h /\ Slot(gone, g) = due[h] - Interval * (k - 1)
      BY <3>1, <3>2 DEF Queue, SlotsHeld
    <3>4. g # f
      BY <1>1, <3>1, <3>2, <3>3
    <3>5. Slot(gone, g)' = due'[h] - Interval * k
      BY <1>1, <1>5, <1>6, <3>1, <3>3, <3>4
    <3> QED BY <1>5, <2>3, <3>3, <3>4, <3>5
  <2> QED BY <2>1, <2>2, <2>3
<1>8. FewBehind(gone)'
  <2> SUFFICES ASSUME NEW x \in 1..Longest
               PROVE  Cardinality(Ahead(gone, x)) + Cardinality(Long(x)') <= Parallel
    BY DEF FewBehind, Ahead, Longest
  <2>1. \A g \in Taken' : g # f => g \in Taken /\ Waited(g)' = Waited(g)
    BY DEF Taken, Waited
  <2>2. f \in Long(x)' => f \in Long(x)
    BY <1>1 DEF Long, Longest
  <2>3. Long(x)' \subseteq Long(x)
    BY <2>1, <2>2 DEF Long, Longest
  <2>4. Cardinality(Long(x)') <= Cardinality(Long(x)) /\ Cardinality(Long(x)) \in Nat
        /\ Cardinality(Long(x)') \in Nat
    BY <2>3, SomeFeeds DEF Long, Taken
  <2>5. Cardinality(Ahead(gone, x)) \in Nat
    BY SomeFeeds DEF Ahead
  <2> QED BY <1>1, <2>4, <2>5 DEF Queue, FewBehind
<1>9. \A g \in Taken' : wait'[g] <= Longest
  BY <1>4, <1>5 DEF Taken, Queue
<1>10. ASSUME NEW g \in OnTime'
       PROVE  g \notin late' /\ Waited(g)' + wait'[g] <= (hops'[g] + 1) * Longest
  <2>1. CASE g = f
    <3>1. (hops'[f] + 1) * Longest = hops'[f] * Longest + Longest /\ hops'[f] * Longest \in Nat
      BY <1>1
    <3>2. Waited(f)' \in Nat
      BY <1>1 DEF Waited
    <3> QED BY <1>1, <1>4, <1>5, <1>10, <2>1, <3>1, <3>2
  <2>2. CASE g # f
    BY <1>2, <1>5, <1>10, <2>2 DEF OnTime, Waited, Queue
  <2> QED BY <2>1, <2>2
<1>11. \A g \in Feeds : gone[g] # 0 => result'[g] = "error"
  BY DEF Queue
<1>12. Cardinality(Taken') <= Parallel
  <2>1. Taken' = (Taken \ {f}) \cup {f}
    BY DEF Taken
  <2>2. IsFiniteSet(Taken \ {f}) /\ Cardinality(Taken \ {f}) \in Nat
    BY SomeFeeds DEF Taken
  <2>3. Cardinality(Taken') = Cardinality(Taken \ {f}) + 1
    BY <2>1, <2>2, FS_AddElement
  <2> QED BY <1>1, <2>2, <2>3
<1> QED BY <1>7, <1>8, <1>9, <1>10, <1>11, <1>12 DEF Queue, Longest

(* A step that claims nothing and takes no time.  What a feed leaves       *)
(* behind, next, is the slot it waited for.                                *)
LEMMA OthersQueue ==
  ASSUME GroupFits, GroupTyped, NEW gone \in [Feeds -> 0..Longest], Queue(gone),
         NEW next \in [Feeds -> 0..Longest], UNCHANGED <<due, host>>,
         \A f \in Feeds : Slot(next, f)' = Slot(gone, f),
         \A f \in Feeds : next[f] # 0 => result'[f] = "error",
         \A f \in Feeds : result'[f] = "busy" =>
           /\ result[f] = "busy" /\ wait'[f] = wait[f] /\ left'[f] = left[f]
           /\ hops'[f] = hops[f] /\ (f \in hurt => f \in hurt') /\ (f \in late' => f \in late),
         \A x \in 1..Longest : Cardinality(Ahead(next, x)) + Cardinality(Long(x)') <= Parallel
  PROVE  Queue(next)'
<1>1. SlotsHeld(next)'
  <2> SUFFICES ASSUME NEW h \in Hosts, NEW k \in Nat \ {0}, due'[h] > Interval * k
               PROVE  \E f \in Feeds : host'[f] = h /\ Slot(next, f)' = due'[h] - Interval * k
    BY DEF SlotsHeld
  <2> QED BY DEF Queue, SlotsHeld
<1>2. FewBehind(next)'
  BY DEF FewBehind, Ahead, Longest
<1>3. \A f \in Taken' : wait'[f] <= Longest
  BY DEF Taken, Queue
<1>4. \A f \in OnTime' : f \notin late' /\ Waited(f)' + wait'[f] <= (hops'[f] + 1) * Longest
  BY DEF OnTime, Waited, Queue
<1> QED BY <1>1, <1>2, <1>3, <1>4 DEF Queue, Longest

(* No feed has been long in the group that was not before.                 *)
LEMMA NoneLonger ==
  ASSUME GroupFits, NEW gone \in [Feeds -> 0..Longest], Queue(gone), NEW x \in 1..Longest,
         Long(x)' \subseteq Long(x)
  PROVE  Cardinality(Ahead(gone, x)) + Cardinality(Long(x)') <= Parallel
<1>1. Cardinality(Long(x)') <= Cardinality(Long(x)) /\ Cardinality(Long(x)) \in Nat
      /\ Cardinality(Long(x)') \in Nat
  BY SomeFeeds DEF Long, Taken
<1>2. Cardinality(Ahead(gone, x)) \in Nat
  BY SomeFeeds DEF Ahead
<1>3. Cardinality(Ahead(gone, x)) + Cardinality(Long(x)) <= Parallel
  BY DEF Queue, FewBehind
<1> QED BY <1>1, <1>2, <1>3, LongestType

LEMMA TakenFew ==
  ASSUME GroupFits, Taken' \subseteq Taken, Cardinality(Taken) <= Parallel
  PROVE  Cardinality(Taken') <= Parallel
<1>1. Cardinality(Taken') <= Cardinality(Taken) /\ Cardinality(Taken) \in Nat
      /\ Cardinality(Taken') \in Nat
  BY SomeFeeds DEF Taken
<1> QED BY <1>1, LongestType

LEMMA GetFeedQueues ==
  ASSUME GroupFits, GroupTyped, Interval # 0, GroupInv, NEW f \in Feeds, GetFeed(f)
  PROVE  GroupInv'
<1> USE CollectAssumption, SourceFacts
<1>1. /\ running /\ result[f] = "pending" /\ result' = [result EXCEPT ![f] = "busy"]
      /\ Cardinality({o \in Sources : result[o] = "busy"}) < Parallel
      /\ Reserve(f, HostOf[f]) /\ HostOf[f] \in Hosts
      /\ left' = [left EXCEPT ![f] = Timeout] /\ hops' = [hops EXCEPT ![f] = 0]
      /\ hurt' = hurt \ {f} /\ running' = running /\ cancelled' = cancelled
  BY DEF GetFeed, Begin, Become
<1>2. /\ result \in [Sources -> {"none", "pending", "busy", "items", "error"}]
      /\ left \in [Feeds -> 0..Timeout] /\ hops \in [Feeds -> 0..MaxHops]
      /\ wait \in [Feeds -> Nat] /\ request \in [Feeds -> {"none", "waiting", "sent"}]
      /\ f \in Sources
  BY DEF GroupTyped, RequestsAreBusy, ShapeOK, ThrottleTypeOK
<1>3. /\ result'[f] = "busy" /\ left'[f] = Timeout /\ hops'[f] = 0
      /\ \A g \in Feeds : g # f =>
           /\ result'[g] = result[g] /\ left'[g] = left[g] /\ hops'[g] = hops[g]
           /\ g \in hurt <=> g \in hurt'
  BY <1>1, <1>2
<1>4. Cardinality(Taken \ {f}) < Parallel
  <2>1. IsFiniteSet(Sources)
    <3>1. IsFiniteSet(Feeds \cup Browsers) /\ IsFiniteSet({Letters})
      BY FS_Union, FS_Singleton DEF GroupFits
    <3> QED BY <3>1, FS_Union DEF Sources
  <2>2. /\ IsFiniteSet({o \in Sources : result[o] = "busy"})
        /\ Cardinality({o \in Sources : result[o] = "busy"}) \in Nat
    BY <2>1, FS_Subset, FS_CardinalityType
  <2>3. Taken \ {f} \in SUBSET {o \in Sources : result[o] = "busy"}
    BY DEF Taken
  <2>4. Cardinality(Taken \ {f}) <= Cardinality({o \in Sources : result[o] = "busy"})
    BY <2>2, <2>3, FS_Subset
  <2>5. Cardinality(Taken \ {f}) \in Nat
    BY SomeFeeds DEF Taken
  <2> QED BY <1>1, <2>2, <2>4, <2>5
<1>5. ASSUME NEW gone \in [Feeds -> 0..Longest], Queue(gone)
      PROVE  Queue(gone)' /\ Cardinality(Taken') <= Parallel
  <2>1. gone[f] = 0 /\ Slot(gone, f) = 0
    BY <1>1, <1>5 DEF Queue, Slot
  <2>2. Waited(f)' = 0
    BY <1>3 DEF Waited
  <2>3. Waited(f)' <= hops'[f] * Longest
    BY <1>3, <2>2, LongestType
  <2>4. left'[f] \in 0..Timeout /\ hops'[f] \in 0..MaxHops
    BY <1>3
  <2>5. PICK h \in Hosts : Reserve(f, h)
    BY <1>1
  <2>6. /\ result'[f] = "busy"
        /\ \A g \in Feeds : g # f =>
             /\ result'[g] = result[g] /\ left'[g] = left[g] /\ hops'[g] = hops[g]
             /\ g \in hurt <=> g \in hurt'
    BY <1>3
  <2>7. Waited(f)' = 0 \/ (f \in Taken /\ Waited(f)' = Waited(f))
    BY <2>2
  <2>8. f \in OnTime' => Waited(f)' <= hops'[f] * Longest
    BY <2>3
  <2> QED BY <1>4, <1>5, <2>1, <2>4, <2>5, <2>6, <2>7, <2>8, ClaimQueues
<1>6. running' /\ ~cancelled' => \E gone \in [Feeds -> 0..Longest'] : Queue(gone)'
  BY <1>1, <1>5 DEF GroupInv, Longest
<1>7. Cardinality(Taken') <= Parallel
  <2>1. Taken' = (Taken \ {f}) \cup {f}
    BY <1>3 DEF Taken
  <2>2. IsFiniteSet(Taken \ {f}) /\ Cardinality(Taken \ {f}) \in Nat
    BY SomeFeeds DEF Taken
  <2>3. Cardinality(Taken') = Cardinality(Taken \ {f}) + 1
    BY <2>1, <2>2, FS_AddElement
  <2> QED BY <1>4, <2>2, <2>3
<1>8. /\ request' = [request EXCEPT ![f] = "waiting"]
      /\ \A g \in Feeds : g # f => wait'[g] = wait[g]
  BY <1>1, <1>2 DEF Reserve
<1>9. \A g \in Feeds : /\ result'[g] = "busy" => running' /\ request'[g] # "none"
                       /\ request'[g] = "sent" => wait'[g] = 0
  BY <1>1, <1>2, <1>3, <1>8 DEF GroupInv
<1>10. HealthyIsCollected'
  BY <1>1, <1>3 DEF GroupInv, HealthyIsCollected
<1> QED BY <1>6, <1>7, <1>9, <1>10 DEF GroupInv

LEMMA RedirectQueues ==
  ASSUME GroupFits, GroupTyped, Interval # 0, GroupInv, NEW f \in Feeds, NEW h \in Hosts,
         Redirect(f, h)
  PROVE  GroupInv'
<1> USE CollectAssumption, SourceFacts
<1>1. /\ request[f] = "sent" /\ hops[f] < MaxHops /\ result' = result /\ Reserve(f, h)
      /\ hops' = [hops EXCEPT ![f] = hops[f] + 1]
      /\ UNCHANGED <<running, cancelled, left, hurt>>
  BY DEF Redirect, collection
<1>2. /\ left \in [Feeds -> 0..Timeout] /\ hops \in [Feeds -> 0..MaxHops]
      /\ wait \in [Feeds -> Nat] /\ request \in [Feeds -> {"none", "waiting", "sent"}]
  BY DEF GroupTyped, ShapeOK, ThrottleTypeOK
<1>3. result[f] = "busy" /\ wait[f] = 0
  BY <1>1 DEF GroupTyped, RequestsAreBusy, GroupInv
<1>4. hops'[f] = hops[f] + 1 /\ hops[f] \in 0..MaxHops
      /\ \A g \in Feeds : g # f => hops'[g] = hops[g]
  BY <1>1, <1>2
<1>5. Cardinality(Taken \ {f}) < Parallel
  <2>1. IsFiniteSet(Taken) /\ Cardinality(Taken) \in Nat
    BY SomeFeeds DEF Taken
  <2>2. Cardinality(Taken \ {f}) = Cardinality(Taken) - 1
    BY <1>3, <2>1, FS_RemoveElement DEF Taken
  <2> QED BY <2>1, <2>2 DEF GroupInv
<1>6. ASSUME NEW gone \in [Feeds -> 0..Longest], Queue(gone)
      PROVE  Queue(gone)'
  <2>1. gone[f] = 0 /\ Slot(gone, f) = 0
    BY <1>3, <1>6 DEF Queue, Slot
  <2>2. f \in Taken /\ Waited(f)' = Waited(f)
    BY <1>1, <1>3 DEF Taken, Waited
  <2>3. f \in OnTime' => Waited(f)' <= hops'[f] * Longest
    <3>1. f \in OnTime' => Waited(f) + wait[f] <= (hops[f] + 1) * Longest
      BY <1>1, <1>6 DEF OnTime, Queue
    <3>2. Waited(f) \in Nat
      BY <1>2 DEF Waited
    <3> QED BY <1>3, <1>4, <2>2, <3>1, <3>2
  <2>4. left'[f] \in 0..Timeout /\ hops'[f] \in 0..MaxHops
    BY <1>1, <1>2, <1>4
  <2>5. /\ result'[f] = "busy"
        /\ \A g \in Feeds : g # f =>
             /\ result'[g] = result[g] /\ left'[g] = left[g] /\ hops'[g] = hops[g]
             /\ g \in hurt <=> g \in hurt'
    BY <1>1, <1>3, <1>4
  <2> QED BY <1>1, <1>5, <1>6, <2>1, <2>2, <2>3, <2>4, <2>5, ClaimQueues
<1>7. running' /\ ~cancelled' => \E gone \in [Feeds -> 0..Longest'] : Queue(gone)'
  BY <1>1, <1>6 DEF GroupInv, Longest
<1>8. Cardinality(Taken') <= Parallel
  BY <1>1, TakenFew DEF Taken, GroupInv
<1>9. /\ request' = [request EXCEPT ![f] = "waiting"]
      /\ \A g \in Feeds : g # f => wait'[g] = wait[g]
  BY <1>1, <1>2 DEF Reserve
<1>10. \A g \in Feeds : /\ result'[g] = "busy" => running' /\ request'[g] # "none"
                        /\ request'[g] = "sent" => wait'[g] = 0
  BY <1>1, <1>2, <1>9 DEF GroupInv
<1>11. HealthyIsCollected'
  BY <1>1 DEF GroupInv, HealthyIsCollected
<1> QED BY <1>7, <1>8, <1>10, <1>11 DEF GroupInv

(* A feed returns.  The one whose deadline has passed leaves the slot it   *)
(* waited for, and no place of the group it has used for less than that.   *)
LEMMA EndQueues ==
  ASSUME GroupFits, GroupTyped, GroupInv, NEW f \in Feeds,
         FeedArrives(f) \/ FeedFails(f) \/ FeedTimesOut(f)
  PROVE  GroupInv'
<1> USE CollectAssumption, SourceFacts
<1>1. PICK r \in {"items", "error"} :
        /\ result[f] = "busy" /\ result' = [result EXCEPT ![f] = r]
        /\ Forget(f) /\ UNCHANGED <<running, cancelled>>
        /\ hurt' = hurt \/ hurt' = hurt \cup {f}
        /\ r = "error" => f \in hurt' \/ left[f] = 0 \/ cancelled
        /\ request[f] # "sent" => r = "error" /\ (left[f] = 0 \/ cancelled)
  BY DEF FeedArrives, FeedFails, FeedTimesOut, Return, Become
<1>2. /\ UNCHANGED <<due, host>> /\ request' = [request EXCEPT ![f] = "none"]
      /\ wait' = [wait EXCEPT ![f] = 0] /\ late' = late \ {f}
      /\ left' = [left EXCEPT ![f] = 0] /\ hops' = [hops EXCEPT ![f] = 0]
  BY <1>1 DEF Forget, Leave
<1>3. /\ result \in [Sources -> {"none", "pending", "busy", "items", "error"}]
      /\ left \in [Feeds -> 0..Timeout] /\ hops \in [Feeds -> 0..MaxHops]
      /\ wait \in [Feeds -> Nat] /\ request \in [Feeds -> {"none", "waiting", "sent"}]
      /\ f \in Sources
  BY DEF GroupTyped, RequestsAreBusy, ShapeOK, ThrottleTypeOK
<1>4. result'[f] = r /\ \A g \in Feeds : g # f =>
        /\ result'[g] = result[g] /\ left'[g] = left[g] /\ hops'[g] = hops[g]
        /\ wait'[g] = wait[g] /\ request'[g] = request[g]
  BY <1>1, <1>2, <1>3
<1>5. ASSUME NEW gone \in [Feeds -> 0..Longest], Queue(gone), ~cancelled
      PROVE  \E next \in [Feeds -> 0..Longest] : Queue(next)'
  <2>0. Longest \in Nat /\ Longest < Timeout /\ Parallel \in Nat /\ Timeout \in Nat
    BY LongestType
  <2>1. PICK n \in 0..Longest : n = wait[f]
    BY <1>1, <1>3, <1>5, <2>0 DEF Queue, Taken
  <2>2. n # 0 => r = "error" /\ left[f] = 0
    BY <1>1, <1>5, <2>1 DEF GroupInv
  <2>3. gone[f] = 0
    BY <1>1, <1>5 DEF Queue
  <2> DEFINE next == [gone EXCEPT ![f] = n]
  <2>4. next \in [Feeds -> 0..Longest] /\ next[f] = n
        /\ \A g \in Feeds : g # f => next[g] = gone[g]
    OBVIOUS
  <2> HIDE DEF next
  <2>5. \A g \in Feeds : Slot(next, g)' = Slot(gone, g)
    BY <1>1, <1>4, <2>1, <2>4 DEF Slot
  <2>6. \A g \in Feeds : next[g] # 0 => result'[g] = "error"
    BY <1>4, <1>5, <2>2, <2>4 DEF Queue
  <2>7. ASSUME NEW x \in 1..Longest
        PROVE  Cardinality(Ahead(next, x)) + Cardinality(Long(x)') <= Parallel
    <3>1. Long(x)' \subseteq Long(x) \ {f}
      BY <1>4 DEF Long, Taken, Waited, Longest
    <3>2. /\ IsFiniteSet(Long(x)) /\ Cardinality(Long(x)) \in Nat
          /\ IsFiniteSet(Ahead(gone, x)) /\ Cardinality(Ahead(gone, x)) \in Nat
          /\ Cardinality(Long(x) \ {f}) \in Nat /\ Cardinality(Long(x)') \in Nat
          /\ Cardinality(Long(x)') <= Cardinality(Long(x) \ {f})
          /\ Cardinality(Long(x) \ {f}) <= Cardinality(Long(x))
      BY <3>1, SomeFeeds DEF Long, Taken, Ahead
    <3>3. Cardinality(Ahead(gone, x)) + Cardinality(Long(x)) <= Parallel
      BY <1>5 DEF Queue, FewBehind
    <3>4. CASE n >= x
      <4>1. f \in Long(x)
        BY <1>1, <2>0, <2>2, <3>4 DEF Long, Taken, Waited
      <4>2. Cardinality(Long(x) \ {f}) = Cardinality(Long(x)) - 1
        <5>1. IsFiniteSet(Long(x))
          BY <3>2
        <5> HIDE DEF Long
        <5>2. Cardinality(Long(x) \ {f})
                = IF f \in Long(x) THEN Cardinality(Long(x)) - 1 ELSE Cardinality(Long(x))
          BY <5>1, FS_RemoveElement
        <5> QED BY <4>1, <5>2
      <4>3. Ahead(next, x) = Ahead(gone, x) \cup {f} /\ f \notin Ahead(gone, x)
        BY <2>0, <2>3, <2>4, <3>4 DEF Ahead
      <4>4. Cardinality(Ahead(next, x)) = Cardinality(Ahead(gone, x)) + 1
        BY <3>2, <4>3, FS_AddElement
      <4> QED BY <2>0, <3>2, <3>3, <4>2, <4>4
    <3>5. CASE ~(n >= x)
      <4>1. Ahead(next, x) = Ahead(gone, x)
        BY <2>0, <2>3, <2>4, <3>5 DEF Ahead
      <4> QED BY <2>0, <3>2, <3>3, <4>1
    <3> QED BY <3>4, <3>5
  <2>8. \A g \in Feeds : result'[g] = "busy" =>
          /\ result[g] = "busy" /\ wait'[g] = wait[g] /\ left'[g] = left[g]
          /\ hops'[g] = hops[g] /\ (g \in hurt => g \in hurt') /\ (g \in late' => g \in late)
    BY <1>1, <1>2, <1>4
  <2>9. Queue(next)'
    BY <1>2, <1>5, <2>4, <2>5, <2>6, <2>7, <2>8, OthersQueue
  <2> QED BY <2>4, <2>9
<1>6. running' /\ ~cancelled' => \E gone \in [Feeds -> 0..Longest'] : Queue(gone)'
  BY <1>1, <1>5 DEF GroupInv, Longest
<1>7. Cardinality(Taken') <= Parallel
  <2>1. Taken' \subseteq Taken
    BY <1>1, <1>4 DEF Taken
  <2> QED BY <2>1, TakenFew DEF GroupInv
<1>8. \A g \in Feeds : /\ result'[g] = "busy" => running' /\ request'[g] # "none"
                       /\ request'[g] = "sent" => wait'[g] = 0
  BY <1>1, <1>2, <1>3, <1>4 DEF GroupInv
<1>9. HealthyIsCollected'
  <2>1. ASSUME f \notin hurt, ~cancelled PROVE left[f] # 0
    <3>1. PICK gone \in [Feeds -> 0..Longest] : Queue(gone)
      BY <1>1, <2>1 DEF GroupInv
    <3>2. Waited(f) + wait[f] <= (hops[f] + 1) * Longest
      BY <1>1, <2>1, <3>1 DEF Queue, OnTime
    <3>3. (hops[f] + 1) * Longest <= (MaxHops + 1) * Longest
      <4>1. Longest * (hops[f] + 1) <= Longest * (MaxHops + 1)
        BY <1>3, LongestType, TimesMonotone
      <4> QED BY <1>3, <4>1, LongestType
    <3>4. /\ (hops[f] + 1) * Longest \in Nat /\ (MaxHops + 1) * Longest \in Nat
          /\ wait[f] \in Nat /\ left[f] \in 0..Timeout
      BY <1>3, LongestType
    <3>5. (MaxHops + 1) * Longest < Timeout
      BY DEF GroupFits
    <3> QED BY <3>2, <3>3, <3>4, <3>5 DEF Waited
  <2>2. r = "error" => f \in hurt' \/ cancelled'
    BY <1>1, <2>1
  <2> QED BY <1>1, <1>4, <2>2 DEF GroupInv, HealthyIsCollected
<1> QED BY <1>6, <1>7, <1>8, <1>9 DEF GroupInv

(* Time passes: slots come nearer as feeds stay longer in the group.       *)
LEMMA TickQueues ==
  ASSUME GroupFits, GroupTyped, GroupInv, Tick
  PROVE  GroupInv'
<1> USE ThrottleAssumption, CollectAssumption
<1>1. /\ UNCHANGED <<request, host, running, cancelled, result, hops>>
      /\ due' = [h \in Hosts |-> Less(due[h])] /\ wait' = [f \in Feeds |-> Less(wait[f])]
      /\ late' = late \cup {f \in Feeds : request[f] = "waiting" /\ wait[f] = 0}
      /\ left' = [f \in Feeds |-> Less(left[f])]
      /\ hurt' = hurt \cup {f \in Feeds : request[f] = "sent" \/ f \in late'}
  BY DEF Tick, PassTime, collection
<1>2. /\ due \in [Hosts -> Nat] /\ host \in [Feeds -> Hosts] /\ wait \in [Feeds -> Nat]
      /\ left \in [Feeds -> 0..Timeout] /\ hops \in [Feeds -> 0..MaxHops]
      /\ request \in [Feeds -> {"none", "waiting", "sent"}]
  BY DEF GroupTyped, ThrottleTypeOK, ShapeOK
<1>3. Longest \in Nat /\ Parallel \in Nat /\ Timeout \in Nat /\ MaxHops \in Nat
      /\ Interval \in Nat
  BY LongestType
<1>4. ASSUME NEW gone \in [Feeds -> 0..Longest], Queue(gone)
      PROVE  \E next \in [Feeds -> 0..Longest] : Queue(next)'
  <2> DEFINE next == [f \in Feeds |-> Less(gone[f])]
  <2>1. next \in [Feeds -> 0..Longest] /\ \A f \in Feeds : next[f] = Less(gone[f])
    BY <1>3 DEF Less
  <2> HIDE DEF next
  <2>2. \A f \in Feeds : Slot(next, f)' = Less(Slot(gone, f)) /\ Slot(gone, f) \in Nat
    BY <1>1, <1>2, <1>3, <2>1 DEF Slot
  <2>3. \A f \in Feeds : next[f] # 0 => result'[f] = "error"
    BY <1>1, <1>4, <2>1 DEF Less, Queue
  <2>4. SlotsHeld(next)'
    <3> SUFFICES ASSUME NEW h \in Hosts, NEW k \in Nat \ {0}, due'[h] > Interval * k
                 PROVE  \E f \in Feeds :
                          host'[f] = h /\ Slot(next, f)' = due'[h] - Interval * k
      BY DEF SlotsHeld
    <3>1. due[h] \in Nat /\ due'[h] = Less(due[h]) /\ Interval * k \in Nat
      BY <1>1, <1>2, <1>3
    <3>2. due'[h] = due[h] - 1 /\ due[h] > Interval * k + 1
      BY <3>1 DEF Less
    <3>3. PICK f \in Feeds : host[f] = h /\ Slot(gone, f) = due[h] - Interval * k
      BY <1>4, <3>1, <3>2 DEF Queue, SlotsHeld
    <3>4. Slot(next, f)' = Slot(gone, f) - 1
      BY <2>2, <3>1, <3>2, <3>3 DEF Less
    <3> QED BY <1>1, <3>1, <3>2, <3>3, <3>4
  <2>5. FewBehind(next)'
    <3> SUFFICES ASSUME NEW x \in 1..Longest
                 PROVE  Cardinality(Ahead(next, x)) + Cardinality(Long(x)') <= Parallel
      BY DEF FewBehind, Ahead, Longest
    <3>1. \A f \in Feeds : gone[f] \in 0..Longest
      OBVIOUS
    <3>2. Ahead(next, x) = Ahead(gone, x + 1)
      BY <1>3, <2>1, <3>1 DEF Ahead, Less
    <3>3. Taken' = Taken /\ \A f \in Feeds : Waited(f)' <= Waited(f) + 1
                                             /\ Waited(f)' \in Nat /\ Waited(f) \in Nat
      BY <1>1, <1>2, <1>3 DEF Taken, Waited, Less
    <3>4. Long(x)' \subseteq Long(x + 1)
      BY <1>3, <3>3 DEF Long, Taken, Longest
    <3>5. /\ Cardinality(Long(x)') <= Cardinality(Long(x + 1))
          /\ Cardinality(Long(x)') \in Nat /\ Cardinality(Long(x + 1)) \in Nat
      BY <3>4, SomeFeeds DEF Long, Taken
    <3>6. Cardinality(Ahead(gone, x + 1)) \in Nat
      BY SomeFeeds DEF Ahead
    <3>7. CASE x < Longest
      <4>1. x + 1 \in 1..Longest
        BY <1>3, <3>7
      <4>2. Cardinality(Ahead(gone, x + 1)) + Cardinality(Long(x + 1)) <= Parallel
        BY <1>4, <4>1 DEF Queue, FewBehind
      <4> QED BY <1>3, <3>2, <3>5, <3>6, <4>2
    <3>8. CASE ~(x < Longest)
      <4>1. Ahead(gone, x + 1) = {}
        BY <1>3, <3>1, <3>8 DEF Ahead
      <4>2. Cardinality(Long(x)') <= Cardinality(Taken) /\ Cardinality(Taken) \in Nat
        BY <3>3, SomeFeeds DEF Long, Taken
      <4>3. Cardinality(Ahead(next, x)) = 0
        BY <3>2, <4>1, FS_EmptySet
      <4>4. Cardinality(Taken) <= Parallel
        BY DEF GroupInv
      <4> QED BY <1>3, <3>5, <4>2, <4>3, <4>4
    <3> QED BY <3>7, <3>8
  <2>6. \A f \in Taken' : wait'[f] <= Longest
    BY <1>1, <1>2, <1>3, <1>4 DEF Taken, Queue, Less
  <2>7. ASSUME NEW f \in OnTime'
        PROVE  f \notin late' /\ Waited(f)' + wait'[f] <= (hops'[f] + 1) * Longest
    <3>1. f \in Feeds /\ f \in OnTime /\ request[f] # "sent" /\ f \notin late'
      BY <1>1, <2>7 DEF OnTime
    <3>2. request[f] = "waiting"
      BY <1>2, <3>1 DEF OnTime, GroupInv
    <3>3. wait[f] # 0 /\ wait[f] \in Nat /\ left[f] \in 0..Timeout
      BY <1>1, <1>2, <3>1, <3>2
    <3>4. wait'[f] = wait[f] - 1
      BY <1>1, <3>1, <3>3 DEF Less
    <3>5. Waited(f)' <= Waited(f) + 1 /\ Waited(f)' \in Nat /\ Waited(f) \in Nat
      BY <1>1, <1>3, <3>1, <3>3 DEF Waited, Less
    <3>6. Waited(f) + wait[f] <= (hops[f] + 1) * Longest /\ hops'[f] = hops[f]
      BY <1>1, <1>4, <3>1 DEF Queue
    <3>7. (hops[f] + 1) * Longest \in Nat
      BY <1>2, <1>3, <3>1
    <3> QED BY <3>1, <3>3, <3>4, <3>5, <3>6, <3>7
  <2>8. Queue(next)'
    BY <2>3, <2>4, <2>5, <2>6, <2>7 DEF Queue, Longest
  <2> QED BY <2>1, <2>8
<1>5. running' /\ ~cancelled' => \E gone \in [Feeds -> 0..Longest'] : Queue(gone)'
  BY <1>1, <1>4 DEF GroupInv, Longest
<1>6. Cardinality(Taken') <= Parallel
  BY <1>1, TakenFew DEF Taken, GroupInv
<1>7. \A f \in Feeds : /\ result'[f] = "busy" => running' /\ request'[f] # "none"
                       /\ request'[f] = "sent" => wait'[f] = 0
  BY <1>1, <1>2 DEF GroupInv, Less
<1>8. HealthyIsCollected'
  BY <1>1 DEF GroupInv, HealthyIsCollected
<1> QED BY <1>5, <1>6, <1>7, <1>8 DEF GroupInv

(* A step that leaves the feeds as they are, but that one may send.        *)
LEMMA ElsewhereQueues ==
  ASSUME GroupFits, GroupTyped, GroupInv,
         UNCHANGED <<due, host, wait, late, hops, left, hurt, running>>,
         \A f \in Feeds : /\ result'[f] = result[f]
                          /\ \/ request'[f] = request[f]
                             \/ wait[f] = 0 /\ request'[f] # "none",
         cancelled => cancelled'
  PROVE  GroupInv'
<1>1. Taken' = Taken
  BY DEF Taken
<1>2. ASSUME NEW gone \in [Feeds -> 0..Longest], Queue(gone) PROVE Queue(gone)'
  <2>1. \A f \in Feeds : Slot(gone, f)' = Slot(gone, f)
    BY DEF Slot
  <2>2. \A f \in Feeds : gone[f] # 0 => result'[f] = "error"
    BY <1>2 DEF Queue
  <2>3. ASSUME NEW x \in 1..Longest
        PROVE  Cardinality(Ahead(gone, x)) + Cardinality(Long(x)') <= Parallel
    <3>1. Long(x)' \subseteq Long(x)
      BY <1>1 DEF Long, Taken, Waited, Longest
    <3> QED BY <1>2, <3>1, NoneLonger
  <2> QED BY <1>2, <2>1, <2>2, <2>3, OthersQueue
<1>3. running' /\ ~cancelled' => \E gone \in [Feeds -> 0..Longest'] : Queue(gone)'
  BY <1>2 DEF GroupInv, Longest
<1>4. Cardinality(Taken') <= Parallel
  BY <1>1 DEF GroupInv
<1>5. \A f \in Feeds : /\ result'[f] = "busy" => running' /\ request'[f] # "none"
                       /\ request'[f] = "sent" => wait'[f] = 0
  BY DEF GroupInv
<1>6. HealthyIsCollected'
  BY DEF GroupInv, HealthyIsCollected
<1> QED BY <1>3, <1>4, <1>5, <1>6 DEF GroupInv

(* A collection begins with no request and no slot, or ends.               *)
LEMMA RunQueues ==
  ASSUME GroupFits, GroupTyped, GroupInv, StartRun \/ FinishRun
  PROVE  GroupInv'
<1>1. \A f \in Feeds : result'[f] \in {"none", "pending"}
  BY SourceFacts DEF StartRun, FinishRun
<1>2. Taken' = {} /\ OnTime' = {} /\ HealthyIsCollected'
  BY <1>1 DEF Taken, OnTime, HealthyIsCollected
<1>3. UNCHANGED <<request, wait>>
  BY DEF StartRun, FinishRun, NewClient, throttleVars
<1>4. ASSUME running' PROVE \E gone \in [Feeds -> 0..Longest] : Queue(gone)'
  <2>1. \A h \in Hosts : due'[h] = 0
    BY <1>4 DEF StartRun, FinishRun, NewClient
  <2>2. Longest \in Nat /\ Parallel \in Nat /\ Interval \in Nat
    BY LongestType, ThrottleAssumption
  <2> DEFINE gone == [f \in Feeds |-> 0]
  <2>3. gone \in [Feeds -> 0..Longest] /\ \A f \in Feeds : gone[f] = 0
    BY <2>2
  <2> HIDE DEF gone
  <2>4. SlotsHeld(gone)'
    <3> SUFFICES ASSUME NEW h \in Hosts, NEW k \in Nat \ {0}, due'[h] > Interval * k
                 PROVE  FALSE
      BY DEF SlotsHeld
    <3>1. Interval * k \in Nat
      BY <2>2
    <3> QED BY <2>1, <3>1
  <2>5. FewBehind(gone)'
    <3> SUFFICES ASSUME NEW x \in 1..Longest
                 PROVE  Cardinality(Ahead(gone, x)) + Cardinality(Long(x)') <= Parallel
      BY DEF FewBehind, Ahead, Longest
    <3>1. Ahead(gone, x) = {} /\ Long(x)' = {}
      BY <1>2, <2>3 DEF Ahead, Long
    <3> QED BY <2>2, <3>1, FS_EmptySet
  <2>6. Queue(gone)'
    BY <1>2, <2>3, <2>4, <2>5 DEF Queue
  <2> QED BY <2>3, <2>6
<1>5. running' /\ ~cancelled' => \E gone \in [Feeds -> 0..Longest'] : Queue(gone)'
  BY <1>4 DEF Longest
<1>6. Cardinality(Taken') <= Parallel
  BY <1>2, FS_EmptySet, LongestType
<1>7. \A f \in Feeds : /\ result'[f] = "busy" => running' /\ request'[f] # "none"
                       /\ request'[f] = "sent" => wait'[f] = 0
  BY <1>1, <1>3 DEF GroupInv
<1> QED BY <1>2, <1>5, <1>6, <1>7 DEF GroupInv

LEMMA GroupStep ==
  ASSUME GroupFits, Interval # 0, GroupTyped, GroupInv, [Next]_vars
  PROVE  GroupInv'
<1>0. /\ result \in [Sources -> {"none", "pending", "busy", "items", "error"}]
      /\ request \in [Feeds -> {"none", "waiting", "sent"}]
  BY DEF GroupTyped, RequestsAreBusy
<1>1. ASSUME NEW f \in Feeds, Feed(f) PROVE GroupInv'
  <2>1. CASE SendFeed(f)
    <3>1. /\ UNCHANGED <<hops, left, hurt, running, result, cancelled, due, host, wait, late>>
          /\ request' = [request EXCEPT ![f] = "sent"] /\ wait[f] = 0
      BY <2>1 DEF SendFeed, Send, collection, calls
    <3>2. \A g \in Feeds : request'[g] = request[g] \/ (wait[g] = 0 /\ request'[g] # "none")
      BY <1>0, <3>1
    <3> QED BY <3>1, <3>2, ElsewhereQueues
  <2> QED BY <1>1, <2>1, GetFeedQueues, RedirectQueues, EndQueues DEF Feed
<1>2. ASSUME UNCHANGED <<throttleVars, hops, left, hurt, running>>,
             \A f \in Feeds : result'[f] = result[f], cancelled => cancelled'
      PROVE  GroupInv'
  BY <1>2, ElsewhereQueues DEF throttleVars
<1>3. ASSUME NEW b \in Browsers, Browser(b) PROVE GroupInv'
  <2>1. /\ UNCHANGED <<throttleVars, hops, left, hurt, running, cancelled>>
        /\ \E r \in {"busy", "items", "error"} : result' = [result EXCEPT ![b] = r]
    BY <1>3 DEF Browser, PostFetch, Unreachable, FetchReturns, FetchTimesOut, Become, Return,
                unthrottled
  <2>2. \A f \in Feeds : result'[f] = result[f]
    BY <1>0, <2>1, SourceFacts
  <2> QED BY <1>2, <2>1, <2>2
<1>4. CASE Connect \/ MailboxReturns("items") \/ MailboxReturns("error")
  <2>1. /\ UNCHANGED <<throttleVars, hops, left, hurt, running, cancelled>>
        /\ \E r \in {"busy", "items", "error"} : result' = [result EXCEPT ![Letters] = r]
    BY <1>4 DEF Connect, MailboxReturns, Become, Return, calls
  <2>2. \A f \in Feeds : result'[f] = result[f]
    BY <1>0, <2>1, SourceFacts
  <2> QED BY <1>2, <2>1, <2>2
<1>5. ASSUME NEW j \in Jobs, SidecarAlone(Serve(j) \/ Stall(j)) \/ Discard(j) PROVE GroupInv'
  BY <1>2, <1>5 DEF SidecarAlone, Discard, collection, calls
<1>6. CASE SidecarAlone(BrowserDies \/ Restart) \/ Cancel \/ MailChanges \/ UNCHANGED vars
  BY <1>2, <1>6 DEF SidecarAlone, Cancel, MailChanges, collection, calls, vars
<1> QED BY <1>1, <1>3, <1>4, <1>5, <1>6, TickQueues, RunQueues DEF Next

LEMMA GroupInit ==
  ASSUME GroupFits, Init
  PROVE  GroupInv
<1>1. ~running /\ \A f \in Feeds : result[f] = "none" /\ request[f] = "none"
  BY SourceFacts DEF Init, ThrottleInit
<1>2. Taken = {}
  BY <1>1 DEF Taken
<1>3. Cardinality(Taken) <= Parallel
  BY <1>2, FS_EmptySet, LongestType
<1> QED BY <1>1, <1>3 DEF GroupInv, HealthyIsCollected

LEMMA GroupHolds ==
  ASSUME GroupFits, Interval # 0
  PROVE  Spec => []HealthyIsCollected
<1>1. Spec => []GroupTyped
  <2>1. Spec => []ThrottleTypeOK
    BY CollectUsesThrottle, ThrottleTypeCorrect, PTL
  <2>2. Spec => [](ShapeOK /\ RequestsAreBusy)
    BY ShapeInit, ShapeStep, BusyInit, BusyStep, PTL DEF Spec
  <2>3. ThrottleTypeOK /\ ShapeOK /\ RequestsAreBusy => GroupTyped
    BY DEF GroupTyped
  <2> QED BY <2>1, <2>2, <2>3, PTL
<1>2. GroupTyped /\ GroupInv /\ [Next]_vars => GroupInv'
  BY GroupStep
<1>3. Init => GroupInv
  BY GroupInit
<1>4. GroupInv => HealthyIsCollected
  BY DEF GroupInv
<1> QED BY <1>1, <1>2, <1>3, <1>4, PTL DEF Spec

(* The same when the deadline covers, for each request a feed may make,    *)
(* two intervals for every place of the group: however many feeds share a  *)
(* host.  With the values of the code, four places, one second and thirty, *)
(* that allows a feed two redirects.                                       *)
THEOREM HealthyAmongMany ==
  ASSUME GroupFits
  PROVE  Spec => []HealthyIsCollected
<1>1. CASE Interval = 0
  <2>1. /\ Timeout \in Nat /\ MaxHops \in Nat /\ Longest \in Nat /\ Longest < Timeout
        /\ Cardinality(Feeds) \in Nat
    BY CollectAssumption, LongestType, FS_CardinalityType DEF GroupFits
  <2>2. Interval * (Cardinality(Feeds) * (MaxHops + 1) - 1) < Timeout
    <3>1. Cardinality(Feeds) * (MaxHops + 1) - 1 \in Int
      BY <2>1
    <3> QED BY <1>1, <2>1, <3>1
  <2> QED BY <2>2, HealthyIsCollectedHolds DEF GroupFits, SlotsFit
<1>2. CASE Interval # 0
  BY <1>2, GroupHolds
<1> QED BY <1>1, <1>2
=============================================================================
