--------------------------- MODULE SidecarProofs ---------------------------
(***************************************************************************)
(* The page permits of the sidecar, for any number of requests and any     *)
(* limit: type correctness, PermitsAccounted and NoIdlePermit of Sidecar.  *)
(* The two need each other: a permit is handed over to a request that      *)
(* holds none because exactly the queued requests wait.                    *)
(***************************************************************************)
EXTENDS Sidecar, FiniteSetTheorems, TLAPS

SidecarInv == SidecarTypeOK /\ PermitsAccounted /\ NoIdlePermit

LEMMA HoldingFinite == IsFiniteSet(Holding) /\ Cardinality(Holding) \in Nat
<1>1. Holding \subseteq Jobs
  BY DEF Holding
<1> QED BY <1>1, SidecarAssumption, FS_Subset, FS_CardinalityType

LEMMA SidecarInvInit == SidecarInit => SidecarInv
<1> SUFFICES ASSUME SidecarInit PROVE SidecarInv
  OBVIOUS
<1>1. SidecarTypeOK
  BY SidecarAssumption DEF SidecarInit, SidecarTypeOK, Stages
<1>2. Holding = {}
  BY DEF SidecarInit, Holding, Paged
<1>3. PermitsAccounted
  BY <1>2, FS_EmptySet, SidecarAssumption DEF SidecarInit, PermitsAccounted
<1>4. NoIdlePermit
  BY DEF SidecarInit, NoIdlePermit
<1> QED BY <1>1, <1>3, <1>4 DEF SidecarInv

-----------------------------------------------------------------------------
(* What a step does to the number of permits held.                         *)

LEMMA HoldingSame ==
  ASSUME SidecarTypeOK, NEW j \in Jobs, NEW to \in Stages,
         stage' = [stage EXCEPT ![j] = to],
         (stage[j] \in Paged \cup {"opening", "stalled", "closing"})
           <=> (to \in Paged \cup {"opening", "stalled", "closing"})
  PROVE  Holding' = Holding
BY DEF SidecarTypeOK, Holding

LEMMA HoldingTakes ==
  ASSUME SidecarTypeOK, NEW j \in Jobs, stage[j] \in {"checking", "queued"},
         stage' = [stage EXCEPT ![j] = "opening"]
  PROVE  Cardinality(Holding)' = Cardinality(Holding) + 1
<1>1. j \notin Holding /\ Holding' = Holding \cup {j}
  BY DEF SidecarTypeOK, Holding, Paged
<1> QED BY <1>1, HoldingFinite, FS_AddElement

LEMMA HoldingGives ==
  ASSUME SidecarTypeOK, NEW j \in Jobs, stage[j] \in {"opening", "closing"},
         stage' = [stage EXCEPT ![j] = "answered"]
  PROVE  Cardinality(Holding)' = Cardinality(Holding) - 1
<1>1. j \in Holding /\ Holding' = Holding \ {j}
  BY DEF SidecarTypeOK, Holding, Paged
<1> QED BY <1>1, HoldingFinite, FS_RemoveElement

-----------------------------------------------------------------------------
(* A request moves between stages that neither hold a permit nor wait, or  *)
(* between stages that hold one.                                           *)
LEMMA MoveKeeps ==
  ASSUME SidecarInv, NEW j \in Jobs, NEW to \in Stages \ {"queued"},
         stage[j] # "queued",
         stage' = [stage EXCEPT ![j] = to],
         (stage[j] \in Paged \cup {"opening", "stalled", "closing"})
           <=> (to \in Paged \cup {"opening", "stalled", "closing"}),
         verdict' \in [Jobs -> {"none", "feed", "error"}],
         UNCHANGED <<permits, connected>>
  PROVE  SidecarInv'
<1> USE DEF SidecarInv
<1>1. /\ available' = available /\ waiters' = waiters /\ lost' = lost
      /\ connected' = connected
  BY DEF permits
<1>2. SidecarTypeOK'
  BY <1>1 DEF SidecarTypeOK
<1>3. PermitsAccounted'
  BY <1>1, HoldingSame DEF PermitsAccounted
<1>4. NoIdlePermit'
  BY <1>1 DEF NoIdlePermit, SidecarTypeOK
<1> QED BY <1>2, <1>3, <1>4

LEMMA AcquireKeeps ==
  ASSUME SidecarInv, NEW j \in Jobs, Acquire(j)
  PROVE  SidecarInv'
<1> USE DEF SidecarInv
<1>0. /\ lost' = lost /\ verdict' = verdict /\ connected' = connected
      /\ stage[j] = "checking"
  BY DEF Acquire, Move
<1>1. CASE available > 0
  <2>1. /\ available' = available - 1 /\ waiters' = waiters /\ waiters = <<>>
        /\ stage' = [stage EXCEPT ![j] = "opening"]
    BY <1>1 DEF Acquire, Move, NoIdlePermit, SidecarTypeOK
  <2>2. SidecarTypeOK'
    BY <1>0, <1>1, <2>1 DEF SidecarTypeOK, Stages
  <2>3. PermitsAccounted'
    <3>1. Cardinality(Holding)' = Cardinality(Holding) + 1
      BY <1>0, <2>1, HoldingTakes
    <3> QED BY <1>0, <2>1, <3>1, HoldingFinite DEF PermitsAccounted, SidecarTypeOK
  <2>4. NoIdlePermit'
    BY <1>0, <2>1 DEF NoIdlePermit, SidecarTypeOK
  <2> QED BY <2>2, <2>3, <2>4
<1>2. CASE ~(available > 0)
  <2>1. /\ available = 0 /\ available' = available /\ waiters' = Append(waiters, j)
        /\ stage' = [stage EXCEPT ![j] = "queued"]
    BY <1>2 DEF Acquire, Move, SidecarTypeOK
  <2>2. SidecarTypeOK'
    BY <1>0, <2>1 DEF SidecarTypeOK, Stages
  <2>3. PermitsAccounted'
    <3>1. Holding' = Holding
      BY <1>0, <2>1, HoldingSame DEF Paged, Stages
    <3> QED BY <1>0, <2>1, <3>1 DEF PermitsAccounted
  <2>4. NoIdlePermit'
    <3>1. /\ Len(waiters') = Len(waiters) + 1 /\ waiters'[Len(waiters) + 1] = j
          /\ \A i \in 1..Len(waiters) : waiters'[i] = waiters[i]
          /\ DOMAIN waiters' = 1..(Len(waiters) + 1)
          /\ DOMAIN waiters = 1..Len(waiters) /\ Len(waiters) \in Nat
      BY <2>1 DEF SidecarTypeOK
    <3>2. \A i \in 1..Len(waiters) : waiters[i] # j
      BY <1>0, <3>1 DEF NoIdlePermit
    <3>3. \A k \in Jobs : stage'[k] = "queued" <=> \E i \in DOMAIN waiters' : waiters'[i] = k
      <4> SUFFICES ASSUME NEW k \in Jobs
                   PROVE  stage'[k] = "queued" <=> \E i \in DOMAIN waiters' : waiters'[i] = k
        OBVIOUS
      <4>1. CASE k = j
        BY <2>1, <3>1, <4>1 DEF SidecarTypeOK
      <4>2. CASE k # j
        <5>1. stage'[k] = stage[k]
          BY <2>1, <4>2 DEF SidecarTypeOK
        <5>2. (\E i \in DOMAIN waiters' : waiters'[i] = k) <=> (\E i \in DOMAIN waiters : waiters[i] = k)
          BY <3>1, <4>2
        <5> QED BY <5>1, <5>2 DEF NoIdlePermit
      <4> QED BY <4>1, <4>2
    <3>4. \A i, k \in DOMAIN waiters' : waiters'[i] = waiters'[k] => i = k
      BY <3>1, <3>2 DEF NoIdlePermit
    <3> QED BY <2>1, <3>3, <3>4 DEF NoIdlePermit
  <2> QED BY <2>2, <2>3, <2>4
<1> QED BY <1>1, <1>2

(* The permit is lost with the request that fails.                         *)
LEMMA LosingKeeps ==
  ASSUME SidecarInv, NEW j \in Jobs, OpenFails(j) \/ CloseFails(j)
  PROVE  SidecarInv'
<1> USE DEF SidecarInv
<1>1. /\ stage[j] \in {"opening", "closing"}
      /\ stage' = [stage EXCEPT ![j] = "answered"]
      /\ verdict' = [verdict EXCEPT ![j] = "error"]
      /\ lost' = lost + 1 /\ available' = available /\ waiters' = waiters
      /\ connected' = connected
  BY DEF OpenFails, CloseFails, Move, Answer
<1>2. SidecarTypeOK'
  BY <1>1 DEF SidecarTypeOK, Stages
<1>3. PermitsAccounted'
  <2>1. Cardinality(Holding)' = Cardinality(Holding) - 1
    BY <1>1, HoldingGives
  <2> QED BY <1>1, <2>1, HoldingFinite DEF PermitsAccounted, SidecarTypeOK
<1>4. NoIdlePermit'
  BY <1>1 DEF NoIdlePermit, SidecarTypeOK
<1> QED BY <1>2, <1>3, <1>4

LEMMA CloseKeeps ==
  ASSUME SidecarInv, NEW j \in Jobs, Close(j)
  PROVE  SidecarInv'
<1> USE DEF SidecarInv
<1>0. /\ lost' = lost /\ verdict' = verdict /\ connected' = connected
      /\ stage[j] = "closing"
  BY DEF Close
<1>1. CASE waiters = <<>>
  <2>1. /\ available' = available + 1 /\ waiters' = waiters
        /\ stage' = [stage EXCEPT ![j] = "answered"]
    BY <1>1 DEF Close
  <2>2. SidecarTypeOK'
    BY <1>0, <2>1 DEF SidecarTypeOK, Stages
  <2>3. PermitsAccounted'
    <3>1. Cardinality(Holding)' = Cardinality(Holding) - 1
      BY <1>0, <2>1, HoldingGives
    <3> QED BY <1>0, <2>1, <3>1, HoldingFinite DEF PermitsAccounted, SidecarTypeOK
  <2>4. NoIdlePermit'
    BY <1>0, <1>1, <2>1 DEF NoIdlePermit, SidecarTypeOK
  <2> QED BY <2>2, <2>3, <2>4
<1>2. CASE waiters # <<>>
  <2> DEFINE next == waiters[1]
  <2>1. /\ available' = available /\ available = 0 /\ waiters' = Tail(waiters)
        /\ stage' = [stage EXCEPT ![j] = "answered", ![next] = "opening"]
    BY <1>2 DEF Close, NoIdlePermit
  <2>2. /\ Len(waiters) \in Nat \ {0} /\ DOMAIN waiters = 1..Len(waiters)
        /\ DOMAIN waiters' = 1..(Len(waiters) - 1)
        /\ \A i \in 1..(Len(waiters) - 1) : waiters'[i] = waiters[i + 1]
        /\ waiters' \in Seq(Jobs)
    BY <1>2, <2>1 DEF SidecarTypeOK
  <2>3. next \in Jobs /\ stage[next] = "queued" /\ next # j
    BY <1>0, <2>2 DEF NoIdlePermit, SidecarTypeOK
  <2>4. SidecarTypeOK'
    BY <1>0, <2>1, <2>2, <2>3 DEF SidecarTypeOK, Stages
  <2>5. Cardinality(Holding)' = Cardinality(Holding)
    <3>1. /\ j \in Holding /\ next \notin Holding
          /\ Holding' = (Holding \ {j}) \cup {next}
      BY <1>0, <2>1, <2>3 DEF SidecarTypeOK, Holding, Paged
    <3>2. IsFiniteSet(Holding \ {j}) /\ Cardinality(Holding \ {j}) = Cardinality(Holding) - 1
      BY <3>1, HoldingFinite, FS_RemoveElement
    <3>3. Cardinality((Holding \ {j}) \cup {next}) = Cardinality(Holding \ {j}) + 1
      BY <3>1, <3>2, FS_AddElement
    <3> QED BY <3>1, <3>2, <3>3, HoldingFinite
  <2>6. PermitsAccounted'
    BY <1>0, <2>1, <2>5 DEF PermitsAccounted
  <2>7. NoIdlePermit'
    <3>1. \A k \in Jobs : stage'[k] = "queued" <=> stage[k] = "queued" /\ k # next
      BY <1>0, <2>1, <2>3 DEF SidecarTypeOK
    <3>2. \A k \in Jobs : (\E i \in DOMAIN waiters' : waiters'[i] = k)
                            <=> (\E i \in DOMAIN waiters : waiters[i] = k) /\ k # next
      <4> SUFFICES ASSUME NEW k \in Jobs
                   PROVE  (\E i \in DOMAIN waiters' : waiters'[i] = k)
                            <=> (\E i \in DOMAIN waiters : waiters[i] = k) /\ k # next
        OBVIOUS
      <4>1. ASSUME NEW i \in DOMAIN waiters', waiters'[i] = k
            PROVE  (\E l \in DOMAIN waiters : waiters[l] = k) /\ k # next
        <5>1. i + 1 \in DOMAIN waiters /\ waiters[i + 1] = k /\ 1 \in DOMAIN waiters /\ i + 1 # 1
          BY <4>1, <2>2
        <5> QED BY <5>1 DEF NoIdlePermit
      <4>2. ASSUME NEW i \in DOMAIN waiters, waiters[i] = k, k # next
            PROVE  \E l \in DOMAIN waiters' : waiters'[l] = k
        <5>1. i - 1 \in DOMAIN waiters' /\ waiters'[i - 1] = waiters[i]
          BY <4>2, <2>2
        <5> QED BY <5>1, <4>2
      <4> QED BY <4>1, <4>2
    <3>3. ASSUME NEW i \in DOMAIN waiters', NEW k \in DOMAIN waiters',
                 waiters'[i] = waiters'[k]
          PROVE  i = k
      <4>1. /\ i \in Nat /\ k \in Nat
            /\ i + 1 \in DOMAIN waiters /\ k + 1 \in DOMAIN waiters
            /\ waiters[i + 1] = waiters[k + 1]
        BY <2>2, <3>3
      <4>2. i + 1 = k + 1
        <5>1. \A m, n \in DOMAIN waiters : waiters[m] = waiters[n] => m = n
          BY DEF NoIdlePermit
        <5> HIDE DEF SidecarInv
        <5> QED BY <4>1, <5>1, Zenon
      <4> QED BY <4>1, <4>2
    <3> HIDE DEF next
    <3> QED BY <2>1, <3>1, <3>2, <3>3 DEF NoIdlePermit
  <2> QED BY <2>4, <2>6, <2>7
<1> QED BY <1>1, <1>2

LEMMA RestartKeeps ==
  ASSUME SidecarInv, Restart
  PROVE  SidecarInv'
<1> USE DEF SidecarInv
<1>1. SidecarTypeOK'
  BY SidecarAssumption DEF Restart, SidecarTypeOK, Stages
<1>2. Holding' = {}
  BY DEF Restart, Holding, Paged, SidecarTypeOK
<1>3. PermitsAccounted'
  BY <1>2, FS_EmptySet, SidecarAssumption DEF Restart, PermitsAccounted
<1>4. NoIdlePermit'
  BY DEF Restart, NoIdlePermit, SidecarTypeOK
<1> QED BY <1>1, <1>3, <1>4

-----------------------------------------------------------------------------
LEMMA ServeKeeps ==
  ASSUME SidecarInv, NEW j \in Jobs, Serve(j)
  PROVE  SidecarInv'
<1>1. CASE Refuse(j)
  BY <1>1, MoveKeeps DEF Refuse, Move, Answer, Stages, Paged, SidecarInv, SidecarTypeOK
<1>2. CASE Acquire(j)
  BY <1>2, AcquireKeeps
<1>3. CASE OpenContext(j)
  BY <1>3, MoveKeeps DEF OpenContext, Move, Stages, Paged, SidecarInv, SidecarTypeOK
<1>4. CASE OpenFails(j) \/ CloseFails(j)
  BY <1>4, LosingKeeps
<1>5. CASE Navigate(j)
  BY <1>5, MoveKeeps DEF Navigate, Move, Stages, Paged, SidecarInv, SidecarTypeOK
<1>6. CASE ReadFeed(j)
  BY <1>6, MoveKeeps DEF ReadFeed, Move, Answer, Stages, Paged, SidecarInv, SidecarTypeOK
<1>7. CASE AwaitChallenge(j)
  BY <1>7, MoveKeeps DEF AwaitChallenge, Move, Stages, Paged, SidecarInv, SidecarTypeOK
<1>8. CASE ReadAgain(j)
  BY <1>8, MoveKeeps DEF ReadAgain, Move, Stages, Paged, SidecarInv, SidecarTypeOK
<1>9. CASE PageFails(j)
  BY <1>9, MoveKeeps DEF PageFails, Move, Answer, Stages, Paged, SidecarInv, SidecarTypeOK
<1>10. CASE Close(j)
  BY <1>10, CloseKeeps
<1> QED BY <1>1, <1>2, <1>3, <1>4, <1>5, <1>6, <1>7, <1>8, <1>9, <1>10 DEF Serve

LEMMA SidecarInvStep == SidecarInv /\ [SidecarNext]_sidecarVars => SidecarInv'
<1> SUFFICES ASSUME SidecarInv, [SidecarNext]_sidecarVars PROVE SidecarInv'
  OBVIOUS
<1>1. ASSUME NEW j \in Jobs, Arrive(j) PROVE SidecarInv'
  BY <1>1, MoveKeeps DEF Arrive, Move, Stages, Paged, SidecarInv, SidecarTypeOK
<1>2. ASSUME NEW j \in Jobs, Serve(j) PROVE SidecarInv'
  BY <1>2, ServeKeeps
<1>3. ASSUME NEW j \in Jobs, Stall(j) PROVE SidecarInv'
  BY <1>3, MoveKeeps DEF Stall, Move, Stages, Paged, SidecarInv, SidecarTypeOK
<1>4. ASSUME NEW j \in Jobs, Respond(j) PROVE SidecarInv'
  BY <1>4, MoveKeeps DEF Respond, Move, Answer, Stages, Paged, SidecarInv, SidecarTypeOK
<1>5. CASE BrowserDies
  <2>0. /\ stage' = [j \in Jobs |-> IF j \in Stalled THEN "closing" ELSE stage[j]]
        /\ verdict' = [j \in Jobs |-> IF j \in Stalled THEN "error" ELSE verdict[j]]
        /\ connected' = FALSE /\ UNCHANGED permits
    BY <1>5 DEF BrowserDies
  <2>1. Holding' = Holding
    BY <2>0 DEF Holding, Stalled, Paged
  <2>2. SidecarTypeOK'
    BY <2>0 DEF permits, SidecarInv, SidecarTypeOK, Stages
  <2>3. \A j \in Jobs : stage'[j] = "queued" <=> stage[j] = "queued"
    BY <2>0 DEF Stalled
  <2> QED BY <2>0, <2>1, <2>2, <2>3
       DEF permits, SidecarInv, PermitsAccounted, NoIdlePermit
<1>6. CASE Restart
  BY <1>6, RestartKeeps
<1>7. CASE UNCHANGED sidecarVars
  <2>1. Holding' = Holding
    BY <1>7 DEF sidecarVars, Holding
  <2> QED BY <1>7, <2>1
       DEF sidecarVars, SidecarInv, SidecarTypeOK, PermitsAccounted, NoIdlePermit
<1> QED BY <1>1, <1>2, <1>3, <1>4, <1>5, <1>6, <1>7 DEF SidecarNext

-----------------------------------------------------------------------------
(* The sidecar's state has its type: permits are never overdrawn.          *)
THEOREM SidecarTypeCorrect == SidecarSpec => []SidecarTypeOK
<1>1. SidecarInv => SidecarTypeOK
  BY DEF SidecarInv
<1> QED BY <1>1, SidecarInvInit, SidecarInvStep, PTL DEF SidecarSpec

(* Every permit is available, held by one request or lost, at any limit.   *)
THEOREM PermitsHold == SidecarSpec => []PermitsAccounted
<1>1. SidecarInv => PermitsAccounted
  BY DEF SidecarInv
<1> QED BY <1>1, SidecarInvInit, SidecarInvStep, PTL DEF SidecarSpec

(* No permit lies idle while a request waits for one, and the queue holds  *)
(* exactly the waiting requests.                                           *)
THEOREM NoPermitIdles == SidecarSpec => []NoIdlePermit
<1>1. SidecarInv => NoIdlePermit
  BY DEF SidecarInv
<1> QED BY <1>1, SidecarInvInit, SidecarInvStep, PTL DEF SidecarSpec
=============================================================================
