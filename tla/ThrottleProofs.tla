--------------------------- MODULE ThrottleProofs ---------------------------
(***************************************************************************)
(* The polite transport keeps its interval, for any number of feeds and    *)
(* hosts: type correctness and Polite of Throttle.                         *)
(***************************************************************************)
EXTENDS Throttle, TLAPS

(* A request that will be sent in its slot.                                *)
Punctual(f) == request[f] = "waiting" /\ f \notin late

(* The slots claimed on a host are an interval apart, and so are the next  *)
(* free slot from all of them, and all of these from the last request      *)
(* that was sent in its slot.                                              *)
BehindSlots == \A f \in Feeds : Punctual(f) => wait[f] + Interval <= due[host[f]]
SlotsApart ==
  \A f, g \in Feeds :
    f # g /\ Punctual(f) /\ Punctual(g) /\ host[f] = host[g]
      => wait[f] + Interval <= wait[g] \/ wait[g] + Interval <= wait[f]
CalmBeforeSlots ==
  \A f \in Feeds : Punctual(f) => calm[host[f]] + wait[f] >= Interval
CalmBeforeDue == \A h \in Hosts : calm[h] + due[h] >= Interval

ThrottleInv == ThrottleTypeOK /\ BehindSlots /\ SlotsApart /\ CalmBeforeSlots /\ CalmBeforeDue

LEMMA ThrottleInvInit == ThrottleInit => ThrottleInv
BY ThrottleAssumption
   DEF ThrottleInit, ThrottleInv, ThrottleTypeOK, Punctual, BehindSlots, SlotsApart,
       CalmBeforeSlots, CalmBeforeDue

LEMMA ReserveKeeps ==
  ASSUME ThrottleInv, NEW f \in Feeds, NEW h \in Hosts, Reserve(f, h)
  PROVE  ThrottleInv'
<1> USE ThrottleAssumption DEF ThrottleInv, ThrottleTypeOK
<1>1. /\ ThrottleTypeOK'
      /\ due' = [due EXCEPT ![h] = due[h] + Interval]
      /\ calm' = calm
  BY DEF Reserve
<1>2. \A g \in Feeds : Punctual(g)' =>
        \/ g = f /\ host'[g] = h /\ wait'[g] = due[h]
        \/ g # f /\ Punctual(g) /\ host'[g] = host[g] /\ wait'[g] = wait[g]
  BY DEF Reserve, Punctual
<1>3. BehindSlots'
  <2> SUFFICES ASSUME NEW g \in Feeds, Punctual(g)'
               PROVE  wait'[g] + Interval <= due'[host'[g]]
    BY DEF BehindSlots
  <2>1. CASE g = f
    BY <2>1, <1>1, <1>2
  <2>2. CASE g # f
    BY <2>2, <1>1, <1>2 DEF BehindSlots
  <2> QED BY <2>1, <2>2
<1>4. SlotsApart'
  <2> SUFFICES ASSUME NEW a \in Feeds, NEW b \in Feeds, a # b,
                      Punctual(a)', Punctual(b)', host'[a] = host'[b]
               PROVE  wait'[a] + Interval <= wait'[b] \/ wait'[b] + Interval <= wait'[a]
    BY DEF SlotsApart
  <2>1. CASE a = f
    BY <2>1, <1>2 DEF BehindSlots
  <2>2. CASE b = f
    BY <2>2, <1>2 DEF BehindSlots
  <2>3. CASE a # f /\ b # f
    BY <2>3, <1>2 DEF SlotsApart
  <2> QED BY <2>1, <2>2, <2>3
<1>5. CalmBeforeSlots'
  BY <1>1, <1>2 DEF CalmBeforeSlots, CalmBeforeDue
<1>6. CalmBeforeDue'
  BY <1>1 DEF CalmBeforeDue
<1> QED BY <1>1, <1>3, <1>4, <1>5, <1>6

LEMMA SendKeeps ==
  ASSUME ThrottleInv, NEW f \in Feeds, Send(f)
  PROVE  ThrottleInv'
<1> USE ThrottleAssumption DEF ThrottleInv, ThrottleTypeOK
<1>1. ThrottleTypeOK'
  BY DEF Send
<1>2. /\ due' = due /\ host' = host /\ wait' = wait
      /\ \A g \in Feeds : Punctual(g)' => g # f /\ Punctual(g)
  BY DEF Send, Punctual
<1>3. CASE f \in late
  <2>1. calm' = calm
    BY <1>3 DEF Send
  <2> QED BY <1>1, <1>2, <2>1
       DEF BehindSlots, SlotsApart, CalmBeforeSlots, CalmBeforeDue
<1>4. CASE f \notin late
  <2>1. calm' = [calm EXCEPT ![host[f]] = 0] /\ Punctual(f) /\ wait[f] = 0
    BY <1>4 DEF Send, Punctual
  <2>2. \A g \in Feeds : Punctual(g)' /\ host[g] = host[f] => wait[g] >= Interval
    BY <1>2, <2>1 DEF SlotsApart
  <2>3. CalmBeforeSlots'
    BY <1>2, <2>1, <2>2 DEF CalmBeforeSlots
  <2>4. CalmBeforeDue'
    BY <1>2, <2>1 DEF CalmBeforeDue, BehindSlots
  <2> QED BY <1>1, <1>2, <2>3, <2>4 DEF BehindSlots, SlotsApart
<1> QED BY <1>3, <1>4

LEMMA LeaveKeeps ==
  ASSUME ThrottleInv, NEW f \in Feeds, Leave(f)
  PROVE  ThrottleInv'
<1> USE ThrottleAssumption DEF ThrottleInv, ThrottleTypeOK
<1>1. ThrottleTypeOK'
  BY DEF Leave
<1>2. /\ due' = due /\ host' = host /\ calm' = calm
      /\ \A g \in Feeds : Punctual(g)' => Punctual(g) /\ wait'[g] = wait[g]
  BY DEF Leave, Punctual
<1> QED BY <1>1, <1>2 DEF BehindSlots, SlotsApart, CalmBeforeSlots, CalmBeforeDue

LEMMA PassTimeKeeps ==
  ASSUME ThrottleInv, PassTime
  PROVE  ThrottleInv'
<1> USE ThrottleAssumption DEF ThrottleInv, ThrottleTypeOK
<1>1. ThrottleTypeOK'
  BY DEF PassTime, Less
<1>2. host' = host
  BY DEF PassTime
<1>3. \A g \in Feeds : Punctual(g)' =>
        Punctual(g) /\ wait[g] >= 1 /\ wait'[g] = wait[g] - 1
  BY DEF PassTime, Punctual, Less
<1>4. \A h \in Hosts : \/ due[h] = 0 /\ due'[h] = 0
                       \/ due[h] >= 1 /\ due'[h] = due[h] - 1
  BY DEF PassTime, Less
<1>5. \A h \in Hosts : \/ calm[h] = Interval /\ calm'[h] = Interval
                       \/ calm'[h] = calm[h] + 1
  BY DEF PassTime
<1>6. BehindSlots'
  BY <1>2, <1>3, <1>4 DEF BehindSlots
<1>7. SlotsApart'
  BY <1>2, <1>3 DEF SlotsApart
<1>8. CalmBeforeSlots'
  BY <1>1, <1>2, <1>3, <1>5 DEF CalmBeforeSlots
<1>9. CalmBeforeDue'
  BY <1>1, <1>4, <1>5 DEF CalmBeforeDue
<1> QED BY <1>1, <1>6, <1>7, <1>8, <1>9

LEMMA NewClientKeeps ==
  ASSUME ThrottleInv, NewClient
  PROVE  ThrottleInv'
BY ThrottleAssumption
   DEF NewClient, ThrottleInv, ThrottleTypeOK, Punctual, BehindSlots, SlotsApart,
       CalmBeforeSlots, CalmBeforeDue

LEMMA ThrottleInvStep == ThrottleInv /\ [ThrottleNext]_throttleVars => ThrottleInv'
<1> SUFFICES ASSUME ThrottleInv, [ThrottleNext]_throttleVars PROVE ThrottleInv'
  OBVIOUS
<1>1. ASSUME NEW f \in Feeds, NEW h \in Hosts, Reserve(f, h) PROVE ThrottleInv'
  BY <1>1, ReserveKeeps
<1>2. ASSUME NEW f \in Feeds, Send(f) PROVE ThrottleInv'
  BY <1>2, SendKeeps
<1>3. ASSUME NEW f \in Feeds, Leave(f) PROVE ThrottleInv'
  BY <1>3, LeaveKeeps
<1>4. CASE PassTime
  BY <1>4, PassTimeKeeps
<1>5. CASE NewClient
  BY <1>5, NewClientKeeps
<1>6. CASE UNCHANGED throttleVars
  BY <1>6 DEF throttleVars, ThrottleInv, ThrottleTypeOK, Punctual, BehindSlots, SlotsApart,
              CalmBeforeSlots, CalmBeforeDue
<1> QED BY <1>1, <1>2, <1>3, <1>4, <1>5, <1>6 DEF ThrottleNext

(* The state of the transport has its type: no slot lies in the past.      *)
THEOREM ThrottleTypeCorrect == ThrottleSpec => []ThrottleTypeOK
<1>1. ThrottleInv => ThrottleTypeOK
  BY DEF ThrottleInv
<1> QED BY <1>1, ThrottleInvInit, ThrottleInvStep, PTL DEF ThrottleSpec

LEMMA PoliteStep ==
  ASSUME ThrottleInv, [ThrottleNext]_throttleVars, NEW f \in Feeds,
         request[f] = "waiting", request'[f] = "sent", f \notin late
  PROVE  calm[host[f]] >= Interval
<1>1. Send(f)
  BY DEF ThrottleNext, throttleVars, Reserve, Send, Leave, PassTime, NewClient, ThrottleInv,
         ThrottleTypeOK
<1>2. Punctual(f) /\ wait[f] = 0
  BY <1>1 DEF Send, Punctual
<1> QED BY <1>2, ThrottleAssumption DEF ThrottleInv, ThrottleTypeOK, CalmBeforeSlots

(* Two requests sent to one host, each in its slot, are at least the       *)
(* interval apart, for any number of feeds, hosts and redirects.           *)
THEOREM PoliteHolds == ThrottleSpec => Polite
<1>1. ThrottleInv /\ [ThrottleNext]_throttleVars =>
        [\A f \in Feeds :
           request[f] = "waiting" /\ request'[f] = "sent" /\ f \notin late
             => calm[host[f]] >= Interval]_throttleVars
  BY PoliteStep
<1> QED BY <1>1, ThrottleInvInit, ThrottleInvStep, PTL DEF ThrottleSpec, Polite
=============================================================================
