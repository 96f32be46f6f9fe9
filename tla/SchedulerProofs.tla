--------------------------- MODULE SchedulerProofs ---------------------------
(***************************************************************************)
(* Unattended collection, for any number of servers, any length of the day *)
(* and any schedules: the safety properties of Scheduler, and what         *)
(* PreviousEvery and NextEvery of ScheduleTimes return.                    *)
(***************************************************************************)
EXTENDS Scheduler, TLAPS

(* The last multiple of every that is not after d is d - (d % every).        *)
LEMMA LastMultiple ==
  ASSUME NEW every \in Nat \ {0}, NEW d \in Nat
  PROVE  /\ d % every \in 0..d
         /\ (d - (d % every)) % every = 0
         /\ \A e \in Nat : e <= d /\ e % every = 0 => e <= d - (d % every)
<1> DEFINE k == d \div every
<1>1. k \in Nat /\ d % every \in 0..(every - 1) /\ d = every * k + (d % every)
  BY SMT
<1>2. every * k \in Nat /\ d - (d % every) = every * k
  BY <1>1, SMT
<1>3. (every * k) % every = 0
  <2> DEFINE j == (every * k) \div every
             m == (every * k) % every
  <2>1. j \in Nat /\ m \in 0..(every - 1) /\ every * k = every * j + m
    BY <1>2, SMT
  <2>2. CASE j >= k + 1
    <3>1. every * j >= every * (k + 1)
      BY <1>1, <2>1, <2>2, SMT
    <3> QED BY <1>1, <2>1, <3>1, SMT
  <2>3. CASE k >= j + 1
    <3>1. every * k >= every * (j + 1)
      BY <1>1, <2>1, <2>3, SMT
    <3> QED BY <1>1, <2>1, <3>1, SMT
  <2>4. CASE j = k
    BY <1>2, <2>1, <2>4, SMT
  <2> QED BY <1>1, <2>1, <2>2, <2>3, <2>4, SMT
<1>4. ASSUME NEW e \in Nat, e <= d, e % every = 0 PROVE e <= every * k
  <2> DEFINE i == e \div every
  <2>1. i \in Nat /\ e = every * i
    BY <1>4, SMT
  <2>2. CASE i >= k + 1
    <3>1. every * i >= every * (k + 1)
      BY <1>1, <2>1, <2>2, SMT
    <3> QED BY <1>1, <1>4, <2>1, <3>1, SMT
  <2>3. CASE i <= k
    BY <1>1, <2>1, <2>3, SMT
  <2> QED BY <1>1, <2>1, <2>2, <2>3, SMT
<1> QED BY <1>1, <1>2, <1>3, <1>4, SMT

(* PreviousEvery (schedule.go) is an occurrence of the cycle the present   *)
(* is in, not after the present, and no occurrence of that cycle lies in   *)
(* between.                                                                *)
THEOREM PreviousIsLatest ==
  ASSUME NEW at \in 0..(Day - 1), NEW every \in Nat \ {0}, NEW t \in Nat
  PROVE  \E day \in Int :
           LET p == PreviousEvery(at, every, t) IN
           /\ p \in Cycle(at, every, day)
           /\ On(at, day) <= t /\ t < On(at, day + 1)
           /\ p \in Never..t
           /\ \A u \in Cycle(at, every, day) : u <= t => u <= p
<1> DEFINE today == t \div Day
           day == IF t < On(at, today) THEN today - 1 ELSE today
           S == {u \in Cycle(at, every, day) : u <= t}
           d == t - On(at, day)
           p == t - (d % every)
<1>1. Day \in Nat \ {0}
  BY DayAssumption, Zenon
<1>2. /\ today \in Nat
      /\ Day * today \in Nat /\ Day * today <= t /\ t < Day * today + Day
  BY <1>1, SMT
<1>3. /\ day \in Int /\ On(at, day) \in Int /\ On(at, day + 1) = On(at, day) + Day
      /\ On(at, day) <= t /\ t < On(at, day + 1) /\ On(at, day) >= -Day
  <2>1. /\ today * Day = Day * today
        /\ (today - 1) * Day = Day * today - Day
        /\ (today + 1) * Day = Day * today + Day
    BY <1>1, <1>2, SMT
  <2>2. CASE t < On(at, today)
    BY <1>1, <1>2, <2>1, <2>2 DEF On
  <2>3. CASE ~(t < On(at, today))
    BY <1>1, <1>2, <2>1, <2>3 DEF On
  <2> QED BY <2>2, <2>3
<1> HIDE DEF day
<1>4. d \in Nat /\ d = t - On(at, day)
  BY <1>3
<1> HIDE DEF d
<1>5. /\ d % every \in 0..d
      /\ (d - (d % every)) % every = 0
      /\ \A e \in Nat : e <= d /\ e % every = 0 => e <= d - (d % every)
  BY <1>4, LastMultiple
<1>6. p \in Int /\ On(at, day) <= p /\ p <= t /\ p - On(at, day) = d - (d % every)
  BY <1>3, <1>4, <1>5
<1> HIDE DEF p
<1>7. p \in S
  <2>1. (p - On(at, day)) % every = 0
    BY <1>5, <1>6, Zenon
  <2>2. p \in On(at, day) .. On(at, day + 1) - 1
    BY <1>1, <1>3, <1>6
  <2>3. p \in Cycle(at, every, day)
    BY <2>1, <2>2, Zenon DEF Cycle
  <2> QED BY <1>6, <2>3, Zenon
<1>8. ASSUME NEW u \in S PROVE u <= p
  <2>1. /\ u \in Cycle(at, every, day) /\ u <= t
    BY <1>8, Zenon
  <2>2. u \in On(at, day) .. On(at, day + 1) - 1 /\ (u - On(at, day)) % every = 0
    BY <2>1, Zenon DEF Cycle
  <2>3. u \in Int /\ u - On(at, day) \in Nat /\ u - On(at, day) <= d
    BY <1>1, <1>3, <1>4, <2>1, <2>2
  <2>4. u - On(at, day) <= d - (d % every)
    BY <1>5, <2>2, <2>3, Zenon
  <2> QED BY <1>3, <1>6, <2>3, <2>4
<1>9. PreviousEvery(at, every, t) = Latest(S)
  BY DEF PreviousEvery, day
<1>10. Latest(S) \in S /\ \A u \in S : u <= Latest(S)
  <2>1. \E q \in S : \A u \in S : u <= q
    BY <1>7, <1>8
  <2> QED BY <2>1 DEF Latest
<1>11. Latest(S) \in Cycle(at, every, day) /\ Latest(S) <= t
  BY <1>10
<1>12. Latest(S) \in Int /\ On(at, day) <= Latest(S)
  BY <1>3, <1>11 DEF Cycle
<1>13. Latest(S) \in Never..t
  BY <1>1, <1>3, <1>11, <1>12 DEF Never
<1> QED
  <2>1. \A u \in Cycle(at, every, day) : u <= t => u <= PreviousEvery(at, every, t)
    BY <1>9, <1>10
  <2> QED BY <1>3, <1>9, <1>11, <1>13, <2>1

(* The first multiple of every after d.                                    *)
LEMMA FirstMultiple ==
  ASSUME NEW every \in Nat \ {0}, NEW d \in Nat
  PROVE  LET e == d - (d % every) + every IN
         /\ e \in Nat /\ d < e /\ e % every = 0
         /\ \A f \in Nat : d < f /\ f % every = 0 => e <= f
<1> DEFINE last == d - (d % every)
           e == last + every
<1>1. /\ d % every \in 0..d /\ last % every = 0
      /\ \A f \in Nat : f <= d /\ f % every = 0 => f <= last
  BY LastMultiple
<1>2. d % every < every
  BY SMT
<1>3. last \in Nat /\ e \in Nat /\ last <= d /\ d < e /\ e - (e % every) \in Int
  BY <1>1, <1>2
<1> DEFINE i == last \div every
<1>4. i \in Nat /\ last = every * i
  <2>1. i \in Nat /\ last = every * i + (last % every)
    BY <1>3, SMT
  <2> QED BY <1>1, <2>1
<1> HIDE DEF last, i
<1>5. e = every * (i + 1)
  BY <1>3, <1>4, SMT
<1>6. ASSUME NEW f \in Nat, d < f, f % every = 0 PROVE e <= f
  <2> DEFINE k == f \div every
  <2>1. k \in Nat /\ f = every * k
    BY <1>6, SMT
  <2>2. k >= i + 1
    <3> SUFFICES ASSUME k <= i PROVE FALSE
      BY <1>4, <2>1
    <3>1. every * k <= every * i
      BY <1>4, <2>1, SMT
    <3> QED BY <1>3, <1>4, <1>6, <2>1, <3>1
  <2>3. every * (i + 1) <= every * k
    BY <1>4, <2>1, <2>2, SMT
  <2> QED BY <1>5, <2>1, <2>3
<1>7. e % every = 0
  <2>1. /\ e % every \in 0..e /\ (e - (e % every)) % every = 0
        /\ \A f \in Nat : f <= e /\ f % every = 0 => f <= e - (e % every)
    BY <1>3, LastMultiple
  <2>2. e - (e % every) <= d => e - (e % every) <= last
    BY <1>1, <1>3, <2>1
  <2>3. e % every < every
    BY <1>3, SMT
  <2>4. d < e - (e % every)
    BY <1>3, <2>1, <2>2, <2>3
  <2>5. e <= e - (e % every)
    BY <1>3, <1>6, <2>1, <2>4
  <2> QED BY <1>3, <2>1, <2>5
<1> QED BY <1>3, <1>6, <1>7 DEF last

(* NextEvery (schedule.go) is the first occurrence after the present of    *)
(* the cycles of today and tomorrow.                                       *)
THEOREM NextIsEarliest ==
  ASSUME NEW at \in 0..(Day - 1), NEW every \in Nat \ {0}, NEW t \in Nat
  PROVE  LET next == NextEvery(at, every, t)
             coming == Cycle(at, every, t \div Day) \cup Cycle(at, every, (t \div Day) + 1)
         IN  /\ next \in coming /\ t < next /\ next <= On(at, (t \div Day) + 1)
             /\ \A u \in coming : t < u => next <= u
<1> DEFINE today == t \div Day
           start == On(at, today)
           S == {u \in Cycle(at, every, today) : u > t}
           next == NextEvery(at, every, t)
<1>1. Day \in Nat \ {0}
  BY DayAssumption, Zenon
<1>2. /\ today \in Nat
      /\ Day * today \in Nat /\ Day * today <= t /\ t < Day * today + Day
  BY <1>1, SMT
<1>3. /\ start \in Nat /\ On(at, today + 1) = start + Day /\ t < start + Day
      /\ On(at, (today + 1) + 1) = start + Day + Day
  <2>1. /\ today * Day = Day * today
        /\ (today + 1) * Day = Day * today + Day
        /\ ((today + 1) + 1) * Day = Day * today + Day + Day
    BY <1>1, <1>2, SMT
  <2> QED BY <1>1, <1>2, <2>1 DEF On
<1>4. next = IF S = {} THEN start + Day ELSE Earliest(S)
  BY <1>3 DEF NextEvery
<1> HIDE DEF next
<1>5. Cycle(at, every, today) =
        {u \in start..((start + Day) - 1) : (u - start) % every = 0}
  BY <1>3, Zenon DEF Cycle, start
<1>6. Cycle(at, every, today + 1) =
        {u \in (start + Day)..((start + Day + Day) - 1) : (u - (start + Day)) % every = 0}
  BY <1>3, Zenon DEF Cycle
<1> HIDE DEF today, start
<1>5a. \A u : u \in S <=>
         u \in start..((start + Day) - 1) /\ (u - start) % every = 0 /\ u > t
  BY <1>5, Zenon
<1>6a. \A u : u \in Cycle(at, every, today + 1) <=>
         /\ u \in (start + Day)..((start + Day + Day) - 1)
         /\ (u - (start + Day)) % every = 0
  BY <1>6, Zenon
<1> HIDE DEF S
<1>7. start + Day \in Cycle(at, every, today + 1)
  <2>1. ((start + Day) - (start + Day)) % every = 0
    <3>1. (start + Day) - (start + Day) = 0
      BY <1>1, <1>3
    <3>2. 0 % every = 0
      BY SMT
    <3> QED BY <3>1, <3>2
  <2>2. start + Day \in (start + Day)..((start + Day + Day) - 1)
    BY <1>1, <1>3
  <2> QED BY <1>6a, <2>1, <2>2, Zenon
<1>8. ASSUME NEW u \in Cycle(at, every, today + 1) PROVE u \in Int /\ start + Day <= u
  BY <1>1, <1>3, <1>6a
<1>9. ASSUME S # {} PROVE \E e \in S : \A u \in S : e <= u
  <2>1. PICK w \in S : TRUE
    BY <1>9
  <2>2. w \in start..((start + Day) - 1) /\ (w - start) % every = 0 /\ w > t
    BY <1>5a, <2>1, Zenon
  <2>3. CASE t < start
    <3>1. start \in S
      <4>1. start - start = 0 /\ 0 % every = 0
        BY <1>3, SMT
      <4>2. (start - start) % every = 0
        BY <4>1
      <4>3. start \in start..((start + Day) - 1)
        BY <1>1, <1>3
      <4> QED BY <1>5a, <2>3, <4>2, <4>3
    <3>2. \A u \in S : start <= u
      BY <1>3, <1>5a
    <3> QED BY <3>1, <3>2
  <2>4. CASE start <= t
    <3> DEFINE d == t - start
               m == d - (d % every) + every
    <3>1. d \in Nat
      BY <1>3, <2>4
    <3> HIDE DEF d
    <3>2. /\ m \in Nat /\ d < m /\ m % every = 0
          /\ \A f \in Nat : d < f /\ f % every = 0 => m <= f
      BY <3>1, FirstMultiple
    <3> HIDE DEF m
    <3>3. \A u \in S : u \in Int /\ start + m <= u
      <4> SUFFICES ASSUME NEW u \in S PROVE u \in Int /\ start + m <= u
        OBVIOUS
      <4>1. u \in start..((start + Day) - 1) /\ (u - start) % every = 0 /\ u > t
        BY <1>5a, Zenon
      <4>2. u - start \in Nat /\ d < u - start
        BY <1>3, <2>4, <4>1 DEF d
      <4>3. m <= u - start
        BY <3>2, <4>1, <4>2
      <4> QED BY <1>3, <3>2, <4>1, <4>3
    <3>4. start + m \in S
      <4>1. (start + m) - start = m
        BY <1>3, <3>2
      <4>2. start + m <= w
        BY <2>1, <3>3
      <4>3. start + m \in start..((start + Day) - 1) /\ start + m > t
        BY <1>1, <1>3, <2>2, <2>4, <3>2, <4>2 DEF d
      <4>4. ((start + m) - start) % every = 0
        BY <3>2, <4>1
      <4> QED BY <1>5a, <4>3, <4>4
    <3> QED BY <3>3, <3>4
  <2>5. t < start \/ start <= t
    BY <1>3
  <2> QED BY <2>3, <2>4, <2>5
<1>10. /\ next \in Cycle(at, every, today) \cup Cycle(at, every, today + 1)
       /\ t < next /\ next <= start + Day
       /\ \A u \in Cycle(at, every, today) \cup Cycle(at, every, today + 1) :
            t < u => next <= u
  <2>1. \A u \in Cycle(at, every, today) : t < u => u \in S
    BY DEF S
  <2>2. CASE S = {}
    <3>1. next = start + Day
      BY <1>4, <2>2
    <3> QED BY <1>1, <1>3, <1>7, <1>8, <2>1, <2>2, <3>1
  <2>3. CASE S # {}
    <3>1. next \in S /\ \A u \in S : next <= u
      BY <1>4, <1>9, <2>3 DEF Earliest
    <3>2. next \in Int /\ next <= (start + Day) - 1 /\ t < next
      BY <1>1, <1>3, <1>5a, <3>1
    <3>3. \A u \in Cycle(at, every, today + 1) : next <= u
      BY <1>1, <1>3, <1>8, <3>2
    <3>4. next \in Cycle(at, every, today)
      BY <3>1 DEF S
    <3> QED BY <1>1, <1>3, <2>1, <3>1, <3>2, <3>3, <3>4
  <2> QED BY <2>2, <2>3
<1> QED BY <1>3, <1>10 DEF next, today

(* Later days start later.                                                 *)
LEMMA OnMonotone ==
  ASSUME NEW at \in Nat, NEW a \in Int, NEW b \in Int, a <= b
  PROVE  On(at, a) <= On(at, b)
<1>1. Day \in Nat
  BY DayAssumption, Zenon
<1> DEFINE k == b - a
<1>2. k \in Nat /\ b = a + k
  OBVIOUS
<1> HIDE DEF k
<1>3. b * Day = a * Day + k * Day /\ k * Day \in Nat /\ a * Day \in Int
  BY <1>1, <1>2, SMT
<1> QED BY <1>3 DEF On

(* From the time of day until midnight, the run the pages announce is the  *)
(* next one that happens.  (Before it they may leave out the rest of       *)
(* yesterday's cycle: NextRunShown does not hold.)                         *)
THEOREM NextRunIsRight ==
  ASSUME NEW at \in 0..(Day - 1), NEW every \in Nat \ {0}, NEW t \in Nat,
         On(at, t \div Day) <= t
  PROVE  \A u \in t .. NextEvery(at, every, t) - 1 : PreviousEvery(at, every, u) <= t
<1> DEFINE today == t \div Day
           next == NextEvery(at, every, t)
<1>1. Day \in Nat \ {0} /\ today \in Nat
  <2>1. Day \in Nat \ {0}
    BY DayAssumption, Zenon
  <2> QED BY <2>1, SMT
<1>2. /\ next <= On(at, today + 1) /\ On(at, today) <= t
      /\ next \in Cycle(at, every, today) \cup Cycle(at, every, today + 1)
      /\ \A q \in Cycle(at, every, today) : t < q => next <= q
  BY NextIsEarliest
<1>3. next \in Int
  BY <1>2 DEF Cycle
<1> HIDE DEF today, next
<1> SUFFICES ASSUME NEW u \in t .. next - 1 PROVE PreviousEvery(at, every, u) <= t
  BY DEF next
<1> DEFINE p == PreviousEvery(at, every, u)
<1>4. u \in Nat /\ t <= u /\ u < next
  BY <1>3
<1>5. PICK day \in Int : /\ p \in Cycle(at, every, day) /\ p \in Never..u
                        /\ On(at, day) <= u /\ u < On(at, day + 1)
  BY <1>4, PreviousIsLatest
<1> HIDE DEF p
<1>6. On(at, day) \in Int /\ On(at, day + 1) \in Int
      /\ On(at, today) \in Int /\ On(at, today + 1) \in Int
  BY <1>1 DEF On
<1>7. ~(today + 1 <= day)
  <2>1. today + 1 <= day => On(at, today + 1) <= On(at, day)
    BY <1>1, OnMonotone
  <2> QED BY <1>2, <1>3, <1>4, <1>5, <1>6, <2>1
<1>8. ~(day + 1 <= today)
  <2>1. day + 1 <= today => On(at, day + 1) <= On(at, today)
    BY <1>1, OnMonotone
  <2> QED BY <1>2, <1>4, <1>5, <1>6, <2>1
<1>9. day = today
  BY <1>1, <1>7, <1>8
<1>10. p \in Int /\ p <= u
  BY <1>1, <1>4, <1>5 DEF Never
<1>11. ~(t < p)
  BY <1>2, <1>3, <1>4, <1>5, <1>9, <1>10
<1> QED BY <1>10, <1>11 DEF p

-----------------------------------------------------------------------------
(* The inductive invariant.                                                *)

(* Stages of a run that was asked for once, or is under way.               *)
InRun == {"claimed", "working", "collecting"}

(* What holds at one server: the marker; which runs may be in which stage; *)
(* an occurrence is looked at only when it is newer than the last one; and *)
(* what was handled is the occurrence in progress, or not after the last.  *)
Shape(s) ==
  /\ running[s] <=> pc[s] \in {"working", "collecting"}
  /\ reason[s] # "none" <=> pc[s] \in InRun
  /\ pc[s] = "claimed" => reason[s] = "first"
  /\ pc[s] = "check" \/ reason[s] = "scheduled" => lastOccurrence[s] < due[s]
  /\ \A o \in handled[s] :
       o <= lastOccurrence[s] \/ (o = due[s] /\ reason[s] = "scheduled")

Inv ==
  /\ TypeOK
  /\ ClaimedOnce
  /\ \A s \in Servers : Shape(s)

(* The occurrence before an instant of the run is a time of the model.     *)
LEMMA OccurrenceType ==
  ASSUME NEW sched \in Schedules, sched.every > 0, NEW t \in 0..Horizon
  PROVE  PreviousEvery(sched.at, sched.every, t) \in Never..Horizon
<1>1. sched.at \in 0..(Day - 1) /\ sched.every \in Nat \ {0}
  BY DayAssumption, SchedulesAssumption
<1>2. t \in Nat /\ Horizon \in Nat /\ Never \in Int
  BY DayAssumption, SchedulesAssumption DEF Never
<1>3. PICK day \in Int : PreviousEvery(sched.at, sched.every, t) \in Never..t
  BY <1>1, <1>2, PreviousIsLatest, Zenon
<1> QED BY <1>2, <1>3

LEMMA InitInv == Init => Inv
<1> SUFFICES ASSUME Init PROVE Inv
  OBVIOUS
<1>1. Never \in Int /\ Never < 0
  BY DayAssumption DEF Never
<1>2. TypeOK
  <2>1. handled \in [Servers -> SUBSET (Never..Horizon)]
    BY Zenon DEF Init
  <2>2. Never \in Never..Horizon
    BY <1>1, SchedulesAssumption
  <2>3. lastOccurrence \in [Servers -> Never..Horizon] /\ due \in [Servers -> Never..Horizon]
    BY <2>2, Zenon DEF Init
  <2>4. pc \in [Servers -> Stages]
    BY DEF Init, Stages
  <2>5. /\ reason \in [Servers -> {"none", "first", "scheduled"}]
        /\ running \in [Servers -> BOOLEAN]
    BY Zenon DEF Init
  <2>6. /\ now \in 0..Horizon /\ asks \in 0..MaxAsks /\ claims \in 0..MaxAsks
        /\ changes \in 0..MaxChanges /\ crashes \in 0..MaxCrashes /\ errors \in 0..MaxErrors
    BY SchedulesAssumption DEF Init
  <2> QED BY <2>1, <2>3, <2>4, <2>5, <2>6, Zenon DEF Init, TypeOK
<1>3. ClaimedOnce
  BY DEF Init, ClaimedOnce
<1>4. \A s \in Servers : Shape(s)
  BY DEF Init, Shape, InRun
<1> QED BY <1>2, <1>3, <1>4 DEF Inv

(* A step of one server leaves the others as they are.                     *)
LEMMA OthersKeepShape ==
  ASSUME NEW r \in Servers, Shape(r),
         pc'[r] = pc[r], lastOccurrence'[r] = lastOccurrence[r], due'[r] = due[r],
         reason'[r] = reason[r], running'[r] = running[r], handled'[r] = handled[r]
  PROVE  Shape(r)'
BY Zenon DEF Shape, InRun

LEMMA TickInv ==
  ASSUME Inv, Tick PROVE Inv'
<1>1. TypeOK'
  BY SchedulesAssumption DEF Inv, TypeOK, Tick, settings, process, history, bounds
<1>2. ClaimedOnce'
  BY SchedulesAssumption DEF Inv, TypeOK, ClaimedOnce, Tick, settings, process,
     history, bounds
<1>3. ASSUME NEW r \in Servers PROVE Shape(r)'
  BY OthersKeepShape DEF Inv, Tick, process
<1> QED BY <1>1, <1>2, <1>3 DEF Inv

LEMMA SaveScheduleInv ==
  ASSUME NEW new \in Schedules, Inv, SaveSchedule(new) PROVE Inv'
<1>1. TypeOK'
  BY SchedulesAssumption DEF Inv, TypeOK, SaveSchedule, settings, process, history, bounds
<1>2. ClaimedOnce'
  BY SchedulesAssumption DEF Inv, TypeOK, ClaimedOnce, SaveSchedule, settings, process,
     history, bounds
<1>3. ASSUME NEW r \in Servers PROVE Shape(r)'
  BY OthersKeepShape DEF Inv, SaveSchedule, process
<1> QED BY <1>1, <1>2, <1>3 DEF Inv

LEMMA FinishSetupInv ==
  ASSUME NEW collectNow \in BOOLEAN, Inv, FinishSetup(collectNow) PROVE Inv'
<1>1. TypeOK'
  BY SchedulesAssumption DEF Inv, TypeOK, FinishSetup, settings, process, history, bounds
<1>2. ClaimedOnce'
  BY SchedulesAssumption DEF Inv, TypeOK, ClaimedOnce, FinishSetup, settings, process,
     history, bounds
<1>3. ASSUME NEW r \in Servers PROVE Shape(r)'
  BY OthersKeepShape DEF Inv, FinishSetup, process
<1> QED BY <1>1, <1>2, <1>3 DEF Inv

LEMMA ReopenSetupInv ==
  ASSUME Inv, ReopenSetup PROVE Inv'
<1>1. TypeOK'
  <2>1. changes' \in 0..MaxChanges
    BY SchedulesAssumption DEF Inv, TypeOK, ReopenSetup
  <2>2. dropped' \in BOOLEAN
    <3>1. dropped' = (dropped \/ \E s \in Servers :
                        reason[s] = "first" /\ pc[s] \in {"claimed", "working"})
      BY DEF ReopenSetup
    <3>. QED BY ONLY <3>1, Zenon
  <2>3. configured' \in BOOLEAN
    BY DEF ReopenSetup
  <2>. QED
    BY <2>1, <2>2, <2>3, Zenon
       DEF Inv, TypeOK, ReopenSetup, settings, process, history, bounds
<1>2. ClaimedOnce'
  BY DEF Inv, ClaimedOnce, ReopenSetup
<1>3. ASSUME NEW r \in Servers PROVE Shape(r)'
  BY OthersKeepShape DEF Inv, ReopenSetup, process
<1> QED BY <1>1, <1>2, <1>3 DEF Inv

LEMMA DigestByHandInv ==
  ASSUME Inv, DigestByHand PROVE Inv'
<1>1. TypeOK'
  BY SchedulesAssumption DEF Inv, TypeOK, DigestByHand, settings, process, history, bounds
<1>2. ClaimedOnce'
  BY SchedulesAssumption DEF Inv, TypeOK, ClaimedOnce, DigestByHand, settings, process,
     history, bounds
<1>3. ASSUME NEW r \in Servers PROVE Shape(r)'
  BY OthersKeepShape DEF Inv, DigestByHand, process
<1> QED BY <1>1, <1>2, <1>3 DEF Inv

LEMMA StartInv ==
  ASSUME NEW s \in Servers, Inv, Start(s) PROVE Inv'
<1> USE DEF Inv, Start, Goto, settings, process, history, bounds
<1>0. Never \in Int /\ Horizon \in Nat /\ 0 <= Horizon /\ Never <= 0
  BY DayAssumption, SchedulesAssumption DEF Never
<1>1. TypeOK'
  BY <1>0, SchedulesAssumption DEF TypeOK, Stages, ClaimedOnce
<1>2. ClaimedOnce'
  BY DEF TypeOK, ClaimedOnce
<1>4. ASSUME NEW r \in Servers, r # s PROVE Shape(r)'
  BY <1>4, OthersKeepShape DEF TypeOK
<1>5. Shape(s)'
  BY <1>0 DEF TypeOK, Stages, Shape, InRun
<1> QED BY <1>1, <1>2, <1>4, <1>5

LEMMA CrashInv ==
  ASSUME NEW s \in Servers, Inv, Crash(s) PROVE Inv'
<1> USE DEF Inv, Crash, Goto, settings, process, history, bounds
<1>0. Never \in Int /\ Horizon \in Nat /\ 0 <= Horizon /\ Never <= 0
  BY DayAssumption, SchedulesAssumption DEF Never
<1>1. TypeOK'
  BY <1>0, SchedulesAssumption DEF TypeOK, Stages, ClaimedOnce
<1>2. ClaimedOnce'
  BY DEF TypeOK, ClaimedOnce
<1>4. ASSUME NEW r \in Servers, r # s PROVE Shape(r)'
  BY <1>4, OthersKeepShape DEF TypeOK
<1>5. Shape(s)'
  BY <1>0 DEF TypeOK, Stages, Shape, InRun
<1> QED BY <1>1, <1>2, <1>4, <1>5

LEMMA ClaimInv ==
  ASSUME NEW s \in Servers, Inv, Claim(s) PROVE Inv'
<1> USE DEF Inv, Claim, Goto, settings, process, history, bounds
<1>0. Never \in Int /\ Horizon \in Nat /\ 0 <= Horizon /\ Never <= 0
  BY DayAssumption, SchedulesAssumption DEF Never
<1>1. TypeOK'
  <2>1. claims' \in 0..MaxAsks
    BY SchedulesAssumption DEF TypeOK, ClaimedOnce
  <2>2. pc' \in [Servers -> Stages] /\ reason' \in [Servers -> {"none", "first", "scheduled"}]
    BY DEF TypeOK, Stages
  <2>3. requested' \in BOOLEAN
    BY DEF TypeOK
  <2> QED BY <2>1, <2>2, <2>3 DEF TypeOK
<1>2. ClaimedOnce'
  BY DEF TypeOK, ClaimedOnce
<1>4. ASSUME NEW r \in Servers, r # s PROVE Shape(r)'
  BY <1>4, OthersKeepShape DEF TypeOK
<1>5. Shape(s)'
  BY <1>0 DEF TypeOK, Stages, Shape, InRun
<1> QED BY <1>1, <1>2, <1>4, <1>5

LEMMA StartFirstInv ==
  ASSUME NEW s \in Servers, Inv, StartFirst(s) PROVE Inv'
<1> USE DEF Inv, StartFirst, Goto, settings, process, history, bounds
<1>0. Never \in Int /\ Horizon \in Nat /\ 0 <= Horizon /\ Never <= 0
  BY DayAssumption, SchedulesAssumption DEF Never
<1>1. TypeOK'
  BY <1>0, SchedulesAssumption DEF TypeOK, Stages, ClaimedOnce
<1>2. ClaimedOnce'
  BY DEF TypeOK, ClaimedOnce
<1>4. ASSUME NEW r \in Servers, r # s PROVE Shape(r)'
  BY <1>4, OthersKeepShape DEF TypeOK
<1>5. Shape(s)'
  BY <1>0 DEF TypeOK, Stages, Shape, InRun
<1> QED BY <1>1, <1>2, <1>4, <1>5

LEMMA ReadScheduleInv ==
  ASSUME NEW s \in Servers, Inv, ReadSchedule(s) PROVE Inv'
<1> USE DEF Inv, ReadSchedule, Goto, settings, process, history, bounds
<1>0. Never \in Int /\ Horizon \in Nat /\ 0 <= Horizon /\ Never <= 0
  BY DayAssumption, SchedulesAssumption DEF Never
<1>1. TypeOK'
  <2>1. schedule.every # 0 => schedule.every > 0
    BY DayAssumption, SchedulesAssumption DEF TypeOK
  <2>2. schedule.every # 0 =>
          PreviousEvery(schedule.at, schedule.every, now) \in Never..Horizon
    BY <2>1, OccurrenceType DEF TypeOK
  <2>3. due' \in [Servers -> Never..Horizon]
    BY <2>2, Zenon DEF TypeOK
  <2>4. pc' \in [Servers -> Stages]
    BY DEF TypeOK, Stages
  <2> QED BY <2>3, <2>4 DEF TypeOK
<1>2. ClaimedOnce'
  BY DEF TypeOK, ClaimedOnce
<1>4. ASSUME NEW r \in Servers, r # s PROVE Shape(r)'
  BY <1>4, OthersKeepShape DEF TypeOK
<1>5. Shape(s)'
  BY <1>0 DEF TypeOK, Stages, Shape, InRun
<1> QED BY <1>1, <1>2, <1>4, <1>5

LEMMA CatchUpInv ==
  ASSUME NEW s \in Servers, Inv, CatchUp(s) PROVE Inv'
<1> USE DEF Inv, CatchUp, Consume, Goto, settings, process, history, bounds
<1>0. Never \in Int /\ Horizon \in Nat /\ 0 <= Horizon /\ Never <= 0
  BY DayAssumption, SchedulesAssumption DEF Never
<1>1. TypeOK'
  <2>1. due[s] \in Never..Horizon /\ handled[s] \subseteq Never..Horizon
    BY DEF TypeOK
  <2>2. handled[s] \cup {due[s]} \in SUBSET (Never..Horizon)
    BY <2>1, Zenon
  <2>3. handled' \in [Servers -> SUBSET (Never..Horizon)]
    BY <2>2, Zenon DEF TypeOK
  <2>4. lastOccurrence' \in [Servers -> Never..Horizon]
    BY <2>1, Zenon DEF TypeOK
  <2>5. /\ pc' \in [Servers -> Stages] /\ running' \in [Servers -> BOOLEAN]
        /\ reason' \in [Servers -> {"none", "first", "scheduled"}]
    BY DEF TypeOK, Stages
  <2> QED BY <2>3, <2>4, <2>5 DEF TypeOK
<1>2. ClaimedOnce'
  BY DEF TypeOK, ClaimedOnce
<1>4. ASSUME NEW r \in Servers, r # s PROVE Shape(r)'
  BY <1>4, OthersKeepShape DEF TypeOK
<1>5. Shape(s)'
  BY <1>0 DEF TypeOK, Stages, Shape, InRun
<1> QED BY <1>1, <1>2, <1>4, <1>5

LEMMA ResolveRunnerInv ==
  ASSUME NEW s \in Servers, Inv, ResolveRunner(s) PROVE Inv'
<1> USE DEF Inv, ResolveRunner, EndWork, Consume, Goto, settings, process, history, bounds
<1>0. Never \in Int /\ Horizon \in Nat /\ 0 <= Horizon /\ Never <= 0
  BY DayAssumption, SchedulesAssumption DEF Never
<1>1. TypeOK'
  BY <1>0, SchedulesAssumption DEF TypeOK, Stages, ClaimedOnce
<1>2. ClaimedOnce'
  BY DEF TypeOK, ClaimedOnce
<1>4. ASSUME NEW r \in Servers, r # s PROVE Shape(r)'
  BY <1>4, OthersKeepShape DEF TypeOK
<1>5. Shape(s)'
  BY <1>0 DEF TypeOK, Stages, Shape, InRun
<1> QED BY <1>1, <1>2, <1>4, <1>5

LEMMA SucceedInv ==
  ASSUME NEW s \in Servers, Inv, Succeed(s) PROVE Inv'
<1> USE DEF Inv, Succeed, EndWork, Consume, Goto, settings, process, history, bounds
<1>0. Never \in Int /\ Horizon \in Nat /\ 0 <= Horizon /\ Never <= 0
  BY DayAssumption, SchedulesAssumption DEF Never
<1>1. TypeOK'
  BY <1>0, SchedulesAssumption DEF TypeOK, Stages, ClaimedOnce
<1>2. ClaimedOnce'
  BY DEF TypeOK, ClaimedOnce
<1>4. ASSUME NEW r \in Servers, r # s PROVE Shape(r)'
  BY <1>4, OthersKeepShape DEF TypeOK
<1>5. Shape(s)'
  BY <1>0 DEF TypeOK, Stages, Shape, InRun
<1> QED BY <1>1, <1>2, <1>4, <1>5

LEMMA FailInv ==
  ASSUME NEW s \in Servers, Inv, Fail(s) PROVE Inv'
<1> USE DEF Inv, Fail, EndWork, Consume, Goto, settings, process, history, bounds
<1>0. Never \in Int /\ Horizon \in Nat /\ 0 <= Horizon /\ Never <= 0
  BY DayAssumption, SchedulesAssumption DEF Never
<1>1. TypeOK'
  BY <1>0, SchedulesAssumption DEF TypeOK, Stages, ClaimedOnce
<1>2. ClaimedOnce'
  BY DEF TypeOK, ClaimedOnce
<1>4. ASSUME NEW r \in Servers, r # s PROVE Shape(r)'
  BY <1>4, OthersKeepShape DEF TypeOK
<1>5. Shape(s)'
  BY <1>0 DEF TypeOK, Stages, Shape, InRun
<1> QED BY <1>1, <1>2, <1>4, <1>5

LEMMA QueryFailsInv ==
  ASSUME NEW s \in Servers, Inv, QueryFails(s) PROVE Inv'
<1> USE DEF Inv, QueryFails, Consume, Goto, settings, process, history, bounds
<1>0. Never \in Int /\ Horizon \in Nat /\ 0 <= Horizon /\ Never <= 0
  BY DayAssumption, SchedulesAssumption DEF Never
<1>1. TypeOK'
  BY <1>0, SchedulesAssumption DEF TypeOK, Stages, ClaimedOnce
<1>2. ClaimedOnce'
  BY DEF TypeOK, ClaimedOnce
<1>4. ASSUME NEW r \in Servers, r # s PROVE Shape(r)'
  BY <1>4, OthersKeepShape DEF TypeOK
<1>5. Shape(s)'
  BY <1>0 DEF TypeOK, Stages, Shape, InRun
<1> QED BY <1>1, <1>2, <1>4, <1>5

LEMMA WakeInv ==
  ASSUME NEW s \in Servers, Inv, Wake(s) PROVE Inv'
<1> USE DEF Inv, Wake, Goto, settings, process, history, bounds
<1>0. Never \in Int /\ Horizon \in Nat /\ 0 <= Horizon /\ Never <= 0
  BY DayAssumption, SchedulesAssumption DEF Never
<1>1. TypeOK'
  BY <1>0, SchedulesAssumption DEF TypeOK, Stages, ClaimedOnce
<1>2. ClaimedOnce'
  BY DEF TypeOK, ClaimedOnce
<1>4. ASSUME NEW r \in Servers, r # s PROVE Shape(r)'
  BY <1>4, OthersKeepShape DEF TypeOK
<1>5. Shape(s)'
  BY <1>0 DEF TypeOK, Stages, Shape, InRun
<1> QED BY <1>1, <1>2, <1>4, <1>5

LEMMA NextInv == Inv /\ [Next]_vars => Inv'
<1> SUFFICES ASSUME Inv, [Next]_vars PROVE Inv'
  OBVIOUS
<1>1. CASE Tick
  BY <1>1, TickInv
<1>2. ASSUME NEW new \in Schedules, SaveSchedule(new) PROVE Inv'
  BY <1>2, SaveScheduleInv
<1>3. ASSUME NEW collectNow \in BOOLEAN, FinishSetup(collectNow) PROVE Inv'
  BY <1>3, FinishSetupInv
<1>4. CASE DigestByHand
  BY <1>4, DigestByHandInv
<1>5. ASSUME NEW s \in Servers, Start(s) \/ Crash(s) \/ Step(s) PROVE Inv'
  <2>1. CASE Start(s)
    BY <2>1, StartInv
  <2>2. CASE Crash(s)
    BY <2>2, CrashInv
  <2>3. CASE Step(s)
    <3>1. CASE Claim(s)
      BY <3>1, ClaimInv
    <3>2. CASE StartFirst(s)
      BY <3>2, StartFirstInv
    <3>3. CASE ReadSchedule(s)
      BY <3>3, ReadScheduleInv
    <3>4. CASE CatchUp(s)
      BY <3>4, CatchUpInv
    <3>5. CASE ResolveRunner(s)
      BY <3>5, ResolveRunnerInv
    <3>6. CASE Succeed(s)
      BY <3>6, SucceedInv
    <3>7. CASE Fail(s)
      BY <3>7, FailInv
    <3>8. CASE QueryFails(s)
      BY <3>8, QueryFailsInv
    <3>9. CASE Wake(s)
      BY <3>9, WakeInv
    <3> QED BY <2>3, <3>1, <3>2, <3>3, <3>4, <3>5, <3>6, <3>7, <3>8, <3>9, Zenon DEF Step
  <2> QED BY <1>5, <2>1, <2>2, <2>3
<1>6. CASE ReopenSetup
  BY <1>6, ReopenSetupInv
<1>7. CASE UNCHANGED vars
  <2> USE <1>7 DEF vars, settings, process, history, bounds
  <2>1. TypeOK'
    BY DEF Inv, TypeOK
  <2>2. ClaimedOnce'
    BY DEF Inv, ClaimedOnce
  <2>3. ASSUME NEW r \in Servers PROVE Shape(r)'
    BY OthersKeepShape DEF Inv
  <2> QED BY <2>1, <2>2, <2>3 DEF Inv
<1> QED BY <1>1, <1>2, <1>3, <1>4, <1>5, <1>6, <1>7, Zenon DEF Next

THEOREM InvHolds == Spec => []Inv
<1>1. Init => Inv
  BY InitInv
<1>2. Inv /\ [Next]_vars => Inv'
  BY NextInv
<1> QED BY <1>1, <1>2, PTL DEF Spec

-----------------------------------------------------------------------------
(* The theorems.                                                           *)

(* The values of the schedule, the settings and every process stay typed;  *)
(* in particular the occurrence ReadSchedule computes is a time not after  *)
(* the present, and no more requests are claimed than were made.           *)
THEOREM SchedulerTypeCorrect == Spec => []TypeOK
<1>1. Inv => TypeOK
  BY DEF Inv
<1> QED BY <1>1, InvHolds, PTL

(* "Only one scheduler can receive true" (ClaimCollectionRequest), for any *)
(* number of servers.                                                      *)
THEOREM ClaimedOnceHolds == Spec => []ClaimedOnce
<1>1. Inv => ClaimedOnce
  BY DEF Inv
<1> QED BY <1>1, InvHolds, PTL

(* catchUp never replays an occurrence the process has handled, nor an     *)
(* earlier one, whatever the schedules saved meanwhile.                    *)
THEOREM NoReplayHolds == Spec => []NoReplay
<1>1. Inv => NoReplay
  <2> SUFFICES ASSUME Inv, NEW s \in Servers, pc[s] = "check", NEW o \in handled[s]
               PROVE  o < due[s]
    BY DEF NoReplay
  <2>1. /\ reason[s] = "none" /\ lastOccurrence[s] < due[s]
        /\ o <= lastOccurrence[s] \/ (o = due[s] /\ reason[s] = "scheduled")
    BY DEF Inv, Shape, InRun
  <2>2. o \in Never..Horizon /\ due[s] \in Never..Horizon
        /\ lastOccurrence[s] \in Never..Horizon
    BY DEF Inv, TypeOK
  <2> QED BY <2>1, <2>2
<1> QED BY <1>1, InvHolds, PTL

(* BeginCollection and EndCollection: the marker is on exactly during a    *)
(* run, after failures and restarts too.                                   *)
THEOREM MarkerMatchesHolds == Spec => []MarkerMatches
<1>1. Inv => MarkerMatches
  BY DEF Inv, Shape, MarkerMatches
<1> QED BY <1>1, InvHolds, PTL

=============================================================================
