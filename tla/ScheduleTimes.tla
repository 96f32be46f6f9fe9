---------------------------- MODULE ScheduleTimes ----------------------------
(***************************************************************************)
(* The instants of the collection schedule: internal/config/schedule.go.   *)
(*                                                                         *)
(* Instants are integers.  A local day lasts Day of them, the days of a    *)
(* clock change excepted, which are left out.  A schedule fires at         *)
(* its time of day and every interval after it, until the next day's time. *)
(***************************************************************************)
EXTENDS Integers

CONSTANT Day  \* instants per local day

ASSUME DayAssumption == Day \in Nat \ {0}

(* TimeOfDay.On.                                                           *)
On(at, day) == day * Day + at

(* The occurrences of the cycle that starts on the given day.              *)
Cycle(at, every, day) ==
  {t \in On(at, day) .. On(at, day + 1) - 1 : (t - On(at, day)) % every = 0}

Earliest(S) == CHOOSE t \in S : \A u \in S : t <= u
Latest(S) == CHOOSE t \in S : \A u \in S : u <= t

(* The cycle of today or, when that is over, the start of tomorrow's.      *)
NextEvery(at, every, now) ==
  LET today == now \div Day
      later == {t \in Cycle(at, every, today) : t > now}
  IN IF later = {} THEN On(at, today + 1) ELSE Earliest(later)

(* The cycle now is in, which is yesterday's before the time of day.       *)
PreviousEvery(at, every, now) ==
  LET today == now \div Day
      day == IF now < On(at, today) THEN today - 1 ELSE today
  IN Latest({t \in Cycle(at, every, day) : t <= now})
=============================================================================
