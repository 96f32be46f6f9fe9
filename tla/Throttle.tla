------------------------------ MODULE Throttle ------------------------------
(***************************************************************************)
(* The polite HTTP transport (internal/collect/throttle.go): requests to   *)
(* one host are given slots an interval apart.                             *)
(*                                                                         *)
(* The times next[host] of the code are kept relative to the present: due  *)
(* is how far next[host] lies ahead, 0 when it has passed, and wait how    *)
(* far the slot of a request is.  A step of time is one unit.  A request   *)
(* may be sent later than its slot, when its goroutine or timer is late.   *)
(***************************************************************************)
EXTENDS Integers

CONSTANTS
  Feeds,     \* sources retrieved through the transport, one request each
  Hosts,
  Interval   \* PolitenessInterval

ASSUME ThrottleAssumption == Interval \in Nat

VARIABLES
  due,      \* host: until its next free slot
  request,  \* feed: no request, waiting for a slot, or sent
  host,     \* feed: the host of its request
  wait,     \* feed: until its slot
  late,     \* feeds whose slot passed before they sent
  calm      \* host: since the last request sent in its slot, up to Interval

throttleVars == <<due, request, host, wait, late, calm>>

ThrottleTypeOK ==
  /\ due \in [Hosts -> Nat]
  /\ request \in [Feeds -> {"none", "waiting", "sent"}]
  /\ host \in [Feeds -> Hosts]
  /\ wait \in [Feeds -> Nat]
  /\ late \subseteq Feeds
  /\ calm \in [Hosts -> 0..Interval]

ThrottleInit ==
  /\ due = [h \in Hosts |-> 0]
  /\ request = [f \in Feeds |-> "none"]
  /\ host \in [Feeds -> Hosts]
  /\ wait = [f \in Feeds |-> 0]
  /\ late = {}
  /\ calm = [h \in Hosts |-> Interval]

(* Mutant: a time that has passed goes below zero.                         *)
LessUnclamped(n) == n - 1
Less(n) == IF n = 0 THEN 0 ELSE n - 1

-----------------------------------------------------------------------------
(* Mutant: the next slot is an interval from now.                          *)
ReserveFromNow(f, h) ==
  /\ request' = [request EXCEPT ![f] = "waiting"]
  /\ host' = [host EXCEPT ![f] = h]
  /\ wait' = [wait EXCEPT ![f] = due[h]]
  /\ due' = [due EXCEPT ![h] = Interval]
  /\ late' = late \ {f}
  /\ UNCHANGED calm

(* The slot is claimed under the lock; the request to h begins, or a       *)
(* redirect of it to h is followed.                                        *)
Reserve(f, h) ==
  /\ request' = [request EXCEPT ![f] = "waiting"]
  /\ host' = [host EXCEPT ![f] = h]
  /\ wait' = [wait EXCEPT ![f] = due[h]]
  /\ due' = [due EXCEPT ![h] = due[h] + Interval]
  /\ late' = late \ {f}
  /\ UNCHANGED calm

(* The slot has come: the request goes to the transport underneath.        *)
Send(f) ==
  /\ request[f] = "waiting" /\ wait[f] = 0
  /\ request' = [request EXCEPT ![f] = "sent"]
  /\ calm' = IF f \in late THEN calm ELSE [calm EXCEPT ![host[f]] = 0]
  /\ UNCHANGED <<due, host, wait, late>>

(* The request is over: answered, failed, or its context ended, be it      *)
(* while it waited.  A slot it has claimed is not given back.              *)
Leave(f) ==
  /\ request' = [request EXCEPT ![f] = "none"]
  /\ wait' = [wait EXCEPT ![f] = 0]
  /\ late' = late \ {f}
  /\ UNCHANGED <<due, host, calm>>

PassTime ==
  /\ due' = [h \in Hosts |-> Less(due[h])]
  /\ wait' = [f \in Feeds |-> Less(wait[f])]
  /\ late' = late \cup {f \in Feeds : request[f] = "waiting" /\ wait[f] = 0}
  /\ calm' = [h \in Hosts |-> IF calm[h] = Interval THEN Interval ELSE calm[h] + 1]
  /\ UNCHANGED <<request, host>>

(* A new runner builds a new client (job.New).                             *)
NewClient ==
  /\ \A f \in Feeds : request[f] = "none"
  /\ due' = [h \in Hosts |-> 0]
  /\ calm' = [h \in Hosts |-> Interval]
  /\ UNCHANGED <<request, host, wait, late>>

ThrottleNext ==
  \/ \E f \in Feeds, h \in Hosts : request[f] # "waiting" /\ Reserve(f, h)
  \/ \E f \in Feeds : Send(f) \/ Leave(f)
  \/ PassTime
  \/ NewClient

ThrottleSpec == ThrottleInit /\ [][ThrottleNext]_throttleVars

-----------------------------------------------------------------------------
(* Of two requests one client sends to a host, each in its slot, the       *)
(* second follows the first by at least the interval, whatever redirects,  *)
(* cancelled waits, late requests and other hosts come between             *)
(* ("PolitenessInterval is the minimum gap between requests to the same    *)
(* host", throttle.go).                                                    *)
Polite ==
  [][\A f \in Feeds :
       request[f] = "waiting" /\ request'[f] = "sent" /\ f \notin late
         => calm[host[f]] >= Interval]_throttleVars
=============================================================================
