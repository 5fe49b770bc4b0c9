------------------------------ MODULE Admission ------------------------------
(***************************************************************************)
(* How the service admits the calls of applicants, administrators and the  *)
(* operator: `rate` (src/src/requests.rs) counts each call of an hour      *)
(* against its installation and its network, in one transaction per call,  *)
(* and the phases of a handler follow one another on connections of one    *)
(* pool (src/src/main.rs).  A counter's row is locked from its increment   *)
(* to the end of the transaction, the World's row likewise.  `cleanup`     *)
(* deletes the counters of past hours.                                     *)
(*                                                                         *)
(* Abstractions.  The clock counts hours.  The set Calls stands for the 64 *)
(* calls that the server admits at a time: one more is answered            *)
(* service_busy and touches nothing.  The calls are those of one World;    *)
(* what their transactions do there is JoinRequests and Directory.  A      *)
(* refusal, an error, the 5 s limit on waiting for a connection, the 10 s  *)
(* of a statement, the 15 s of a call and a disconnection all roll back    *)
(* and end the call: the action End, possible at every step.               *)
(***************************************************************************)
EXTENDS Integers, FiniteSets, Sequences

CONSTANTS
  Calls,            \* concurrent calls the server admits: 64
  Installations,    \* digests of bearer capabilities
  Networks,         \* digests of client addresses
  Kinds,            \* handlers that are called, as in Route
  PoolSize,         \* connections of the pool: 16
  CheckInstall,     \* checks of an installation per hour: 600
  CheckNetwork,     \* checks of a network per hour: 6000
  SubmitInstall,    \* submissions of an installation per hour: 10
  SubmitNetwork,    \* submissions of a network per hour: 100
  MaxTime           \* bound of the checked runs: where the clock stops

ASSUME LimitsAssumption ==
  /\ PoolSize \in Nat /\ MaxTime \in Nat
  /\ CheckInstall \in Nat /\ CheckNetwork \in Nat
  /\ SubmitInstall \in Nat /\ SubmitNetwork \in Nat

ASSUME KeysAssumption == Installations \cap Networks = {}

Scopes == {"check", "submit"}

Hours == 0 .. MaxTime

(* The primary key of request_rate_limits, but for the bucket.              *)
Rows == Scopes \X (Installations \cup Networks)

Limit(row) ==
  IF row[1] = "check" THEN IF row[2] \in Installations THEN CheckInstall ELSE CheckNetwork
                      ELSE IF row[2] \in Installations THEN SubmitInstall ELSE SubmitNetwork

(* The phases of a handler: `submit`; `read`, `withdraw` and `decide`;      *)
(* `review`; `blocks`, `remove` and the operator's; `unblock` and `report`. *)
Route ==
  [submit |-> <<"sweep", "check", "submit", "work">>, decide |-> <<"check", "sweep", "work">>,
   review |-> <<"sweep", "work">>, remove |-> <<"check", "work">>,
   report |-> <<"submit", "work">>]

ASSUME KindsAssumption == Kinds \subseteq DOMAIN Route

Phases == Scopes \cup {"sweep", "work"}

(* A phase waits for a connection, opens, and, when it is a transaction     *)
(* with a second lock to take or to hold, goes on holding the first.        *)
Call ==
  [phases : Seq(Phases) \ {<< >>}, step : {"wait", "open", "locked"},
   install : Installations, network : Networks, arrived : Hours, at : Hours]

VARIABLES
  hits,      \* the committed counters, by row and bucket; no row counts as 0
  calls,     \* the calls in flight
  admitted,  \* history: the calls `rate` has let pass, by row and bucket
  now        \* the clock

vars == <<hits, calls, admitted, now>>

InFlight == DOMAIN calls

Phase(h) == Head(calls[h].phases)

Install(h) == <<Phase(h), calls[h].install>>

Network(h) == <<Phase(h), calls[h].network>>

Counting(h) == Phase(h) \in Scopes

(* Mutant: a handler keeps the connection of its first transaction.         *)
Connected_Nested(h) == calls[h].step # "wait" \/ Len(calls[h].phases) = 1

Connected(h) == calls[h].step # "wait"

(* Mutant: an increment waits for no other transaction.                     *)
Locked_Never(row, bucket) == row \notin Rows

(* A counter is locked for its bucket by the transaction that incremented   *)
(* it.  The second increment is followed at once by the commit.             *)
Locked(row, bucket) ==
  \E h \in InFlight :
    /\ Counting(h) /\ calls[h].step = "locked"
    /\ Install(h) = row /\ calls[h].at = bucket

WorldLocked == \E h \in InFlight : Phase(h) = "work" /\ calls[h].step = "locked"

-----------------------------------------------------------------------------
Init ==
  /\ hits = [row \in Rows |-> [b \in Hours |-> 0]]
  /\ admitted = [row \in Rows |-> [b \in Hours |-> 0]]
  /\ calls = << >>
  /\ now = 0

Step(h, call) ==
  /\ calls' = [calls EXCEPT ![h] = call]
  /\ UNCHANGED now

Forget(h) ==
  /\ calls' = [g \in InFlight \ {h} |-> calls[g]]
  /\ UNCHANGED now

(* Mutant: the last phase does not end the call.                            *)
NextPhase_Stays(h) == Step(h, [calls[h] EXCEPT !.phases = Tail(@), !.step = "wait"])

(* The connection goes back to the pool; the next phase asks for its own.   *)
NextPhase(h) ==
  IF Len(calls[h].phases) = 1
    THEN Forget(h)
    ELSE Step(h, [calls[h] EXCEPT !.phases = Tail(@), !.step = "wait"])

Arrive(h, i, n, kind) ==
  /\ h \notin InFlight
  /\ calls' = [g \in InFlight \cup {h} |->
       IF g = h THEN [phases |-> Route[kind], step |-> "wait", install |-> i, network |-> n,
                      arrived |-> now, at |-> now]
       ELSE calls[g]]
  /\ UNCHANGED <<hits, admitted, now>>

(* The phase gets a connection and starts: its now() is this instant.       *)
Connect(h) ==
  /\ h \in InFlight /\ calls[h].step = "wait"
  /\ Cardinality({g \in InFlight : Connected(g)}) < PoolSize
  /\ Step(h, [calls[h] EXCEPT !.step = "open", !.at = now])
  /\ UNCHANGED <<hits, admitted>>

(* The statement of `rate`: it waits for the row and passes the limit.      *)
Below(h, row) ==
  /\ ~Locked(row, calls[h].at)
  /\ hits[row][calls[h].at] < Limit(row)

(* rate: the installation's counter first; beyond its limit, End.           *)
CountInstall(h) ==
  /\ h \in InFlight /\ Counting(h) /\ calls[h].step = "open"
  /\ Below(h, Install(h))
  /\ Step(h, [calls[h] EXCEPT !.step = "locked"])
  /\ UNCHANGED <<hits, admitted>>

Counted(counters, h) ==
  [row \in Rows |->
     IF row \in {Install(h), Network(h)}
       THEN [counters[row] EXCEPT ![calls[h].at] = @ + 1] ELSE counters[row]]

(* Then the network's, and the transaction commits both.                    *)
CountNetwork(h) ==
  /\ h \in InFlight /\ Counting(h) /\ calls[h].step = "locked"
  /\ Below(h, Network(h))
  /\ hits' = Counted(hits, h)
  /\ admitted' = Counted(admitted, h)
  /\ NextPhase(h)

(* Mutant: the counters of the hour before are deleted too.                 *)
Past_Early(bucket) == bucket + 1 <= now

(* bucket < now() - interval '2 hours', for an instant within the hour.     *)
Past(bucket) == bucket + 2 <= now

Swept == [row \in Rows |-> [b \in Hours |-> IF Past(b) THEN 0 ELSE hits[row][b]]]

(* cleanup deletes old counters; it would wait for one that is locked.      *)
Sweep(h) ==
  /\ h \in InFlight /\ Phase(h) = "sweep" /\ calls[h].step = "open"
  /\ \A b \in Hours, row \in Rows : Past(b) => ~Locked(row, b)
  /\ hits' = Swept
  /\ NextPhase(h)
  /\ UNCHANGED admitted

(* The same by the maintenance loop, once a minute.                         *)
Maintain ==
  /\ \A b \in Hours, row \in Rows : Past(b) => ~Locked(row, b)
  /\ hits' = Swept
  /\ UNCHANGED <<calls, admitted, now>>

(* lock_world, and the end of that transaction.                             *)
LockWorld(h) ==
  /\ h \in InFlight /\ Phase(h) = "work" /\ calls[h].step = "open"
  /\ ~WorldLocked
  /\ Step(h, [calls[h] EXCEPT !.step = "locked"])
  /\ UNCHANGED <<hits, admitted>>

Finish(h) ==
  /\ h \in InFlight /\ Phase(h) = "work" /\ calls[h].step = "locked"
  /\ NextPhase(h)
  /\ UNCHANGED <<hits, admitted>>

End(h) ==
  /\ h \in InFlight
  /\ Forget(h)
  /\ UNCHANGED <<hits, admitted>>

(* A call is cut after 15 seconds: it sees at most one new hour.            *)
Tick ==
  /\ now < MaxTime
  /\ \A h \in InFlight : calls[h].arrived = now
  /\ now' = now + 1
  /\ UNCHANGED <<hits, calls, admitted>>

(* What rate refuses: the transaction is rolled back.                       *)
Refused(h) ==
  /\ h \in InFlight /\ Counting(h)
  /\ \E row \in {Install(h), Network(h)} :
       /\ calls[h].step = IF row = Install(h) THEN "open" ELSE "locked"
       /\ ~Locked(row, calls[h].at)
       /\ hits[row][calls[h].at] >= Limit(row)

Proceed(h) ==
  \/ Connect(h) \/ CountInstall(h) \/ CountNetwork(h) \/ Sweep(h) \/ LockWorld(h) \/ Finish(h)
  \/ Refused(h) /\ End(h)

Next ==
  \/ \E h \in Calls, i \in Installations, n \in Networks, kind \in Kinds : Arrive(h, i, n, kind)
  \/ \E h \in Calls : Proceed(h) \/ End(h)
  \/ Maintain
  \/ Tick

Spec == Init /\ [][Next]_vars

(* The pool and PostgreSQL serve those who wait in turn, so no call waits   *)
(* for ever while others come and go.  Neither time-outs nor clients that   *)
(* hang up are counted on.                                                  *)
FairSpec == Spec /\ \A h \in Calls : SF_vars(Proceed(h))

-----------------------------------------------------------------------------
TypeOK ==
  /\ hits \in [Rows -> [Hours -> Nat]]
  /\ admitted \in [Rows -> [Hours -> Nat]]
  /\ InFlight \subseteq Calls
  /\ \A h \in InFlight : calls[h] \in Call
  /\ now \in Hours

(* No installation and no network gets more calls past `rate` in an hour    *)
(* than its limit, under any concurrency, across the turn of the hour and   *)
(* whatever counters are deleted meanwhile.                                 *)
AdmittedBounded ==
  \A row \in Rows, b \in Hours : admitted[row][b] <= Limit(row)

(* A budget is spent by admitted calls alone: a call that the network's     *)
(* limit refuses, or that fails between its two increments, costs its       *)
(* installation nothing, as long as the hour's counter can still be used.   *)
RefusalsCostNothing ==
  \A row \in Rows, b \in Hours :
    b + 2 > now => hits[row][b] = admitted[row][b]

(* However the calls' statements, commits and rollbacks interleave, the     *)
(* counters are those of calls charged one after another, each at once.     *)
Purse == INSTANCE Budget WITH
  spent <- hits, hour <- now, Limits <- [row \in Rows |-> Limit(row)]

ImplementsBudget == Purse!Spec

(* No two calls wait for one another, through the pool, the counters or the *)
(* World: each ends although nothing is ever cut off.                       *)
EveryCallEnds == \A h \in Calls : h \in InFlight ~> h \notin InFlight

=============================================================================
