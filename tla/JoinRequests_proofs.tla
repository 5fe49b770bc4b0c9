------------------------- MODULE JoinRequests_proofs -------------------------
(***************************************************************************)
(* Proofs about JoinRequests, for every number of Worlds, installations,   *)
(* requests and concurrent calls, and every length of the two periods.     *)
(***************************************************************************)
EXTENDS JoinRequests, FiniteSetTheorems, TLAPS

-----------------------------------------------------------------------------
(* Every row operator keeps the type of a row.                              *)

LEMMA AbsentRowType == AbsentRow \in Row
  BY NoneAssumption DEF AbsentRow, Row, Statuses

LEMMA NewRowType ==
  ASSUME NEW w \in Worlds, NEW i \in Installations, NEW n \in Names, NEW t \in Nat
  PROVE  NewRow(w, i, n, t) \in Row
<1>1. t + PendingTTL \in Nat
  BY PeriodsAssumption
<1> QED
  BY <1>1, AbsentRowType DEF NewRow, Row, Statuses

LEMMA RowOperatorsType ==
  ASSUME NEW q \in Row, NEW t \in Nat
  PROVE  /\ q.expires \in Nat => Expired(q) \in Row
         /\ Scrubbed(q) \in Row
         /\ Withdrawn(q, t) \in Row
         /\ \A d \in Decisions \cup {None} : DecidedBy(q, d) \in Row
         /\ \A receipt \in Receipt : Accepted(q, receipt, t) \in Row
         /\ Superseded(q, t) \in Row
         /\ \A d \in Decisions, block \in BOOLEAN : Rejected(q, d, block, t) \in Row
         /\ Removed(q) \in Row
<1> USE DEF Row, Statuses
<1>1. q.expires \in Nat => Expired(q) \in Row
  BY DEF Expired
<1>2. Scrubbed(q) \in Row
  BY DEF Scrubbed
<1>3. Withdrawn(q, t) \in Row
  BY DEF Withdrawn
<1>4. \A d \in Decisions \cup {None} : DecidedBy(q, d) \in Row
  BY DEF DecidedBy
<1>5. \A receipt \in Receipt : Accepted(q, receipt, t) \in Row
  BY DEF Accepted
<1>6. Superseded(q, t) \in Row
  BY DEF Superseded, Scrubbed
<1>7. \A d \in Decisions, block \in BOOLEAN : Rejected(q, d, block, t) \in Row
  BY DEF Rejected
<1>8. Removed(q) \in Row
  BY DEF Removed
<1> QED
  BY <1>1, <1>2, <1>3, <1>4, <1>5, <1>6, <1>7, <1>8

-----------------------------------------------------------------------------
(* A call under way came at most one unit of the clock ago.                 *)
Timely ==
  \A h \in Handlers : calls[h].stage # "idle" => calls[h].at <= now /\ now <= calls[h].at + 1

(* The instants its statements and its transaction can take as now().       *)
Moments == {t \in Nat : t <= now /\ now <= t + 1}

LEMMA Instants ==
  ASSUME TypeOK, Timely, NEW h \in Handlers, calls[h].stage # "idle"
  PROVE  \A t \in calls[h].at .. now : t \in Moments
  BY DEF TypeOK, Timely, Moments

(* What any step can make of one row, q before and p after it.  The proofs  *)
(* about rows argue from this list instead of the actions.                  *)
RowStep(q, p) ==
  \/ p = q
  \/ q.status = "pending" /\ p = Expired(q)
  \/ q.status # "absent" /\ p = Scrubbed(q)
  \/ q.terminal # None /\ q.terminal + Retention <= now /\ p = AbsentRow
  \/ /\ q.status = "absent"
     /\ \E w \in Worlds, i \in Installations, n \in Names, t \in Moments : p = NewRow(w, i, n, t)
  \/ q.status = "pending" /\ q.decision = None /\ \E t \in Moments : p = Withdrawn(q, t)
  \/ /\ q.status = "pending"
     /\ \E d \in Decisions : q.decision \in {None, d} /\ p = DecidedBy(q, d)
  \/ q.status = "pending" /\ q.decision # None /\ p = DecidedBy(q, None)
  \/ q.status = "pending" /\ q.decision # None /\ p = Expired(DecidedBy(q, None))
  \/ q.status = "expired" /\ p = DecidedBy(q, None)
  \/ /\ q.status \in {"pending", "expired"} /\ q.decision # None
     /\ \E receipt \in Receipt, t \in Moments :
          q.name \in {None, receipt.name} /\ p = Accepted(q, receipt, t)
  \/ q.status = "pending" /\ \E t \in Moments : p = Superseded(q, t)
  \/ /\ q.status = "pending" /\ q.decision = None
     /\ \E d \in Decisions, block \in BOOLEAN, t \in Moments : p = Rejected(q, d, block, t)
  \/ q.status = "accepted" /\ p = Removed(q)

LEMMA RowStepType ==
  ASSUME NEW q \in Row, NEW p, RowStep(q, p)
  PROVE  p \in Row
<1>1. q.expires \in Nat
  BY DEF Row
<1>2. 0 \in Nat /\ DecidedBy(q, None) \in Row
  BY RowOperatorsType
<1>3. DecidedBy(q, None).expires \in Nat
  BY <1>2 DEF Row
<1>4. Expired(DecidedBy(q, None)) \in Row
  BY <1>2, <1>3, RowOperatorsType
<1> QED
  BY <1>1, <1>2, <1>4, AbsentRowType, NewRowType, RowOperatorsType DEF RowStep, Moments

(* A write of one row and the bulk writes, in terms of RowStep.             *)
LEMMA WriteStep ==
  ASSUME TypeOK, NEW r \in Requests, NEW p, Write(r, p), RowStep(requests[r], p)
  PROVE  /\ requests' = [q \in Requests |-> requests'[q]]
         /\ \A q \in Requests : RowStep(requests[q], requests'[q])
  BY DEF Write, TypeOK, RowStep

LEMMA RowsStep ==
  ASSUME TypeOK, Timely, [Next]_vars
  PROVE  /\ requests' = [r \in Requests |-> requests'[r]]
         /\ \A r \in Requests : RowStep(requests[r], requests'[r])
<1> DEFINE Goal == /\ requests' = [r \in Requests |-> requests'[r]]
                   /\ \A r \in Requests : RowStep(requests[r], requests'[r])
<1>0. CASE UNCHANGED requests
  BY <1>0 DEF RowStep, TypeOK
<1>1. ASSUME NEW h \in Handlers, Expire(h) PROVE Goal
  BY <1>1 DEF Expire, RowStep
<1>2. ASSUME NEW h \in Handlers, Scrub(h) PROVE Goal
  BY <1>2 DEF Scrub, RowStep
<1>3. ASSUME NEW h \in Handlers, Purge(h) PROVE Goal
  <2>1. PICK t \in calls[h].at .. now :
          requests' = [r \in Requests |->
            IF requests[r].terminal # None /\ requests[r].terminal + Retention <= t
              THEN AbsentRow ELSE requests[r]]
    BY <1>3 DEF Purge
  <2>2. t \in Nat /\ t <= now /\ now \in Nat
    BY DEF TypeOK
  <2>3. ASSUME NEW r \in Requests PROVE RowStep(requests[r], requests'[r])
    <3>1. CASE requests[r].terminal # None /\ requests[r].terminal + Retention <= t
      <4>1. requests[r].terminal \in Nat
        BY <3>1 DEF TypeOK, Row
      <4>2. requests[r].terminal + Retention <= now
        BY <3>1, <2>2, <4>1, PeriodsAssumption
      <4> QED
        BY <2>1, <3>1, <4>2 DEF RowStep
    <3>2. CASE ~(requests[r].terminal # None /\ requests[r].terminal + Retention <= t)
      BY <2>1, <3>2 DEF RowStep
    <3> QED
      BY <3>1, <3>2
  <2> QED
    BY <2>1, <2>3
<1>4. ASSUME NEW h \in Clients, NEW r \in Requests, NEW w \in Worlds,
             NEW i \in Installations, NEW n \in Names, Submit(h, r, w, i, n)
      PROVE  Goal
  <2>1. PICK t \in calls[h].at .. now : Write(r, NewRow(w, i, n, t))
    BY <1>4 DEF Submit
  <2>2. t \in Moments
    BY <1>4, Instants DEF Submit, Commit, Handlers
  <2>3. RowStep(requests[r], NewRow(w, i, n, t))
    BY <1>4, <2>2 DEF Submit, RowStep
  <2> QED
    BY <2>1, <2>3, WriteStep
<1>5. ASSUME NEW h \in Clients, NEW r \in Requests, Withdraw(h, r) PROVE Goal
  <2>1. PICK t \in calls[h].at .. now : Write(r, Withdrawn(requests[r], t))
    BY <1>5 DEF Withdraw
  <2>2. t \in Moments
    BY <1>5, Instants DEF Withdraw, Commit, Handlers
  <2>3. RowStep(requests[r], Withdrawn(requests[r], t))
    BY <1>5, <2>2 DEF Withdraw, RowStep
  <2> QED
    BY <2>1, <2>3, WriteStep
<1>6. ASSUME NEW h \in Clients, NEW r \in Requests, NEW d \in Decisions, Prepare(h, r, d)
      PROVE  Goal
  <2>1. RowStep(requests[r], DecidedBy(requests[r], d))
    BY <1>6 DEF Prepare, Decidable, RowStep
  <2> QED
    BY <1>6, <2>1, WriteStep DEF Prepare
<1>7. ASSUME NEW h \in Clients, NEW r \in Requests, NEW d \in Decisions, Abort(h, r, d)
      PROVE  Goal
  <2>1. PICK p \in {DecidedBy(requests[r], None), Expired(DecidedBy(requests[r], None))} :
          Write(r, p)
    BY <1>7 DEF Abort
  <2>2. RowStep(requests[r], p)
    BY <1>7, NoneAssumption DEF Abort, RowStep
  <2> QED
    BY <2>1, <2>2, WriteStep
<1>8. ASSUME NEW h \in Clients, NEW r \in Requests, NEW d \in Decisions, AbortExpired(h, r, d)
      PROVE  Goal
  <2>1. RowStep(requests[r], DecidedBy(requests[r], None))
    BY <1>8 DEF AbortExpired, RowStep
  <2> QED
    BY <1>8, <2>1, WriteStep DEF AbortExpired
<1>9. ASSUME NEW h \in Clients, NEW r \in Requests, NEW d \in Decisions,
             NEW receipt \in Receipt, Accept(h, r, d, receipt)
      PROVE  Goal
  <2>1. PICK t \in calls[h].at .. now : Write(r, Accepted(requests[r], receipt, t))
    BY <1>9 DEF Accept
  <2>2. t \in Moments
    BY <1>9, Instants DEF Accept, Commit, Handlers
  <2>3. RowStep(requests[r], Accepted(requests[r], receipt, t))
    BY <1>9, <2>2, NoneAssumption DEF Accept, RowStep
  <2> QED
    BY <2>1, <2>3, WriteStep
<1>10. ASSUME NEW h \in Clients, NEW r \in Requests, NEW d \in Decisions,
              NEW receipt \in Receipt, AcceptLate(h, r, d, receipt)
       PROVE  Goal
  <2>1. PICK t \in calls[h].at .. now :
          requests' = [p \in Requests |->
            IF p = r THEN Accepted(requests[r], receipt, t)
            ELSE IF /\ Owns(requests[p], requests[r].world, requests[r].inst)
                    /\ requests[p].status = "pending"
              THEN Superseded(requests[p], t)
            ELSE requests[p]]
    BY <1>10 DEF AcceptLate
  <2>2. t \in Moments
    BY <1>10, Instants DEF AcceptLate, Commit, Handlers
  <2>3. RowStep(requests[r], Accepted(requests[r], receipt, t))
    BY <1>10, <2>2, NoneAssumption DEF AcceptLate, RowStep
  <2>4. ASSUME NEW p \in Requests, requests[p].status = "pending"
        PROVE  RowStep(requests[p], Superseded(requests[p], t))
    BY <2>2, <2>4 DEF RowStep
  <2>5. ASSUME NEW p \in Requests PROVE RowStep(requests[p], requests[p])
    BY DEF RowStep
  <2> QED
    BY <2>1, <2>3, <2>4, <2>5
<1>11. ASSUME NEW h \in Clients, NEW r \in Requests, NEW d \in Decisions,
              NEW block \in BOOLEAN, Reject(h, r, d, block)
       PROVE  Goal
  <2>1. PICK t \in calls[h].at .. now : Write(r, Rejected(requests[r], d, block, t))
    BY <1>11 DEF Reject
  <2>2. t \in Moments
    BY <1>11, Instants DEF Reject, Commit, Handlers
  <2>3. RowStep(requests[r], Rejected(requests[r], d, block, t))
    BY <1>11, <2>2 DEF Reject, Decidable, RowStep
  <2> QED
    BY <2>1, <2>3, WriteStep
<1>12. ASSUME NEW w \in Worlds, NEW o \in Removals, NEW r \in Requests,
              NEW banned \in SUBSET Installations, RemovePlayer(w, o, r, banned)
       PROVE  Goal
  BY <1>12 DEF RemovePlayer, RowStep, TypeOK
<1> QED
  BY <1>0, <1>1, <1>2, <1>3, <1>4, <1>5, <1>6, <1>7, <1>8, <1>9, <1>10, <1>11, <1>12
  DEF Next, Cleanup, Forget, Decide, Arrive, Abandon, Unblock, Tick, vars

-----------------------------------------------------------------------------
(* Typing.                                                                  *)

LEMMA TypeInit == Init => TypeOK
  BY AbsentRowType DEF Init, TypeOK, Idle, Stages

LEMMA TypeRequests ==
  ASSUME TypeOK, Timely, [Next]_vars
  PROVE  requests' \in [Requests -> Row]
<1>1. \A r \in Requests : requests[r] \in Row
  BY DEF TypeOK
<1>2. \A r \in Requests : requests'[r] \in Row
  BY <1>1, RowsStep, RowStepType
<1> QED
  BY <1>2, RowsStep

LEMMA CallSteps ==
  ASSUME [Next]_vars
  PROVE  \/ \E h \in Handlers : Cleanup(h) \/ Abandon(h)
         \/ \E h \in Clients : Commit(h)
         \/ UNCHANGED calls
<1>1. ASSUME NEW h \in Clients, Decide(h) PROVE Commit(h)
  BY <1>1 DEF Decide, Prepare, Abort, AbortExpired, Accept, AcceptLate, Reject
<1> QED
  BY <1>1 DEF Next, Submit, Withdraw, Unblock, RemovePlayer, Tick, vars

(* What the cleanup of one call, or its end, writes to its stage.           *)
LEMMA CleanupStep ==
  ASSUME NEW h \in Handlers, Cleanup(h) \/ Abandon(h)
  PROVE  \/ calls' = [calls EXCEPT ![h] = [stage |-> "expire", at |-> now]]
         \/ calls' = [calls EXCEPT ![h] = [stage |-> "idle", at |-> 0]]
         \/ \E to \in {"scrub", "purge", "forget", "tx"} :
              calls' = [calls EXCEPT ![h].stage = to]
<1>1. CASE Arrive(h)
  BY <1>1 DEF Arrive
<1>2. CASE Abandon(h)
  BY <1>2 DEF Abandon, Idle
<1>3. CASE Expire(h)
  BY <1>3 DEF Expire, Advance
<1>4. CASE Scrub(h)
  BY <1>4 DEF Scrub, Advance
<1>5. CASE Purge(h) \/ Forget(h)
  BY <1>5 DEF Purge, Forget, Advance
<1> QED
  BY <1>1, <1>2, <1>3, <1>4, <1>5 DEF Cleanup

LEMMA TypeCalls ==
  ASSUME TypeOK, [Next]_vars
  PROVE  calls' \in [Handlers -> [stage : Stages, at : Nat]]
<1> USE DEF TypeOK, Stages, Idle, Handlers
<1>1. ASSUME NEW h \in Handlers, Cleanup(h) \/ Abandon(h)
      PROVE  calls' \in [Handlers -> [stage : Stages, at : Nat]]
  BY <1>1, CleanupStep
<1>2. ASSUME NEW h \in Clients, Commit(h)
      PROVE  calls' \in [Handlers -> [stage : Stages, at : Nat]]
  BY <1>2 DEF Commit
<1>3. CASE UNCHANGED calls
  BY <1>3
<1> QED
  BY <1>1, <1>2, <1>3, CallSteps

-----------------------------------------------------------------------------
(* The columns of a row agree after every write.                            *)

LEMMA RowConsistentStep ==
  ASSUME NEW q \in Row, RowConsistent(q), NEW p, RowStep(q, p)
  PROVE  RowConsistent(p)
<1> USE NoneAssumption DEF RowConsistent, Seated
<1>1. CASE p = q
  BY <1>1
<1>2. CASE q.status = "pending" /\ p = Expired(q)
  BY <1>2 DEF Expired, Row
<1>3. CASE q.status # "absent" /\ p = Scrubbed(q)
  BY <1>3 DEF Scrubbed, Row
<1>4. CASE p = AbsentRow
  BY <1>4 DEF AbsentRow
<1>5. ASSUME NEW w \in Worlds, NEW i \in Installations, NEW n \in Names, NEW t \in Nat,
             p = NewRow(w, i, n, t)
      PROVE  RowConsistent(p)
  BY <1>5 DEF NewRow, AbsentRow
<1>6. ASSUME NEW t \in Nat, q.status = "pending", q.decision = None, p = Withdrawn(q, t)
      PROVE  RowConsistent(p)
  BY <1>6 DEF Withdrawn, Row
<1>7. ASSUME NEW d \in Decisions \cup {None}, q.status \in {"pending", "expired"},
             p = DecidedBy(q, d)
      PROVE  RowConsistent(p)
  BY <1>7 DEF DecidedBy, Row
<1>8. CASE q.status = "pending" /\ p = Expired(DecidedBy(q, None))
  BY <1>8 DEF Expired, DecidedBy, Row
<1>9. ASSUME NEW receipt \in Receipt, NEW t \in Nat,
             q.status \in {"pending", "expired"}, q.decision # None,
             q.name \in {None, receipt.name}, p = Accepted(q, receipt, t)
      PROVE  RowConsistent(p)
  BY <1>9 DEF Accepted, Row, Receipt
<1>10. ASSUME NEW t \in Nat, q.status = "pending", p = Superseded(q, t)
       PROVE  RowConsistent(p)
  BY <1>10 DEF Superseded, Scrubbed, Row
<1>11. ASSUME NEW d \in Decisions, NEW block \in BOOLEAN, NEW t \in Nat,
              q.status = "pending", p = Rejected(q, d, block, t)
       PROVE  RowConsistent(p)
  BY <1>11 DEF Rejected, Row
<1>12. CASE q.status = "accepted" /\ p = Removed(q)
  BY <1>12 DEF Removed, Row
<1> QED
  BY <1>1, <1>2, <1>3, <1>4, <1>5, <1>6, <1>7, <1>8, <1>9, <1>10, <1>11, <1>12
  DEF RowStep, Moments

LEMMA RowsConsistentNext ==
  ASSUME TypeOK, Timely, RowsConsistent, [Next]_vars
  PROVE  RowsConsistent'
<1>1. \A r \in Requests : requests[r] \in Row /\ RowConsistent(requests[r])
  BY DEF TypeOK, RowsConsistent
<1>2. \A r \in Requests : RowConsistent(requests'[r])
  BY <1>1, RowsStep, RowConsistentStep
<1>3. \A r \in Requests : RowConsistent(requests[r])'
  BY <1>2 DEF RowConsistent, Seated, AbsentRow
<1> QED
  BY <1>3 DEF RowsConsistent

-----------------------------------------------------------------------------
(* The blocks are installations because a rejected request has an owner:    *)
(* typing needs the agreement of the columns.                               *)

LEMMA TypeRest ==
  ASSUME TypeOK, RowsConsistent, [Next]_vars
  PROVE  /\ blocks' \in [Worlds -> SUBSET Installations]
         /\ removals' \in [Worlds -> [Removals -> Removal \cup {None}]]
         /\ now' \in Nat
<1> DEFINE Goal == /\ blocks' \in [Worlds -> SUBSET Installations]
                   /\ removals' \in [Worlds -> [Removals -> Removal \cup {None}]]
                   /\ now' \in Nat
<1>1. ASSUME NEW h \in Handlers, Forget(h) PROVE Goal
  BY <1>1 DEF Forget, Advance, TypeOK
<1>2. ASSUME NEW h \in Clients, NEW r \in Requests, NEW d \in Decisions,
             NEW block \in BOOLEAN, Reject(h, r, d, block)
      PROVE  Goal
  <2>1. requests[r].inst \in Installations
    BY <1>2 DEF Reject, Decidable, RowsConsistent, RowConsistent
  <2> QED
    BY <1>2, <2>1 DEF Reject, Commit, Write, TypeOK
<1>3. ASSUME NEW w \in Worlds, NEW o \in Removals, NEW r \in Requests,
             NEW banned \in SUBSET Installations, RemovePlayer(w, o, r, banned)
      PROVE  Goal
  <2>1. PICK t \in {now - 1, now} \cap Nat :
          removals' = [removals EXCEPT ![w][o] = [seat |-> r, banned |-> banned, created |-> t]]
    BY <1>3 DEF RemovePlayer
  <2>2. [seat |-> r, banned |-> banned, created |-> t] \in Removal
    BY DEF Removal
  <2> QED
    BY <1>3, <2>1, <2>2 DEF RemovePlayer, TypeOK
<1>4. CASE /\ UNCHANGED removals
           /\ UNCHANGED blocks \/ \E w \in Worlds, i \in Installations : Unblock(w, i)
           /\ now' \in {now, now + 1}
  BY <1>4 DEF TypeOK, Unblock
<1> QED
  BY <1>1, <1>2, <1>3, <1>4
  DEF Next, Cleanup, Decide, Arrive, Expire, Scrub, Purge, Advance, Abandon, Commit, Write,
      Submit, Withdraw, Prepare, Abort, AbortExpired, Accept, AcceptLate, Unblock, Tick, vars

-----------------------------------------------------------------------------
(* Calls and the clock.                                                     *)

LEMMA TimelyNext ==
  ASSUME TypeOK, Timely, [Next]_vars
  PROVE  Timely'
<1> USE DEF Timely, TypeOK, Idle
<1>1. ASSUME NEW h \in Handlers, Arrive(h) PROVE Timely'
  BY <1>1 DEF Arrive
<1>2. ASSUME NEW h \in Handlers, Expire(h) \/ Scrub(h) \/ Purge(h) \/ Forget(h)
      PROVE  Timely'
  BY <1>2 DEF Expire, Scrub, Purge, Forget, Advance
<1>3. ASSUME NEW h \in Handlers, calls' = [calls EXCEPT ![h] = Idle], UNCHANGED now
      PROVE  Timely'
  BY <1>3
<1>4. CASE UNCHANGED <<calls, now>>
  BY <1>4
<1>5. CASE Tick
  BY <1>5 DEF Tick
<1>6. ASSUME NEW h \in Clients, Decide(h) PROVE Commit(h)
  BY <1>6 DEF Decide, Prepare, Abort, AbortExpired, Accept, AcceptLate, Reject
<1>7. ASSUME NEW h \in Clients, Commit(h) PROVE Timely'
  BY <1>3, <1>7 DEF Commit, Handlers
<1>8. ASSUME NEW h \in Handlers, Abandon(h) PROVE Timely'
  BY <1>3, <1>8 DEF Abandon
<1> QED
  BY <1>1, <1>2, <1>4, <1>5, <1>6, <1>7, <1>8
  DEF Next, Cleanup, Submit, Withdraw, Unblock, RemovePlayer, vars

-----------------------------------------------------------------------------
(* The inductive invariant of the theorems.                                 *)
Inv == TypeOK /\ Timely /\ RowsConsistent

LEMMA InvInit == Init => Inv
  BY AbsentRowType
  DEF Init, Inv, TypeOK, Timely, RowsConsistent, RowConsistent, Seated, AbsentRow, Idle, Stages

LEMMA InvNext == Inv /\ [Next]_vars => Inv'
  BY TypeRequests, TypeCalls, TypeRest, TimelyNext, RowsConsistentNext DEF Inv, TypeOK

(* The tables and the calls keep their types, whatever interleaves.         *)
THEOREM TypeCorrect == Spec => []TypeOK
  BY InvInit, InvNext, PTL DEF Spec, Inv

(* The columns of every row agree, so a credential is stored exactly while  *)
(* its seat is taken.                                                       *)
THEOREM RowsAgree == Spec => []RowsConsistent
  BY InvInit, InvNext, PTL DEF Spec, Inv

-----------------------------------------------------------------------------
(* The deadlines.                                                           *)

Settled(q, a) == q.status = "pending" => q.expires > a

Erased(q, a) == q.name # None \/ q.message => q.expires > a

Kept(q, a) == q.terminal # None => q.terminal + Retention > a

(* No write of another call undoes what a cleanup statement at instant a,   *)
(* of a call still under way, has done: new deadlines lie ahead.            *)
LEMMA DeadlineStep ==
  ASSUME NEW q \in Row, NEW p, RowStep(q, p), now \in Nat,
         NEW a \in Nat, a <= now, now <= a + 1
  PROVE  /\ Settled(q, a) => Settled(p, a)
         /\ Erased(q, a) => Erased(p, a)
         /\ Settled(q, a) /\ Kept(q, a) => Kept(p, a)
<1> DEFINE Goal == /\ Settled(q, a) => Settled(p, a)
                   /\ Erased(q, a) => Erased(p, a)
                   /\ Settled(q, a) /\ Kept(q, a) => Kept(p, a)
<1> USE NoneAssumption, PeriodsAssumption DEF Settled, Erased, Kept, Row
<1>1. CASE p = q
  BY <1>1
<1>2. CASE q.status = "pending" /\ p = Expired(q)
  BY <1>2 DEF Expired
<1>3. CASE p = Scrubbed(q)
  BY <1>3 DEF Scrubbed
<1>4. CASE p = AbsentRow
  BY <1>4 DEF AbsentRow
<1>5. ASSUME NEW w \in Worlds, NEW i \in Installations, NEW n \in Names, NEW t \in Moments,
             p = NewRow(w, i, n, t)
      PROVE  Goal
  <2>1. p.expires > a /\ p.terminal = None
    BY <1>5 DEF NewRow, AbsentRow, Moments
  <2> QED
    BY <2>1
<1>6. ASSUME NEW t \in Moments, p = Withdrawn(q, t) PROVE Goal
  BY <1>6 DEF Withdrawn, Moments
<1>7. ASSUME NEW d \in Decisions \cup {None}, p = DecidedBy(q, d) PROVE Goal
  BY <1>7 DEF DecidedBy
<1>8. CASE q.status = "pending" /\ p = Expired(DecidedBy(q, None))
  BY <1>8 DEF Expired, DecidedBy
<1>9. ASSUME NEW receipt \in Receipt, NEW t \in Moments, p = Accepted(q, receipt, t)
      PROVE  Goal
  BY <1>9 DEF Accepted, Moments
<1>10. ASSUME NEW t \in Moments, p = Superseded(q, t) PROVE Goal
  BY <1>10 DEF Superseded, Scrubbed, Moments
<1>11. ASSUME NEW d \in Decisions, NEW block \in BOOLEAN, NEW t \in Moments,
              p = Rejected(q, d, block, t)
       PROVE  Goal
  BY <1>11 DEF Rejected, Moments
<1>12. CASE p = Removed(q)
  BY <1>12 DEF Removed
<1> QED
  BY <1>1, <1>2, <1>3, <1>4, <1>5, <1>6, <1>7, <1>8, <1>9, <1>10, <1>11, <1>12
  DEF RowStep

(* What a step does to one call.                                            *)
LEMMA CallStep ==
  ASSUME TypeOK, [Next]_vars, NEW h \in Handlers
  PROVE  \/ calls'[h] = calls[h]
         \/ Expire(h) \/ Scrub(h) \/ Purge(h) \/ Forget(h)
         \/ calls'[h].stage \in {"idle", "expire"}
<1> DEFINE Goal == \/ calls'[h] = calls[h]
                   \/ Expire(h) \/ Scrub(h) \/ Purge(h) \/ Forget(h)
                   \/ calls'[h].stage \in {"idle", "expire"}
<1>0. DOMAIN calls = Handlers
  BY DEF TypeOK
<1>1. ASSUME NEW g \in Handlers, Cleanup(g) \/ Abandon(g) PROVE Goal
  <2>1. CASE g = h
    <3>1. CASE Arrive(h)
      BY <1>0, <3>1 DEF Arrive
    <3>2. CASE Abandon(h)
      BY <1>0, <3>2 DEF Abandon, Idle
    <3> QED
      BY <1>1, <2>1, <3>1, <3>2 DEF Cleanup
  <2>2. CASE g # h
    BY <1>0, <1>1, <2>2, CleanupStep
  <2> QED
    BY <2>1, <2>2
<1>2. ASSUME NEW g \in Clients, Commit(g) PROVE Goal
  BY <1>2 DEF Commit, Idle, TypeOK, Handlers
<1> QED
  BY <1>1, <1>2, CallSteps

LEMMA DeadlineNext ==
  ASSUME Inv, DeadlineEnforced, [Next]_vars
  PROVE  DeadlineEnforced'
<1> SUFFICES ASSUME NEW h \in Handlers, NEW r \in Requests
             PROVE  /\ calls'[h].stage \in {"scrub", "purge", "forget", "tx"}
                       => Settled(requests'[r], calls'[h].at)
                    /\ calls'[h].stage \in {"purge", "forget", "tx"}
                       => Erased(requests'[r], calls'[h].at)
                    /\ calls'[h].stage \in {"forget", "tx"} => Kept(requests'[r], calls'[h].at)
  BY DEF DeadlineEnforced, Settled, Erased, Kept
<1> DEFINE q == requests[r]
           p == requests'[r]
           a == calls[h].at
<1>1. /\ calls[h].stage \in {"scrub", "purge", "forget", "tx"} => Settled(q, a)
      /\ calls[h].stage \in {"purge", "forget", "tx"} => Erased(q, a)
      /\ calls[h].stage \in {"forget", "tx"} => Kept(q, a)
  BY DEF DeadlineEnforced, Settled, Erased, Kept
<1>2. q \in Row /\ a \in Nat /\ now \in Nat /\ RowStep(q, p)
  BY RowsStep DEF Inv, TypeOK
<1>3. ASSUME calls[h].stage \in {"scrub", "purge", "forget", "tx"}
      PROVE  /\ Settled(p, a)
             /\ Erased(q, a) => Erased(p, a)
             /\ Kept(q, a) => Kept(p, a)
  <2>1. a <= now /\ now <= a + 1
    BY <1>3 DEF Inv, Timely
  <2> QED
    BY <1>1, <1>2, <1>3, <2>1, DeadlineStep
<1>4. CASE calls'[h] = calls[h]
  BY <1>1, <1>3, <1>4
<1>5. CASE Expire(h)
  <2>1. calls'[h].stage = "scrub" /\ calls'[h].at = a
    BY <1>5 DEF Expire, Advance, Inv, TypeOK
  <2>2. p = IF q.status = "pending" /\ q.expires <= a THEN Expired(q) ELSE q
    BY <1>5 DEF Expire
  <2>3. Settled(p, a)
    BY <1>2, <2>2 DEF Expired, Settled, Row
  <2> QED
    BY <2>1, <2>3
<1>6. CASE Scrub(h)
  <2>1. /\ calls[h].stage = "scrub"
        /\ calls'[h].stage = "purge" /\ calls'[h].at = a
    BY <1>6 DEF Scrub, Advance, Inv, TypeOK
  <2>2. PICK t \in a .. now :
          p = IF q.status # "absent" /\ q.expires <= t THEN Scrubbed(q) ELSE q
    BY <1>6 DEF Scrub
  <2>3. q.status = "absent" => q.name = None /\ ~q.message
    BY DEF Inv, RowsConsistent, RowConsistent, AbsentRow
  <2>4. Erased(p, a)
    BY <1>2, <2>2, <2>3 DEF Erased, Scrubbed, Row
  <2> QED
    BY <1>3, <2>1, <2>4
<1>7. CASE Purge(h)
  <2>1. /\ calls[h].stage = "purge"
        /\ calls'[h].stage = "forget" /\ calls'[h].at = a
    BY <1>7 DEF Purge, Advance, Inv, TypeOK
  <2>2. PICK t \in a .. now :
          p = IF q.terminal # None /\ q.terminal + Retention <= t THEN AbsentRow ELSE q
    BY <1>7 DEF Purge
  <2>3. q.terminal # None => q.terminal \in Nat
    BY <1>2 DEF Row
  <2>4. Kept(p, a)
    BY <1>2, <2>2, <2>3, PeriodsAssumption DEF Kept, AbsentRow
  <2> QED
    BY <1>1, <1>3, <2>1, <2>4
<1>8. CASE Forget(h)
  <2>1. /\ calls[h].stage = "forget"
        /\ calls'[h].stage = "tx" /\ calls'[h].at = a
    BY <1>8 DEF Forget, Advance, Inv, TypeOK
  <2> QED
    BY <1>1, <1>3, <2>1
<1>9. CASE calls'[h].stage \in {"idle", "expire"}
  BY <1>9
<1> QED
  BY <1>4, <1>5, <1>6, <1>7, <1>8, <1>9, CallStep DEF Inv

(* After its own cleanup no call finds a request pending, a text stored or  *)
(* a row kept past the time that was due when the call came.                *)
THEOREM DeadlinesHold == Spec => []DeadlineEnforced
<1>1. Init => DeadlineEnforced
  BY DEF Init, DeadlineEnforced, Idle
<1> QED
  BY <1>1, InvInit, InvNext, DeadlineNext, PTL DEF Spec

-----------------------------------------------------------------------------
(* One active request.                                                      *)

(* A row becomes active by a submission or by a late receipt.               *)
BecomesActive(q, p) ==
  \/ q.status = "absent" /\ p.status = "pending"
  \/ q.status = "expired" /\ p.status = "accepted"

LEMMA QuietStep ==
  ASSUME NEW q \in Row, NEW p, RowStep(q, p), ~BecomesActive(q, p), Active(p)
  PROVE  Active(q) /\ p.world = q.world /\ p.inst = q.inst
<1> DEFINE Goal == Active(q) /\ p.world = q.world /\ p.inst = q.inst
<1> USE DEF Active, BecomesActive, Row
<1>1. CASE p = q
  BY <1>1
<1>2. CASE p = Expired(q)
  BY <1>2 DEF Expired
<1>3. CASE p = Scrubbed(q)
  BY <1>3 DEF Scrubbed
<1>4. CASE p = AbsentRow
  BY <1>4 DEF AbsentRow
<1>5. ASSUME NEW w, NEW i, NEW n, NEW t, q.status = "absent", p = NewRow(w, i, n, t)
      PROVE  Goal
  BY <1>5 DEF NewRow, AbsentRow
<1>6. ASSUME NEW t, p = Withdrawn(q, t) PROVE Goal
  BY <1>6 DEF Withdrawn
<1>7. ASSUME NEW d, p = DecidedBy(q, d) PROVE Goal
  BY <1>7 DEF DecidedBy
<1>8. CASE p = Expired(DecidedBy(q, None))
  BY <1>8 DEF Expired, DecidedBy
<1>9. ASSUME NEW receipt, NEW t, q.status \in {"pending", "expired"}, p = Accepted(q, receipt, t)
      PROVE  Goal
  BY <1>9 DEF Accepted
<1>10. ASSUME NEW t, p = Superseded(q, t) PROVE Goal
  BY <1>10 DEF Superseded, Scrubbed
<1>11. ASSUME NEW d, NEW block, NEW t, p = Rejected(q, d, block, t) PROVE Goal
  BY <1>11 DEF Rejected
<1>12. CASE p = Removed(q)
  BY <1>12 DEF Removed
<1> QED
  BY <1>1, <1>2, <1>3, <1>4, <1>5, <1>6, <1>7, <1>8, <1>9, <1>10, <1>11, <1>12
  DEF RowStep

LEMMA Newcomers ==
  ASSUME Inv, [Next]_vars, NEW r \in Requests, BecomesActive(requests[r], requests'[r])
  PROVE  \/ \E h \in Clients, w \in Worlds, i \in Installations, n \in Names :
              Submit(h, r, w, i, n)
         \/ \E h \in Clients, d \in Decisions, receipt \in Receipt :
              AcceptLate(h, r, d, receipt)
<1> USE DEF BecomesActive
<1> DEFINE q == requests[r]
           p == requests'[r]
<1>1. q \in Row
  BY DEF Inv, TypeOK
<1>2. ASSUME NEW h \in Handlers, Cleanup(h) \/ Abandon(h) PROVE FALSE
  <2>1. Expire(h) => p \in {q, Expired(q)}
    BY DEF Expire
  <2>2. Scrub(h) => p \in {q, Scrubbed(q)}
    BY DEF Scrub
  <2>3. Purge(h) => p \in {q, AbsentRow}
    BY DEF Purge
  <2>4. Arrive(h) \/ Abandon(h) \/ Forget(h) => p = q
    BY DEF Arrive, Abandon, Forget
  <2>5. ~BecomesActive(q, q) /\ ~BecomesActive(q, AbsentRow)
    BY DEF AbsentRow
  <2>6. ~BecomesActive(q, Expired(q)) /\ ~BecomesActive(q, Scrubbed(q))
    BY <1>1 DEF Expired, Scrubbed, Row
  <2> QED
    BY <1>2, <2>1, <2>2, <2>3, <2>4, <2>5, <2>6 DEF Cleanup
<1>3. ASSUME NEW s \in Requests, NEW row, Write(s, row), ~BecomesActive(requests[s], row)
      PROVE  FALSE
  BY <1>3 DEF Write, Inv, TypeOK
<1>4. ASSUME NEW h \in Clients, NEW s \in Requests, NEW w \in Worlds,
             NEW i \in Installations, NEW n \in Names, Submit(h, s, w, i, n), s # r
      PROVE  FALSE
  BY <1>4 DEF Submit, Write, Inv, TypeOK
<1>5. ASSUME NEW h \in Clients, NEW s \in Requests, Withdraw(h, s) PROVE FALSE
  BY <1>3, <1>5 DEF Withdraw
<1>6. ASSUME NEW h \in Clients, NEW s \in Requests, NEW d \in Decisions, Prepare(h, s, d)
      PROVE  FALSE
  BY <1>3, <1>6 DEF Prepare, Decidable
<1>7. ASSUME NEW h \in Clients, NEW s \in Requests, NEW d \in Decisions, Abort(h, s, d)
      PROVE  FALSE
  BY <1>3, <1>7 DEF Abort
<1>8. ASSUME NEW h \in Clients, NEW s \in Requests, NEW d \in Decisions, AbortExpired(h, s, d)
      PROVE  FALSE
  <2>1. requests[s] \in Row
    BY DEF Inv, TypeOK
  <2>2. ~BecomesActive(requests[s], DecidedBy(requests[s], None))
    BY <1>8, <2>1 DEF AbortExpired, DecidedBy, Row
  <2> QED
    BY <1>3, <1>8, <2>2 DEF AbortExpired
<1>9. ASSUME NEW h \in Clients, NEW s \in Requests, NEW d \in Decisions,
             NEW receipt \in Receipt, Accept(h, s, d, receipt)
      PROVE  FALSE
  BY <1>3, <1>9 DEF Accept
<1>10. ASSUME NEW h \in Clients, NEW s \in Requests, NEW d \in Decisions,
              NEW receipt \in Receipt, AcceptLate(h, s, d, receipt), s # r
       PROVE  FALSE
  <2>1. PICK t : p \in {q, Superseded(q, t)}
    BY <1>10 DEF AcceptLate
  <2> QED
    BY <1>1, <2>1 DEF Superseded, Scrubbed, Row
<1>11. ASSUME NEW h \in Clients, NEW s \in Requests, NEW d \in Decisions,
              NEW block \in BOOLEAN, Reject(h, s, d, block)
       PROVE  FALSE
  BY <1>3, <1>11 DEF Reject, Decidable
<1>12. ASSUME NEW w \in Worlds, NEW o \in Removals, NEW s \in Requests,
              NEW banned \in SUBSET Installations, RemovePlayer(w, o, s, banned)
       PROVE  FALSE
  <2>1. p \in {q, Removed(q)}
    BY <1>12 DEF RemovePlayer, Inv, TypeOK
  <2> QED
    BY <1>1, <2>1 DEF Removed, Row
<1>13. ~UNCHANGED requests
  OBVIOUS
<1> QED
  BY <1>2, <1>4, <1>5, <1>6, <1>7, <1>8, <1>9, <1>10, <1>11, <1>12, <1>13
  DEF Next, Decide, Unblock, Tick, vars

LEMMA OneActiveNext ==
  ASSUME Inv, OneActive, [Next]_vars
  PROVE  OneActive'
<1> SUFFICES ASSUME NEW p \in Requests, NEW r \in Requests, p # r,
                    Active(requests'[p]), Active(requests'[r])
             PROVE  ~Owns(requests'[p], requests'[r].world, requests'[r].inst)
  BY DEF OneActive, Active, Owns
<1> USE DEF Owns
<1>1. /\ requests[p] \in Row /\ requests[r] \in Row
      /\ RowStep(requests[p], requests'[p]) /\ RowStep(requests[r], requests'[r])
  BY RowsStep DEF Inv, TypeOK
<1>2. CASE /\ ~BecomesActive(requests[p], requests'[p])
           /\ ~BecomesActive(requests[r], requests'[r])
  BY <1>1, <1>2, QuietStep DEF OneActive
<1>3. ASSUME NEW h \in Clients, NEW s \in Requests, NEW w \in Worlds,
             NEW i \in Installations, NEW n \in Names, Submit(h, s, w, i, n), s \in {p, r}
      PROVE  ~Owns(requests'[p], requests'[r].world, requests'[r].inst)
  <2>1. PICK t : requests' = [requests EXCEPT ![s] = NewRow(w, i, n, t)]
    BY <1>3 DEF Submit, Write
  <2>2. NewRow(w, i, n, t).world = w /\ NewRow(w, i, n, t).inst = i
    BY DEF NewRow, AbsentRow
  <2>3. ASSUME NEW o \in Requests, o # s, Active(requests'[o])
        PROVE  ~(requests'[o].world = w /\ requests'[o].inst = i)
    BY <1>3, <2>1, <2>3 DEF Submit, Inv, TypeOK
  <2> QED
    BY <1>3, <2>1, <2>2, <2>3 DEF Inv, TypeOK
<1>4. ASSUME NEW h \in Clients, NEW s \in Requests, NEW d \in Decisions,
             NEW receipt \in Receipt, AcceptLate(h, s, d, receipt), s \in {p, r}
      PROVE  ~Owns(requests'[p], requests'[r].world, requests'[r].inst)
  <2> DEFINE w == requests[s].world
             i == requests[s].inst
  <2>1. PICK t :
          requests' = [o \in Requests |->
            IF o = s THEN Accepted(requests[s], receipt, t)
            ELSE IF Owns(requests[o], w, i) /\ requests[o].status = "pending"
              THEN Superseded(requests[o], t)
            ELSE requests[o]]
    BY <1>4 DEF AcceptLate
  <2>2. requests'[s].world = w /\ requests'[s].inst = i
    BY <2>1 DEF Accepted, Inv, TypeOK, Row
  <2>3. ASSUME NEW o \in Requests, o # s, Active(requests'[o])
        PROVE  ~(requests'[o].world = w /\ requests'[o].inst = i)
    <3>1. requests[o] \in Row
      BY DEF Inv, TypeOK
    <3>2. CASE Owns(requests[o], w, i) /\ requests[o].status = "pending"
      <4>1. ~Active(Superseded(requests[o], t))
        BY <3>1 DEF Active, Superseded, Scrubbed, Row
      <4> QED
        BY <2>1, <2>3, <3>2, <4>1
    <3>3. CASE ~(Owns(requests[o], w, i) /\ requests[o].status = "pending")
      BY <1>4, <2>1, <2>3, <3>3 DEF AcceptLate, Active, Seated
    <3> QED
      BY <3>2, <3>3
  <2> QED
    BY <1>4, <2>2, <2>3
<1> QED
  BY <1>2, <1>3, <1>4, Newcomers

(* No interleaving of submissions, expiries and late receipts gives an      *)
(* installation two active requests at one World.                           *)
THEOREM AtMostOneActive == Spec => []OneActive
<1>1. Init => OneActive
  BY DEF Init, OneActive, AbsentRow, Active
<1> QED
  BY <1>1, InvInit, InvNext, OneActiveNext, PTL DEF Spec

-----------------------------------------------------------------------------
(* Steps.                                                                   *)

LEMMA RetentionStep ==
  ASSUME NEW q \in Row, RowConsistent(q), NEW p, RowStep(q, p),
         q.terminal # None, p.terminal # q.terminal
  PROVE  \/ q.status = "expired" /\ p.status = "accepted"
         \/ p = AbsentRow /\ q.terminal + Retention <= now
<1>1. q.status \notin {"absent", "pending"}
  BY DEF RowConsistent
<1>2. Scrubbed(q).terminal = q.terminal /\ Removed(q).terminal = q.terminal
  BY DEF Scrubbed, Removed, Row
<1>3. DecidedBy(q, None).terminal = q.terminal
  BY DEF DecidedBy, Row
<1>4. \A receipt, t : Accepted(q, receipt, t).status = "accepted"
  BY DEF Accepted, Row
<1> QED
  BY <1>1, <1>2, <1>3, <1>4 DEF RowStep

(* A terminal outcome is dated once; only a late receipt renews it, and the *)
(* row lasts its retention.                                                 *)
THEOREM RetentionIsHonoured == Spec => RetentionHonoured
<1>1. ASSUME Inv, [Next]_vars, NEW r \in Requests,
             requests[r].terminal # None, requests'[r].terminal # requests[r].terminal
      PROVE  \/ requests[r].status = "expired" /\ requests'[r].status = "accepted"
             \/ requests'[r] = AbsentRow /\ requests[r].terminal + Retention <= now
  <2>1. requests[r] \in Row /\ RowConsistent(requests[r]) /\ RowStep(requests[r], requests'[r])
    BY <1>1, RowsStep DEF Inv, TypeOK, RowsConsistent
  <2> QED
    BY <1>1, <2>1, RetentionStep
<1>2. Inv /\ [Next]_vars =>
        [\A r \in Requests :
           requests[r].terminal # None /\ requests'[r].terminal # requests[r].terminal =>
             \/ requests[r].status = "expired" /\ requests'[r].status = "accepted"
             \/ /\ requests'[r] = AbsentRow
                /\ requests[r].terminal + Retention <= now]_vars
  BY <1>1
<1> QED
  BY <1>2, InvInit, InvNext, PTL DEF Spec, RetentionHonoured

(* No block appears but by a rejection with a block or by the first         *)
(* execution of a removal: no retry restores a lifted one.                  *)
THEOREM BlocksAreAccounted == Spec => BlocksAccounted
<1> DEFINE Recorded(w, i) ==
             \/ \E r \in Requests :
                  /\ requests[r].status = "pending" /\ requests'[r].status = "rejected"
                  /\ requests'[r].blocked /\ Owns(requests[r], w, i)
             \/ \E o \in Removals :
                  /\ removals[w][o] = None /\ removals'[w][o] # None
                  /\ i \in removals'[w][o].banned
<1>1. ASSUME Inv, [Next]_vars, NEW w \in Worlds, NEW i \in Installations,
             i \in blocks'[w] \ blocks[w]
      PROVE  Recorded(w, i)
  <2>1. ASSUME NEW h \in Clients, NEW r \in Requests, NEW d \in Decisions,
               NEW block \in BOOLEAN, Reject(h, r, d, block)
        PROVE  Recorded(w, i)
    <3>1. PICK t : requests' = [requests EXCEPT ![r] = Rejected(requests[r], d, block, t)]
      BY <2>1 DEF Reject, Write
    <3>2. requests[r] \in Row
      BY <1>1 DEF Inv, TypeOK
    <3>3. block /\ Owns(requests[r], w, i)
      BY <1>1, <2>1 DEF Reject, Owns, Inv, TypeOK
    <3>4. requests'[r].status = "rejected" /\ requests'[r].blocked
      BY <1>1, <3>1, <3>2, <3>3 DEF Rejected, Row, Inv, TypeOK
    <3> QED
      BY <2>1, <3>3, <3>4 DEF Reject, Decidable
  <2>2. ASSUME NEW v \in Worlds, NEW o \in Removals, NEW r \in Requests,
               NEW banned \in SUBSET Installations, RemovePlayer(v, o, r, banned)
        PROVE  Recorded(w, i)
    <3>1. v = w /\ i \in banned
      BY <1>1, <2>2 DEF RemovePlayer, Inv, TypeOK
    <3>2. PICK t \in {now - 1, now} \cap Nat :
            removals' = [removals EXCEPT ![w][o] =
              [seat |-> r, banned |-> banned, created |-> t]]
      BY <2>2, <3>1 DEF RemovePlayer
    <3>3. removals'[w][o] = [seat |-> r, banned |-> banned, created |-> t]
      BY <1>1, <3>2 DEF Inv, TypeOK
    <3>4. removals'[w][o] # None
      BY <3>3, NoneAssumption
    <3> QED
      BY <2>2, <3>1, <3>3, <3>4 DEF RemovePlayer, Unseen
  <2>3. ASSUME NEW v \in Worlds, NEW j \in Installations, Unblock(v, j) PROVE FALSE
    BY <1>1, <2>3 DEF Unblock, Inv, TypeOK
  <2>4. ~UNCHANGED blocks
    BY <1>1
  <2> QED
    BY <1>1, <2>1, <2>2, <2>3, <2>4
    DEF Next, Cleanup, Decide, Arrive, Expire, Scrub, Purge, Forget, Advance, Abandon, Submit,
        Withdraw, Prepare, Abort, AbortExpired, Accept, AcceptLate, Tick, vars
<1>2. Inv /\ [Next]_vars =>
        [\A w \in Worlds, i \in Installations :
           i \in blocks'[w] \ blocks[w] => Recorded(w, i)]_vars
  BY <1>1
<1> QED
  BY <1>2, InvInit, InvNext, PTL DEF Spec, BlocksAccounted

-----------------------------------------------------------------------------
(* The refinement.                                                          *)

LEMMA LifeOfFields ==
  ASSUME NEW q
  PROVE  /\ LifeOf(q).phase = Phase(q)
         /\ LifeOf(q).owner = IF q.status = "absent" THEN None ELSE <<q.world, q.inst>>
         /\ LifeOf(q).decision = q.decision
         /\ LifeOf(q).receipt = q.receipt
         /\ LifeOf(q) = [phase |-> Phase(q), owner |-> LifeOf(q).owner,
                         decision |-> q.decision, receipt |-> q.receipt]
  BY DEF LifeOf

LEMMA PhaseOf ==
  ASSUME NEW q \in Row
  PROVE  /\ Phase(q) = "absent" <=> q.status = "absent"
         /\ Phase(q) = "open" <=> q.status = "pending" /\ q.decision = None
         /\ Phase(q) = "fenced" <=> q.status = "pending" /\ q.decision # None
         /\ Phase(q) = "seated" <=> Seated(q)
         /\ Phase(q) = "removed" <=> q.status = "accepted" /\ q.removed
         /\ Phase(q) = "lapsed" <=> q.status = "expired"
         /\ Phase(q) = "rejected" <=> q.status = "rejected"
         /\ Phase(q) = "withdrawn" <=> q.status = "withdrawn"
  BY DEF Phase, Seated, Row, Statuses

(* A step that writes one row, seen through the mapping.                    *)
LEMMA LivesWrite ==
  ASSUME requests \in [Requests -> Row], NEW r \in Requests, NEW p, Write(r, p)
  PROVE  Lives' = [Lives EXCEPT ![r] = LifeOf(p)]
  BY DEF Write, Lives, LifeOf, Phase

LEMMA LivesAt ==
  ASSUME NEW r \in Requests
  PROVE  Lives[r] = LifeOf(requests[r])
  BY DEF Lives

LEMMA LivesPhase ==
  ASSUME Inv, NEW r \in Requests
  PROVE  /\ Life!Undecided(r) <=> requests[r].status = "pending"
         /\ Life!Current(r) <=> Active(requests[r])
         /\ Lives[r].phase = "seated" <=> Seated(requests[r])
<1>1. requests[r] \in Row /\ RowConsistent(requests[r])
  BY DEF Inv, TypeOK, RowsConsistent
<1>2. Lives[r].phase = Phase(requests[r])
  BY LivesAt, LifeOfFields
<1> QED
  BY <1>1, <1>2, PhaseOf DEF Life!Undecided, Life!Current, Active, Seated, RowConsistent

LEMMA FencedBy ==
  ASSUME NEW r \in Requests, requests[r] \in Row, NEW d \in Decisions, requests[r].decision = d
  PROVE  /\ Lives[r].decision # None
         /\ requests[r].status = "pending" => Lives[r].phase = "fenced"
         /\ requests[r].status = "expired" => Lives[r].phase = "lapsed"
<1>1. d # None
  BY NoneAssumption
<1>2. Lives[r].decision = d /\ Lives[r].phase = Phase(requests[r])
  BY LivesAt, LifeOfFields
<1> QED
  BY <1>1, <1>2, PhaseOf

LEMMA LifeInit == Init => Life!Init
<1>1. LifeOf(AbsentRow) = Life!Unborn
  BY DEF LifeOf, Phase, AbsentRow, Life!Unborn
<1> QED
  BY <1>1 DEF Init, Life!Init, Lives

LEMMA LifeOfOperators ==
  ASSUME NEW q \in Row, q.status # "absent"
  PROVE  /\ q.status = "pending" => LifeOf(Expired(q)) =
              Life!Turned(LifeOf(q), "lapsed", LifeOf(q).decision, LifeOf(q).receipt)
         /\ LifeOf(Scrubbed(q)) = LifeOf(q)
         /\ \A t : LifeOf(Withdrawn(q, t)) =
              Life!Turned(LifeOf(q), "withdrawn", LifeOf(q).decision, LifeOf(q).receipt)
         /\ \A receipt, t : ~q.removed => LifeOf(Accepted(q, receipt, t)) =
              Life!Turned(LifeOf(q), "seated", LifeOf(q).decision, receipt)
         /\ \A t : LifeOf(Superseded(q, t)) =
              Life!Turned(LifeOf(q), "lapsed", None, LifeOf(q).receipt)
         /\ \A d, block, t : LifeOf(Rejected(q, d, block, t)) =
              Life!Turned(LifeOf(q), "rejected", d, LifeOf(q).receipt)
         /\ q.status = "accepted" => LifeOf(Removed(q)) =
              Life!Turned(LifeOf(q), "removed", LifeOf(q).decision, None)
<1> USE DEF LifeOf, Life!Turned, Phase, Row
<1>1. q.status = "pending" => LifeOf(Expired(q)) =
        Life!Turned(LifeOf(q), "lapsed", LifeOf(q).decision, LifeOf(q).receipt)
  BY DEF Expired
<1>2. LifeOf(Scrubbed(q)) = LifeOf(q)
  BY DEF Scrubbed
<1>3. \A t : LifeOf(Withdrawn(q, t)) =
        Life!Turned(LifeOf(q), "withdrawn", LifeOf(q).decision, LifeOf(q).receipt)
  BY DEF Withdrawn
<1>4. ASSUME NEW receipt, NEW t, ~q.removed
      PROVE  LifeOf(Accepted(q, receipt, t)) =
               Life!Turned(LifeOf(q), "seated", LifeOf(q).decision, receipt)
  BY <1>4 DEF Accepted
<1>5. \A t : LifeOf(Superseded(q, t)) =
        Life!Turned(LifeOf(q), "lapsed", None, LifeOf(q).receipt)
  BY DEF Superseded, Scrubbed
<1>6. \A d, block, t : LifeOf(Rejected(q, d, block, t)) =
        Life!Turned(LifeOf(q), "rejected", d, LifeOf(q).receipt)
  BY DEF Rejected
<1>7. q.status = "accepted" => LifeOf(Removed(q)) =
        Life!Turned(LifeOf(q), "removed", LifeOf(q).decision, None)
  BY DEF Removed
<1> QED
  BY <1>1, <1>2, <1>3, <1>4, <1>5, <1>6, <1>7

LEMMA LifeOfDecidedBy ==
  ASSUME NEW q \in Row, NEW d
  PROVE  /\ q.status = "pending" /\ d # None => LifeOf(DecidedBy(q, d)) =
              Life!Turned(LifeOf(q), "fenced", d, LifeOf(q).receipt)
         /\ q.status = "pending" => LifeOf(DecidedBy(q, None)) =
              Life!Turned(LifeOf(q), "open", None, LifeOf(q).receipt)
         /\ q.status = "pending" => LifeOf(Expired(DecidedBy(q, None))) =
              Life!Turned(LifeOf(q), "lapsed", None, LifeOf(q).receipt)
         /\ q.status = "expired" => LifeOf(DecidedBy(q, None)) =
              Life!Turned(LifeOf(q), "lapsed", None, LifeOf(q).receipt)
  BY DEF LifeOf, Life!Turned, Phase, Row, DecidedBy, Expired

(* The steps of cleanup.                                                    *)
LEMMA CleanupLife ==
  ASSUME Inv, NEW h \in Handlers, Expire(h) \/ Scrub(h) \/ Purge(h)
  PROVE  Life!Next \/ UNCHANGED Lives
<1>0. \A r \in Requests : requests[r] \in Row /\ RowConsistent(requests[r])
  BY DEF Inv, TypeOK, RowsConsistent
<1>1. CASE Expire(h)
  <2> DEFINE gone == {r \in Requests : requests[r].status = "pending"
                                       /\ requests[r].expires <= calls[h].at}
  <2>1. \A r \in gone : Life!Undecided(r)
    BY LivesPhase
  <2>2. ASSUME NEW r \in Requests
        PROVE  LifeOf(requests'[r]) =
                 IF r \in gone
                   THEN Life!Turned(Lives[r], "lapsed", Lives[r].decision, Lives[r].receipt)
                   ELSE Lives[r]
    <3>1. requests'[r] = IF r \in gone THEN Expired(requests[r]) ELSE requests[r]
      BY <1>1 DEF Expire
    <3>2. r \in gone => LifeOf(Expired(requests[r])) =
            Life!Turned(Lives[r], "lapsed", Lives[r].decision, Lives[r].receipt)
      BY <1>0, LivesAt, LifeOfOperators
    <3> QED
      BY <3>1, <3>2, LivesAt
  <2>3. Lives' = [r \in Requests |->
          IF r \in gone
            THEN Life!Turned(Lives[r], "lapsed", Lives[r].decision, Lives[r].receipt)
            ELSE Lives[r]]
    BY <2>2, LivesAt DEF Lives, LifeOf, Phase
  <2>4. Life!Lapse(gone)
    BY <2>1, <2>3 DEF Life!Lapse
  <2> QED
    BY <2>4 DEF Life!Next
<1>2. CASE Scrub(h)
  <2>1. ASSUME NEW r \in Requests PROVE LifeOf(requests'[r]) = LifeOf(requests[r])
    <3>1. \/ requests'[r] = requests[r]
          \/ requests[r].status # "absent" /\ requests'[r] = Scrubbed(requests[r])
      BY <1>2 DEF Scrub
    <3> QED
      BY <1>0, <3>1, LifeOfOperators
  <2> QED
    BY <2>1 DEF Lives, LifeOf, Phase
<1>3. CASE Purge(h)
  <2>1. PICK t \in calls[h].at .. now :
          requests' = [r \in Requests |->
            IF requests[r].terminal # None /\ requests[r].terminal + Retention <= t
              THEN AbsentRow ELSE requests[r]]
    BY <1>3 DEF Purge
  <2> DEFINE gone == {r \in Requests : requests[r].terminal # None
                                       /\ requests[r].terminal + Retention <= t}
  <2>2. \A r \in gone : ~Life!Undecided(r)
    BY <1>0, LivesPhase DEF RowConsistent
  <2>3. LifeOf(AbsentRow) = Life!Unborn
    BY DEF LifeOf, Phase, AbsentRow, Life!Unborn
  <2>4. ASSUME NEW r \in Requests
        PROVE  LifeOf(requests'[r]) = IF r \in gone THEN Life!Unborn ELSE LifeOf(requests[r])
    BY <2>1, <2>3
  <2>5. Lives' = [r \in Requests |-> IF r \in gone THEN Life!Unborn ELSE Lives[r]]
    BY <2>4, LivesAt DEF Lives, LifeOf, Phase
  <2>6. Life!Forget(gone)
    BY <2>2, <2>5 DEF Life!Forget
  <2> QED
    BY <2>6 DEF Life!Next
<1> QED
  BY <1>1, <1>2, <1>3

(* The transactions, each as the step of the life cycle it is meant to be.  *)
LEMMA SubmitLife ==
  ASSUME Inv, NEW h \in Clients, NEW r \in Requests, NEW w \in Worlds,
         NEW i \in Installations, NEW n \in Names, Submit(h, r, w, i, n)
  PROVE  Life!Submit(r, <<w, i>>)
<1>1. PICK t : Write(r, NewRow(w, i, n, t))
  BY DEF Submit
<1>2. Lives[r] = Life!Unborn
  BY LivesAt DEF Submit, Inv, RowsConsistent, RowConsistent, LifeOf, Phase, AbsentRow,
     Life!Unborn
<1>3. ASSUME NEW p \in Requests, Lives[p].owner = <<w, i>> PROVE ~Life!Current(p)
  <2>1. Lives[p].owner = IF requests[p].status = "absent" THEN None
                         ELSE <<requests[p].world, requests[p].inst>>
    BY LivesAt, LifeOfFields
  <2>2. requests[p].status = "absent" \/ Owns(requests[p], w, i)
    BY <1>3, <2>1 DEF Owns
  <2>3. ~Active(requests[p])
    BY <2>2 DEF Submit, Active
  <2> QED
    BY <2>3, LivesPhase
<1>4. LifeOf(NewRow(w, i, n, t)) =
        [phase |-> "open", owner |-> <<w, i>>, decision |-> None, receipt |-> None]
  BY DEF LifeOf, Phase, NewRow, AbsentRow
<1> QED
  BY <1>1, <1>2, <1>3, <1>4, LivesWrite DEF Life!Submit, Inv, TypeOK

LEMMA WithdrawLife ==
  ASSUME Inv, NEW h \in Clients, NEW r \in Requests, Withdraw(h, r)
  PROVE  Life!Withdraw(r)
<1>1. PICK t : Write(r, Withdrawn(requests[r], t))
  BY DEF Withdraw
<1>2. requests[r] \in Row
  BY DEF Inv, TypeOK
<1>3. LifeOf(Withdrawn(requests[r], t)) =
        Life!Turned(Lives[r], "withdrawn", Lives[r].decision, Lives[r].receipt)
  BY <1>2, LivesAt, LifeOfOperators DEF Withdraw
<1>4. Lives[r].phase = "open"
  BY <1>2, LivesAt, LifeOfFields, PhaseOf DEF Withdraw
<1> QED
  BY <1>1, <1>3, <1>4, LivesWrite DEF Life!Withdraw, Inv, TypeOK

LEMMA PrepareLife ==
  ASSUME Inv, NEW h \in Clients, NEW r \in Requests, NEW d \in Decisions, Prepare(h, r, d)
  PROVE  Life!Fence(r, d) \/ UNCHANGED Lives
<1>1. requests[r] \in Row /\ requests \in [Requests -> Row]
  BY DEF Inv, TypeOK
<1>2. CASE requests[r].decision = None
  <2>1. LifeOf(DecidedBy(requests[r], d)) =
          Life!Turned(Lives[r], "fenced", d, Lives[r].receipt)
    BY <1>1, LivesAt, LifeOfDecidedBy, NoneAssumption DEF Prepare, Decidable
  <2>2. Lives[r].phase = "open"
    BY <1>1, <1>2, LivesAt, LifeOfFields, PhaseOf DEF Prepare, Decidable
  <2> QED
    BY <1>1, <2>1, <2>2, LivesWrite DEF Prepare, Life!Fence
<1>3. CASE requests[r].decision = d
  <2>1. DecidedBy(requests[r], d) = requests[r]
    BY <1>1, <1>3 DEF DecidedBy, Row
  <2>2. requests' = requests
    BY <1>1, <2>1 DEF Prepare, Write
  <2> QED
    BY <2>2 DEF Lives, LifeOf, Phase
<1> QED
  BY <1>2, <1>3 DEF Prepare, Decidable

LEMMA AbortLife ==
  ASSUME Inv, NEW h \in Clients, NEW r \in Requests, NEW d \in Decisions, Abort(h, r, d)
  PROVE  Life!Unfence(r)
<1>1. PICK p \in {DecidedBy(requests[r], None), Expired(DecidedBy(requests[r], None))} :
        Write(r, p)
  BY DEF Abort
<1>2. requests[r] \in Row /\ requests \in [Requests -> Row]
  BY DEF Inv, TypeOK
<1>3. PICK ph \in {"open", "lapsed"} :
        LifeOf(p) = Life!Turned(Lives[r], ph, None, Lives[r].receipt)
  <2>1. requests[r].status = "pending" /\ Lives[r] = LifeOf(requests[r])
    BY LivesAt DEF Abort
  <2>2. CASE p = DecidedBy(requests[r], None)
    BY <1>2, <2>1, <2>2, LifeOfDecidedBy
  <2>3. CASE p = Expired(DecidedBy(requests[r], None))
    BY <1>2, <2>1, <2>3, LifeOfDecidedBy
  <2> QED
    BY <1>1, <2>2, <2>3
<1>4. Lives[r].phase = "fenced"
  BY <1>2, FencedBy DEF Abort
<1> QED
  BY <1>1, <1>2, <1>3, <1>4, LivesWrite DEF Life!Unfence

LEMMA AbortExpiredLife ==
  ASSUME Inv, NEW h \in Clients, NEW r \in Requests, NEW d \in Decisions, AbortExpired(h, r, d)
  PROVE  Life!Release(r)
<1>1. requests[r] \in Row /\ requests \in [Requests -> Row]
  BY DEF Inv, TypeOK
<1>2. LifeOf(DecidedBy(requests[r], None)) =
        Life!Turned(Lives[r], "lapsed", None, Lives[r].receipt)
  BY <1>1, LivesAt, LifeOfDecidedBy DEF AbortExpired
<1>3. Lives[r].phase = "lapsed"
  BY <1>1, LivesAt, LifeOfFields, PhaseOf DEF AbortExpired
<1> QED
  BY <1>1, <1>2, <1>3, LivesWrite DEF AbortExpired, Life!Release

LEMMA RejectLife ==
  ASSUME Inv, NEW h \in Clients, NEW r \in Requests, NEW d \in Decisions,
         NEW block \in BOOLEAN, Reject(h, r, d, block)
  PROVE  Life!Reject(r, d)
<1>1. PICK t : Write(r, Rejected(requests[r], d, block, t))
  BY DEF Reject
<1>2. requests[r] \in Row /\ requests \in [Requests -> Row]
  BY DEF Inv, TypeOK
<1>3. LifeOf(Rejected(requests[r], d, block, t)) =
        Life!Turned(Lives[r], "rejected", d, Lives[r].receipt)
  BY <1>2, LivesAt, LifeOfOperators DEF Reject, Decidable
<1>4. Lives[r].phase = "open"
  BY <1>2, LivesAt, LifeOfFields, PhaseOf DEF Reject, Decidable
<1> QED
  BY <1>1, <1>2, <1>3, <1>4, LivesWrite DEF Life!Reject

(* Owners in the life cycle are owners of rows.                             *)
LEMMA SameOwner ==
  ASSUME Inv, NEW r \in Requests, requests[r].status # "absent",
         NEW p \in Requests, requests[p].status # "absent"
  PROVE  Lives[p].owner = Lives[r].owner
           <=> Owns(requests[p], requests[r].world, requests[r].inst)
<1>1. Lives[p].owner = <<requests[p].world, requests[p].inst>>
  BY LivesAt, LifeOfFields
<1>2. Lives[r].owner = <<requests[r].world, requests[r].inst>>
  BY LivesAt, LifeOfFields
<1> QED
  BY <1>1, <1>2 DEF Owns

(* A receipt in time: by OneActive there is no sibling to give way.         *)
LEMMA AcceptLife ==
  ASSUME Inv, OneActive, NEW h \in Clients, NEW r \in Requests, NEW d \in Decisions,
         NEW receipt \in Receipt, Accept(h, r, d, receipt)
  PROVE  Life!Seat(r, receipt)
<1>1. PICK t : Write(r, Accepted(requests[r], receipt, t))
  BY DEF Accept
<1>2. /\ \A p \in Requests : requests[p] \in Row /\ RowConsistent(requests[p])
      /\ requests \in [Requests -> Row]
  BY DEF Inv, TypeOK, RowsConsistent
<1>3. ~requests[r].removed /\ Active(requests[r])
  BY <1>2 DEF Accept, RowConsistent, Active
<1>4. LifeOf(Accepted(requests[r], receipt, t)) =
        Life!Turned(Lives[r], "seated", Lives[r].decision, receipt)
  BY <1>2, <1>3, LivesAt, LifeOfOperators DEF Accept
<1>5. Lives[r].phase = "fenced" /\ Lives[r].decision # None
  BY <1>2, FencedBy DEF Accept
<1>6. ASSUME NEW p \in Requests, p # r, Lives[p].owner = Lives[r].owner
      PROVE  ~Active(requests[p])
  <2>1. CASE requests[p].status = "absent"
    BY <2>1 DEF Active
  <2>2. CASE requests[p].status # "absent"
    <3>1. Owns(requests[p], requests[r].world, requests[r].inst)
      BY <1>6, <2>2, SameOwner DEF Accept
    <3> QED
      BY <1>3, <1>6, <3>1 DEF OneActive
  <2> QED
    BY <2>1, <2>2
<1>7. ASSUME NEW p \in Requests, Lives[p].owner = Lives[r].owner
      PROVE  Lives[p].phase # "seated" /\ (p # r => ~Life!Undecided(p))
  <2>1. p # r => ~Seated(requests[p]) /\ requests[p].status # "pending"
    BY <1>2, <1>6, <1>7 DEF Active, Seated, RowConsistent
  <2> QED
    BY <1>5, <2>1, LivesPhase
<1>8. Lives' = [Lives EXCEPT ![r] = LifeOf(Accepted(requests[r], receipt, t))]
  BY <1>1, <1>2, LivesWrite
<1>9. Lives' = [p \in Requests |->
        IF p = r
          THEN Life!Turned(Lives[p], "seated", Lives[p].decision, receipt)
        ELSE IF Lives[p].owner = Lives[r].owner /\ Life!Undecided(p)
          THEN Life!Turned(Lives[p], "lapsed", None, Lives[p].receipt)
        ELSE Lives[p]]
  BY <1>4, <1>7, <1>8 DEF Lives
<1> QED
  BY <1>5, <1>7, <1>9 DEF Life!Seat

LEMMA AcceptLateLife ==
  ASSUME Inv, NEW h \in Clients, NEW r \in Requests, NEW d \in Decisions,
         NEW receipt \in Receipt, AcceptLate(h, r, d, receipt)
  PROVE  Life!Seat(r, receipt)
<1>1. PICK t :
        requests' = [p \in Requests |->
          IF p = r THEN Accepted(requests[r], receipt, t)
          ELSE IF /\ Owns(requests[p], requests[r].world, requests[r].inst)
                  /\ requests[p].status = "pending"
            THEN Superseded(requests[p], t)
          ELSE requests[p]]
  BY DEF AcceptLate
<1>2. \A p \in Requests : requests[p] \in Row /\ RowConsistent(requests[p])
  BY DEF Inv, TypeOK, RowsConsistent
<1>3. LifeOf(Accepted(requests[r], receipt, t)) =
        Life!Turned(Lives[r], "seated", Lives[r].decision, receipt)
  <2>1. requests[r].status = "expired" /\ ~requests[r].removed
    BY <1>2 DEF AcceptLate, RowConsistent
  <2> QED
    BY <1>2, <2>1, LivesAt, LifeOfOperators
<1>4. Lives[r].phase = "lapsed" /\ Lives[r].decision # None
  BY <1>2, FencedBy DEF AcceptLate
<1>5. ASSUME NEW p \in Requests, Lives[p].owner = Lives[r].owner
      PROVE  Lives[p].phase # "seated"
  <2>1. CASE requests[p].status = "absent"
    BY <2>1, LivesPhase DEF Seated
  <2>2. CASE requests[p].status # "absent"
    <3>1. Owns(requests[p], requests[r].world, requests[r].inst)
      BY <1>5, <2>2, SameOwner DEF AcceptLate
    <3> QED
      BY <3>1, LivesPhase DEF AcceptLate
  <2> QED
    BY <2>1, <2>2
<1>6. ASSUME NEW p \in Requests
      PROVE  LifeOf(requests'[p]) =
               IF p = r
                 THEN Life!Turned(Lives[p], "seated", Lives[p].decision, receipt)
               ELSE IF Lives[p].owner = Lives[r].owner /\ Life!Undecided(p)
                 THEN Life!Turned(Lives[p], "lapsed", None, Lives[p].receipt)
               ELSE Lives[p]
  <2>1. CASE p = r
    BY <1>1, <1>3, <2>1
  <2>2. CASE p # r /\ requests[p].status = "pending"
    <3>1. Life!Undecided(p)
      BY <2>2, LivesPhase
    <3>2. Lives[p].owner = Lives[r].owner
            <=> Owns(requests[p], requests[r].world, requests[r].inst)
      BY <2>2, SameOwner DEF AcceptLate
    <3>3. LifeOf(Superseded(requests[p], t)) =
            Life!Turned(Lives[p], "lapsed", None, Lives[p].receipt)
      BY <1>2, <2>2, LivesAt, LifeOfOperators
    <3> QED
      BY <1>1, <2>2, <3>1, <3>2, <3>3, LivesAt
  <2>3. CASE p # r /\ requests[p].status # "pending"
    BY <1>1, <2>3, LivesAt, LivesPhase
  <2> QED
    BY <2>1, <2>2, <2>3
<1>7. Lives' = [p \in Requests |->
        IF p = r
          THEN Life!Turned(Lives[p], "seated", Lives[p].decision, receipt)
        ELSE IF Lives[p].owner = Lives[r].owner /\ Life!Undecided(p)
          THEN Life!Turned(Lives[p], "lapsed", None, Lives[p].receipt)
        ELSE Lives[p]]
  BY <1>6 DEF Lives, LifeOf, Phase
<1> QED
  BY <1>4, <1>5, <1>7 DEF Life!Seat

LEMMA RemoveLife ==
  ASSUME Inv, NEW w \in Worlds, NEW o \in Removals, NEW r \in Requests,
         NEW banned \in SUBSET Installations, RemovePlayer(w, o, r, banned)
  PROVE  Life!Unseat(r) \/ UNCHANGED Lives
<1>1. /\ requests[r] \in Row /\ RowConsistent(requests[r])
      /\ requests \in [Requests -> Row]
  BY DEF Inv, TypeOK, RowsConsistent
<1>2. CASE requests' = requests
  BY <1>2 DEF Lives, LifeOf, Phase
<1>3. CASE requests[r].status = "accepted" /\ requests' = [requests EXCEPT ![r] = Removed(@)]
  <2>1. Lives' = [Lives EXCEPT ![r] = LifeOf(Removed(requests[r]))]
    BY <1>1, <1>3 DEF Lives, LifeOf, Phase
  <2>2. CASE requests[r].removed
    <3>1. Removed(requests[r]) = requests[r]
      BY <1>1, <2>2 DEF Removed, RowConsistent, Seated, Row
    <3> QED
      BY <1>1, <1>2, <1>3, <3>1
  <2>3. CASE ~requests[r].removed
    <3>1. LifeOf(Removed(requests[r])) =
            Life!Turned(Lives[r], "removed", Lives[r].decision, None)
      BY <1>1, <1>3, LivesAt, LifeOfOperators
    <3>2. Lives[r].phase = "seated"
      BY <1>3, <2>3, LivesPhase DEF Seated
    <3> QED
      BY <2>1, <3>1, <3>2 DEF Life!Unseat
  <2> QED
    BY <1>1, <2>2, <2>3 DEF Row
<1> QED
  BY <1>1, <1>2, <1>3 DEF RemovePlayer

LEMMA LifeNext ==
  ASSUME Inv, OneActive, [Next]_vars
  PROVE  [Life!Next]_Lives
<1> USE DEF Life!Next
<1>1. CASE UNCHANGED requests
  BY <1>1 DEF Lives, LifeOf, Phase
<1>2. ASSUME NEW h \in Handlers, Cleanup(h) \/ Abandon(h) PROVE [Life!Next]_Lives
  BY <1>1, <1>2, CleanupLife DEF Cleanup, Arrive, Abandon, Forget
<1>3. ASSUME NEW h \in Clients, NEW r \in Requests, NEW w \in Worlds,
             NEW i \in Installations, NEW n \in Names, Submit(h, r, w, i, n)
      PROVE  [Life!Next]_Lives
  BY <1>3, SubmitLife
<1>4. ASSUME NEW h \in Clients, NEW r \in Requests, Withdraw(h, r) PROVE [Life!Next]_Lives
  BY <1>4, WithdrawLife
<1>5. ASSUME NEW h \in Clients, Decide(h) PROVE [Life!Next]_Lives
  BY <1>5, PrepareLife, AbortLife, AbortExpiredLife, AcceptLife, AcceptLateLife, RejectLife
  DEF Decide
<1>6. ASSUME NEW w \in Worlds, NEW o \in Removals, NEW r \in Requests,
             NEW banned \in SUBSET Installations, RemovePlayer(w, o, r, banned)
      PROVE  [Life!Next]_Lives
  BY <1>6, RemoveLife
<1> QED
  BY <1>1, <1>2, <1>3, <1>4, <1>5, <1>6 DEF Next, Unblock, Tick, vars

(* The tables, under every interleaving, implement the life cycle.          *)
THEOREM Refinement == Spec => ImplementsLifecycle
  BY InvInit, InvNext, AtMostOneActive, LifeInit, LifeNext, PTL
  DEF Spec, ImplementsLifecycle, Life!Spec

-----------------------------------------------------------------------------
(* The limits.                                                              *)

LEMMA BlocksBoundedNext ==
  ASSUME Inv, BlocksBounded, [Next]_vars
  PROVE  BlocksBounded'
<1> SUFFICES ASSUME NEW v \in Worlds PROVE Cardinality(blocks'[v]) <= MaxBlocks
  BY DEF BlocksBounded
<1>1. /\ blocks \in [Worlds -> SUBSET Installations]
      /\ IsFiniteSet(blocks[v]) /\ Cardinality(blocks[v]) <= MaxBlocks
      /\ Cardinality(blocks[v]) \in Nat
  <2>1. blocks[v] \subseteq Installations
    BY DEF Inv, TypeOK
  <2> QED
    BY <2>1, FiniteAssumption, FS_Subset, FS_CardinalityType DEF Inv, TypeOK, BlocksBounded
<1>2. CASE UNCHANGED blocks
  BY <1>1, <1>2
<1>3. ASSUME NEW h \in Clients, NEW r \in Requests, NEW d \in Decisions,
             NEW block \in BOOLEAN, Reject(h, r, d, block)
      PROVE  Cardinality(blocks'[v]) <= MaxBlocks
  <2>1. CASE ~block
    BY <1>1, <1>3, <2>1 DEF Reject
  <2>2. CASE block
    BY <1>1, <1>3, <2>2 DEF Reject, Blockable
  <2> QED
    BY <2>1, <2>2
<1>4. ASSUME NEW w \in Worlds, NEW o \in Removals, NEW r \in Requests,
             NEW banned \in SUBSET Installations, RemovePlayer(w, o, r, banned)
      PROVE  Cardinality(blocks'[v]) <= MaxBlocks
  BY <1>1, <1>4 DEF RemovePlayer, Blockable
<1>5. ASSUME NEW w \in Worlds, NEW i \in Installations, Unblock(w, i)
      PROVE  Cardinality(blocks'[v]) <= MaxBlocks
  <2>1. blocks'[v] \subseteq blocks[v]
    BY <1>1, <1>5 DEF Unblock
  <2>2. Cardinality(blocks'[v]) <= Cardinality(blocks[v]) /\ Cardinality(blocks'[v]) \in Nat
    BY <1>1, <2>1, FS_Subset, FS_CardinalityType
  <2> QED
    BY <1>1, <2>2, LimitsAssumption
<1> QED
  BY <1>2, <1>3, <1>4, <1>5
  DEF Next, Cleanup, Decide, Arrive, Expire, Scrub, Purge, Forget, Advance, Abandon, Submit,
      Withdraw, Prepare, Abort, AbortExpired, Accept, AcceptLate, Tick, vars

(* A World never blocks more installations than the limit, the loop of a    *)
(* removal over several digests included.                                   *)
THEOREM BlocksAreBounded == Spec => []BlocksBounded
<1>1. Init => BlocksBounded
  BY FS_EmptySet, LimitsAssumption DEF Init, BlocksBounded
<1> QED
  BY <1>1, InvInit, InvNext, BlocksBoundedNext, PTL DEF Spec

LEMMA QueueFinite ==
  ASSUME NEW w
  PROVE  IsFiniteSet(Queue(w)) /\ Cardinality(Queue(w)) \in Nat
<1>1. Queue(w) \subseteq Requests
  BY DEF Queue
<1> QED
  BY <1>1, FiniteAssumption, FS_Subset, FS_CardinalityType

(* An accepted row never becomes pending again.                             *)
LEMMA AcceptedStays ==
  ASSUME NEW q \in Row, NEW p, RowStep(q, p), p.status = "pending"
  PROVE  q.status # "accepted"
<1>1. Scrubbed(q).status = q.status /\ Removed(q).status = q.status
  BY DEF Scrubbed, Removed, Row
<1>2. AbsentRow.status = "absent"
  BY DEF AbsentRow
<1> QED
  BY <1>1, <1>2 DEF RowStep

LEMMA QueueBoundedNext ==
  ASSUME Inv, QueueBounded, [Next]_vars
  PROVE  QueueBounded'
<1> SUFFICES ASSUME NEW v \in Worlds PROVE Cardinality(Queue(v)') <= MaxPending
  BY DEF QueueBounded
<1>1. \A r \in Requests : requests[r] \in Row /\ RowStep(requests[r], requests'[r])
  BY RowsStep DEF Inv, TypeOK
<1>2. CASE \A r \in Requests : ~BecomesActive(requests[r], requests'[r])
  <2>1. ASSUME NEW r \in Queue(v)' PROVE r \in Queue(v)
    <3>1. r \in Requests /\ requests'[r].status = "pending" /\ requests'[r].world = v
      BY DEF Queue
    <3>2. ~requests'[r].removed
      <4>1. RowConsistent(requests'[r])
        BY <1>1, <3>1, RowConsistentStep DEF Inv, RowsConsistent
      <4> QED
        BY <3>1, <4>1 DEF RowConsistent
    <3>3. requests[r].status \in {"pending", "accepted"} /\ requests[r].world = v
      BY <1>1, <1>2, <3>1, <3>2, QuietStep DEF Active
    <3>4. requests[r].status # "accepted"
      BY <1>1, <3>1, AcceptedStays
    <3> QED
      BY <3>1, <3>3, <3>4 DEF Queue
  <2>2. Cardinality(Queue(v)') <= Cardinality(Queue(v)) /\ Cardinality(Queue(v)') \in Nat
    BY <2>1, QueueFinite, FS_Subset, FS_CardinalityType
  <2> QED
    BY <2>2, QueueFinite, LimitsAssumption DEF QueueBounded
<1>3. ASSUME NEW h \in Clients, NEW r \in Requests, NEW w \in Worlds,
             NEW i \in Installations, NEW n \in Names, Submit(h, r, w, i, n)
      PROVE  Cardinality(Queue(v)') <= MaxPending
  <2>1. PICK t : requests' = [requests EXCEPT ![r] = NewRow(w, i, n, t)]
    BY <1>3 DEF Submit, Write
  <2>2. NewRow(w, i, n, t).status = "pending" /\ NewRow(w, i, n, t).world = w
    BY DEF NewRow, AbsentRow
  <2>3. CASE v = w
    <3>1. Queue(v)' \subseteq Queue(v) \cup {r}
      <4>1. \A p \in Requests : p # r => requests'[p] = requests[p]
        BY <2>1 DEF Inv, TypeOK
      <4> QED
        BY <4>1 DEF Queue
    <3>2. /\ IsFiniteSet(Queue(v) \cup {r})
          /\ Cardinality(Queue(v) \cup {r}) <= Cardinality(Queue(v)) + 1
      <4>1. IsFiniteSet(Queue(v)) /\ Cardinality(Queue(v)) \in Nat
        BY QueueFinite
      <4>2. /\ IsFiniteSet(Queue(v) \cup {r})
            /\ Cardinality(Queue(v) \cup {r}) =
                 IF r \in Queue(v) THEN Cardinality(Queue(v)) ELSE Cardinality(Queue(v)) + 1
        BY <4>1, FS_AddElement, Zenon
      <4> QED
        BY <4>1, <4>2
    <3>3. Cardinality(Queue(v)) < MaxPending
      BY <1>3, <2>3 DEF Submit, QueueOpen
    <3>4. /\ Cardinality(Queue(v)') <= Cardinality(Queue(v) \cup {r})
          /\ Cardinality(Queue(v)') \in Nat /\ Cardinality(Queue(v) \cup {r}) \in Nat
      BY <3>1, <3>2, FS_Subset, FS_CardinalityType
    <3> QED
      BY <3>2, <3>3, <3>4, QueueFinite, LimitsAssumption
  <2>4. CASE v # w
    <3>1. Queue(v)' = Queue(v)
      BY <1>3, <2>1, <2>2, <2>4 DEF Queue, Submit, Inv, TypeOK, RowsConsistent, RowConsistent,
         AbsentRow
    <3> QED
      BY <3>1 DEF QueueBounded
  <2> QED
    BY <2>3, <2>4
<1>4. ASSUME NEW h \in Clients, NEW r \in Requests, NEW d \in Decisions,
             NEW receipt \in Receipt, AcceptLate(h, r, d, receipt)
      PROVE  Cardinality(Queue(v)') <= MaxPending
  <2>1. PICK t :
          requests' = [p \in Requests |->
            IF p = r THEN Accepted(requests[r], receipt, t)
            ELSE IF /\ Owns(requests[p], requests[r].world, requests[r].inst)
                    /\ requests[p].status = "pending"
              THEN Superseded(requests[p], t)
            ELSE requests[p]]
    BY <1>4 DEF AcceptLate
  <2>2. \A p \in Requests : /\ Accepted(requests[p], receipt, t).status = "accepted"
                             /\ Superseded(requests[p], t).status = "expired"
    BY <1>1 DEF Accepted, Superseded, Scrubbed, Row
  <2>3. Queue(v)' \subseteq Queue(v)
    BY <2>1, <2>2 DEF Queue
  <2>4. Cardinality(Queue(v)') <= Cardinality(Queue(v)) /\ Cardinality(Queue(v)') \in Nat
    BY <2>3, QueueFinite, FS_Subset, FS_CardinalityType
  <2> QED
    BY <2>4, QueueFinite, LimitsAssumption DEF QueueBounded
<1> QED
  BY <1>2, <1>3, <1>4, Newcomers

(* A World never holds more pending requests than the limit.                *)
THEOREM QueueIsBounded == Spec => []QueueBounded
<1>1. Init => QueueBounded
  <2>1. ASSUME Init, NEW w \in Worlds PROVE Queue(w) = {}
    BY <2>1 DEF Init, Queue, AbsentRow
  <2> QED
    BY <2>1, FS_EmptySet, LimitsAssumption DEF QueueBounded
<1> QED
  BY <1>1, InvInit, InvNext, QueueBoundedNext, PTL DEF Spec

=============================================================================
