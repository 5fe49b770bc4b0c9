-------------------------- MODULE Recruitment_proofs --------------------------
(***************************************************************************)
(* Proofs about Recruitment.  The service under Manager is the service of  *)
(* JoinRequests, so every theorem about Spec holds of RecruitSpec; and the *)
(* Seats of the World and the rows of the service stay reconcilable.  The  *)
(* argument classifies what a step can do to one row by the journal's      *)
(* entry for it (Fate), and what it can do to that entry (Journey).        *)
(***************************************************************************)
EXTENDS Recruitment, JoinRequests_proofs

RecruitTypes ==
  /\ journal \in [Requests -> Intent \cup {None}]
  /\ seats \in [Requests -> Receipt \cup {None}]

(* A Seat whose intent is still journalled was committed under its fence.   *)
SeatsFenced ==
  \A r \in Requests :
    seats[r] # None /\ journal[r] # None =>
      journal[r].stage = "prepared" /\ seats[r] = journal[r].receipt

(* Behind a fence the row waits for its decision or is beyond withdrawing.  *)
FenceHolds ==
  \A r \in Requests :
    Fenced(r) =>
      \/ requests[r].status = "pending" /\ requests[r].decision = journal[r].decision
      \/ requests[r].status \in {"expired", "accepted", "absent"}

ReceiptsCommitted ==
  \A r \in Requests : Seated(requests[r]) => requests[r].receipt = seats[r]

RecruitInv == Inv /\ RecruitTypes /\ SeatsFenced /\ FenceHolds /\ ReceiptsCommitted

-----------------------------------------------------------------------------
LEMMA RecruitInitial == RecruitInit => Init /\ RecruitTypes
  BY DEF RecruitInit, RecruitTypes

LEMMA IntentOf ==
  ASSUME RecruitTypes, NEW r \in Requests, journal[r] # None
  PROVE  /\ journal[r] \in Intent /\ journal[r].decision \in Decisions
         /\ journal[r].receipt \in Receipt
         /\ journal[r].stage \in {"intended", "prepared", "aborting"}
         /\ journal[r].decision # None
  BY NoneAssumption DEF RecruitTypes, Intent

(* Every step of Manager at the service is a step of the service.           *)
LEMMA ManagingSteps ==
  ASSUME RecruitTypes, Managing
  PROVE  Next \/ UNCHANGED vars
<1>1. ASSUME NEW h \in Clients, NEW r \in Requests, CallPrepare(h, r)
      PROVE  Decide(h)
  BY <1>1, IntentOf DEF CallPrepare, Decide
<1>2. ASSUME NEW h \in Clients, NEW r \in Requests, CallAbort(h, r)
      PROVE  Decide(h)
  BY <1>2, IntentOf DEF CallAbort, Decide
<1>3. ASSUME NEW h \in Clients, NEW r \in Requests, CallAccept(h, r)
      PROVE  Decide(h)
  <2>1. seats[r] \in Receipt /\ journal[r].decision \in Decisions
    BY <1>3, IntentOf DEF CallAccept, RecruitTypes
  <2> QED
    BY <1>3, <2>1 DEF CallAccept, Decide
<1>4. ASSUME NEW r \in Requests,
             \/ GiveUp(r) \/ CommitSeat(r) \/ Answered(r)
             \/ \E d \in Decisions, receipt \in Receipt : Intend(r, d, receipt)
      PROVE  UNCHANGED vars
  BY <1>4 DEF GiveUp, CommitSeat, Answered, Intend
<1> QED
  BY <1>1, <1>2, <1>3, <1>4 DEF Managing, Next

LEMMA ServiceSteps ==
  ASSUME RecruitTypes, [RecruitNext]_recruitVars
  PROVE  [Next]_vars
<1>1. CASE Elsewhere
  BY <1>1 DEF Elsewhere, Next, Decide
<1>2. CASE UNCHANGED recruitVars
  BY <1>2 DEF recruitVars, vars
<1> QED
  BY <1>1, <1>2, ManagingSteps DEF RecruitNext

-----------------------------------------------------------------------------
(* What a step does to the journal's entry and the Seat of one request.     *)
Journey(r) ==
  \/ journal'[r] = journal[r] /\ seats'[r] = seats[r]
  \/ /\ journal[r] = None /\ seats[r] = None /\ seats'[r] = None
     /\ journal'[r] \in Intent /\ journal'[r].stage = "intended"
  \/ /\ journal[r] # None /\ journal[r].stage = "intended" /\ seats'[r] = seats[r]
     /\ journal'[r] = [journal[r] EXCEPT !.stage = "prepared"]
     /\ requests'[r].status = "pending" /\ requests'[r].decision = journal[r].decision
  \/ /\ journal[r] # None /\ seats[r] = None /\ seats'[r] = None
     /\ journal'[r] = [journal[r] EXCEPT !.stage = "aborting"]
  \/ journal[r] # None /\ journal'[r] = None /\ seats'[r] = seats[r]
  \/ /\ journal[r] # None /\ journal[r].stage = "prepared" /\ seats[r] = None
     /\ seats'[r] = journal[r].receipt
     /\ journal'[r] = journal[r] /\ requests'[r] = requests[r]

LEMMA JourneyOther ==
  ASSUME RecruitTypes, NEW r \in Requests, NEW e, UNCHANGED seats,
         journal' \in {journal, [journal EXCEPT ![r] = e]},
         journal'[r] # journal[r] => Journey(r)
  PROVE  \A p \in Requests : Journey(p)
<1>1. \A p \in Requests : p # r => journal'[p] = journal[p] /\ seats'[p] = seats[p]
  BY DEF RecruitTypes
<1>2. seats'[r] = seats[r]
  OBVIOUS
<1> QED
  BY <1>1, <1>2 DEF Journey

LEMMA JourneyNext ==
  ASSUME Inv, RecruitTypes, [RecruitNext]_recruitVars
  PROVE  \A r \in Requests : Journey(r)
<1> DEFINE Goal == \A r \in Requests : Journey(r)
<1>1. CASE UNCHANGED <<journal, seats>>
  BY <1>1 DEF Journey
<1>2. ASSUME NEW r \in Requests, NEW d \in Decisions, NEW receipt \in Receipt,
             Intend(r, d, receipt)
      PROVE  Goal
  <2> DEFINE e == [stage |-> "intended", decision |-> d, receipt |-> receipt]
  <2>1. e \in Intent /\ e.stage = "intended"
    BY DEF Intent
  <2>2. journal' = [journal EXCEPT ![r] = e] /\ seats' = seats
    BY <1>2 DEF Intend
  <2>3. journal[r] = None /\ seats[r] = None
    BY <1>2 DEF Intend
  <2> HIDE DEF e
  <2>4. journal'[r] = e
    BY <2>2 DEF RecruitTypes
  <2>5. Journey(r)
    BY <2>1, <2>2, <2>3, <2>4 DEF Journey
  <2> QED
    BY <2>2, <2>5, JourneyOther
<1>3. ASSUME NEW r \in Requests, GiveUp(r)
      PROVE  Goal
  <2> DEFINE e == [journal[r] EXCEPT !.stage = "aborting"]
  <2>1. journal' = [journal EXCEPT ![r] = e] /\ seats' = seats
    BY <1>3 DEF GiveUp
  <2>2. Journey(r)
    BY <1>3, <2>1 DEF GiveUp, Journey, RecruitTypes
  <2> QED
    BY <2>1, <2>2, JourneyOther
<1>4. ASSUME NEW r \in Requests, CommitSeat(r)
      PROVE  Goal
  <2>1. \A p \in Requests : p # r => journal'[p] = journal[p] /\ seats'[p] = seats[p]
    BY <1>4 DEF CommitSeat, RecruitTypes
  <2>2. Journey(r)
    BY <1>4 DEF CommitSeat, Journey, RecruitTypes, vars
  <2> QED
    BY <2>1, <2>2 DEF Journey
<1>5. ASSUME NEW r \in Requests, Answered(r)
      PROVE  Goal
  <2>1. journal' = [journal EXCEPT ![r] = None] /\ seats' = seats /\ journal[r] # None
    BY <1>5 DEF Answered
  <2>2. Journey(r)
    BY <2>1 DEF Journey, RecruitTypes
  <2> QED
    BY <2>1, <2>2, JourneyOther
<1>6. ASSUME NEW h \in Clients, NEW r \in Requests, CallPrepare(h, r)
      PROVE  Goal
  <2> DEFINE e == [journal[r] EXCEPT !.stage = "prepared"]
  <2>1. journal' \in {journal, [journal EXCEPT ![r] = e]} /\ seats' = seats
    BY <1>6 DEF CallPrepare, Replied
  <2>2. requests'[r] = DecidedBy(requests[r], journal[r].decision)
    BY <1>6 DEF CallPrepare, Prepare, Write, Inv, TypeOK
  <2>3. requests'[r].status = "pending" /\ requests'[r].decision = journal[r].decision
    <3>1. requests[r] \in Row /\ requests[r].status = "pending"
      BY <1>6 DEF CallPrepare, Prepare, Decidable, Inv, TypeOK
    <3> QED
      BY <2>2, <3>1 DEF DecidedBy, Row
  <2>4. journal'[r] # journal[r] => journal'[r] = e
    BY <2>1 DEF RecruitTypes
  <2>5. journal'[r] # journal[r] => Journey(r)
    BY <1>6, <2>1, <2>3, <2>4 DEF CallPrepare, Journey
  <2> HIDE DEF e
  <2> QED
    BY <2>1, <2>5, JourneyOther
<1>7. ASSUME NEW h \in Clients, NEW r \in Requests, CallAbort(h, r) \/ CallAccept(h, r)
      PROVE  Goal
  <2>1. /\ journal' \in {journal, [journal EXCEPT ![r] = None]} /\ seats' = seats
        /\ journal[r] # None
    BY <1>7 DEF CallAbort, CallAccept, Replied
  <2>2. journal'[r] # journal[r] => Journey(r)
    BY <2>1 DEF Journey, RecruitTypes
  <2> QED
    BY <2>1, <2>2, JourneyOther
<1> QED
  BY <1>1, <1>2, <1>3, <1>4, <1>5, <1>6, <1>7
  DEF RecruitNext, Managing, Elsewhere, recruitVars

LEMMA RecruitTypesNext ==
  ASSUME RecruitTypes, [RecruitNext]_recruitVars
  PROVE  RecruitTypes'
<1>1. CASE UNCHANGED <<journal, seats>>
  BY <1>1 DEF RecruitTypes
<1>2. ASSUME NEW r \in Requests, NEW d \in Decisions, NEW receipt \in Receipt,
             Intend(r, d, receipt)
      PROVE  RecruitTypes'
  BY <1>2 DEF Intend, RecruitTypes, Intent
<1>3. ASSUME NEW r \in Requests, NEW stage \in {"intended", "prepared", "aborting"},
             journal[r] # None
      PROVE  [journal[r] EXCEPT !.stage = stage] \in Intent
  BY <1>3, IntentOf DEF Intent
<1>4. ASSUME NEW r \in Requests, GiveUp(r)
      PROVE  RecruitTypes'
  <2>1. [journal[r] EXCEPT !.stage = "aborting"] \in Intent
    BY <1>3, <1>4 DEF GiveUp
  <2> QED
    BY <1>4, <2>1 DEF GiveUp, RecruitTypes
<1>5. ASSUME NEW r \in Requests, CommitSeat(r)
      PROVE  RecruitTypes'
  BY <1>5, IntentOf DEF CommitSeat, RecruitTypes
<1>6. ASSUME NEW r \in Requests, Answered(r)
      PROVE  RecruitTypes'
  BY <1>6 DEF Answered, RecruitTypes
<1>7. ASSUME NEW r \in Requests, NEW e \in Intent \cup {None}, Replied(r, e)
      PROVE  RecruitTypes'
  BY <1>7 DEF Replied, RecruitTypes
<1>8. ASSUME NEW h \in Clients, NEW r \in Requests, CallPrepare(h, r)
      PROVE  RecruitTypes'
  <2>1. [journal[r] EXCEPT !.stage = "prepared"] \in Intent
    BY <1>3, <1>8 DEF CallPrepare
  <2> QED
    BY <1>7, <1>8, <2>1 DEF CallPrepare
<1>9. ASSUME NEW h \in Clients, NEW r \in Requests, CallAbort(h, r) \/ CallAccept(h, r)
      PROVE  RecruitTypes'
  BY <1>7, <1>9 DEF CallAbort, CallAccept
<1> QED
  BY <1>1, <1>2, <1>4, <1>5, <1>6, <1>8, <1>9
  DEF RecruitNext, Managing, Elsewhere, recruitVars

-----------------------------------------------------------------------------
(* What a step does to the row of one request, by its intent.               *)
Same(q, p) ==
  p.status = q.status /\ p.decision = q.decision /\ p.receipt = q.receipt /\ p.removed = q.removed

Overtaken(r) ==
  \E s \in Requests \ {r} :
    /\ Owns(requests[s], requests[r].world, requests[r].inst)
    /\ requests[s].status = "expired" /\ requests'[s].status = "accepted"

(* A decision that is not the one behind this request's fence.              *)
Foreign(r) ==
  \/ journal[r] = None
  \/ journal[r].stage # "prepared"
  \/ requests[r].decision # journal[r].decision

Fate(r) ==
  LET q == requests[r]
      p == requests'[r]
  IN
  \/ Same(q, p)
  \/ q.status = "pending" /\ p.status = "expired" /\ p.decision = q.decision
  \/ q.terminal # None /\ q.terminal + Retention <= now /\ p = AbsentRow
  \/ journal[r] = None /\ seats[r] = None /\ q.status = "absent" /\ p.status = "pending"
  \/ /\ q.status \in {"pending", "expired"} /\ p.status # "accepted" /\ Foreign(r)
     /\ q.status = "expired" => p.status = "expired"
  \/ /\ q.status \in {"pending", "expired"} /\ p.status = "accepted"
     /\ seats[r] # None /\ p.receipt = seats[r]
  \/ q.status = "pending" /\ p.status = "expired" /\ Overtaken(r)
  \/ q.status = "accepted" /\ p.status = "accepted" /\ p.removed

LEMMA RowEffects ==
  ASSUME NEW q \in Row
  PROVE  /\ Expired(q).status = "expired" /\ Expired(q).decision = q.decision
         /\ Same(q, Scrubbed(q))
         /\ \A t : Withdrawn(q, t).status = "withdrawn"
         /\ \A d : DecidedBy(q, d).status = q.status
         /\ \A d : Expired(DecidedBy(q, d)).status = "expired"
         /\ \A receipt, t : /\ Accepted(q, receipt, t).status = "accepted"
                            /\ Accepted(q, receipt, t).receipt = receipt
         /\ \A t : Superseded(q, t).status = "expired"
         /\ \A d, block, t : Rejected(q, d, block, t).status = "rejected"
         /\ Removed(q).status = q.status /\ Removed(q).removed
<1> USE DEF Row
<1>1. /\ Expired(q).status = "expired" /\ Expired(q).decision = q.decision
      /\ Same(q, Scrubbed(q))
  BY DEF Expired, Scrubbed, Same
<1>2. \A t : Withdrawn(q, t).status = "withdrawn" /\ Superseded(q, t).status = "expired"
  BY DEF Withdrawn, Superseded, Scrubbed
<1>3. \A d : DecidedBy(q, d).status = q.status /\ Expired(DecidedBy(q, d)).status = "expired"
  BY DEF DecidedBy, Expired
<1>4. \A receipt, t : /\ Accepted(q, receipt, t).status = "accepted"
                      /\ Accepted(q, receipt, t).receipt = receipt
  BY DEF Accepted
<1>5. \A d, block, t : Rejected(q, d, block, t).status = "rejected"
  BY DEF Rejected
<1>6. Removed(q).status = q.status /\ Removed(q).removed
  BY DEF Removed
<1> QED
  BY <1>1, <1>2, <1>3, <1>4, <1>5, <1>6

(* A step that writes one row leaves the others alone.                      *)
LEMMA FateOther ==
  ASSUME Inv, NEW r \in Requests, NEW p, Write(r, p), requests'[r] = p => Fate(r)
  PROVE  \A s \in Requests : Fate(s)
  BY DEF Write, Fate, Same, Inv, TypeOK

LEMMA CleanupFate ==
  ASSUME Inv, NEW h \in Handlers, Cleanup(h)
  PROVE  \A r \in Requests : Fate(r)
<1>1. \A r \in Requests : requests[r] \in Row
  BY DEF Inv, TypeOK
<1>2. CASE Arrive(h) \/ Forget(h)
  BY <1>2 DEF Arrive, Forget, Fate, Same
<1>3. CASE Expire(h)
  <2>1. ASSUME NEW r \in Requests
        PROVE  \/ requests'[r] = requests[r]
               \/ requests[r].status = "pending" /\ requests'[r] = Expired(requests[r])
    BY <1>3 DEF Expire
  <2> QED
    BY <1>1, <2>1, RowEffects DEF Fate, Same
<1>4. CASE Scrub(h)
  <2>1. ASSUME NEW r \in Requests
        PROVE  requests'[r] \in {requests[r], Scrubbed(requests[r])}
    BY <1>4 DEF Scrub
  <2> QED
    BY <1>1, <2>1, RowEffects DEF Fate, Same
<1>5. CASE Purge(h)
  <2>1. PICK t \in calls[h].at .. now :
          requests' = [r \in Requests |->
            IF requests[r].terminal # None /\ requests[r].terminal + Retention <= t
              THEN AbsentRow ELSE requests[r]]
    BY <1>5 DEF Purge
  <2>2. t \in Nat /\ t <= now /\ now \in Nat
    BY DEF Inv, TypeOK
  <2>3. ASSUME NEW r \in Requests
        PROVE  Fate(r)
    <3>1. CASE requests[r].terminal # None /\ requests[r].terminal + Retention <= t
      <4>1. requests[r].terminal \in Nat
        BY <1>1, <3>1 DEF Row
      <4>2. requests[r].terminal + Retention <= now
        BY <3>1, <2>2, <4>1, PeriodsAssumption
      <4>3. requests'[r] = AbsentRow
        BY <2>1, <3>1
      <4> QED
        BY <3>1, <4>2, <4>3 DEF Fate
    <3>2. CASE ~(requests[r].terminal # None /\ requests[r].terminal + Retention <= t)
      BY <2>1, <3>2 DEF Fate, Same
    <3> QED
      BY <3>1, <3>2
  <2> QED
    BY <2>3
<1> QED
  BY <1>2, <1>3, <1>4, <1>5 DEF Cleanup

(* The decisions, by whoever takes them.                                    *)
LEMMA DecisionFate ==
  ASSUME Inv, RecruitTypes, NEW h \in Clients, NEW r \in Requests, NEW d \in Decisions,
         \/ Prepare(h, r, d) \/ Abort(h, r, d) \/ AbortExpired(h, r, d)
         \/ \E block \in BOOLEAN : Reject(h, r, d, block),
         journal[r] = None \/ journal[r].stage # "prepared" \/ journal[r].decision # d
  PROVE  \A s \in Requests : Fate(s)
<1>1. requests[r] \in Row /\ None \notin Decisions
  BY NoneAssumption DEF Inv, TypeOK
<1>2. /\ requests[r].status \in {"pending", "expired"}
      /\ requests[r].decision \in {None, d}
  BY DEF Prepare, Abort, AbortExpired, Reject, Decidable
<1>3. Foreign(r)
  BY <1>1, <1>2, IntentOf DEF Foreign
<1>4. PICK p : /\ Write(r, p) /\ p.status # "accepted"
               /\ requests[r].status = "expired" => p.status = "expired"
  <2>1. CASE Prepare(h, r, d)
    BY <1>1, <2>1, RowEffects DEF Prepare, Decidable
  <2>2. CASE Abort(h, r, d)
    BY <1>1, <2>2, RowEffects DEF Abort
  <2>3. CASE AbortExpired(h, r, d)
    BY <1>1, <2>3, RowEffects DEF AbortExpired
  <2>4. ASSUME NEW block \in BOOLEAN, Reject(h, r, d, block)
        PROVE  \E p : /\ Write(r, p) /\ p.status # "accepted"
                      /\ requests[r].status = "expired" => p.status = "expired"
    BY <1>1, <2>4, RowEffects DEF Reject, Decidable
  <2> QED
    BY <2>1, <2>2, <2>3, <2>4
<1>5. requests'[r] = p => Fate(r)
  BY <1>2, <1>3, <1>4 DEF Fate
<1> QED
  BY <1>4, <1>5, FateOther

(* Manager hands over the receipt of a Seat.                                *)
LEMMA ReceiptFate ==
  ASSUME Inv, RecruitTypes, NEW h \in Clients, NEW r \in Requests, CallAccept(h, r)
  PROVE  \A s \in Requests : Fate(s)
<1> DEFINE d == journal[r].decision
<1>1. seats[r] # None /\ requests[r] \in Row
  BY DEF CallAccept, Inv, TypeOK
<1>2. CASE Accept(h, r, d, seats[r])
  <2>1. PICK t \in calls[h].at .. now : Write(r, Accepted(requests[r], seats[r], t))
    BY <1>2 DEF Accept
  <2>2. requests'[r] = Accepted(requests[r], seats[r], t) => Fate(r)
    BY <1>1, <1>2, RowEffects DEF Accept, Fate
  <2> QED
    BY <2>1, <2>2, FateOther
<1>3. CASE AcceptLate(h, r, d, seats[r])
  <2>1. PICK t \in calls[h].at .. now :
          requests' = [p \in Requests |->
            IF p = r THEN Accepted(requests[r], seats[r], t)
            ELSE IF /\ Owns(requests[p], requests[r].world, requests[r].inst)
                    /\ requests[p].status = "pending"
              THEN Superseded(requests[p], t)
            ELSE requests[p]]
    BY <1>3 DEF AcceptLate
  <2>2. requests[r].status = "expired" /\ requests'[r].status = "accepted"
        /\ requests'[r].receipt = seats[r]
    BY <1>1, <1>3, <2>1, RowEffects DEF AcceptLate
  <2>3. ASSUME NEW s \in Requests, s # r
        PROVE  Fate(s)
    <3>1. CASE /\ Owns(requests[s], requests[r].world, requests[r].inst)
               /\ requests[s].status = "pending"
      <4>1. requests'[s].status = "expired"
        <5>1. requests[s] \in Row /\ requests'[s] = Superseded(requests[s], t)
          BY <2>1, <2>3, <3>1 DEF Inv, TypeOK
        <5> QED
          BY <5>1, RowEffects
      <4>2. Overtaken(s)
        BY <2>2, <2>3, <3>1 DEF Overtaken, Owns
      <4> QED
        BY <3>1, <4>1, <4>2 DEF Fate
    <3>2. CASE ~(/\ Owns(requests[s], requests[r].world, requests[r].inst)
                 /\ requests[s].status = "pending")
      BY <2>1, <2>3, <3>2 DEF Fate, Same
    <3> QED
      BY <3>1, <3>2
  <2> QED
    BY <1>1, <2>2, <2>3 DEF Fate
<1> QED
  BY <1>2, <1>3 DEF CallAccept

LEMMA FateNext ==
  ASSUME Inv, RecruitTypes, [RecruitNext]_recruitVars
  PROVE  \A r \in Requests : Fate(r)
<1> DEFINE Goal == \A r \in Requests : Fate(r)
<1>1. CASE UNCHANGED requests
  BY <1>1 DEF Fate, Same
<1>2. ASSUME NEW h \in Clients, NEW r \in Requests, CallPrepare(h, r) \/ CallAbort(h, r)
      PROVE  Goal
  <2>1. /\ journal[r] # None /\ journal[r].stage # "prepared"
        /\ \/ Prepare(h, r, journal[r].decision) \/ Abort(h, r, journal[r].decision)
           \/ AbortExpired(h, r, journal[r].decision)
    BY <1>2 DEF CallPrepare, CallAbort
  <2>2. journal[r].decision \in Decisions
    BY <2>1, IntentOf
  <2> QED
    BY <2>1, <2>2, DecisionFate
<1>3. ASSUME NEW h \in Clients, NEW r \in Requests, NEW d \in Decisions \ InUse,
             \/ Prepare(h, r, d) \/ Abort(h, r, d) \/ AbortExpired(h, r, d)
             \/ \E block \in BOOLEAN : Reject(h, r, d, block)
      PROVE  Goal
  <2>1. journal[r] = None \/ journal[r].decision # d
    BY <1>3 DEF InUse
  <2> QED
    BY <1>3, <2>1, DecisionFate
<1>4. ASSUME NEW h \in Clients, NEW r \in Requests, NEW w \in Worlds,
             NEW i \in Installations, NEW n \in Names,
             journal[r] = None, seats[r] = None, Submit(h, r, w, i, n)
      PROVE  Goal
  <2>1. PICK t : Write(r, NewRow(w, i, n, t))
    BY <1>4 DEF Submit
  <2>2. NewRow(w, i, n, t).status = "pending"
    BY DEF NewRow, AbsentRow
  <2>3. requests'[r] = NewRow(w, i, n, t) => Fate(r)
    BY <1>4, <2>2 DEF Submit, Fate
  <2> QED
    BY <2>1, <2>3, FateOther
<1>5. ASSUME NEW h \in Clients, NEW r \in Requests, Withdraw(h, r)
      PROVE  Goal
  <2>1. PICK t : Write(r, Withdrawn(requests[r], t))
    BY <1>5 DEF Withdraw
  <2>2. Foreign(r)
    BY <1>5, IntentOf DEF Withdraw, Foreign
  <2>3. Withdrawn(requests[r], t).status = "withdrawn"
    <3>1. requests[r] \in Row
      BY DEF Inv, TypeOK
    <3> QED
      BY <3>1, RowEffects
  <2>4. requests'[r] = Withdrawn(requests[r], t) => Fate(r)
    BY <1>5, <2>2, <2>3 DEF Withdraw, Fate
  <2> QED
    BY <2>1, <2>4, FateOther
<1>6. ASSUME NEW w \in Worlds, NEW o \in Removals, NEW r \in Requests,
             NEW banned \in SUBSET Installations, RemovePlayer(w, o, r, banned)
      PROVE  Goal
  <2>1. requests' = [requests EXCEPT ![r] =
          IF requests[r].status = "accepted" /\ requests[r].world = w
            THEN Removed(requests[r]) ELSE requests[r]]
    BY <1>6 DEF RemovePlayer
  <2>2. requests[r] \in Row
    BY DEF Inv, TypeOK
  <2>3. Fate(r)
    BY <2>1, <2>2, RowEffects DEF Fate, Same, Inv, TypeOK
  <2>4. \A s \in Requests : s # r => requests'[s] = requests[s]
    BY <2>1 DEF Inv, TypeOK
  <2> QED
    BY <2>3, <2>4 DEF Fate, Same
<1>7. CASE \E r \in Requests :
             \/ \E d \in Decisions, receipt \in Receipt : Intend(r, d, receipt)
             \/ GiveUp(r) \/ CommitSeat(r) \/ Answered(r)
  BY <1>1, <1>7 DEF Intend, GiveUp, CommitSeat, Answered, vars
<1>8. CASE \/ \E h \in Handlers : Abandon(h)
           \/ \E w \in Worlds, i \in Installations : Unblock(w, i)
           \/ Tick
  BY <1>1, <1>8 DEF Abandon, Unblock, Tick
<1>9. CASE Managing
  BY <1>2, <1>7, <1>9, ReceiptFate DEF Managing
<1>10. CASE Elsewhere
  BY <1>3, <1>4, <1>5, <1>6, <1>8, <1>10, CleanupFate DEF Elsewhere
<1>11. CASE UNCHANGED recruitVars
  BY <1>1, <1>11 DEF recruitVars
<1> QED
  BY <1>9, <1>10, <1>11 DEF RecruitNext

-----------------------------------------------------------------------------
LEMMA FencedSeats ==
  ASSUME RecruitInv, [RecruitNext]_recruitVars
  PROVE  SeatsFenced'
<1>1. ASSUME NEW r \in Requests, Journey(r), seats'[r] # None, journal'[r] # None
      PROVE  journal'[r].stage = "prepared" /\ seats'[r] = journal'[r].receipt
  <2>1. journal[r] # None => journal[r] \in Intent
    BY IntentOf DEF RecruitInv
  <2> QED
    BY <1>1, <2>1 DEF Journey, RecruitInv, SeatsFenced, Intent
<1> QED
  BY <1>1, JourneyNext DEF SeatsFenced, RecruitInv

LEMMA FencesHold ==
  ASSUME RecruitInv, [RecruitNext]_recruitVars
  PROVE  FenceHolds'
<1> SUFFICES ASSUME NEW r \in Requests, journal'[r] # None, journal'[r].stage = "prepared"
             PROVE  \/ requests'[r].status = "pending"
                       /\ requests'[r].decision = journal'[r].decision
                    \/ requests'[r].status \in {"expired", "accepted", "absent"}
  BY DEF FenceHolds, Fenced
<1>1. Journey(r) /\ Fate(r)
  BY JourneyNext, FateNext DEF RecruitInv
<1>2. journal[r] # None => journal[r] \in Intent
  BY IntentOf DEF RecruitInv
<1>3. CASE journal'[r] = journal[r]
  <2>1. \/ requests[r].status = "pending" /\ requests[r].decision = journal[r].decision
        \/ requests[r].status \in {"expired", "accepted", "absent"}
    BY <1>3 DEF RecruitInv, FenceHolds, Fenced
  <2>2. AbsentRow.status = "absent"
    BY DEF AbsentRow
  <2> QED
    BY <1>1, <1>3, <2>1, <2>2 DEF Fate, Foreign, Same
<1>4. CASE journal'[r] # journal[r]
  <2>1. /\ journal[r] # None /\ journal'[r] = [journal[r] EXCEPT !.stage = "prepared"]
        /\ requests'[r].status = "pending" /\ requests'[r].decision = journal[r].decision
    BY <1>1, <1>2, <1>4 DEF Journey, Intent
  <2> QED
    BY <1>2, <2>1 DEF Intent
<1> QED
  BY <1>3, <1>4

LEMMA CommittedReceipts ==
  ASSUME RecruitInv, [RecruitNext]_recruitVars
  PROVE  ReceiptsCommitted'
<1> SUFFICES ASSUME NEW r \in Requests, requests'[r].status = "accepted", ~requests'[r].removed
             PROVE  requests'[r].receipt = seats'[r]
  BY DEF ReceiptsCommitted, Seated
<1>1. Journey(r) /\ Fate(r)
  BY JourneyNext, FateNext DEF RecruitInv
<1>2. AbsentRow.status = "absent"
  BY DEF AbsentRow
<1>3. \/ Same(requests[r], requests'[r])
      \/ seats[r] # None /\ requests'[r].receipt = seats[r]
  BY <1>1, <1>2 DEF Fate
<1>4. CASE Same(requests[r], requests'[r])
  <2>1. Seated(requests[r]) /\ requests'[r].receipt = requests[r].receipt
    BY <1>4 DEF Same, Seated
  <2>2. requests[r].receipt = seats[r] /\ seats[r] # None
    BY <2>1 DEF RecruitInv, ReceiptsCommitted, Inv, RowsConsistent, RowConsistent
  <2> QED
    BY <1>1, <2>1, <2>2 DEF Journey
<1>5. CASE seats[r] # None /\ requests'[r].receipt = seats[r]
  BY <1>1, <1>5 DEF Journey
<1> QED
  BY <1>3, <1>4, <1>5

LEMMA RecruitInductive ==
  ASSUME RecruitInv, [RecruitNext]_recruitVars
  PROVE  RecruitInv'
<1>1. Inv'
  BY ServiceSteps, InvNext DEF RecruitInv
<1> QED
  BY <1>1, RecruitTypesNext, FencedSeats, FencesHold, CommittedReceipts DEF RecruitInv

LEMMA RecruitInvInit == RecruitInit => RecruitInv
<1> SUFFICES ASSUME RecruitInit
             PROVE  RecruitInv
  OBVIOUS
<1>1. Inv /\ RecruitTypes
  BY InvInit, RecruitInitial DEF RecruitInit
<1>2. \A r \in Requests : journal[r] = None /\ seats[r] = None /\ requests[r].status = "absent"
  BY DEF RecruitInit, Init, AbsentRow
<1> QED
  BY <1>1, <1>2
  DEF RecruitInv, SeatsFenced, FenceHolds, Fenced, ReceiptsCommitted, Seated

LEMMA RecruitInvariant == RecruitSpec => []RecruitInv
  BY RecruitInvInit, RecruitInductive, PTL DEF RecruitSpec

-----------------------------------------------------------------------------
(* The service under Manager behaves as JoinRequests says: what is proved   *)
(* of the service holds whatever Manager and the World do.                  *)
THEOREM ServiceUnderManager == RecruitSpec => Spec
<1>1. RecruitInit => Init
  BY RecruitInitial
<1>2. RecruitInv /\ [RecruitNext]_recruitVars => [Next]_vars
  BY ServiceSteps DEF RecruitInv
<1> QED
  BY <1>1, <1>2, RecruitInvariant, PTL DEF RecruitSpec, Spec

(* Under Manager and its lost messages, too, the tables implement the life  *)
(* of a request.                                                            *)
THEOREM LifecycleUnderManager == RecruitSpec => ImplementsLifecycle
  BY ServiceUnderManager, Refinement

(* Journal, Seats and tables keep their types.                              *)
THEOREM RecruitTypeCorrect == RecruitSpec => []RecruitTypeOK
<1>1. RecruitInv => RecruitTypeOK
  BY DEF RecruitInv, Inv, RecruitTypes, RecruitTypeOK
<1> QED
  BY <1>1, RecruitInvariant, PTL

(* A Seat never stands against a withdrawn or rejected request, and a       *)
(* disclosed credential is that of a Seat the World has saved.              *)
THEOREM SeatsAlwaysAgree == RecruitSpec => []SeatsAgree
<1>1. RecruitInv => SeatsAgree
  BY DEF RecruitInv, SeatsFenced, FenceHolds, Fenced, ReceiptsCommitted, SeatsAgree
<1> QED
  BY <1>1, RecruitInvariant, PTL

(* Behind its fence a Seat can be acknowledged until its retention is over, *)
(* unless an earlier request of the installation gets its receipt late.     *)
THEOREM SeatsAlwaysReconcile == RecruitSpec => SeatsReconcile
<1> DEFINE SeatKept(r) ==
      /\ Fenced(r) /\ Reconcilable(requests[r], journal[r])
      /\ journal'[r] = journal[r]
      => \/ Reconcilable(requests'[r], journal[r])
         \/ /\ requests'[r] = AbsentRow
            /\ requests[r].terminal + Retention <= now
         \/ \E p \in Requests \ {r} :
              /\ Owns(requests[p], requests[r].world, requests[r].inst)
              /\ requests[p].status = "expired" /\ requests'[p].status = "accepted"
<1>1. ASSUME RecruitInv, RecruitNext, NEW r \in Requests
      PROVE  SeatKept(r)
  <2> SUFFICES ASSUME Fenced(r), Reconcilable(requests[r], journal[r]), ~Overtaken(r),
                      ~(/\ requests'[r] = AbsentRow
                        /\ requests[r].terminal + Retention <= now)
               PROVE  Reconcilable(requests'[r], journal[r])
    BY DEF Overtaken
  <2>1. Fate(r) /\ (seats[r] # None => seats[r] = journal[r].receipt)
    BY <1>1, FateNext DEF RecruitInv, Fenced, SeatsFenced
  <2>2. ~Foreign(r) \/ requests[r].status = "accepted"
    BY DEF Fenced, Reconcilable, Foreign
  <2> QED
    BY <2>1, <2>2 DEF Fate, Fenced, Reconcilable, Same
<1>2. RecruitInv /\ [RecruitNext]_recruitVars => [\A r \in Requests : SeatKept(r)]_recruitVars
  BY <1>1
<1> QED
  BY <1>2, RecruitInvariant, PTL DEF RecruitSpec, SeatsReconcile

=============================================================================
