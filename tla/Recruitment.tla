----------------------------- MODULE Recruitment -----------------------------
(***************************************************************************)
(* Join requests with the World's side of an acceptance: Manager's private *)
(* journal and the Seats the World has saved.  The service authors no Seat *)
(* (src/docs/api.md, "Private Join Requests"): Manager journals its intent, *)
(* prepares the decision at the service, commits the Seat in the World and *)
(* only then hands the service the exact receipt, again and again until it *)
(* hears an answer.  The two databases share no transaction; what holds    *)
(* them together is the fence of `prepare` and the proof that `cleanup`    *)
(* and `decide` leave in the row.                                          *)
(*                                                                         *)
(* Everything of the service is JoinRequests.  Manager and the World are   *)
(* not in this repository: they are modelled from that page, and external. *)
(* A reply that is lost leaves the journal as it was; since the journal    *)
(* and the Seats are durable, a crash of Manager is a pause.  Others with  *)
(* the administrator's capability still decide, but under decision         *)
(* identifiers of their own and without a receipt, for they have no Seat.  *)
(***************************************************************************)
EXTENDS JoinRequests

VARIABLES
  journal,  \* Manager's intents, by request
  seats     \* the Seats saved in the World: seat_id is the request_id

recruitVars == <<requests, blocks, removals, calls, now, journal, seats>>

-----------------------------------------------------------------------------
Intent == [stage : {"intended", "prepared", "aborting"}, decision : Decisions, receipt : Receipt]

InUse == {journal[r].decision : r \in {p \in Requests : journal[p] # None}}

RecruitInit ==
  /\ Init
  /\ journal = [r \in Requests |-> None]
  /\ seats = [r \in Requests |-> None]

(* Manager has read a pending request and decides to accept it, under a     *)
(* fresh decision_id.                                                       *)
Intend(r, d, receipt) ==
  /\ journal[r] = None /\ seats[r] = None
  /\ requests[r].status = "pending" /\ requests[r].name = receipt.name
  /\ d \notin InUse /\ \A p \in Requests : requests[p].decision # d
  /\ journal' = [journal EXCEPT ![r] =
       [stage |-> "intended", decision |-> d, receipt |-> receipt]]
  /\ UNCHANGED <<vars, seats>>

(* The reply to Manager's call arrives, or is lost.                         *)
Replied(r, intent) ==
  /\ journal' \in {journal, [journal EXCEPT ![r] = intent]}
  /\ UNCHANGED seats

CallPrepare(h, r) ==
  LET j == journal[r]
  IN  /\ j # None /\ j.stage = "intended"
      /\ Prepare(h, r, j.decision)
      /\ Replied(r, [j EXCEPT !.stage = "prepared"])

(* A known failure before the Seat is committed: a refusal of the service,  *)
(* a World that is stopped or full.                                         *)
GiveUp(r) ==
  /\ journal[r] # None /\ journal[r].stage # "aborting" /\ seats[r] = None
  /\ journal' = [journal EXCEPT ![r].stage = "aborting"]
  /\ UNCHANGED <<vars, seats>>

CallAbort(h, r) ==
  LET j == journal[r]
  IN  /\ j # None /\ j.stage = "aborting"
      /\ Abort(h, r, j.decision) \/ AbortExpired(h, r, j.decision)
      /\ Replied(r, None)

(* Mutant: Manager does not wait for the fence.                             *)
CommitSeat_Unfenced(r) ==
  /\ journal[r] # None /\ journal[r].stage # "aborting" /\ seats[r] = None
  /\ seats' = [seats EXCEPT ![r] = journal[r].receipt]
  /\ journal' = [journal EXCEPT ![r].stage = "prepared"]
  /\ UNCHANGED vars

(* The World saves the Seat.  Manager may not learn of it now: it looks at  *)
(* the World again before its next step.                                    *)
CommitSeat(r) ==
  /\ journal[r] # None /\ journal[r].stage = "prepared" /\ seats[r] = None
  /\ seats' = [seats EXCEPT ![r] = journal[r].receipt]
  /\ UNCHANGED <<vars, journal>>

CallAccept(h, r) ==
  LET j == journal[r]
  IN  /\ j # None /\ seats[r] # None
      /\ Accept(h, r, j.decision, seats[r]) \/ AcceptLate(h, r, j.decision, seats[r])
      /\ Replied(r, None)

(* The answer to a repeated call that changes nothing any more ends the     *)
(* journal: the receipt is stored, or the row is gone or no longer waits    *)
(* for this decision.                                                       *)
Answered(r) ==
  /\ journal[r] # None
  /\ journal[r].stage = "aborting" \/ seats[r] # None
  /\ requests[r].status \notin {"pending", "expired"} \/ requests[r].decision # journal[r].decision
  /\ journal' = [journal EXCEPT ![r] = None]
  /\ UNCHANGED <<vars, seats>>

(* All other calls at the service.  An applicant uses a fresh identifier    *)
(* for each request, at least not one that names a Seat or an intent.       *)
Elsewhere ==
  /\ \/ \E h \in Handlers : Cleanup(h) \/ Abandon(h)
     \/ \E h \in Clients, r \in Requests, w \in Worlds, i \in Installations, n \in Names :
          journal[r] = None /\ seats[r] = None /\ Submit(h, r, w, i, n)
     \/ \E h \in Clients, r \in Requests :
          \/ Withdraw(h, r)
          \/ \E d \in Decisions \ InUse :
               \/ Prepare(h, r, d) \/ Abort(h, r, d) \/ AbortExpired(h, r, d)
               \/ \E block \in BOOLEAN : Reject(h, r, d, block)
     \/ \E w \in Worlds, i \in Installations : Unblock(w, i)
     \/ \E w \in Worlds, o \in Removals, r \in Requests, banned \in SUBSET Installations :
          RemovePlayer(w, o, r, banned)
     \/ Tick
  /\ UNCHANGED <<journal, seats>>

Managing ==
  \E r \in Requests :
    \/ \E d \in Decisions, receipt \in Receipt : Intend(r, d, receipt)
    \/ GiveUp(r) \/ CommitSeat(r) \/ Answered(r)
    \/ \E h \in Clients : CallPrepare(h, r) \/ CallAbort(h, r) \/ CallAccept(h, r)

RecruitNext == Managing \/ Elsewhere

RecruitSpec == RecruitInit /\ [][RecruitNext]_recruitVars

-----------------------------------------------------------------------------
RecruitTypeOK ==
  /\ TypeOK
  /\ journal \in [Requests -> Intent \cup {None}]
  /\ seats \in [Requests -> Receipt \cup {None}]

(* Manager holds the service's word that the request is fenced.             *)
Fenced(r) == journal[r] # None /\ journal[r].stage = "prepared"

(* The row still takes, or has taken, the receipt of that decision.         *)
Reconcilable(q, j) ==
  \/ q.status \in {"pending", "expired"} /\ q.decision = j.decision
  \/ q.status = "accepted" /\ (q.removed \/ q.receipt = j.receipt)

(* The deadline, the loss of any reply, a withdrawal, the decisions of      *)
(* others and the cleanup of any call never take from a Seat that the World *)
(* may already have committed the possibility of being acknowledged, until  *)
(* its retention is over; only the late receipt of an earlier request of    *)
(* the same installation does.                                              *)
SeatsReconcile ==
  [][\A r \in Requests :
       /\ Fenced(r) /\ Reconcilable(requests[r], journal[r])
       /\ journal'[r] = journal[r]
       => \/ Reconcilable(requests'[r], journal[r])
          \/ /\ requests'[r] = AbsentRow
             /\ requests[r].terminal + Retention <= now
          \/ \E p \in Requests \ {r} :
               /\ Owns(requests[p], requests[r].world, requests[r].inst)
               /\ requests[p].status = "expired" /\ requests'[p].status = "accepted"]_recruitVars

(* A Seat never stands against a withdrawn or rejected request, and a       *)
(* credential the service discloses is one that the World has committed.    *)
SeatsAgree ==
  \A r \in Requests :
    /\ seats[r] # None /\ journal[r] # None => requests[r].status \notin {"withdrawn", "rejected"}
    /\ Seated(requests[r]) => requests[r].receipt = seats[r]

=============================================================================
