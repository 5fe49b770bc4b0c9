------------------------------ MODULE Lifecycle ------------------------------
(***************************************************************************)
(* What the service promises about join requests, without its tables, its  *)
(* clock and its maintenance: the life of each request, and the one seat   *)
(* an owner (an installation at a World) can hold.  JoinRequests is shown  *)
(* to implement this module.                                               *)
(*                                                                         *)
(* The promises, all read off the actions below:                           *)
(*   - a credential is handed out only for the decision that fenced the    *)
(*     request, and while it is out neither it nor the decision changes;   *)
(*   - a fenced request is not withdrawn, rejected or taken over by another*)
(*     decision: it is unfenced, lapses, gives way, or is seated;          *)
(*   - of the closed lives only a lapsed one that kept its fence reopens,  *)
(*     and only into its seat;                                             *)
(*   - an owner is never seated twice, and at most one of its requests is  *)
(*     open at any time.                                                   *)
(***************************************************************************)
CONSTANTS Requests, Owners, Decisions, Receipts, None

VARIABLE life

Unborn == [phase |-> "absent", owner |-> None, decision |-> None, receipt |-> None]

(* The life l of the same owner, gone on. *)
Turned(l, phase, decision, receipt) ==
  [phase |-> phase, owner |-> l.owner, decision |-> decision, receipt |-> receipt]

Undecided(r) == life[r].phase \in {"open", "fenced"}

Current(r) == life[r].phase \in {"open", "fenced", "seated"}

Init == life = [r \in Requests |-> Unborn]

Submit(r, o) ==
  /\ life[r] = Unborn
  /\ \A p \in Requests : life[p].owner = o => ~Current(p)
  /\ life' = [life EXCEPT ![r] =
       [phase |-> "open", owner |-> o, decision |-> None, receipt |-> None]]

Withdraw(r) ==
  /\ life[r].phase = "open"
  /\ life' = [life EXCEPT ![r] = Turned(@, "withdrawn", @.decision, @.receipt)]

Reject(r, d) ==
  /\ life[r].phase = "open"
  /\ life' = [life EXCEPT ![r] = Turned(@, "rejected", d, @.receipt)]

Fence(r, d) ==
  /\ life[r].phase = "open"
  /\ life' = [life EXCEPT ![r] = Turned(@, "fenced", d, @.receipt)]

Unfence(r) ==
  /\ life[r].phase = "fenced"
  /\ \E p \in {"open", "lapsed"} :
       life' = [life EXCEPT ![r] = Turned(@, p, None, @.receipt)]

(* Giving up the fence of a lapsed request. *)
Release(r) ==
  /\ life[r].phase = "lapsed"
  /\ life' = [life EXCEPT ![r] = Turned(@, "lapsed", None, @.receipt)]

(* The seat goes to the request; what its owner has open gives way to it. *)
Seat(r, receipt) ==
  /\ life[r].phase \in {"fenced", "lapsed"} /\ life[r].decision # None
  /\ \A p \in Requests : life[p].owner = life[r].owner => life[p].phase # "seated"
  /\ life' = [p \in Requests |->
       IF p = r
         THEN Turned(life[p], "seated", life[p].decision, receipt)
       ELSE IF life[p].owner = life[r].owner /\ Undecided(p)
         THEN Turned(life[p], "lapsed", None, life[p].receipt)
       ELSE life[p]]

Unseat(r) ==
  /\ life[r].phase = "seated"
  /\ life' = [life EXCEPT ![r] = Turned(@, "removed", @.decision, None)]

Lapse(gone) ==
  /\ \A r \in gone : Undecided(r)
  /\ life' = [r \in Requests |->
       IF r \in gone THEN Turned(life[r], "lapsed", life[r].decision, life[r].receipt)
                    ELSE life[r]]

Forget(gone) ==
  /\ \A r \in gone : ~Undecided(r)
  /\ life' = [r \in Requests |-> IF r \in gone THEN Unborn ELSE life[r]]

Next ==
  \/ \E r \in Requests :
       \/ \E o \in Owners : Submit(r, o)
       \/ \E d \in Decisions : Reject(r, d) \/ Fence(r, d)
       \/ \E receipt \in Receipts : Seat(r, receipt)
       \/ Withdraw(r) \/ Unfence(r) \/ Release(r) \/ Unseat(r)
  \/ \E gone \in SUBSET Requests : Lapse(gone) \/ Forget(gone)

Spec == Init /\ [][Next]_life

=============================================================================
