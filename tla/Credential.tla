------------------------------ MODULE Credential ------------------------------
(***************************************************************************)
(* What private setup promises about relay credentials, without its book,  *)
(* its leases, its calls and its clock: the life of each credential and    *)
(* the one place (a side of a connection attempt) it is issued for.        *)
(* SetupBook is shown to implement this module.                            *)
(*                                                                         *)
(* The promises, all read off the actions below:                           *)
(*   - a side has one lasting credential at a time, a denied one included; *)
(*   - a client denies its own side alone and takes nothing else back;     *)
(*   - the administrator bars all that the attempt has, at once, and until *)
(*     the last of these is over the attempt gets no other;                *)
(*   - nothing denied is opened again, and nothing is issued twice.        *)
(***************************************************************************)
CONSTANTS Credentials, Attempts, None

VARIABLE life

Unissued == [phase |-> "unissued", attempt |-> None, host |-> None]

Over == [phase |-> "over", attempt |-> None, host |-> None]

Lasting(p) == life[p].phase \in {"open", "denied", "barred"}

Of(x) == {p \in Credentials : Lasting(p) /\ life[p].attempt = x}

Turned(l, phase) == [phase |-> phase, attempt |-> l.attempt, host |-> l.host]

Init == life = [p \in Credentials |-> Unissued]

Issue(p, x, host) ==
  /\ life[p] = Unissued
  /\ \A q \in Of(x) : life[q].host # host /\ life[q].phase # "barred"
  /\ life' = [life EXCEPT ![p] = [phase |-> "open", attempt |-> x, host |-> host]]

(* The client's own denial.                                                 *)
Deny(p) ==
  /\ life[p].phase = "open" /\ ~life[p].host
  /\ life' = [life EXCEPT ![p] = Turned(@, "denied")]

(* The administrator's, for both sides.                                     *)
Bar(x) ==
  life' = [p \in Credentials |-> IF p \in Of(x) THEN Turned(life[p], "barred") ELSE life[p]]

(* Credentials end with their time, or with the process that knows them.    *)
End(gone) ==
  /\ \A p \in gone : Lasting(p)
  /\ life' = [p \in Credentials |-> IF p \in gone THEN Over ELSE life[p]]

Next ==
  \/ \E p \in Credentials, x \in Attempts, host \in BOOLEAN : Issue(p, x, host)
  \/ \E p \in Credentials : Deny(p)
  \/ \E x \in Attempts : Bar(x)
  \/ \E gone \in SUBSET Credentials : End(gone)

Spec == Init /\ [][Next]_life

=============================================================================
