-------------------------------- MODULE Budget --------------------------------
(***************************************************************************)
(* What the rate limits promise, without their transactions, their locks   *)
(* and the calls in flight: every installation and every network has an    *)
(* hourly budget in each scope, and a call is charged to both or to none,  *)
(* at one instant, in the hour of that instant or the one before, only if  *)
(* neither budget is spent.  Nothing is given back before the hour after   *)
(* is over too.  Admission is shown to implement this module.              *)
(***************************************************************************)
EXTENDS Integers

CONSTANTS Scopes, Installations, Networks, Hours, Limits

VARIABLES spent, hour

Rows == Scopes \X (Installations \cup Networks)

Init ==
  /\ spent = [row \in Rows |-> [b \in Hours |-> 0]]
  /\ hour = 0

Charge(scope, i, n, b) ==
  LET charged == {<<scope, i>>, <<scope, n>>}
  IN  /\ b \in {hour - 1, hour}
      /\ \A row \in charged : spent[row][b] < Limits[row]
      /\ spent' = [row \in Rows |->
           IF row \in charged THEN [spent[row] EXCEPT ![b] = @ + 1] ELSE spent[row]]
      /\ UNCHANGED hour

Erase ==
  /\ spent' = [row \in Rows |-> [b \in Hours |-> IF b + 2 <= hour THEN 0 ELSE spent[row][b]]]
  /\ UNCHANGED hour

Turn ==
  /\ hour' = hour + 1
  /\ UNCHANGED spent

Next ==
  \/ \E scope \in Scopes, i \in Installations, n \in Networks, b \in Hours : Charge(scope, i, n, b)
  \/ Erase
  \/ Turn

Spec == Init /\ [][Next]_<<spent, hour>>

=============================================================================
