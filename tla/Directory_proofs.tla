--------------------------- MODULE Directory_proofs ---------------------------
(***************************************************************************)
(* Proofs about Directory, for every number of Worlds, administrators,     *)
(* operations and reports, every limit and every largest revision.         *)
(***************************************************************************)
EXTENDS Directory, TLAPS

-----------------------------------------------------------------------------
(* What each handler does to the row of its World, field by field.          *)

LEMMA ReservedRow ==
  ASSUME TypeOK, NEW a \in Administrators
  PROVE  /\ Reserved(a) \in Address
         /\ Reserved(a).owner = a
         /\ Reserved(a).revision = 0
         /\ Reserved(a).listing = None
         /\ Reserved(a).reserved = 0 /\ Reserved(a).claimed = 0
         /\ Reserved(a).hidden = FALSE
  BY SeatsAssumption, RevisionAssumption DEF TypeOK, Reserved, Address, Listings

LEMMA ClaimedRow ==
  ASSUME TypeOK, NEW w \in Worlds, NEW a \in Administrators
  PROVE  /\ Claimed(w, a) \in Address
         /\ addresses[w] = None => Claimed(w, a) = Reserved(a)
         /\ addresses[w] # None => Claimed(w, a) = addresses[w]
  BY ReservedRow DEF TypeOK, Claimed

(* None is no row.                                                          *)
LEMMA RowsNotNone ==
  None \notin Address /\ None \notin Operation
<1>1. Capacity \subseteq [revision : 0 .. MaxRevision, reserved : 0 .. MaxSeats,
                          claimed : 0 .. MaxSeats]
  BY RevisionAssumption DEF Capacity
<1>2. None \notin Operation
  BY <1>1, NoneAssumption DEF Operation, Listings, Limits
<1> QED
  BY <1>2, NoneAssumption DEF Address, Listings, Limits

(* The row after a publication and after a capacity update.                 *)
PublishedRow(row, l, c, t) ==
  [row EXCEPT !.listing = l, !.revision = @ + 1, !.checkedIn = t,
              !.admission = c.revision, !.reserved = c.reserved, !.claimed = c.claimed]

UpdatedRow(row, l, c) ==
  [row EXCEPT !.admission = c.revision, !.reserved = c.reserved, !.claimed = c.claimed,
              !.listing = l]

LEMMA CapacityFields ==
  ASSUME NEW c \in Capacity
  PROVE  /\ c.revision \in 0 .. MaxRevision
         /\ c.reserved \in 0 .. MaxSeats
         /\ c.claimed \in 0 .. MaxSeats
         /\ c.claimed <= c.reserved
  BY RevisionAssumption DEF Capacity

LEMMA PublishedFields ==
  ASSUME NEW row \in Address, NEW l \in Listings, NEW c \in Capacity, NEW t \in Nat,
         row.revision < MaxRevision
  PROVE  LET new == PublishedRow(row, l, c, t)
         IN  /\ new \in Address
             /\ new.owner = row.owner /\ new.hidden = row.hidden
             /\ new.listing = l /\ new.revision = row.revision + 1 /\ new.checkedIn = t
             /\ new.admission = c.revision
             /\ new.reserved = c.reserved /\ new.claimed = c.claimed
<1>1. row.revision + 1 \in 0 .. MaxRevision
  BY RevisionAssumption DEF Address
<1> QED
  BY <1>1, CapacityFields DEF PublishedRow, Address

LEMMA UpdatedFields ==
  ASSUME NEW row \in Address, NEW l \in Listings, NEW c \in Capacity
  PROVE  LET new == UpdatedRow(row, l, c)
         IN  /\ new \in Address
             /\ new.owner = row.owner /\ new.hidden = row.hidden
             /\ new.listing = l /\ new.revision = row.revision
             /\ new.checkedIn = row.checkedIn /\ new.admission = c.revision
             /\ new.reserved = c.reserved /\ new.claimed = c.claimed
  BY CapacityFields DEF UpdatedRow, Address

(* What the handlers do to the tables, as facts about single rows.          *)
PublishEffect(w, a, o, e, l, c) ==
  LET row == Claimed(w, a)
      op  == [expected |-> e, listing |-> l, capacity |-> c, result |-> row.revision + 1]
  IN  /\ row.owner = a /\ row.revision = e /\ e < MaxRevision
      /\ addresses'[w] = PublishedRow(row, l, c, now)
      /\ \A v \in Worlds : v # w => addresses'[v] = addresses[v]
      /\ op \in Operation
      /\ operations[w][o] = None /\ operations'[w][o] = op
      /\ \A p \in Operations : p # o => operations'[w][p] = operations[w][p]
      /\ \A v \in Worlds : v # w => operations'[v] = operations[v]
      /\ addresses' \in [Worlds -> Address \cup {None}]
      /\ operations' \in [Worlds -> [Operations -> Operation \cup {None}]]
      /\ UNCHANGED <<reports, now>>

LEMMA PublishFacts ==
  ASSUME TypeOK, NEW w \in Worlds, NEW a \in Administrators, NEW o \in Operations,
         NEW e \in 0 .. MaxRevision, NEW l \in Listings, NEW c \in Capacity,
         Publish(w, a, o, e, l, c)
  PROVE  PublishEffect(w, a, o, e, l, c)
<1> DEFINE row == Claimed(w, a)
           op == [expected |-> e, listing |-> l, capacity |-> c, result |-> row.revision + 1]
<1>1. row \in Address /\ row.owner = a /\ row.revision = e /\ e < MaxRevision
  BY ClaimedRow DEF Publish, Expects
<1>2. /\ addresses' = [addresses EXCEPT ![w] = PublishedRow(row, l, c, now)]
      /\ operations' = [operations EXCEPT ![w][o] = op]
      /\ operations[w][o] = None
      /\ UNCHANGED <<reports, now>>
  BY DEF Publish, PublishedRow, Fresh
<1>3. PublishedRow(row, l, c, now) \in Address
  BY <1>1, PublishedFields DEF TypeOK
<1>4. op \in Operation
  <2>1. row.revision + 1 \in 1 .. MaxRevision
    BY <1>1, RevisionAssumption DEF Address
  <2> QED
    BY <2>1 DEF Operation
<1>5. /\ addresses' \in [Worlds -> Address \cup {None}]
      /\ addresses'[w] = PublishedRow(row, l, c, now)
      /\ \A v \in Worlds : v # w => addresses'[v] = addresses[v]
  BY <1>2, <1>3 DEF TypeOK
<1>6. /\ operations' \in [Worlds -> [Operations -> Operation \cup {None}]]
      /\ operations'[w][o] = op
      /\ \A p \in Operations : p # o => operations'[w][p] = operations[w][p]
      /\ \A v \in Worlds : v # w => operations'[v] = operations[v]
  <2> HIDE DEF op
  <2> QED
    BY <1>2, <1>4 DEF TypeOK
<1> QED
  BY <1>1, <1>2, <1>4, <1>5, <1>6 DEF PublishEffect

LEMMA UpdateFacts ==
  ASSUME TypeOK, NEW w \in Worlds, NEW a \in Administrators, NEW e \in 0 .. MaxRevision,
         NEW c \in Capacity, NEW remove \in BOOLEAN,
         UpdateCapacity(w, a, e, c, remove)
  PROVE  /\ addresses[w] \in Address /\ addresses[w].owner = a
         /\ Admits(addresses[w], c)
         /\ addresses'[w] = UpdatedRow(addresses[w], Projected(addresses[w], c, remove), c)
         /\ Projected(addresses[w], c, remove) \in Listings
         /\ \A v \in Worlds : v # w => addresses'[v] = addresses[v]
         /\ addresses' \in [Worlds -> Address \cup {None}]
         /\ UNCHANGED <<operations, reports, now>>
<1> DEFINE row == addresses[w]
           l == Projected(row, c, remove)
<1>1. row \in Address /\ row.owner = a /\ Admits(row, c)
  BY DEF UpdateCapacity, TypeOK
<1>2. l \in Listings
  BY <1>1 DEF Projected, Address, Listings
<1>3. /\ addresses' = [addresses EXCEPT ![w] = UpdatedRow(row, l, c)]
      /\ UNCHANGED <<operations, reports, now>>
  BY DEF UpdateCapacity, UpdatedRow
<1>4. UpdatedRow(row, l, c) \in Address
  BY <1>1, <1>2, UpdatedFields
<1> QED
  BY <1>1, <1>2, <1>3, <1>4 DEF TypeOK

LEMMA CheckInFacts ==
  ASSUME TypeOK, NEW w \in Worlds, NEW a \in Administrators, CheckIn(w, a)
  PROVE  LET row == Claimed(w, a)
             new == addresses'[w]
         IN  /\ new \in Address /\ row.owner = a
             /\ new.owner = row.owner /\ new.hidden = row.hidden
             /\ new.listing = row.listing /\ new.revision = row.revision
             /\ new.checkedIn = now /\ new.admission = row.admission
             /\ new.reserved = row.reserved /\ new.claimed = row.claimed
             /\ \A v \in Worlds : v # w => addresses'[v] = addresses[v]
             /\ addresses' \in [Worlds -> Address \cup {None}]
             /\ UNCHANGED <<operations, reports, now>>
<1> DEFINE new == [Claimed(w, a) EXCEPT !.checkedIn = now]
<1>1. /\ addresses' = [addresses EXCEPT ![w] = new]
      /\ Claimed(w, a).owner = a
      /\ UNCHANGED <<operations, reports, now>>
  BY DEF CheckIn
<1>2. /\ new \in Address
      /\ LET row == Claimed(w, a)
         IN  /\ new.owner = row.owner /\ new.hidden = row.hidden
             /\ new.listing = row.listing /\ new.revision = row.revision
             /\ new.checkedIn = now /\ new.admission = row.admission
             /\ new.reserved = row.reserved /\ new.claimed = row.claimed
  BY ClaimedRow DEF Address, TypeOK
<1>3. addresses'[w] = new /\ \A v \in Worlds : v # w => addresses'[v] = addresses[v]
  BY <1>1 DEF TypeOK
<1>4. addresses' \in [Worlds -> Address \cup {None}]
  BY <1>1, <1>2 DEF TypeOK
<1> QED
  BY <1>1, <1>2, <1>3, <1>4

LEMMA ModerateFacts ==
  ASSUME TypeOK, NEW w \in Worlds, NEW hidden \in BOOLEAN, Moderate(w, hidden)
  PROVE  LET row == addresses[w]
             new == addresses'[w]
         IN  /\ row \in Address /\ new \in Address
             /\ new.owner = row.owner /\ new.hidden = hidden
             /\ new.listing = row.listing /\ new.revision = row.revision
             /\ new.checkedIn = row.checkedIn /\ new.admission = row.admission
             /\ new.reserved = row.reserved /\ new.claimed = row.claimed
             /\ \A v \in Worlds : v # w => addresses'[v] = addresses[v]
             /\ addresses' \in [Worlds -> Address \cup {None}]
             /\ UNCHANGED <<operations, now>>
<1> DEFINE row == addresses[w]
           new == [row EXCEPT !.hidden = hidden]
<1>1. row \in Address
  BY DEF Moderate, TypeOK
<1>2. addresses' = [addresses EXCEPT ![w] = new] /\ UNCHANGED <<operations, now>>
  BY DEF Moderate
<1>3. /\ new \in Address
      /\ new.owner = row.owner /\ new.hidden = hidden
      /\ new.listing = row.listing /\ new.revision = row.revision
      /\ new.checkedIn = row.checkedIn /\ new.admission = row.admission
      /\ new.reserved = row.reserved /\ new.claimed = row.claimed
  BY <1>1 DEF Address
<1>4. addresses'[w] = new /\ \A v \in Worlds : v # w => addresses'[v] = addresses[v]
  BY <1>2 DEF TypeOK
<1>5. addresses' \in [Worlds -> Address \cup {None}]
  BY <1>2, <1>3 DEF TypeOK
<1> QED
  BY <1>1, <1>2, <1>3, <1>4, <1>5

-----------------------------------------------------------------------------
(* The columns keep their ranges.                                           *)
THEOREM TypeCorrect == Spec => []TypeOK
<1>1. Init => TypeOK
  BY ClockAssumption DEF Init, TypeOK
<1>2. ASSUME TypeOK, [Next]_vars
      PROVE  TypeOK'
  <2>1. ASSUME NEW w \in Worlds, NEW a \in Administrators, NEW o \in Operations,
               NEW e \in 0 .. MaxRevision, NEW l \in Listings, NEW c \in Capacity,
               Publish(w, a, o, e, l, c)
        PROVE  TypeOK'
    BY <1>2, <2>1, PublishFacts DEF PublishEffect, TypeOK
  <2>2. ASSUME NEW w \in Worlds, NEW a \in Administrators, NEW e \in 0 .. MaxRevision,
               NEW c \in Capacity, NEW remove \in BOOLEAN,
               UpdateCapacity(w, a, e, c, remove)
        PROVE  TypeOK'
    BY <1>2, <2>2, UpdateFacts DEF TypeOK
  <2>3. ASSUME NEW w \in Worlds, NEW a \in Administrators, CheckIn(w, a)
        PROVE  TypeOK'
    BY <1>2, <2>3, CheckInFacts DEF TypeOK
  <2>4. ASSUME NEW w \in Worlds, NEW r \in Reports,
               NEW p \in Administrators \cup Reporters, NEW q \in BOOLEAN,
               SendReport(w, r, p, q)
        PROVE  TypeOK'
    BY <1>2, <2>4 DEF SendReport, TypeOK, Report
  <2>5. ASSUME NEW w \in Worlds, NEW hidden \in BOOLEAN, Moderate(w, hidden)
        PROVE  TypeOK'
    <3>1. reports' \in [Reports -> Report \cup {None}]
      BY <1>2, <2>5 DEF Moderate, TypeOK, Report
    <3> QED
      BY <1>2, <2>5, <3>1, ModerateFacts DEF TypeOK
  <2>6. ASSUME PurgeReports
        PROVE  TypeOK'
    BY <1>2, <2>6 DEF PurgeReports, TypeOK
  <2>7. ASSUME Tick
        PROVE  TypeOK'
    BY <1>2, <2>7 DEF Tick, TypeOK
  <2>8. CASE UNCHANGED vars
    BY <1>2, <2>8 DEF vars, TypeOK
  <2> QED
    BY <1>2, <2>1, <2>2, <2>3, <2>4, <2>5, <2>6, <2>7, <2>8 DEF Next
<1> QED
  BY <1>1, <1>2, PTL DEF Spec

-----------------------------------------------------------------------------
(* Whatever happened, a step treats the row of one World and its operations *)
(* in one of five ways: it leaves them alone, publishes, updates the seats, *)
(* checks in (which may create the row), or is the operator's.  The proofs  *)
(* about rows argue from these instead of the actions.                      *)
Left(w) == addresses'[w] = addresses[w] /\ operations'[w] = operations[w]

Published(w) ==
  \E a \in Administrators, o \in Operations, l \in Listings, c \in Capacity :
    LET row == Claimed(w, a)
    IN  /\ row.owner = a /\ row.revision < MaxRevision
        /\ Publishable(l, c) /\ Admits(row, c)
        /\ addresses'[w] = PublishedRow(row, l, c, now)
        /\ operations[w][o] = None /\ operations'[w][o] # None
        /\ operations'[w][o].result = row.revision + 1
        /\ operations'[w][o].listing = l
        /\ \A p \in Operations : p # o => operations'[w][p] = operations[w][p]

Updated(w) ==
  \E l \in Listings, c \in Capacity :
    LET row == addresses[w]
    IN  /\ row \in Address
        /\ l \in {None, row.listing}
        /\ l # None => c.reserved <= l /\ c.claimed < l
        /\ Admits(row, c)
        /\ addresses'[w] = UpdatedRow(row, l, c)
        /\ operations'[w] = operations[w]

(* All that a check-in and the operator leave as it was.                    *)
SameRow(row, new) ==
  /\ row \in Address /\ new \in Address
  /\ new.owner = row.owner /\ new.listing = row.listing /\ new.revision = row.revision
  /\ new.admission = row.admission
  /\ new.reserved = row.reserved /\ new.claimed = row.claimed

CheckedIn(w) ==
  /\ \E a \in Administrators : CheckIn(w, a) /\ SameRow(Claimed(w, a), addresses'[w])
  /\ operations'[w] = operations[w]

Moderated(w) ==
  /\ SameRow(addresses[w], addresses'[w])
  /\ addresses'[w].checkedIn = addresses[w].checkedIn
  /\ operations'[w] = operations[w]
  /\ now' = now

LEMMA WorldStep ==
  ASSUME TypeOK, TypeOK', [Next]_vars, NEW w \in Worlds
  PROVE  Left(w) \/ Published(w) \/ Updated(w) \/ CheckedIn(w) \/ Moderated(w)
<1>1. ASSUME NEW v \in Worlds, NEW a \in Administrators, NEW o \in Operations,
             NEW e \in 0 .. MaxRevision, NEW l \in Listings, NEW c \in Capacity,
             Publish(v, a, o, e, l, c)
      PROVE  Left(w) \/ Published(w)
  <2>1. PublishEffect(v, a, o, e, l, c)
    BY <1>1, PublishFacts
  <2>2. CASE v # w
    BY <2>1, <2>2 DEF PublishEffect, Left
  <2>3. CASE v = w
    <3>1. Publishable(l, c) /\ Admits(Claimed(w, a), c)
      BY <1>1, <2>3 DEF Publish
    <3>2. /\ Claimed(w, a).owner = a /\ Claimed(w, a).revision < MaxRevision
          /\ addresses'[w] = PublishedRow(Claimed(w, a), l, c, now)
          /\ operations[w][o] = None
          /\ \A p \in Operations : p # o => operations'[w][p] = operations[w][p]
      BY <2>1, <2>3 DEF PublishEffect
    <3>3. /\ operations'[w][o] # None
          /\ operations'[w][o].result = Claimed(w, a).revision + 1
          /\ operations'[w][o].listing = l
      BY <2>1, <2>3, RowsNotNone DEF PublishEffect
    <3> QED
      BY <3>1, <3>2, <3>3 DEF Published
  <2> QED
    BY <2>2, <2>3
<1>2. ASSUME NEW v \in Worlds, NEW a \in Administrators, NEW e \in 0 .. MaxRevision,
             NEW c \in Capacity, NEW remove \in BOOLEAN,
             UpdateCapacity(v, a, e, c, remove)
      PROVE  Left(w) \/ Updated(w)
  <2>1. CASE v # w
    BY <1>2, <2>1, UpdateFacts DEF Left
  <2>2. CASE v = w
    <3> DEFINE row == addresses[w]
               l == Projected(row, c, remove)
    <3>1. /\ row \in Address /\ l \in Listings /\ Admits(row, c)
          /\ addresses'[w] = UpdatedRow(row, l, c)
          /\ operations'[w] = operations[w]
      BY <1>2, <2>2, UpdateFacts
    <3>2. l \in {None, row.listing}
      BY DEF Projected
    <3>3. l # None => c.reserved <= l /\ c.claimed < l
      BY <1>2, <2>2, <3>1, CapacityFields DEF UpdateCapacity, Projected, Address, Listings, Limits
    <3> HIDE DEF l
    <3> QED
      BY <3>1, <3>2, <3>3 DEF Updated
  <2> QED
    BY <2>1, <2>2
<1>3. ASSUME NEW v \in Worlds, NEW a \in Administrators, CheckIn(v, a)
      PROVE  Left(w) \/ CheckedIn(w)
  BY <1>3, CheckInFacts, ClaimedRow DEF Left, CheckedIn, SameRow
<1>4. ASSUME NEW v \in Worlds, NEW hidden \in BOOLEAN, Moderate(v, hidden)
      PROVE  Left(w) \/ Moderated(w)
  BY <1>4, ModerateFacts DEF Left, Moderated, SameRow
<1>5. CASE \E v \in Worlds, r \in Reports, p \in Administrators \cup Reporters, q \in BOOLEAN :
             SendReport(v, r, p, q)
  BY <1>5 DEF SendReport, Left
<1>6. CASE PurgeReports
  BY <1>6 DEF PurgeReports, Left
<1>7. CASE Tick
  BY <1>7 DEF Tick, Left
<1>8. CASE UNCHANGED vars
  BY <1>8 DEF vars, Left
<1> QED
  BY <1>1, <1>2, <1>3, <1>4, <1>5, <1>6, <1>7, <1>8 DEF Next

-----------------------------------------------------------------------------
(* The same five cases, as what they make of the fields.                    *)
Last(w) == IF addresses[w] = None THEN 0 ELSE addresses[w].revision

LEMMA NoneNotRow ==
  ASSUME TypeOK', NEW w \in Worlds, addresses'[w] \in Address
  PROVE  addresses'[w] # None /\ Last(w)' = addresses'[w].revision
  BY RowsNotNone DEF Last

LEMMA ClaimedLast ==
  ASSUME TypeOK, NEW w \in Worlds, NEW a \in Administrators
  PROVE  Claimed(w, a).revision = Last(w)
<1>1. CASE addresses[w] = None
  <2>1. Claimed(w, a) = Reserved(a)
    BY <1>1, ClaimedRow
  <2>2. Reserved(a).revision = 0
    BY ReservedRow
  <2> QED
    BY <1>1, <2>1, <2>2 DEF Last
<1>2. CASE addresses[w] # None
  BY <1>2, ClaimedRow DEF Last
<1> QED
  BY <1>1, <1>2

LEMMA PublishedCase ==
  ASSUME TypeOK, NEW w \in Worlds, Published(w)
  PROVE  \E o \in Operations, l \in Listings, c \in Capacity :
           LET new == addresses'[w]
           IN  /\ Publishable(l, c)
               /\ new \in Address
               /\ new.listing = l /\ new.revision = Last(w) + 1
               /\ new.reserved = c.reserved /\ new.claimed = c.claimed
               /\ operations[w][o] = None /\ operations'[w][o] # None
               /\ operations'[w][o].result = Last(w) + 1
               /\ operations'[w][o].listing = l
               /\ \A p \in Operations : p # o => operations'[w][p] = operations[w][p]
<1>1. PICK a \in Administrators, o \in Operations, l \in Listings, c \in Capacity :
         LET row == Claimed(w, a)
         IN  /\ row.owner = a /\ row.revision < MaxRevision
             /\ Publishable(l, c) /\ Admits(row, c)
             /\ addresses'[w] = PublishedRow(row, l, c, now)
             /\ operations[w][o] = None /\ operations'[w][o] # None
             /\ operations'[w][o].result = row.revision + 1
             /\ operations'[w][o].listing = l
             /\ \A p \in Operations : p # o => operations'[w][p] = operations[w][p]
  BY DEF Published
<1>2. Claimed(w, a) \in Address /\ Claimed(w, a).revision = Last(w)
  BY ClaimedRow, ClaimedLast
<1>3. LET new == PublishedRow(Claimed(w, a), l, c, now)
      IN  /\ new \in Address
          /\ new.listing = l /\ new.revision = Last(w) + 1
          /\ new.reserved = c.reserved /\ new.claimed = c.claimed
  BY <1>1, <1>2, PublishedFields DEF TypeOK
<1> QED
  BY <1>1, <1>2, <1>3

LEMMA UpdatedCase ==
  ASSUME TypeOK, NEW w \in Worlds, Updated(w)
  PROVE  LET row == addresses[w]
             new == addresses'[w]
         IN  /\ row \in Address /\ new \in Address
             /\ new.owner = row.owner /\ new.revision = row.revision
             /\ new.hidden = row.hidden /\ new.checkedIn = row.checkedIn
             /\ new.listing \in {None, row.listing}
             /\ new.claimed <= new.reserved
             /\ new.listing # None =>
                  new.reserved <= new.listing /\ new.claimed < new.listing
             /\ new.admission >= row.admission
             /\ new.admission = row.admission =>
                  new.reserved = row.reserved /\ new.claimed = row.claimed
             /\ operations'[w] = operations[w]
<1> DEFINE row == addresses[w]
<1>1. PICK l \in Listings, c \in Capacity :
         /\ row \in Address
         /\ l \in {None, row.listing}
         /\ l # None => c.reserved <= l /\ c.claimed < l
         /\ Admits(row, c)
         /\ addresses'[w] = UpdatedRow(row, l, c)
         /\ operations'[w] = operations[w]
  BY DEF Updated
<1>2. LET new == UpdatedRow(row, l, c)
      IN  /\ new \in Address
          /\ new.owner = row.owner /\ new.hidden = row.hidden
          /\ new.listing = l /\ new.revision = row.revision
          /\ new.checkedIn = row.checkedIn /\ new.admission = c.revision
          /\ new.reserved = c.reserved /\ new.claimed = c.claimed
  BY <1>1, UpdatedFields
<1>3. c.revision >= row.admission
      /\ (c.revision = row.admission => c.reserved = row.reserved /\ c.claimed = row.claimed)
  BY <1>1, CapacityFields, RevisionAssumption DEF Admits, Address
<1>4. c.claimed <= c.reserved
  BY CapacityFields
<1> HIDE DEF row
<1>5. LET new == addresses'[w]
      IN  /\ new \in Address
          /\ new.owner = row.owner /\ new.hidden = row.hidden
          /\ new.listing = l /\ new.revision = row.revision
          /\ new.checkedIn = row.checkedIn /\ new.admission = c.revision
          /\ new.reserved = c.reserved /\ new.claimed = c.claimed
  BY <1>1, <1>2
<1> QED
  BY <1>1, <1>3, <1>4, <1>5 DEF row

LEMMA LeftCase ==
  ASSUME NEW w, Left(w)
  PROVE  Last(w)' = Last(w)
  BY DEF Left, Last

LEMMA CheckedInCase ==
  ASSUME TypeOK, TypeOK', NEW w \in Worlds, CheckedIn(w)
  PROVE  /\ Last(w)' = Last(w) /\ operations'[w] = operations[w]
         /\ addresses[w] # None => SameRow(addresses[w], addresses'[w])
         /\ addresses[w] = None =>
              LET new == addresses'[w]
              IN  /\ new \in Address
                  /\ new.listing = None /\ new.reserved = 0 /\ new.claimed = 0
<1>1. PICK a \in Administrators : SameRow(Claimed(w, a), addresses'[w])
  BY DEF CheckedIn
<1>2. Last(w)' = Last(w)
  BY <1>1, ClaimedLast, NoneNotRow DEF SameRow
<1>3. addresses[w] # None => SameRow(addresses[w], addresses'[w])
  BY <1>1, ClaimedRow
<1>4. addresses[w] = None =>
        LET new == addresses'[w]
        IN  /\ new \in Address
            /\ new.listing = None /\ new.reserved = 0 /\ new.claimed = 0
  BY <1>1, ClaimedRow, ReservedRow DEF SameRow
<1> QED
  BY <1>2, <1>3, <1>4 DEF CheckedIn

LEMMA ModeratedCase ==
  ASSUME TypeOK, TypeOK', NEW w \in Worlds, Moderated(w)
  PROVE  /\ addresses[w] # None /\ addresses'[w] # None
         /\ Last(w)' = Last(w)
  BY NoneNotRow, RowsNotNone DEF Moderated, SameRow, Last

-----------------------------------------------------------------------------
(* A public listing has room for the seats it shows: neither half of the    *)
(* row outlives the other's change.                                         *)
THEOREM ListingAlwaysFits == Spec => []ListingFits
<1>1. Init => ListingFits
  BY DEF Init, ListingFits
<1>2. ASSUME TypeOK, TypeOK', ListingFits, [Next]_vars
      PROVE  ListingFits'
  <2> SUFFICES ASSUME NEW w \in Worlds, addresses'[w] # None
               PROVE  LET row == addresses'[w]
                      IN  /\ row.claimed <= row.reserved
                          /\ row.listing # None =>
                               row.reserved <= row.listing /\ row.claimed < row.listing
    BY DEF ListingFits
  <2>1. CASE Left(w)
    BY <1>2, <2>1 DEF Left, ListingFits
  <2>2. CASE Published(w)
    BY <1>2, <2>2, PublishedCase, CapacityFields DEF Publishable
  <2>3. CASE Updated(w)
    BY <1>2, <2>3, UpdatedCase
  <2>4. CASE CheckedIn(w)
    BY <1>2, <2>4, CheckedInCase DEF SameRow, ListingFits
  <2>5. CASE Moderated(w)
    BY <1>2, <2>5, ModeratedCase DEF Moderated, SameRow, ListingFits
  <2> QED
    BY <1>2, <2>1, <2>2, <2>3, <2>4, <2>5, WorldStep
<1> QED
  BY <1>1, <1>2, TypeCorrect, PTL DEF Spec

-----------------------------------------------------------------------------
(* The log numbers the revisions, and the listing is the last publication's.*)
LEMMA NumberedSame ==
  ASSUME NEW w \in Worlds, Numbered(w),
         operations'[w] = operations[w], Last(w)' = Last(w)
  PROVE  Numbered(w)'
  BY DEF Numbered, Last

LEMMA NumberedNext ==
  ASSUME TypeOK, TypeOK', NEW w \in Worlds, Numbered(w), Published(w)
  PROVE  Numbered(w)'
<1> DEFINE done == {o \in Operations : operations[w][o] # None}
           result(o) == operations[w][o].result
<1>1. /\ \A o \in done : result(o) \in 1 .. Last(w)
      /\ \A o, p \in done : result(o) = result(p) => o = p
      /\ \A n \in 1 .. Last(w) : \E o \in done : result(o) = n
  BY DEF Numbered, Last
<1>2. PICK o \in Operations :
         /\ addresses'[w] \in Address /\ addresses'[w].revision = Last(w) + 1
         /\ operations[w][o] = None /\ operations'[w][o] # None
         /\ operations'[w][o].result = Last(w) + 1
         /\ \A p \in Operations : p # o => operations'[w][p] = operations[w][p]
  BY PublishedCase
<1>3. Last(w)' = Last(w) + 1 /\ Last(w) \in Nat
  <2>1. Last(w)' = Last(w) + 1
    BY <1>2, NoneNotRow
  <2>2. Last(w) \in Nat
    BY DEF Last, TypeOK, Address
  <2> QED
    BY <2>1, <2>2
<1>4. \A p \in Operations : operations'[w][p] # None <=> p \in done \cup {o}
  BY <1>2
<1>5. \A p \in done : p # o /\ operations'[w][p].result = result(p)
  BY <1>2
<1>6. \A p \in done \cup {o} : operations'[w][p].result \in 1 .. Last(w)'
  BY <1>1, <1>2, <1>3, <1>5
<1>7. \A p, q \in done \cup {o} :
        operations'[w][p].result = operations'[w][q].result => p = q
  BY <1>1, <1>2, <1>3, <1>5
<1>8. \A n \in 1 .. Last(w)' : \E p \in done \cup {o} : operations'[w][p].result = n
  BY <1>1, <1>2, <1>3, <1>5
<1> QED
  BY <1>4, <1>6, <1>7, <1>8 DEF Numbered, Last

Current(w) ==
  \A o \in Operations :
    /\ addresses[w] # None /\ operations[w][o] # None
    /\ operations[w][o].result = addresses[w].revision
    => addresses[w].listing \in {None, operations[w][o].listing}

(* Every revision is the result of exactly one operation, and a listing is  *)
(* that of the last publication: no repeated or late call revives another.  *)
THEOREM LogOrdersListings == Spec => [](OperationsNumbered /\ ListingCurrent)
<1> DEFINE Log == OperationsNumbered /\ ListingCurrent
<1>1. Init => Log
  <2>1. Init => OperationsNumbered
    BY DEF Init, OperationsNumbered, Numbered
  <2>2. Init => ListingCurrent
    BY DEF Init, ListingCurrent
  <2> QED
    BY <2>1, <2>2
<1>2. ASSUME TypeOK, TypeOK', Log, [Next]_vars
      PROVE  Log'
  <2> SUFFICES ASSUME NEW w \in Worlds
               PROVE  Numbered(w)' /\ Current(w)'
    BY DEF OperationsNumbered, ListingCurrent, Current
  <2>1. Numbered(w) /\ Current(w)
    BY <1>2 DEF OperationsNumbered, ListingCurrent, Current
  <2>2. CASE Left(w)
    <3>1. Numbered(w)'
      BY <2>1, <2>2, LeftCase, NumberedSame DEF Left
    <3>2. Current(w)'
      BY <2>1, <2>2 DEF Left, Current
    <3> QED
      BY <3>1, <3>2
  <2>3. CASE Published(w)
    <3>1. Numbered(w)'
      BY <1>2, <2>1, <2>3, NumberedNext
    <3>2. Current(w)'
      <4>1. PICK o \in Operations, l \in Listings :
              /\ addresses'[w] \in Address /\ addresses'[w].listing = l
              /\ addresses'[w].revision = Last(w) + 1
              /\ operations'[w][o] # None /\ operations'[w][o].result = Last(w) + 1
              /\ operations'[w][o].listing = l
        BY <1>2, <2>3, PublishedCase
      <4>2. \A p \in Operations :
              operations'[w][p] # None /\ operations'[w][p].result = Last(w) + 1 => p = o
        BY <3>1, <4>1 DEF Numbered
      <4> QED
        BY <4>1, <4>2 DEF Current
    <3> QED
      BY <3>1, <3>2
  <2>4. CASE Updated(w)
    <3>1. addresses[w] \in Address /\ addresses'[w] \in Address
          /\ addresses'[w].revision = addresses[w].revision
          /\ addresses'[w].listing \in {None, addresses[w].listing}
          /\ operations'[w] = operations[w]
      BY <1>2, <2>4, UpdatedCase
    <3>2. addresses[w] # None
      BY <3>1, RowsNotNone
    <3>3. Last(w)' = Last(w)
      BY <1>2, <3>1, <3>2, NoneNotRow DEF Last
    <3> QED
      BY <2>1, <3>1, <3>2, <3>3, NumberedSame DEF Current
  <2>5. CASE CheckedIn(w)
    <3>1. Numbered(w)'
      BY <1>2, <2>1, <2>5, CheckedInCase, NumberedSame
    <3>2. Current(w)'
      BY <1>2, <2>1, <2>5, CheckedInCase DEF Current, SameRow
    <3> QED
      BY <3>1, <3>2
  <2>6. CASE Moderated(w)
    <3>1. Numbered(w)'
      BY <1>2, <2>1, <2>6, ModeratedCase, NumberedSame DEF Moderated
    <3>2. Current(w)'
      BY <1>2, <2>1, <2>6, ModeratedCase DEF Moderated, SameRow, Current
    <3> QED
      BY <3>1, <3>2
  <2> QED
    BY <1>2, <2>2, <2>3, <2>4, <2>5, <2>6, WorldStep
<1> QED
  BY <1>1, <1>2, TypeCorrect, PTL DEF Spec

(* Every revision is the result of exactly one operation.                   *)
THEOREM OperationsAlwaysNumbered == Spec => []OperationsNumbered
  BY LogOrdersListings, PTL

-----------------------------------------------------------------------------
(* What was promised is kept: addresses do not change hands, the log is     *)
(* never rewritten, and neither revision goes back.                         *)
THEOREM PromisesAlwaysKept == Spec => PromisesKept
<1> DEFINE Kept ==
      \A w \in Worlds :
        /\ \A o \in Operations : operations[w][o] # None => operations'[w][o] = operations[w][o]
        /\ addresses[w] # None =>
             LET row == addresses[w]
                 new == addresses'[w]
             IN  /\ new # None /\ new.owner = row.owner
                 /\ new.revision >= row.revision /\ new.admission >= row.admission
                 /\ new.admission = row.admission =>
                      new.reserved = row.reserved /\ new.claimed = row.claimed
<1>1. ASSUME TypeOK, TypeOK', [Next]_vars
      PROVE  Kept
  <2> SUFFICES ASSUME NEW w \in Worlds
               PROVE  /\ \A o \in Operations :
                           operations[w][o] # None => operations'[w][o] = operations[w][o]
                      /\ addresses[w] # None =>
                           LET row == addresses[w]
                               new == addresses'[w]
                           IN  /\ new # None /\ new.owner = row.owner
                               /\ new.revision >= row.revision
                               /\ new.admission >= row.admission
                               /\ new.admission = row.admission =>
                                    new.reserved = row.reserved /\ new.claimed = row.claimed
    OBVIOUS
  <2>1. addresses[w] # None => addresses[w] \in Address
    BY <1>1 DEF TypeOK
  <2>2. CASE Left(w)
    BY <2>1, <2>2 DEF Left, Address
  <2>3. CASE Published(w)
    <3>1. PICK a \in Administrators, o \in Operations, l \in Listings, c \in Capacity :
             /\ Claimed(w, a).revision < MaxRevision
             /\ Admits(Claimed(w, a), c)
             /\ addresses'[w] = PublishedRow(Claimed(w, a), l, c, now)
             /\ operations[w][o] = None
             /\ \A p \in Operations : p # o => operations'[w][p] = operations[w][p]
      BY <2>3 DEF Published
    <3>2. ASSUME addresses[w] # None
          PROVE  LET row == addresses[w]
                     new == addresses'[w]
                 IN  /\ new # None /\ new.owner = row.owner
                     /\ new.revision = row.revision + 1 /\ new.admission = c.revision
                     /\ new.reserved = c.reserved /\ new.claimed = c.claimed
                     /\ Admits(row, c)
      <4>1. Claimed(w, a) = addresses[w]
        BY <1>1, <3>2, ClaimedRow
      <4>2. now \in Nat /\ addresses[w] \in Address
        BY <1>1, <2>1, <3>2 DEF TypeOK
      <4>3. LET new == PublishedRow(addresses[w], l, c, now)
            IN  /\ new \in Address /\ new.owner = addresses[w].owner
                /\ new.revision = addresses[w].revision + 1 /\ new.admission = c.revision
                /\ new.reserved = c.reserved /\ new.claimed = c.claimed
        BY <3>1, <4>1, <4>2, PublishedFields
      <4> QED
        BY <3>1, <4>1, <4>3, RowsNotNone
    <3> QED
      BY <2>1, <3>1, <3>2, CapacityFields DEF Admits, Address
  <2>4. CASE Updated(w)
    BY <1>1, <2>4, UpdatedCase, RowsNotNone DEF Address
  <2>5. CASE CheckedIn(w)
    BY <1>1, <2>5, CheckedInCase, RowsNotNone DEF SameRow, Address
  <2>6. CASE Moderated(w)
    BY <1>1, <2>6, RowsNotNone DEF Moderated, SameRow, Address
  <2> QED
    BY <1>1, <2>2, <2>3, <2>4, <2>5, <2>6, WorldStep
<1>2. TypeOK /\ TypeOK' /\ [Next]_vars => [Kept]_vars
  BY <1>1
<1> QED
  BY <1>2, TypeCorrect, PTL DEF Spec, PromisesKept

-----------------------------------------------------------------------------
(* A hidden World has no open report of its listing.                        *)
THEOREM HiddenAlwaysSettled == Spec => []HiddenSettled
<1> DEFINE Settled(r) ==
      reports[r] # None =>
        (addresses[reports[r].world].hidden /\ ~reports[r].resolved => reports[r].aboutRequest)
<1>1. Init => HiddenSettled
  BY DEF Init, HiddenSettled
<1>2. ASSUME TypeOK, TypeOK', HiddenSettled, [Next]_vars
      PROVE  HiddenSettled'
  <2> SUFFICES ASSUME NEW r \in Reports, reports'[r] # None
               PROVE  addresses'[reports'[r].world].hidden /\ ~reports'[r].resolved
                        => reports'[r].aboutRequest
    BY DEF HiddenSettled
  <2>0. /\ reports[r] # None => reports[r] \in Report /\ Settled(r)
        /\ reports'[r] \in Report /\ reports'[r].world \in Worlds
    BY <1>2 DEF TypeOK, HiddenSettled, Report
  <2>1. ASSUME NEW w \in Worlds, NEW a \in Administrators, NEW o \in Operations,
               NEW e \in 0 .. MaxRevision, NEW l \in Listings, NEW c \in Capacity,
               Publish(w, a, o, e, l, c)
        PROVE  Settled(r)'
    <3>1. reports' = reports
      BY <2>1 DEF Publish
    <3> PublishEffect(w, a, o, e, l, c)
      BY <1>2, <2>1, PublishFacts
    <3>2. addresses'[w].hidden = Claimed(w, a).hidden
      <4>1. /\ Claimed(w, a).revision < MaxRevision
            /\ addresses'[w] = PublishedRow(Claimed(w, a), l, c, now)
        BY DEF PublishEffect
      <4>2. Claimed(w, a) \in Address /\ now \in Nat
        BY <1>2, ClaimedRow DEF TypeOK
      <4>3. PublishedRow(Claimed(w, a), l, c, now).hidden = Claimed(w, a).hidden
        BY <4>1, <4>2, PublishedFields
      <4> QED
        BY <4>1, <4>3
    <3>3. addresses[w] = None => ~Claimed(w, a).hidden
      BY <1>2, ClaimedRow, ReservedRow
    <3>4. \A v \in Worlds : v # w => addresses'[v] = addresses[v]
      BY DEF PublishEffect
    <3>5. addresses'[w].hidden => addresses[w].hidden
      <4>1. CASE addresses[w] = None
        BY <3>2, <3>3, <4>1
      <4>2. CASE addresses[w] # None
        BY <1>2, <3>2, <4>2, ClaimedRow
      <4> QED
        BY <4>1, <4>2
    <3>6. addresses'[reports[r].world].hidden => addresses[reports[r].world].hidden
      BY <2>0, <3>1, <3>4, <3>5
    <3> QED
      BY <2>0, <3>1, <3>6
  <2>2. ASSUME NEW w \in Worlds, NEW a \in Administrators, NEW e \in 0 .. MaxRevision,
               NEW c \in Capacity, NEW remove \in BOOLEAN,
               UpdateCapacity(w, a, e, c, remove)
        PROVE  Settled(r)'
    <3>1. addresses'[w].hidden = addresses[w].hidden
      BY <1>2, <2>2, UpdateFacts, UpdatedFields
    <3>2. reports' = reports /\ \A v \in Worlds : v # w => addresses'[v] = addresses[v]
      BY <1>2, <2>2, UpdateFacts
    <3> QED
      BY <2>0, <3>1, <3>2
  <2>3. ASSUME NEW w \in Worlds, NEW a \in Administrators, CheckIn(w, a)
        PROVE  Settled(r)'
    <3>1. /\ addresses'[w].hidden = Claimed(w, a).hidden
          /\ \A v \in Worlds : v # w => addresses'[v] = addresses[v]
          /\ reports' = reports
      BY <1>2, <2>3, CheckInFacts
    <3>2. addresses[w] = None => ~Claimed(w, a).hidden
      BY <1>2, ClaimedRow, ReservedRow
    <3>3. addresses'[w].hidden => addresses[w].hidden
      <4>1. CASE addresses[w] = None
        BY <3>1, <3>2, <4>1
      <4>2. CASE addresses[w] # None
        BY <1>2, <3>1, <4>2, ClaimedRow
      <4> QED
        BY <4>1, <4>2
    <3>4. addresses'[reports[r].world].hidden => addresses[reports[r].world].hidden
      BY <2>0, <3>1, <3>3
    <3> QED
      BY <2>0, <3>1, <3>4
  <2>4. ASSUME NEW w \in Worlds, NEW s \in Reports,
               NEW p \in Administrators \cup Reporters, NEW q \in BOOLEAN,
               SendReport(w, s, p, q)
        PROVE  Settled(r)'
    <3>1. /\ addresses' = addresses
          /\ r # s => reports'[r] = reports[r]
          /\ r = s => reports'[r] = [world |-> w, reporter |-> p, aboutRequest |-> q,
                                    created |-> now, resolved |-> FALSE]
      BY <1>2, <2>4 DEF SendReport, TypeOK
    <3>2. q \/ ~addresses[w].hidden
      BY <2>4 DEF SendReport, Reportable
    <3> QED
      BY <2>0, <3>1, <3>2
  <2>5. ASSUME NEW w \in Worlds, NEW hidden \in BOOLEAN, Moderate(w, hidden)
        PROVE  Settled(r)'
    <3>1. \A v \in Worlds : v # w => addresses'[v] = addresses[v]
      BY <1>2, <2>5, ModerateFacts
    <3>2. reports'[r] = IF reports[r] # None /\ reports[r].world = w
                          THEN [reports[r] EXCEPT !.resolved = TRUE] ELSE reports[r]
      BY <2>5 DEF Moderate
    <3>3. CASE reports[r] # None /\ reports[r].world = w
      BY <2>0, <3>2, <3>3 DEF Report
    <3>4. CASE ~(reports[r] # None /\ reports[r].world = w)
      BY <2>0, <3>1, <3>2, <3>4
    <3> QED
      BY <3>3, <3>4
  <2>6. CASE PurgeReports
    BY <2>0, <2>6 DEF PurgeReports
  <2>7. CASE Tick
    BY <2>0, <2>7 DEF Tick
  <2>8. CASE UNCHANGED vars
    BY <2>0, <2>8 DEF vars
  <2> QED
    BY <1>2, <2>1, <2>2, <2>3, <2>4, <2>5, <2>6, <2>7, <2>8 DEF Next
<1> QED
  BY <1>1, <1>2, TypeCorrect, PTL DEF Spec

-----------------------------------------------------------------------------
(* Only a publication, a check-in or the operator brings a World into view. *)
THEOREM VisibilityAlwaysEarned == Spec => VisibilityEarned
<1> DEFINE Earned(w) ==
      \/ \E o \in Operations : operations[w][o] = None /\ operations'[w][o] # None
      \/ \E a \in Administrators : CheckIn(w, a)
      \/ addresses[w].hidden /\ ~addresses'[w].hidden
<1>1. ASSUME TypeOK, TypeOK', [Next]_vars
      PROVE  \A w \in Worlds : ~Visible(w) /\ Visible(w)' => Earned(w)
  <2> SUFFICES ASSUME NEW w \in Worlds, ~Visible(w), Visible(w)'
               PROVE  Earned(w)
    OBVIOUS
  <2>1. now \in Nat /\ now' \in Nat /\ now' >= now
    <3>1. ASSUME NEW v \in Worlds, NEW a \in Administrators, NEW o \in Operations,
                 NEW e \in 0 .. MaxRevision, NEW l \in Listings, NEW c \in Capacity
          PROVE  Publish(v, a, o, e, l, c) => now' = now
      BY DEF Publish
    <3>2. ASSUME NEW v \in Worlds, NEW a \in Administrators, NEW e \in 0 .. MaxRevision,
                 NEW c \in Capacity, NEW remove \in BOOLEAN
          PROVE  UpdateCapacity(v, a, e, c, remove) => now' = now
      BY DEF UpdateCapacity
    <3>3. ASSUME NEW v \in Worlds, NEW a \in Administrators
          PROVE  CheckIn(v, a) => now' = now
      BY DEF CheckIn
    <3>4. ASSUME NEW v \in Worlds, NEW r \in Reports,
                 NEW p \in Administrators \cup Reporters, NEW q \in BOOLEAN
          PROVE  SendReport(v, r, p, q) => now' = now
      BY DEF SendReport
    <3>5. ASSUME NEW v \in Worlds, NEW hidden \in BOOLEAN
          PROVE  Moderate(v, hidden) => now' = now
      BY DEF Moderate
    <3>6. PurgeReports \/ UNCHANGED vars => now' = now
      BY DEF PurgeReports, vars
    <3>7. Tick => now' = now + 1
      BY DEF Tick
    <3>8. now' = now \/ now' = now + 1
      BY <1>1, <3>1, <3>2, <3>3, <3>4, <3>5, <3>6, <3>7 DEF Next
    <3> QED
      BY <1>1, <3>8 DEF TypeOK
  <2>2. /\ addresses'[w] \in Address
        /\ addresses'[w].listing # None /\ ~addresses'[w].hidden
        /\ addresses'[w].checkedIn + Staleness > now'
    BY <1>1 DEF Visible, TypeOK
  <2>3. ASSUME addresses[w] \in Address,
               addresses[w].listing # None,
               addresses[w].checkedIn = addresses'[w].checkedIn
        PROVE  Earned(w)
    <3>1. addresses[w].checkedIn + Staleness > now
      BY <2>1, <2>2, <2>3, ClockAssumption DEF Address
    <3>2. addresses[w].hidden
      BY <2>3, <3>1, RowsNotNone DEF Visible
    <3> QED
      BY <2>2, <3>2
  <2>4. CASE Left(w)
    BY <2>2, <2>3, <2>4 DEF Left
  <2>5. CASE Published(w)
    BY <2>5 DEF Published
  <2>6. CASE Updated(w)
    BY <1>1, <2>2, <2>3, <2>6, UpdatedCase
  <2>7. CASE CheckedIn(w)
    BY <2>7 DEF CheckedIn
  <2>8. CASE Moderated(w)
    BY <2>2, <2>3, <2>8 DEF Moderated, SameRow
  <2> QED
    BY <1>1, <2>4, <2>5, <2>6, <2>7, <2>8, WorldStep
<1>2. TypeOK /\ TypeOK' /\ [Next]_vars
        => [\A w \in Worlds : ~Visible(w) /\ Visible(w)' => Earned(w)]_vars
  BY <1>1
<1> QED
  BY <1>2, TypeCorrect, PTL DEF Spec, VisibilityEarned

=============================================================================
