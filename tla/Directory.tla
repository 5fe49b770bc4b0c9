------------------------------ MODULE Directory ------------------------------
(***************************************************************************)
(* The public directory: the tables world_addresses, directory_operations  *)
(* and abuse_reports, and every handler that writes them: publication and  *)
(* capacity (src/src/directory.rs), the check-in of private setup          *)
(* (src/src/setup.rs), reports and moderation (src/src/moderation.rs) and  *)
(* the deletion of old reports (src/src/requests.rs).                      *)
(*                                                                         *)
(* Every handler is ONE transaction that locks the row of its World until  *)
(* it commits, so each is one action.  A refusal or a failure rolls back   *)
(* everything, the reservation of the address included, and is no step.    *)
(* Messages may be lost, repeated and delayed: any call may come at any    *)
(* time, with any revision.                                                *)
(*                                                                         *)
(* Abstractions.  A World and its address are one element of Worlds; a     *)
(* capability and its digest are one.  A listing is reduced to its player  *)
(* limit, the only one of its fields the service computes with.  Omitted   *)
(* capacity is the zero capacity.  The clock of the directory is read      *)
(* while the row is locked.                                                *)
(***************************************************************************)
EXTENDS Integers, FiniteSets

CONSTANTS
  Worlds,          \* (world_id, world_address) pairs
  Administrators,  \* digests of administrator capabilities
  Operations,      \* operation identifiers of publications
  Reports,         \* identifiers of abuse reports
  Reporters,       \* digests of the installations that report
  None,            \* SQL NULL, or no row
  MaxSeats,        \* most seats of a World: 1000
  MaxRevision,     \* the largest bigint: 2^63 - 1
  Staleness,       \* how long a check-in, and a report, lasts: 30 days
  MaxTime          \* bound of the checked runs: where the clock stops

ASSUME SeatsAssumption == MaxSeats \in Nat \ {0}

ASSUME RevisionAssumption == MaxRevision \in Nat \ {0}

ASSUME ClockAssumption == Staleness \in Nat /\ MaxTime \in Nat

ASSUME NoneAssumption ==
  /\ None \notin Administrators \cup Reporters
  /\ None \notin Nat
  /\ None \notin [owner : Administrators, revision : 0 .. MaxRevision,
                  listing : (1 .. MaxSeats) \cup {None}, checkedIn : Nat,
                  admission : 0 .. MaxRevision, reserved : 0 .. MaxSeats,
                  claimed : 0 .. MaxSeats, hidden : BOOLEAN]
  /\ None \notin [expected : 0 .. MaxRevision, listing : (1 .. MaxSeats) \cup {None},
                  capacity : [revision : 0 .. MaxRevision, reserved : 0 .. MaxSeats,
                              claimed : 0 .. MaxSeats],
                  result : 1 .. MaxRevision]

VARIABLES
  addresses,   \* the table world_addresses, by World
  operations,  \* the table directory_operations, by World and operation_id
  reports,     \* the table abuse_reports, by report_id
  now          \* the clock

vars == <<addresses, operations, reports, now>>

-----------------------------------------------------------------------------
Limits == 1 .. MaxSeats

Listings == Limits \cup {None}

(* Capacity::validate.                                                      *)
Capacity ==
  {c \in [revision : 0 .. MaxRevision - 1, reserved : 0 .. MaxSeats, claimed : 0 .. MaxSeats] :
     c.claimed <= c.reserved}

Address ==
  [owner : Administrators, revision : 0 .. MaxRevision, listing : Listings, checkedIn : Nat,
   admission : 0 .. MaxRevision, reserved : 0 .. MaxSeats, claimed : 0 .. MaxSeats,
   hidden : BOOLEAN]

Operation ==
  [expected : 0 .. MaxRevision, listing : Listings, capacity : Capacity,
   result : 1 .. MaxRevision]

Report ==
  [world : Worlds, reporter : Administrators \cup Reporters, aboutRequest : BOOLEAN,
   created : Nat, resolved : BOOLEAN]

(* The row an INSERT with the columns' defaults leaves.                     *)
Reserved(a) ==
  [owner |-> a, revision |-> 0, listing |-> None, checkedIn |-> now,
   admission |-> 0, reserved |-> 0, claimed |-> 0, hidden |-> FALSE]

(* INSERT ... ON CONFLICT DO NOTHING, then SELECT ... FOR UPDATE.           *)
Claimed(w, a) == IF addresses[w] = None THEN Reserved(a) ELSE addresses[w]

-----------------------------------------------------------------------------
Init ==
  /\ addresses = [w \in Worlds |-> None]
  /\ operations = [w \in Worlds |-> [o \in Operations |-> None]]
  /\ reports = [r \in Reports |-> None]
  /\ now = 0

(* Mutant: equal revisions may bring other counts.                          *)
Admits_EqualRevision(row, c) == c.revision >= row.admission

(* require_capacity_revision.                                               *)
Admits(row, c) ==
  \/ c.revision > row.admission
  \/ /\ c.revision = row.admission
     /\ c.reserved = row.reserved /\ c.claimed = row.claimed

(* What a publication refuses of a listing beside its capacity.             *)
Publishable(limit, c) == limit # None => c.reserved <= limit /\ c.claimed < limit

(* Mutant: a repeated operation is carried out once more.                   *)
Fresh_Always(w, o) == o \in Operations /\ w \in Worlds

Fresh(w, o) == operations[w][o] = None

(* Mutant: the last revision may be expected too.                           *)
Expects_Last(row, e) == row.revision = e

Expects(row, e) == row.revision = e /\ e < MaxRevision

(* Mutant: a removal leaves the listing in its column.                      *)
Publish_KeepsListing(w, a, o, expected, limit, c) ==
  LET row == Claimed(w, a)
  IN
  /\ Publishable(limit, c)
  /\ row.owner = a
  /\ Fresh(w, o)
  /\ Expects(row, expected)
  /\ Admits(row, c)
  /\ addresses' = [addresses EXCEPT ![w] =
       [row EXCEPT !.listing = IF limit = None THEN @ ELSE limit, !.revision = @ + 1,
                   !.checkedIn = now, !.admission = c.revision, !.reserved = c.reserved,
                   !.claimed = c.claimed]]
  /\ operations' = [operations EXCEPT ![w][o] =
       [expected |-> expected, listing |-> limit, capacity |-> c, result |-> row.revision + 1]]
  /\ UNCHANGED <<reports, now>>

(* A repeated operation_id answers the stored result, or a conflict, and    *)
(* changes nothing: only a fresh one is a step.                             *)
Publish(w, a, o, expected, limit, c) ==
  LET row == Claimed(w, a)
  IN
  /\ Publishable(limit, c)
  /\ row.owner = a
  /\ Fresh(w, o)
  /\ Expects(row, expected)
  /\ Admits(row, c)
  /\ addresses' = [addresses EXCEPT ![w] =
       [row EXCEPT !.listing = limit, !.revision = @ + 1, !.checkedIn = now,
                   !.admission = c.revision, !.reserved = c.reserved, !.claimed = c.claimed]]
  /\ operations' = [operations EXCEPT ![w][o] =
       [expected |-> expected, listing |-> limit, capacity |-> c, result |-> row.revision + 1]]
  /\ UNCHANGED <<reports, now>>

(* The listing a capacity update leaves.                                    *)
(* Mutant: a full World keeps its listing.                                  *)
Projected_KeepsFull(row, c, remove) == IF remove THEN None ELSE row.listing

Projected(row, c, remove) ==
  IF remove \/ (row.listing # None /\ c.claimed >= row.listing) THEN None ELSE row.listing

(* Mutant: the projection of the seats counts as a check-in.                *)
UpdateCapacity_ChecksIn(w, a, expected, c, remove) ==
  /\ addresses[w] # None
  /\ LET row == addresses[w]
     IN
     /\ row.owner = a /\ row.revision = expected
     /\ Admits(row, c)
     /\ ~remove /\ row.listing # None => c.reserved <= row.listing
     /\ addresses' = [addresses EXCEPT ![w] =
          [row EXCEPT !.admission = c.revision, !.reserved = c.reserved, !.claimed = c.claimed,
                      !.listing = Projected(row, c, remove), !.checkedIn = now]]
  /\ UNCHANGED <<operations, reports, now>>

UpdateCapacity(w, a, expected, c, remove) ==
  /\ addresses[w] # None
  /\ LET row == addresses[w]
     IN
     /\ row.owner = a /\ row.revision = expected
     /\ Admits(row, c)
     /\ ~remove /\ row.listing # None => c.reserved <= row.listing
     /\ addresses' = [addresses EXCEPT ![w] =
          [row EXCEPT !.admission = c.revision, !.reserved = c.reserved, !.claimed = c.claimed,
                      !.listing = Projected(row, c, remove)]]
  /\ UNCHANGED <<operations, reports, now>>

(* The transaction of a private start or renewal.                           *)
CheckIn(w, a) ==
  /\ Claimed(w, a).owner = a
  /\ addresses' = [addresses EXCEPT ![w] = [Claimed(w, a) EXCEPT !.checkedIn = now]]
  /\ UNCHANGED <<operations, reports, now>>

(* Mutant: a hidden listing can still be reported.                          *)
Reportable_Hidden(w) == addresses[w] # None /\ addresses[w].listing # None

Reportable(w) ==
  addresses[w] # None /\ addresses[w].listing # None /\ ~addresses[w].hidden

(* A report of a listing by anyone, or of a join request by the             *)
(* administrator it was sent to.                                            *)
SendReport(w, r, reporter, aboutRequest) ==
  /\ addresses[w] # None
  /\ IF aboutRequest THEN reporter = addresses[w].owner ELSE Reportable(w)
  /\ reports[r] = None
  /\ reports' = [reports EXCEPT ![r] =
       [world |-> w, reporter |-> reporter, aboutRequest |-> aboutRequest,
        created |-> now, resolved |-> FALSE]]
  /\ UNCHANGED <<addresses, operations, now>>

(* The operator hides a listing or restores it, and settles its reports.    *)
Moderate(w, hidden) ==
  /\ addresses[w] # None
  /\ addresses' = [addresses EXCEPT ![w].hidden = hidden]
  /\ reports' = [r \in Reports |->
       IF reports[r] # None /\ reports[r].world = w
         THEN [reports[r] EXCEPT !.resolved = TRUE] ELSE reports[r]]
  /\ UNCHANGED <<operations, now>>

(* The statement of cleanup that deletes old reports.                       *)
PurgeReports ==
  /\ reports' = [r \in Reports |->
       IF reports[r] # None /\ reports[r].created + Staleness <= now
         THEN None ELSE reports[r]]
  /\ UNCHANGED <<addresses, operations, now>>

Tick ==
  /\ now < MaxTime
  /\ now' = now + 1
  /\ UNCHANGED <<addresses, operations, reports>>

Next ==
  \/ \E w \in Worlds, a \in Administrators, o \in Operations,
        e \in 0 .. MaxRevision, l \in Listings, c \in Capacity : Publish(w, a, o, e, l, c)
  \/ \E w \in Worlds, a \in Administrators, e \in 0 .. MaxRevision,
        c \in Capacity, remove \in BOOLEAN : UpdateCapacity(w, a, e, c, remove)
  \/ \E w \in Worlds, a \in Administrators : CheckIn(w, a)
  \/ \E w \in Worlds, r \in Reports, p \in Administrators \cup Reporters, q \in BOOLEAN :
       SendReport(w, r, p, q)
  \/ \E w \in Worlds, hidden \in BOOLEAN : Moderate(w, hidden)
  \/ PurgeReports
  \/ Tick

Spec == Init /\ [][Next]_vars

-----------------------------------------------------------------------------
(* What an anonymous reader is shown.                                       *)
Visible(w) ==
  /\ addresses[w] # None
  /\ addresses[w].listing # None /\ ~addresses[w].hidden
  /\ addresses[w].checkedIn + Staleness > now

(* The columns keep the ranges of the schema; no revision overflows.        *)
TypeOK ==
  /\ addresses \in [Worlds -> Address \cup {None}]
  /\ operations \in [Worlds -> [Operations -> Operation \cup {None}]]
  /\ reports \in [Reports -> Report \cup {None}]
  /\ now \in Nat

(* A public listing has room: at most as many seats are reserved as it      *)
(* offers, and fewer are claimed, whichever of publications and capacity    *)
(* updates came last.  A World whose last seat is claimed is not listed.    *)
ListingFits ==
  \A w \in Worlds : addresses[w] # None =>
    LET row == addresses[w]
    IN  /\ row.claimed <= row.reserved
        /\ row.listing # None => row.reserved <= row.listing /\ row.claimed < row.listing

(* Every revision of a World is the result of exactly one operation.        *)
Numbered(w) ==
  LET done == {o \in Operations : operations[w][o] # None}
      last == IF addresses[w] = None THEN 0 ELSE addresses[w].revision
  IN  /\ \A o \in done : operations[w][o].result \in 1 .. last
      /\ \A o, p \in done : operations[w][o].result = operations[w][p].result => o = p
      /\ \A n \in 1 .. last : \E o \in done : operations[w][o].result = n

OperationsNumbered == \A w \in Worlds : Numbered(w)

(* What is listed is what the LAST publication listed, or nothing: neither  *)
(* a repeated publication nor a late capacity update brings back an older   *)
(* listing, or one that a newer publication removed.                        *)
ListingCurrent ==
  \A w \in Worlds, o \in Operations :
    /\ addresses[w] # None /\ operations[w][o] # None
    /\ operations[w][o].result = addresses[w].revision
    => addresses[w].listing \in {None, operations[w][o].listing}

(* What the service has promised is kept: an address never changes hands,   *)
(* the result of an operation never changes, the revisions of listing and   *)
(* seats never go back, and the seats of a revision never change.           *)
PromisesKept ==
  [][\A w \in Worlds :
       /\ \A o \in Operations : operations[w][o] # None => operations'[w][o] = operations[w][o]
       /\ addresses[w] # None =>
            LET row == addresses[w]
                new == addresses'[w]
            IN  /\ new # None /\ new.owner = row.owner
                /\ new.revision >= row.revision /\ new.admission >= row.admission
                /\ new.admission = row.admission =>
                     new.reserved = row.reserved /\ new.claimed = row.claimed]_vars

(* A World comes into view only by a publication, by a check-in of its      *)
(* administrator, or by the operator's leave: no update of its seats, no    *)
(* report and no passage of time shows it.                                  *)
VisibilityEarned ==
  [][\A w \in Worlds : ~Visible(w) /\ Visible(w)' =>
       \/ \E o \in Operations : operations[w][o] = None /\ operations'[w][o] # None
       \/ \E a \in Administrators : CheckIn(w, a)
       \/ addresses[w].hidden /\ ~addresses'[w].hidden]_vars

(* A hidden World has no open report of its listing: the operator's         *)
(* decision settled those before it, and none is accepted after it.         *)
HiddenSettled ==
  \A r \in Reports : reports[r] # None =>
    (addresses[reports[r].world].hidden /\ ~reports[r].resolved => reports[r].aboutRequest)

=============================================================================
