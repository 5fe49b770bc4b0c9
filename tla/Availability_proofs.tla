------------------------- MODULE Availability_proofs -------------------------
(***************************************************************************)
(* Proofs about Availability: private setup and the directory keep their   *)
(* specifications in one server, and what a reader sees online is fresh.   *)
(***************************************************************************)
EXTENDS Availability, SetupBook_proofs

-----------------------------------------------------------------------------
(* What a step makes of the rows.                                           *)
Rows == addresses \in [Worlds -> Dir!Address \cup {None}]

(* A row keeps its owner, and its check-in is moved up to the present or    *)
(* left.  A new row is checked in at present.                               *)
Follows(old, new) ==
  \/ new = old
  \/ /\ old # None /\ new # None
     /\ new.owner = old.owner /\ new.checkedIn \in {old.checkedIn, now}
  \/ old = None /\ new # None /\ new.owner \in Holders /\ new.checkedIn = now

LEMMA RowFields ==
  ASSUME NEW row \in Dir!Address
  PROVE  row # None /\ row.owner \in Holders /\ row.owner # None /\ row.checkedIn \in Nat
  BY TablesAssumption, NotNone DEF Dir!Address

LEMMA ClaimedRow ==
  ASSUME Rows, now \in Nat, NEW w \in Worlds, NEW a \in Holders
  PROVE  /\ Dir!Claimed(w, a) \in Dir!Address
         /\ addresses[w] # None => Dir!Claimed(w, a) = addresses[w]
         /\ addresses[w] = None => Dir!Claimed(w, a).owner = a
<1>1. Dir!Reserved(a) \in Dir!Address /\ Dir!Reserved(a).owner = a
  BY TablesAssumption DEF Dir!Reserved, Dir!Address, Dir!Listings
<1> QED
  BY <1>1 DEF Dir!Claimed, Rows

(* Replacing the row of one World.                                          *)
LEMMA RowReplaced ==
  ASSUME Rows, NEW w \in Worlds, NEW row \in Dir!Address,
         addresses' = [addresses EXCEPT ![w] = row], Follows(addresses[w], row)
  PROVE  Rows' /\ \A v \in Worlds : Follows(addresses[v], addresses'[v])
  BY DEF Rows, Follows

LEMMA CheckInRows ==
  ASSUME Rows, now \in Nat, NEW w \in Worlds, NEW a \in Holders, Dir!CheckIn(w, a)
  PROVE  /\ Rows' /\ \A v \in Worlds : Follows(addresses[v], addresses'[v])
         /\ addresses'[w] # None /\ addresses'[w].checkedIn = now /\ addresses'[w].owner = a
         /\ addresses[w] # None => addresses[w].owner = a
         /\ \A v \in Worlds : v # w => addresses'[v] = addresses[v]
<1> DEFINE old == Dir!Claimed(w, a)
           row == [old EXCEPT !.checkedIn = now]
<1>1. old \in Dir!Address /\ old.owner = a
      /\ addresses' = [addresses EXCEPT ![w] = row]
  BY ClaimedRow DEF Dir!CheckIn
<1>2. row \in Dir!Address /\ row.checkedIn = now /\ row.owner = old.owner
  BY <1>1 DEF Dir!Address
<1>3. Follows(addresses[w], row)
  BY <1>1, <1>2, ClaimedRow, RowFields DEF Follows, Rows
<1>4. addresses[w] # None => addresses[w].owner = a
  BY <1>1, ClaimedRow
<1> HIDE DEF row, old
<1> QED
  BY <1>1, <1>2, <1>3, <1>4, RowReplaced, RowFields DEF Rows

LEMMA PublishRows ==
  ASSUME Rows, now \in Nat, NEW w \in Worlds, NEW a \in Holders, NEW o \in Operations,
         NEW e \in 0 .. MaxRevision, NEW l \in Dir!Listings, NEW c \in Dir!Capacity,
         Dir!Publish(w, a, o, e, l, c)
  PROVE  Rows' /\ \A v \in Worlds : Follows(addresses[v], addresses'[v])
<1> DEFINE old == Dir!Claimed(w, a)
           row == [old EXCEPT !.listing = l, !.revision = @ + 1, !.checkedIn = now,
                              !.admission = c.revision, !.reserved = c.reserved,
                              !.claimed = c.claimed]
<1>1. /\ old \in Dir!Address /\ old.owner = a /\ old.revision < MaxRevision
      /\ addresses' = [addresses EXCEPT ![w] = row]
  BY ClaimedRow DEF Dir!Publish, Dir!Expects
<1>2. old.revision + 1 \in 0 .. MaxRevision
  BY <1>1, TablesAssumption DEF Dir!Address
<1>3. c.revision \in 0 .. MaxRevision /\ c.reserved \in 0 .. MaxSeats /\ c.claimed \in 0 .. MaxSeats
  BY TablesAssumption DEF Dir!Capacity
<1>4. row \in Dir!Address /\ row.checkedIn = now /\ row.owner = old.owner
  <2> HIDE DEF old
  <2> QED
    BY <1>1, <1>2, <1>3 DEF Dir!Address
<1>5. Follows(addresses[w], row)
  BY <1>1, <1>4, ClaimedRow, RowFields DEF Follows, Rows
<1> HIDE DEF row, old
<1> QED
  BY <1>1, <1>4, <1>5, RowReplaced

LEMMA UpdateRows ==
  ASSUME Rows, NEW w \in Worlds, NEW a \in Holders, NEW e \in 0 .. MaxRevision,
         NEW c \in Dir!Capacity, NEW remove \in BOOLEAN,
         Dir!UpdateCapacity(w, a, e, c, remove)
  PROVE  Rows' /\ \A v \in Worlds : Follows(addresses[v], addresses'[v])
<1> DEFINE old == addresses[w]
           l == Dir!Projected(old, c, remove)
           row == [old EXCEPT !.admission = c.revision, !.reserved = c.reserved,
                              !.claimed = c.claimed, !.listing = l]
<1>1. old \in Dir!Address /\ addresses' = [addresses EXCEPT ![w] = row]
  BY DEF Dir!UpdateCapacity, Rows
<1>2. l \in Dir!Listings
  BY <1>1 DEF Dir!Projected, Dir!Address, Dir!Listings
<1>3. c.revision \in 0 .. MaxRevision /\ c.reserved \in 0 .. MaxSeats /\ c.claimed \in 0 .. MaxSeats
  BY TablesAssumption DEF Dir!Capacity
<1> HIDE DEF l
<1>4. row \in Dir!Address /\ row.checkedIn = old.checkedIn /\ row.owner = old.owner
  BY <1>1, <1>2, <1>3 DEF Dir!Address
<1>5. Follows(addresses[w], row)
  BY <1>1, <1>4, RowFields DEF Follows
<1> HIDE DEF row, old
<1> QED
  BY <1>1, <1>4, <1>5, RowReplaced DEF old

LEMMA ModerateRows ==
  ASSUME Rows, NEW w \in Worlds, NEW hidden \in BOOLEAN, Dir!Moderate(w, hidden)
  PROVE  Rows' /\ \A v \in Worlds : Follows(addresses[v], addresses'[v])
<1> DEFINE old == addresses[w]
           row == [old EXCEPT !.hidden = hidden]
<1>1. old \in Dir!Address /\ addresses' = [addresses EXCEPT ![w] = row]
  BY DEF Dir!Moderate, Rows
<1>2. row \in Dir!Address /\ row.checkedIn = old.checkedIn /\ row.owner = old.owner
  BY <1>1 DEF Dir!Address
<1>3. Follows(addresses[w], row)
  BY <1>1, <1>2, RowFields DEF Follows
<1> HIDE DEF row, old
<1> QED
  BY <1>1, <1>2, <1>3, RowReplaced DEF old

(* The directory's own handlers act on one row at one instant.              *)
LEMMA ListingTouches ==
  ASSUME Listing
  PROVE  /\ now' = now
         /\ \/ addresses' = addresses
            \/ \E w \in Worlds : ~Locked(w) /\ \E row : addresses' = [addresses EXCEPT ![w] = row]
<1>1. ASSUME NEW w \in Worlds, NEW a \in Holders, NEW o \in Operations,
             NEW e \in 0 .. MaxRevision, NEW l \in Dir!Listings, NEW c \in Dir!Capacity,
             Dir!Publish(w, a, o, e, l, c)
      PROVE  now' = now /\ \E row : addresses' = [addresses EXCEPT ![w] = row]
  <2> DEFINE old == Dir!Claimed(w, a)
             new == [old EXCEPT !.listing = l, !.revision = @ + 1, !.checkedIn = now,
                                !.admission = c.revision, !.reserved = c.reserved,
                                !.claimed = c.claimed]
  <2>1. now' = now /\ addresses' = [addresses EXCEPT ![w] = new]
    BY <1>1 DEF Dir!Publish
  <2> HIDE DEF new
  <2> QED
    BY <2>1
<1>2. ASSUME NEW w \in Worlds,
             \E a \in Holders, e \in 0 .. MaxRevision, c \in Dir!Capacity,
               remove \in BOOLEAN : Dir!UpdateCapacity(w, a, e, c, remove)
      PROVE  now' = now /\ \E row : addresses' = [addresses EXCEPT ![w] = row]
  BY <1>2 DEF Dir!UpdateCapacity
<1>3. ASSUME \/ Dir!PurgeReports
             \/ \E w \in Worlds, r \in Reports, p \in Holders \cup Reporters, q \in BOOLEAN :
                  Dir!SendReport(w, r, p, q)
      PROVE  now' = now /\ addresses' = addresses
  BY <1>3 DEF Dir!SendReport, Dir!PurgeReports
<1>4. ASSUME NEW w \in Worlds, NEW hidden \in BOOLEAN, Dir!Moderate(w, hidden)
      PROVE  now' = now /\ \E row : addresses' = [addresses EXCEPT ![w] = row]
  <2>1. now' = now /\ addresses' = [addresses EXCEPT ![w] = [addresses[w] EXCEPT !.hidden = hidden]]
    BY <1>4 DEF Dir!Moderate
  <2> QED
    BY <2>1
<1> QED
  BY <1>1, <1>2, <1>3, <1>4 DEF Listing

LEMMA ListingRows ==
  ASSUME Rows, now \in Nat, Listing
  PROVE  /\ Rows' /\ \A v \in Worlds : Follows(addresses[v], addresses'[v])
         /\ now' = now /\ [Dir!Next]_(Dir!vars)
<1> DEFINE Goal == Rows' /\ \A v \in Worlds : Follows(addresses[v], addresses'[v])
<1>1. Goal
  <2> HIDE DEF Goal
  <2>1. ASSUME NEW w \in Worlds, NEW a \in Holders, NEW o \in Operations,
               NEW e \in 0 .. MaxRevision, NEW l \in Dir!Listings, NEW c \in Dir!Capacity,
               Dir!Publish(w, a, o, e, l, c)
        PROVE  Goal
    BY <2>1, PublishRows DEF Goal
  <2>2. ASSUME NEW w \in Worlds, NEW a \in Holders, NEW e \in 0 .. MaxRevision,
               NEW c \in Dir!Capacity, NEW remove \in BOOLEAN,
               Dir!UpdateCapacity(w, a, e, c, remove)
        PROVE  Goal
    BY <2>2, UpdateRows DEF Goal
  <2>3. ASSUME NEW w \in Worlds, NEW hidden \in BOOLEAN, Dir!Moderate(w, hidden)
        PROVE  Goal
    BY <2>3, ModerateRows DEF Goal
  <2>4. addresses' = addresses => Goal
    BY DEF Goal, Rows, Follows
  <2>5. ASSUME \/ Dir!PurgeReports
               \/ \E w \in Worlds, r \in Reports, p \in Holders \cup Reporters, q \in BOOLEAN :
                    Dir!SendReport(w, r, p, q)
        PROVE  Goal
    BY <2>4, <2>5 DEF Dir!SendReport, Dir!PurgeReports
  <2> QED
    BY <2>1, <2>2, <2>3, <2>5 DEF Listing
<1>2. now' = now
  BY ListingTouches
<1>3. Dir!Next
  BY DEF Listing, Dir!Next
<1> QED
  BY <1>1, <1>2, <1>3

-----------------------------------------------------------------------------
(* What private setup does alone is a step of the book at one instant.      *)
LEMMA AsideKeeps ==
  ASSUME Aside
  PROVE  now' = now /\ owners' = owners
<1>1. CASE Signalling
  BY <1>1 DEF Signalling, Offer, Answer, Read, Remove, SetAttempt
<1>2. CASE Relaying
  <2>1. ASSUME NEW h \in Clients, NEW w \in Worlds, NEW x \in Attempts, NEW who \in Holders,
               \/ \E l \in Locators, peer \in Peers, proof \in Proofs :
                    Begin(h, w, x, who, l, peer, proof)
               \/ \E l \in Locators : HostIce(h, w, x, who, l)
               \/ RevokeRelay(h, w, x, who)
        PROVE  now' = now /\ owners' = owners
    BY <2>1 DEF Begin, HostIce, RevokeRelay
  <2>2. ASSUME NEW h \in Clients,
               \/ \E p \in Principals : Mint(h, p)
               \/ Join(h) \/ RefuseGrant(h) \/ Disclose(h) \/ RelayRevoked(h)
               \/ \E host \in BOOLEAN : RevokeNext(h, host)
        PROVE  now' = now /\ owners' = owners
    BY <2>2 DEF Mint, Join, RefuseGrant, Disclose, RelayRevoked, RevokeNext
  <2>3. CASE \/ \E w \in Worlds, peer \in Peers : RefuseBegin(w, peer)
             \/ \E p \in Principals, state \in {"issued", "failed"} : Issued(p, state)
    BY <2>3 DEF RefuseBegin, Issued
  <2> QED
    BY <1>2, <2>1, <2>2, <2>3 DEF Relaying
<1>3. CASE \E h \in Clients :
             \/ \E w \in Worlds, who \in Holders, l \in Locators : Publish(h, w, who, l)
             \/ Renew(h) \/ Drop(h)
  BY <1>3 DEF Publish, Renew, Drop
<1>4. CASE \/ \E w \in Worlds, who \in Holders, l \in Locators : Revoke(w, who, l)
           \/ Sweep \/ Restart
  BY <1>4 DEF Revoke, Sweep, Restart
<1> QED
  BY <1>1, <1>2, <1>3, <1>4 DEF Aside

LEMMA AsideSteps ==
  ASSUME Aside
  PROVE  Next
  BY DEF Aside, Next, Publication

(* The reservation the book knows is the one in the tables.                 *)
Shared == Rows /\ owners = [w \in Worlds |-> Owner(addresses[w])]

(* What the lock of its row keeps for an open transaction: the row is as it *)
(* was found, or still missing, and no other start is at it.                *)
Held ==
  /\ opened \in [Clients -> {"no", "found", "inserted"}]
  /\ \A h \in Clients : opened[h] # "no" =>
       /\ calls[h].op = "reserve"
       /\ opened[h] = "inserted" <=> addresses[calls[h].w] = None
       /\ Owner(addresses[calls[h].w]) \in {None, calls[h].who}
  /\ \A g, h \in Clients :
       opened[g] # "no" /\ opened[h] # "no" /\ calls[g].w = calls[h].w => g = h

(* So its two statements, whatever ran in between, are together a check-in  *)
(* in the tables and the reservation that the book expects.                 *)
LEMMA CheckInRefines ==
  ASSUME TypeOK, Shared, Held, NEW h \in Clients, CheckIn(h), SameOwners
  PROVE  /\ calls[h].w \in Worlds /\ calls[h].who \in Holders
         /\ calls[h].op = "reserve"
         /\ Dir!CheckIn(calls[h].w, calls[h].who)
         /\ Reserve(h)
<1> DEFINE w == calls[h].w
           who == calls[h].who
<1>1. w \in Worlds /\ who \in Holders /\ calls[h].op = "reserve" /\ opened[h] # "no"
  BY CallKinds DEF CheckIn, Held, Publishing
<1>2. (opened[h] = "inserted" <=> addresses[w] = None) /\ Owner(addresses[w]) \in {None, who}
  BY <1>1 DEF Held
<1>3. /\ Dir!Claimed(w, who) = IF opened[h] = "inserted" THEN Dir!Reserved(who) ELSE addresses[w]
      /\ Dir!Claimed(w, who) \in Dir!Address /\ Dir!Claimed(w, who).owner = who
  <2>1. Dir!Claimed(w, who) \in Dir!Address
    BY <1>1, ClaimedRow DEF Shared, TypeOK
  <2>2. Dir!Claimed(w, who).owner = who
    BY <1>1, <1>2, ClaimedRow, RowFields DEF Shared, TypeOK, Owner, Rows
  <2> QED
    BY <1>2, <2>1, <2>2 DEF Dir!Claimed
<1>4. Dir!CheckIn(w, who)
  <2> DEFINE old == IF opened[h] = "inserted" THEN Dir!Reserved(who) ELSE addresses[w]
  <2>1. addresses' = [addresses EXCEPT ![w] = [old EXCEPT !.checkedIn = now]]
    BY DEF CheckIn
  <2>2. old = Dir!Claimed(w, who)
    BY <1>3
  <2> HIDE DEF old
  <2> QED
    BY <1>3, <2>1, <2>2 DEF CheckIn, Dir!CheckIn
<1>5. Reserve(h)
  <2>1. owners[w] \in {None, who}
    BY <1>1, <1>2 DEF Shared
  <2>2. /\ addresses'[w] # None /\ addresses'[w].owner = who
        /\ \A v \in Worlds : v # w => addresses'[v] = addresses[v]
    BY <1>1, <1>4, CheckInRows DEF Shared, TypeOK
  <2>3. owners' = [owners EXCEPT ![w] = who]
    BY <1>1, <2>2 DEF Shared, SameOwners, Owner
  <2> QED
    BY <1>1, <2>1, <2>3 DEF CheckIn, Reserve
<1> QED
  BY <1>1, <1>4, <1>5

(* A step of the directory's own handlers reserves at most one address.     *)
LEMMA ListingOwners ==
  ASSUME Rows, now \in Nat, Listing
  PROVE  \/ \A w \in Worlds : Owner(addresses'[w]) = Owner(addresses[w])
         \/ \E w \in Worlds, a \in Holders :
              /\ Owner(addresses[w]) = None /\ Owner(addresses'[w]) = a
              /\ \A v \in Worlds : v # w => addresses'[v] = addresses[v]
<1>1. \A v \in Worlds : Follows(addresses[v], addresses'[v])
  BY ListingRows
<1>2. ASSUME NEW w \in Worlds, addresses[w] = None, addresses'[w] # None
      PROVE  /\ Owner(addresses[w]) = None /\ Owner(addresses'[w]) \in Holders
             /\ \A v \in Worlds : v # w => addresses'[v] = addresses[v]
  <2>1. \E v \in Worlds : \E row : addresses' = [addresses EXCEPT ![v] = row]
    BY <1>2, ListingTouches
  <2>2. \A v \in Worlds : v # w => addresses'[v] = addresses[v]
    BY <1>2, <2>1 DEF Rows
  <2> QED
    BY <1>1, <1>2, <2>2 DEF Follows, Owner
<1>3. ASSUME NEW w \in Worlds, addresses[w] # None \/ addresses'[w] = None
      PROVE  Owner(addresses'[w]) = Owner(addresses[w])
  BY <1>1, <1>3 DEF Follows, Owner
<1> QED
  BY <1>2, <1>3

LEMMA SharedNext ==
  ASSUME TypeOK, Shared, Held, [AvailNext]_availVars
  PROVE  Shared' /\ [Next]_vars
<1>0. now \in Nat
  BY DEF TypeOK
<1>1. ASSUME NEW h \in Clients, CheckIn(h), SameOwners
      PROVE  Shared' /\ [Next]_vars
  <2>1. Reserve(h)
    BY <1>1, CheckInRefines
  <2>2. Rows'
    BY <1>0, <1>1, CheckInRefines, CheckInRows DEF Shared
  <2> QED
    BY <1>1, <2>1, <2>2 DEF SameOwners, Shared, Next, Publication
<1>2. ASSUME Listing, SameOwners, UNCHANGED <<book, minted, calls>>
      PROVE  Shared' /\ [Next]_vars
  <2>1. Rows' /\ now' = now
    BY <1>0, <1>2, ListingRows DEF Shared
  <2>2. CASE \A w \in Worlds : Owner(addresses'[w]) = Owner(addresses[w])
    <3>1. owners' = owners
      BY <1>2, <2>2 DEF SameOwners, Shared
    <3> QED
      BY <1>2, <2>1, <3>1 DEF SameOwners, Shared, vars, book
  <2>3. ASSUME NEW w \in Worlds, NEW a \in Holders,
               Owner(addresses[w]) = None, Owner(addresses'[w]) = a,
               \A v \in Worlds : v # w => addresses'[v] = addresses[v]
        PROVE  Shared' /\ [Next]_vars
    <3>1. owners[w] = None /\ owners' = [owners EXCEPT ![w] = a]
      BY <1>2, <2>3 DEF SameOwners, Shared
    <3>2. Reservation(w, a)
      BY <1>2, <2>1, <3>1 DEF Reservation
    <3> QED
      BY <1>2, <2>1, <3>2 DEF SameOwners, Shared, Next, Publication
  <2> QED
    BY <1>0, <1>2, <2>2, <2>3, ListingOwners DEF Shared
<1>3. ASSUME Aside, UNCHANGED tables
      PROVE  Shared' /\ [Next]_vars
  BY <1>3, AsideSteps, AsideKeeps DEF Shared, Rows, tables
<1>4. ASSUME \/ \E r \in Readers : Online(r) \/ Query(r)
             \/ \E h \in Clients : Claim(h)
      PROVE  Shared' /\ [Next]_vars
  <2>1. Sweep \/ UNCHANGED vars
    BY <1>4 DEF Online, Query, Claim, Sweep
  <2>2. owners' = owners /\ addresses' = addresses
    BY <1>4 DEF Online, Query, Claim, tables, vars
  <2> QED
    BY <2>1, <2>2 DEF Next, Shared, Rows
<1>5. CASE Later
  BY <1>5 DEF Later, Tick, Next, Shared, Rows, tables
<1>6. CASE UNCHANGED availVars
  BY <1>6 DEF availVars, vars, tables, Shared, Rows
<1> QED
  BY <1>1, <1>2, <1>3, <1>4, <1>5, <1>6 DEF AvailNext

LEMMA HeldNext ==
  ASSUME TypeOK, Shared, Held, [AvailNext]_availVars
  PROVE  Held'
<1>1. ASSUME NEW h \in Clients, Claim(h)
      PROVE  Held'
  <2>1. calls' = calls /\ addresses' = addresses
    BY <1>1 DEF Claim, vars, tables
  <2> QED
    BY <1>1, <2>1 DEF Claim, Held, Locked
<1>2. ASSUME NEW h \in Clients, CheckIn(h), SameOwners
      PROVE  Held'
  <2>1. /\ opened' = [opened EXCEPT ![h] = "no"]
        /\ \A g \in Clients : g # h => calls'[g] = calls[g]
    BY <1>2 DEF CheckIn, TypeOK
  <2>2. ASSUME NEW g \in Clients, g # h, opened[g] # "no"
        PROVE  /\ calls'[g] = calls[g] /\ calls[g].w \in Worlds
               /\ addresses'[calls[g].w] = addresses[calls[g].w]
    <3>1. calls[g].w # calls[h].w /\ calls[g].op = "reserve"
      BY <1>2, <2>2 DEF Held, CheckIn
    <3>2. calls[g].w \in Worlds
      BY <3>1, CallKinds DEF Publishing
    <3> QED
      BY <1>2, <2>1, <2>2, <3>1, <3>2 DEF CheckIn, Shared, Rows
  <2> QED
    BY <2>1, <2>2 DEF Held
<1>3. ASSUME Listing, calls' = calls, opened' = opened
      PROVE  Held'
  <2>1. ASSUME NEW g \in Clients, opened[g] # "no"
        PROVE  addresses'[calls[g].w] = addresses[calls[g].w]
    <3>1. calls[g].w \in Worlds
      BY <2>1, CallKinds DEF Held, Publishing
    <3>2. Locked(calls[g].w)
      BY <2>1 DEF Locked
    <3> QED
      BY <1>3, <3>1, <3>2, ListingTouches DEF Shared, Rows
  <2> QED
    BY <1>3, <2>1 DEF Held
<1>4. ASSUME RollBack, addresses' = addresses
      PROVE  Held'
  <2>1. \A h \in Clients : opened'[h] # "no" => opened'[h] = opened[h] /\ calls'[h] = calls[h]
    BY <1>4 DEF RollBack
  <2>2. opened' \in [Clients -> {"no", "found", "inserted"}]
    BY <1>4 DEF RollBack, Held
  <2> QED
    BY <1>4, <2>1, <2>2 DEF Held
<1>5. ASSUME \/ \E r \in Readers : Online(r) \/ Query(r)
             \/ Later
             \/ UNCHANGED availVars
      PROVE  Held'
  BY <1>5 DEF Online, Query, Later, Tick, availVars, vars, tables, Held
<1> QED
  BY <1>1, <1>2, <1>3, <1>4, <1>5 DEF AvailNext, tables

LEMMA SharedInit ==
  AvailInit => Init /\ Shared /\ Held
<1>1. AvailInit => owners = [w \in Worlds |-> Owner(addresses[w])]
  BY DEF AvailInit, Init, Dir!Init, Owner
<1> QED
  BY <1>1 DEF AvailInit, Dir!Init, Shared, Rows, Held

LEMMA SharedAlways == AvailSpec => Spec /\ [](TypeOK /\ Shared /\ Held)
<1>1. Init => TypeOK
  BY InitType
<1>2. ASSUME TypeOK, [Next]_vars
      PROVE  TypeOK'
  BY <1>2, NextType
<1> QED
  BY <1>1, <1>2, SharedInit, SharedNext, HeldNext, PTL DEF AvailSpec, Spec

(* Both keep their own specifications: private setup is as SetupBook says   *)
(* whatever the directory does to the reservations beside it,               *)
THEOREM BookUnderDirectory == AvailSpec => Spec
  BY SharedAlways, PTL

(* and the tables are as Directory says although private setup writes them  *)
(* by statements of its own: with everything that may run in between, its   *)
(* transaction is one check-in, or nothing.                                 *)
THEOREM DirectoryUnderSetup == AvailSpec => ImplementsDirectory
<1>1. AvailInit => Dir!Init
  BY DEF AvailInit
<1>2. ASSUME TypeOK, Shared, Held, [AvailNext]_availVars
      PROVE  [Dir!Next]_(Dir!vars)
  <2>1. ASSUME NEW h \in Clients, CheckIn(h), SameOwners
        PROVE  Dir!Next
    BY <1>2, <2>1, CheckInRefines DEF Dir!Next
  <2>2. CASE Listing
    BY <1>2, <2>2, ListingRows DEF Shared, TypeOK
  <2>3. CASE Aside /\ UNCHANGED tables
    BY <2>3, AsideKeeps DEF tables, Dir!vars
  <2>4. ASSUME \/ \E r \in Readers : Online(r) \/ Query(r)
               \/ \E h \in Clients : Claim(h)
        PROVE  UNCHANGED Dir!vars
    BY <2>4 DEF Online, Query, Claim, tables, vars, Dir!vars
  <2>5. CASE Later
    BY <2>5 DEF Later, Tick, tables, Dir!Next, Dir!Tick
  <2>6. CASE UNCHANGED availVars
    BY <2>6 DEF availVars, vars, tables, Dir!vars
  <2> QED
    BY <1>2, <2>1, <2>2, <2>3, <2>4, <2>5, <2>6 DEF AvailNext
<1> QED
  BY <1>1, <1>2, SharedAlways, PTL DEF AvailSpec, ImplementsDirectory, Dir!Spec

-----------------------------------------------------------------------------
(* Why a lease is evidence of a check-in.  The section that starts or       *)
(* renews it comes after the transaction of the same call, and a call is    *)
(* cut before the clock has moved twice; so is a reader.                    *)
CheckedBy(w, t) == addresses[w] # None /\ t <= addresses[w].checkedIn

Past == \A w \in Worlds : addresses[w] # None => addresses[w].checkedIn <= now

Prompt ==
  \A h \in Clients : calls[h] # Idle => calls[h].at <= now /\ now <= calls[h].at + 1

Renewing == \A h \in Clients : calls[h].op = "renew" => CheckedBy(calls[h].w, calls[h].at)

Lasting ==
  \A w \in Worlds : leases[w] # None => CheckedBy(w, leases[w].expires - LeaseTTL - 1)

Found(read) ==
  /\ read.at \in Nat /\ read.at <= now /\ now <= read.at + 1
  /\ read.seen \subseteq Worlds /\ \A w \in read.seen : CheckedBy(w, read.at - LeaseTTL)

Reading ==
  /\ readers = [r \in Readers |-> readers[r]]
  /\ \A r \in Readers : readers[r] # None => Found(readers[r])

Fresh == Past /\ Prompt /\ Renewing /\ Lasting /\ Reading

LEMMA CallMoves ==
  ASSUME TypeOK, Prompt, NEW h \in Clients, NEW call,
         call # Idle => call.at = now \/ (calls[h] # Idle /\ call.at = calls[h].at),
         calls' = [calls EXCEPT ![h] = call], now' = now
  PROVE  Prompt'
  BY DEF TypeOK, Prompt

LEMMA PromptNext ==
  ASSUME TypeOK, Prompt, [Next]_vars
  PROVE  Prompt'
<1>0. calls' = calls /\ now' = now => Prompt'
  BY DEF Prompt
<1>1. CASE Publication
  <2>1. ASSUME NEW h \in Clients, NEW w \in Worlds, NEW who \in Holders, NEW l \in Locators,
               Publish(h, w, who, l)
        PROVE  Prompt'
    <3> DEFINE call == [op |-> "reserve", at |-> now, w |-> w, who |-> who, locator |-> l]
    <3>1. call.at = now /\ calls' = [calls EXCEPT ![h] = call] /\ now' = now
      BY <2>1 DEF Publish
    <3> HIDE DEF call
    <3> QED
      BY <3>1, CallMoves
  <2>2. ASSUME NEW h \in Clients, Reserve(h)
        PROVE  Prompt'
    <3>1. calls[h] \in Publishing /\ calls[h] # Idle
      BY <2>2, CallKinds DEF Reserve, Idle
    <3>2. [calls[h] EXCEPT !.op = "renew"].at = calls[h].at
      BY <3>1 DEF Publishing
    <3> QED
      BY <2>2, <3>1, <3>2, CallMoves DEF Reserve
  <2>3. ASSUME NEW h \in Clients, Renew(h)
        PROVE  Prompt'
    BY <2>3, CallMoves DEF Renew
  <2>4. ASSUME NEW w \in Worlds, NEW who \in Holders,
               Reservation(w, who) \/ \E l \in Locators : Revoke(w, who, l)
        PROVE  Prompt'
    BY <1>0, <2>4 DEF Reservation, Revoke
  <2> QED
    BY <1>1, <2>1, <2>2, <2>3, <2>4 DEF Publication
<1>2. CASE Signalling
  BY <1>0, <1>2, SignallingSteps DEF Signalled
<1>3. CASE Relaying
  <2>1. ASSUME NEW h \in Clients, NEW w \in Worlds, NEW x \in Attempts, NEW who \in Holders,
               \/ \E l \in Locators, peer \in Peers, proof \in Proofs :
                    Begin(h, w, x, who, l, peer, proof)
               \/ \E l \in Locators : HostIce(h, w, x, who, l)
        PROVE  Prompt'
    <3>1. ASSUME NEW side \in BOOLEAN,
                 calls' = [calls EXCEPT ![h] =
                   [op |-> "grant", at |-> now, key |-> <<w, x, side>>, who |-> who]],
                 now' = now
          PROVE  Prompt'
      <4> DEFINE call == [op |-> "grant", at |-> now, key |-> <<w, x, side>>, who |-> who]
      <4>1. call.at = now /\ calls' = [calls EXCEPT ![h] = call]
        BY <3>1
      <4> HIDE DEF call
      <4> QED
        BY <3>1, <4>1, CallMoves
    <3> QED
      BY <2>1, <3>1 DEF Begin, HostIce
  <2>2. ASSUME NEW h \in Clients, NEW w \in Worlds, NEW x \in Attempts, NEW who \in Holders,
               RevokeRelay(h, w, x, who)
        PROVE  Prompt'
    <3>1. ASSUME NEW left,
                 calls' = [calls EXCEPT ![h] = [op |-> "revoke", at |-> now, left |-> left]],
                 now' = now
          PROVE  Prompt'
      <4> DEFINE call == [op |-> "revoke", at |-> now, left |-> left]
      <4>1. call.at = now /\ calls' = [calls EXCEPT ![h] = call]
        BY <3>1
      <4> HIDE DEF call
      <4> QED
        BY <3>1, <4>1, CallMoves
    <3> QED
      BY <1>0, <2>2, <3>1 DEF RevokeRelay
  <2>3. ASSUME NEW h \in Clients, Join(h) \/ \E p \in Principals : Mint(h, p)
        PROVE  Prompt'
    BY <2>3, CallMoves DEF Join, Mint, Await, Idle
  <2>4. ASSUME NEW h \in Clients, RefuseGrant(h) \/ Disclose(h) \/ RelayRevoked(h)
        PROVE  Prompt'
    BY <2>4, CallMoves DEF RefuseGrant, Disclose, RelayRevoked
  <2>5. ASSUME NEW h \in Clients, NEW host \in BOOLEAN, RevokeNext(h, host)
        PROVE  Prompt'
    <3>1. calls[h] \in Revoking /\ calls[h] # Idle
      BY <2>5, CallKinds DEF RevokeNext, Idle
    <3>2. [calls[h] EXCEPT !.left[host] = None].at = calls[h].at
      BY <3>1 DEF Revoking
    <3>3. calls' = [calls EXCEPT ![h] = [calls[h] EXCEPT !.left[host] = None]] /\ now' = now
      BY <2>5 DEF RevokeNext
    <3> QED
      BY <3>1, <3>2, <3>3, CallMoves
  <2>6. CASE \/ \E w \in Worlds, peer \in Peers : RefuseBegin(w, peer)
             \/ \E p \in Principals, state \in {"issued", "failed"} : Issued(p, state)
    BY <1>0, <2>6 DEF RefuseBegin, Issued
  <2> QED
    BY <1>3, <2>1, <2>2, <2>3, <2>4, <2>5, <2>6 DEF Relaying
<1>4. ASSUME NEW h \in Clients, Drop(h)
      PROVE  Prompt'
  BY <1>4, CallMoves DEF Drop
<1>5. CASE Restart
  BY <1>5 DEF Restart, Prompt
<1>6. CASE Tick
  BY <1>6 DEF Tick, Prompt, TypeOK
<1>7. CASE Sweep \/ UNCHANGED vars
  BY <1>0, <1>7 DEF Sweep, vars
<1> QED
  BY <1>1, <1>2, <1>3, <1>4, <1>5, <1>6, <1>7 DEF Next

(* What private setup does alone, by what it does to calls and leases.      *)
LEMMA AsideKinds ==
  ASSUME TypeOK, Aside
  PROVE  \/ Routine
         \/ Signalled
         \/ \E h \in Clients : Renew(h) \/ Join(h)
         \/ \E w \in Worlds, who \in Holders, l \in Locators : Revoke(w, who, l)
         \/ \E w \in Worlds, peer \in Peers : RefuseBegin(w, peer)
         \/ Opening
         \/ \E h \in Clients, p \in Principals : Mint(h, p)
         \/ Denying
         \/ Restart
<1>1. CASE Signalling
  BY <1>1, SignallingSteps
<1>2. CASE Relaying
  BY <1>2, RelayingKinds
<1>3. ASSUME NEW h \in Clients,
             \/ \E w \in Worlds, who \in Holders, l \in Locators : Publish(h, w, who, l)
             \/ Drop(h)
      PROVE  Routine
  BY <1>3, RoutineSteps
<1>4. CASE Sweep
  BY <1>4, RoutineSteps
<1> QED
  BY <1>1, <1>2, <1>3, <1>4 DEF Aside

(* Only the transaction of publish moves a call on to its renewal.          *)
LEMMA AsideCalls ==
  ASSUME TypeOK, Aside
  PROVE  \A h \in Clients : calls'[h] = calls[h] \/ calls'[h].op # "renew"
<1> DEFINE Goal == \A h \in Clients : calls'[h] = calls[h] \/ calls'[h].op # "renew"
<1>1. calls' = calls => Goal
  OBVIOUS
<1>2. ASSUME NEW h \in Clients, Renew(h) \/ Join(h)
      PROVE  Goal
  <2>1. CASE Renew(h)
    BY <2>1, OtherCalls DEF Renew, Idle
  <2>2. CASE Join(h)
    BY <2>2, OtherCalls DEF Join, Await
  <2> QED
    BY <1>2, <2>1, <2>2
<1>3. ASSUME NEW h \in Clients, NEW p \in Principals, Mint(h, p)
      PROVE  Goal
  BY <1>3, OtherCalls DEF Mint, Await
<1>4. CASE Opening
  BY <1>4, OtherCalls DEF Opening, Begin
<1>5. CASE Denying
  <2>1. CASE calls' = calls
    BY <1>1, <2>1
  <2>2. CASE calls' # calls
    BY <1>5, <2>2, OtherCalls DEF Denying, RevokeRelay
  <2> QED
    BY <2>1, <2>2
<1>6. CASE Restart
  BY <1>6 DEF Restart, Idle
<1>7. CASE Routine
  BY <1>7 DEF Routine
<1>8. CASE \/ Signalled
           \/ \E w \in Worlds, who \in Holders, l \in Locators : Revoke(w, who, l)
           \/ \E w \in Worlds, peer \in Peers : RefuseBegin(w, peer)
  BY <1>1, <1>8 DEF Signalled, Revoke, RefuseBegin
<1> QED
  BY <1>2, <1>3, <1>4, <1>5, <1>6, <1>7, <1>8, AsideKinds

(* Only a renewal moves the end of a lease.                                 *)
Lasts(w) == leases'[w] # None => leases[w] # None /\ leases'[w].expires = leases[w].expires

Renewed(w) ==
  /\ leases'[w].expires = now + LeaseTTL
  /\ \E h \in Clients : calls[h].op = "renew" /\ calls[h].w = w

LEMMA ExpiresKept ==
  ASSUME NEW lease \in Lease
  PROVE  /\ Restarted(lease).expires = lease.expires
         /\ [Restarted(lease) EXCEPT !.opened = @ + 1].expires = lease.expires
<1>1. Restarted(lease).expires = lease.expires
  BY DEF Restarted, Lease
<1>2. [Restarted(lease) EXCEPT !.opened = @ + 1].expires = Restarted(lease).expires
  BY DEF Restarted, Lease
<1> QED
  BY <1>1, <1>2

LEMMA AsideLeases ==
  ASSUME TypeOK, Aside, NEW v \in Worlds
  PROVE  Lasts(v) \/ Renewed(v)
<1>1. leases' \in {leases, LiveLeases} => Lasts(v)
  BY LiveBook DEF Lasts
<1>2. ASSUME NEW w \in Worlds, NEW lease, leases' = [LiveLeases EXCEPT ![w] = lease],
             \/ lease = None
             \/ LiveLeases[w] # None /\ lease.expires = LiveLeases[w].expires
      PROVE  Lasts(v)
  <2>1. leases'[v] = IF v = w THEN lease ELSE LiveLeases[v]
    BY <1>2, LiveBook
  <2> QED
    BY <1>2, <2>1, LiveBook DEF Lasts
<1>3. ASSUME NEW h \in Clients, Renew(h)
      PROVE  Lasts(v) \/ Renewed(v)
  <2> DEFINE w == calls[h].w
             lease == IF LiveLeases[w] = None THEN NewLease(calls[h])
                      ELSE [LiveLeases[w] EXCEPT !.expires = now + LeaseTTL]
  <2>1. w \in Worlds
    BY <1>3, CallKinds DEF Renew, Publishing
  <2>2. leases' = [LiveLeases EXCEPT ![w] = lease]
    BY <1>3 DEF Renew
  <2>3. lease.expires = now + LeaseTTL
    <3>1. LiveLeases[w] # None => LiveLeases[w] \in Lease
      BY <2>1, LiveBook
    <3> QED
      BY <3>1 DEF NewLease, Lease
  <2> HIDE DEF lease
  <2>4. leases'[v] = IF v = w THEN lease ELSE LiveLeases[v]
    BY <2>1, <2>2, LiveBook
  <2> QED
    BY <1>3, <2>3, <2>4, LiveBook DEF Lasts, Renewed, Renew
<1>4. ASSUME NEW w \in Worlds, NEW who \in Holders, NEW l \in Locators, Revoke(w, who, l)
      PROVE  Lasts(v)
  BY <1>2, <1>4 DEF Revoke
<1>5. ASSUME NEW w \in Worlds, NEW peer \in Peers, RefuseBegin(w, peer)
      PROVE  Lasts(v)
  <2>1. /\ LiveLeases[w] # None /\ LiveLeases[w] \in Lease
        /\ leases' = [LiveLeases EXCEPT ![w] = Restarted(LiveLeases[w])]
    BY <1>5, LiveBook DEF RefuseBegin
  <2> QED
    BY <1>2, <2>1, ExpiresKept
<1>6. ASSUME NEW h \in Clients, NEW w \in Worlds, NEW x \in Attempts, NEW who \in Holders,
             NEW l \in Locators, NEW peer \in Peers, NEW proof \in Proofs,
             Begin(h, w, x, who, l, peer, proof)
      PROVE  Lasts(v)
  <2> DEFINE lease == [Restarted(LiveLeases[w]) EXCEPT !.opened = @ + 1]
  <2>1. LiveLeases[w] # None /\ LiveLeases[w] \in Lease
    BY <1>6, LiveBook DEF Begin, Running
  <2>2. leases' = LiveLeases \/ leases' = [LiveLeases EXCEPT ![w] = lease]
    BY <1>6 DEF Begin
  <2>3. lease.expires = LiveLeases[w].expires
    BY <2>1, ExpiresKept
  <2> HIDE DEF lease
  <2> QED
    BY <1>1, <1>2, <2>1, <2>2, <2>3
<1>7. ASSUME \/ Routine \/ Signalled \/ Denying
             \/ \E h \in Clients : Join(h)
             \/ \E h \in Clients, p \in Principals : Mint(h, p)
      PROVE  leases' \in {leases, LiveLeases}
  BY <1>7 DEF Routine, Signalled, Denying, RevokeRelay, Join, Mint, Entered
<1>8. CASE Restart
  BY <1>8 DEF Restart, Lasts
<1> QED
  BY <1>1, <1>3, <1>4, <1>5, <1>6, <1>7, <1>8, AsideKinds DEF Opening

-----------------------------------------------------------------------------
(* What a step of the server does to the rows, the calls and the leases.    *)
LEMMA StepRows ==
  ASSUME TypeOK, Shared, Held, [AvailNext]_availVars
  PROVE  Rows' /\ \A w \in Worlds : Follows(addresses[w], addresses'[w])
<1>0. addresses' = addresses => \A w \in Worlds : Follows(addresses[w], addresses'[w])
  BY DEF Follows
<1>1. ASSUME NEW h \in Clients, CheckIn(h), SameOwners
      PROVE  \A w \in Worlds : Follows(addresses[w], addresses'[w])
  BY <1>1, CheckInRefines, CheckInRows DEF Shared, TypeOK
<1>2. CASE Listing
  BY <1>2, ListingRows DEF Shared, TypeOK
<1>3. ASSUME \/ Aside /\ UNCHANGED tables
             \/ \E r \in Readers : Online(r) \/ Query(r)
             \/ \E h \in Clients : Claim(h)
             \/ Later
             \/ UNCHANGED availVars
      PROVE  addresses' = addresses
  BY <1>3 DEF Online, Query, Claim, Later, availVars, tables
<1> QED
  BY <1>0, <1>1, <1>2, <1>3, SharedNext DEF AvailNext, Shared

LEMMA StepCalls ==
  ASSUME TypeOK, [AvailNext]_availVars, NEW h \in Clients
  PROVE  calls'[h] = calls[h] \/ calls'[h].op # "renew" \/ (CheckIn(h) /\ SameOwners)
<1>1. ASSUME NEW g \in Clients, CheckIn(g)
      PROVE  calls'[h] = calls[h] \/ h = g
  BY <1>1 DEF CheckIn, TypeOK
<1>2. ASSUME \/ Listing /\ UNCHANGED <<book, minted, calls, opened, readers>>
             \/ \E r \in Readers : Online(r) \/ Query(r)
             \/ \E g \in Clients : Claim(g)
             \/ Later
             \/ UNCHANGED availVars
      PROVE  calls' = calls
  BY <1>2 DEF Online, Query, Claim, Later, Tick, availVars, vars
<1> QED
  BY <1>1, <1>2, AsideCalls DEF AvailNext

LEMMA StepLeases ==
  ASSUME TypeOK, [AvailNext]_availVars, NEW w \in Worlds
  PROVE  Lasts(w) \/ Renewed(w)
<1>1. leases' \in {leases, LiveLeases} => Lasts(w)
  BY LiveBook DEF Lasts
<1>2. ASSUME \/ \E h \in Clients : CheckIn(h) \/ Claim(h)
             \/ Listing /\ UNCHANGED <<book, minted, calls, opened, readers>>
             \/ \E r \in Readers : Online(r) \/ Query(r)
             \/ Later
             \/ UNCHANGED availVars
      PROVE  leases' \in {leases, LiveLeases}
  BY <1>2 DEF CheckIn, Claim, Online, Query, Later, Tick, Entered, availVars, vars, book
<1> QED
  BY <1>1, <1>2, AsideLeases DEF AvailNext

LEMMA StepNow ==
  ASSUME [AvailNext]_availVars
  PROVE  Later \/ now' = now
<1>1. ASSUME NEW h \in Clients, CheckIn(h) \/ Claim(h)
      PROVE  now' = now
  BY <1>1 DEF CheckIn, Claim, vars
<1>2. CASE Listing
  BY <1>2, ListingTouches
<1>3. CASE Aside
  BY <1>3, AsideKeeps
<1>4. ASSUME \/ \E r \in Readers : Online(r) \/ Query(r)
             \/ UNCHANGED availVars
      PROVE  now' = now
  BY <1>4 DEF Online, Query, availVars, vars
<1> QED
  BY <1>1, <1>2, <1>3, <1>4 DEF AvailNext

LEMMA StepReaders ==
  ASSUME Reading, [AvailNext]_availVars
  PROVE  /\ readers' = [r \in Readers |-> readers'[r]]
         /\ \A r \in Readers : readers'[r] \in {readers[r], None} \/ Online(r)
<1>1. CASE readers' = readers
  BY <1>1 DEF Reading
<1>2. ASSUME NEW r \in Readers, Online(r)
      PROVE  /\ readers' = [s \in Readers |-> readers'[s]]
             /\ \A s \in Readers : s # r => readers'[s] = readers[s]
  BY <1>2 DEF Reading, Online
<1>3. ASSUME NEW r \in Readers, Query(r)
      PROVE  /\ readers' = [s \in Readers |-> readers'[s]]
             /\ \A s \in Readers : readers'[s] \in {readers[s], None}
  BY <1>3 DEF Reading, Query
<1> QED
  BY <1>1, <1>2, <1>3 DEF AvailNext, CheckIn, Claim, Later, availVars

(* Evidence of a check-in is never lost.                                    *)
LEMMA CheckedKept ==
  ASSUME TypeOK, Shared, Held, Past, [AvailNext]_availVars, NEW w \in Worlds, NEW t \in Int,
         CheckedBy(w, t)
  PROVE  addresses'[w] # None /\ t <= addresses'[w].checkedIn
<1>1. Follows(addresses[w], addresses'[w])
  BY StepRows
<1>2. addresses[w].checkedIn \in Nat /\ addresses[w].checkedIn <= now /\ now \in Nat
  BY RowFields DEF CheckedBy, Shared, Rows, Past, TypeOK
<1> QED
  BY <1>1, <1>2 DEF Follows, CheckedBy

LEMMA PastNext ==
  ASSUME TypeOK, Shared, Held, Past, [AvailNext]_availVars
  PROVE  Past'
<1>1. now' \in {now, now + 1} /\ now \in Nat
  BY StepNow DEF Later, Tick, TypeOK
<1>2. ASSUME NEW w \in Worlds, addresses'[w] # None
      PROVE  addresses'[w].checkedIn <= now'
  <2>1. Follows(addresses[w], addresses'[w])
    BY StepRows
  <2>2. addresses[w] # None => addresses[w].checkedIn \in Nat /\ addresses[w].checkedIn <= now
    BY RowFields DEF Shared, Rows, Past
  <2> QED
    BY <1>1, <1>2, <2>1, <2>2 DEF Follows
<1> QED
  BY <1>2 DEF Past

LEMMA RenewingNext ==
  ASSUME TypeOK, TypeOK', Shared, Held, Past, Prompt, Renewing, [AvailNext]_availVars
  PROVE  Renewing'
<1> SUFFICES ASSUME NEW h \in Clients, calls'[h].op = "renew"
             PROVE  /\ addresses'[calls'[h].w] # None
                    /\ calls'[h].at <= addresses'[calls'[h].w].checkedIn
  BY DEF Renewing, CheckedBy
<1>1. CASE calls'[h] = calls[h]
  <2>1. calls[h].w \in Worlds /\ calls[h].at \in Int /\ CheckedBy(calls[h].w, calls[h].at)
    BY <1>1, CallKinds DEF Renewing, Publishing
  <2> QED
    BY <1>1, <2>1, CheckedKept
<1>2. CASE CheckIn(h) /\ SameOwners
  <2>1. calls[h] \in Publishing /\ calls[h] # Idle
    BY <1>2, CheckInRefines, CallKinds DEF Idle
  <2>2. calls'[h] = [calls[h] EXCEPT !.op = "renew"]
    BY <1>2 DEF CheckIn, TypeOK
  <2>3. /\ calls'[h].w = calls[h].w /\ calls'[h].at = calls[h].at
        /\ calls[h].w \in Worlds /\ calls[h].who \in Holders
    BY <2>1, <2>2 DEF Publishing
  <2>4. addresses'[calls[h].w] # None /\ addresses'[calls[h].w].checkedIn = now
    BY <1>2, <2>3, CheckInRefines, CheckInRows DEF Shared, TypeOK
  <2> QED
    BY <2>1, <2>3, <2>4 DEF Prompt
<1> QED
  BY <1>1, <1>2, StepCalls

LEMMA LastingNext ==
  ASSUME TypeOK, Shared, Held, Past, Prompt, Renewing, Lasting, [AvailNext]_availVars
  PROVE  Lasting'
<1> SUFFICES ASSUME NEW w \in Worlds, leases'[w] # None
             PROVE  /\ addresses'[w] # None
                    /\ leases'[w].expires - LeaseTTL - 1 <= addresses'[w].checkedIn
  BY DEF Lasting, CheckedBy
<1>1. CASE Lasts(w)
  <2>1. leases[w] # None /\ leases'[w].expires = leases[w].expires
    BY <1>1 DEF Lasts
  <2>2. leases[w].expires \in Nat
    BY <2>1 DEF TypeOK, Lease
  <2>3. leases[w].expires - LeaseTTL - 1 \in Int
    BY <2>2, PeriodsAssumption
  <2>4. CheckedBy(w, leases[w].expires - LeaseTTL - 1)
    BY <2>1 DEF Lasting
  <2> QED
    BY <2>1, <2>3, <2>4, CheckedKept
<1>2. CASE Renewed(w)
  <2>1. PICK h \in Clients : calls[h].op = "renew" /\ calls[h].w = w
    BY <1>2 DEF Renewed
  <2>2. calls[h] # Idle /\ calls[h].at \in Nat /\ CheckedBy(w, calls[h].at)
    BY <2>1, CallKinds DEF Idle, Renewing
  <2>3. addresses'[w] # None /\ calls[h].at <= addresses'[w].checkedIn
    BY <2>2, CheckedKept
  <2>4. now <= calls[h].at + 1 /\ now \in Nat
    BY <2>2 DEF Prompt, TypeOK
  <2>5. leases'[w].expires - LeaseTTL - 1 <= calls[h].at
    BY <1>2, <2>2, <2>4, PeriodsAssumption DEF Renewed
  <2>6. addresses'[w].checkedIn \in Nat
    BY <2>3, RowFields, StepRows DEF Rows
  <2>7. leases'[w].expires - LeaseTTL - 1 \in Int
    BY <1>2, <2>4, PeriodsAssumption DEF Renewed
  <2> QED
    BY <2>2, <2>3, <2>5, <2>6, <2>7
<1> QED
  BY <1>1, <1>2, StepLeases

LEMMA ReadingNext ==
  ASSUME TypeOK, Shared, Held, Past, Lasting, Reading, [AvailNext]_availVars
  PROVE  Reading'
<1>1. ASSUME NEW r \in Readers, readers'[r] # None, readers'[r] = readers[r]
      PROVE  Found(readers[r])'
  <2> DEFINE read == readers[r]
  <2>1. Found(read) /\ read' = read
    BY <1>1 DEF Reading
  <2>2. now' = now \/ (now' = now + 1 /\ read.at = now)
    BY <1>1, StepNow DEF Later, Tick
  <2>3. read.at \in Nat /\ read.at <= now' /\ now' <= read.at + 1
    BY <2>1, <2>2 DEF Found, TypeOK
  <2>4. ASSUME NEW w \in read.seen
        PROVE  addresses'[w] # None /\ read.at - LeaseTTL <= addresses'[w].checkedIn
    <3>1. w \in Worlds /\ read.at - LeaseTTL \in Int /\ CheckedBy(w, read.at - LeaseTTL)
      BY <2>1, PeriodsAssumption DEF Found
    <3> QED
      BY <3>1, CheckedKept
  <2> QED
    BY <2>1, <2>3, <2>4 DEF Found, CheckedBy
<1>2. ASSUME NEW r \in Readers, Online(r)
      PROVE  Found(readers[r])'
  <2> DEFINE seen == {w \in Worlds : LiveLeases[w] # None}
  <2>1. readers'[r] = [at |-> now, seen |-> seen]
    BY <1>2 DEF Reading, Online
  <2>2. now' = now /\ addresses' = addresses /\ now \in Nat
    BY <1>2 DEF Online, tables, TypeOK
  <2>3. ASSUME NEW w \in seen
        PROVE  CheckedBy(w, now - LeaseTTL)
    <3>1. leases[w] # None /\ leases[w].expires > now /\ leases[w].expires \in Nat
      BY DEF LiveLeases, TypeOK, Lease
    <3>2. CheckedBy(w, leases[w].expires - LeaseTTL - 1)
      BY <3>1 DEF Lasting
    <3>3. addresses[w].checkedIn \in Nat
      BY <3>2, RowFields DEF CheckedBy, Shared, Rows
    <3> QED
      BY <2>2, <3>1, <3>2, <3>3, PeriodsAssumption DEF CheckedBy
  <2> HIDE DEF seen
  <2>4. seen \subseteq Worlds
    BY DEF seen
  <2> QED
    BY <2>1, <2>2, <2>3, <2>4 DEF Found, CheckedBy
<1> QED
  BY <1>1, <1>2, StepReaders DEF Reading

LEMMA FreshAlways == AvailSpec => [](TypeOK /\ Shared /\ Fresh)
<1>1. AvailInit => Fresh
  BY DEF AvailInit, Init, Dir!Init, Fresh, Past, Prompt, Renewing, Lasting, Reading, Idle
<1>2. ASSUME TypeOK, Shared, Held, Fresh, [AvailNext]_availVars
      PROVE  Fresh'
  <2>1. [Next]_vars /\ TypeOK'
    BY <1>2, SharedNext, NextType
  <2> QED
    BY <1>2, <2>1, PastNext, PromptNext, RenewingNext, LastingNext, ReadingNext DEF Fresh
<1> QED
  BY <1>1, <1>2, SharedAlways, PTL DEF AvailSpec

(* What a reader finds online has checked in, whatever ran between.         *)
THEOREM OnlineAlwaysFresh == AvailSpec => []OnlineFresh
<1>1. ASSUME TypeOK, Shared, Fresh
      PROVE  OnlineFresh
  <2> SUFFICES ASSUME NEW r \in Readers, readers[r] # None, NEW w \in readers[r].seen
               PROVE  /\ addresses[w] # None
                      /\ addresses[w].checkedIn + LeaseTTL + 1 >= now
                      /\ addresses[w].listing # None /\ ~addresses[w].hidden => Dir!Visible(w)
    BY DEF OnlineFresh
  <2>1. /\ readers[r].at \in Nat /\ now <= readers[r].at + 1 /\ w \in Worlds
        /\ CheckedBy(w, readers[r].at - LeaseTTL)
    BY <1>1 DEF Fresh, Reading, Found
  <2>2. addresses[w] # None /\ addresses[w].checkedIn \in Nat /\ now \in Nat
    BY <1>1, <2>1, RowFields DEF CheckedBy, Shared, Rows, TypeOK
  <2>3. addresses[w].checkedIn + LeaseTTL + 1 >= now
    BY <2>1, <2>2, PeriodsAssumption DEF CheckedBy
  <2>4. addresses[w].checkedIn + Staleness > now
    BY <2>2, <2>3, PeriodsAssumption, TablesAssumption
  <2> QED
    BY <2>2, <2>3, <2>4 DEF Dir!Visible
<1> QED
  BY <1>1, FreshAlways, PTL

=============================================================================
