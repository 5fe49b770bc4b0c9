----------------------------- MODULE Availability -----------------------------
(***************************************************************************)
(* What the directory calls online: private setup (SetupBook) and the      *)
(* directory's tables (Directory) in one server, and the readers of the    *)
(* directory.  The two share the clock and the durable reservation of an   *)
(* address, which either makes.  Setup's `publish` writes the tables by a  *)
(* transaction of its own, translated here statement by statement: it is   *)
(* open for a while, the directory's handlers wait for its row, and a call *)
(* that is cut in between rolls it back.  A reader takes the Worlds that   *)
(* run from the book (`Availability::online`) and then queries the tables, *)
(* and the book and the tables may change in between.                      *)
(***************************************************************************)
EXTENDS SetupBook

CONSTANTS
  Operations, Reports, Reporters, MaxSeats, MaxRevision,  \* as in Directory
  Staleness,       \* how long a check-in lasts: 30 days
  Readers          \* concurrent calls of read and browse

VARIABLES
  addresses, operations, reports,  \* the tables of Directory
  opened,                          \* the open transactions of setup's publish
  readers                          \* the readers between online() and their query

Dir == INSTANCE Directory WITH Administrators <- Holders

(* Directory's assumptions, and that 30 days are more than 45 seconds.      *)
ASSUME TablesAssumption ==
  /\ MaxSeats \in Nat \ {0} /\ MaxRevision \in Nat \ {0}
  /\ None \notin Dir!Address
  /\ Staleness \in Nat /\ Staleness > LeaseTTL + 1

tables == <<addresses, operations, reports>>

availVars == <<vars, tables, opened, readers>>

AvailInit ==
  /\ Init /\ Dir!Init
  /\ opened = [h \in Clients |-> "no"]
  /\ readers = [r \in Readers |-> None]

-----------------------------------------------------------------------------
(* What the tables say of who administers a World, which is what setup      *)
(* finds in them.                                                           *)
Owner(row) == IF row = None THEN None ELSE row.owner

SameOwners == owners' = [w \in Worlds |-> Owner(addresses'[w])]

(* A transaction that has the row of a World, by an INSERT or a SELECT FOR  *)
(* UPDATE, keeps every other writer of it waiting.                          *)
Locked(w) == \E h \in Clients : opened[h] # "no" /\ calls[h].w = w

(* The transaction of setup's publish begins: INSERT ON CONFLICT DO         *)
(* NOTHING, SELECT FOR UPDATE and the comparison of the administrators.     *)
(* Nobody sees the inserted row until the commit.                           *)
Claim(h) ==
  /\ calls[h].op = "reserve" /\ opened[h] = "no"
  /\ ~Locked(calls[h].w)
  /\ Owner(addresses[calls[h].w]) \in {None, calls[h].who}
  /\ opened' = [opened EXCEPT ![h] =
       IF addresses[calls[h].w] = None THEN "inserted" ELSE "found"]
  /\ UNCHANGED <<vars, tables, readers>>

(* Mutant: only the first start of a World checks in.                       *)
CheckIn_First(h) ==
  /\ opened[h] # "no"
  /\ addresses' = [addresses EXCEPT ![calls[h].w] =
       IF opened[h] = "inserted" THEN Dir!Reserved(calls[h].who) ELSE @]
  /\ opened' = [opened EXCEPT ![h] = "no"]
  /\ calls' = [calls EXCEPT ![h].op = "renew"]
  /\ UNCHANGED <<operations, reports, book, minted, now, readers>>

(* Mutant: the check-in is dated at the start of its call.                  *)
CheckIn_Early(h) ==
  /\ opened[h] # "no"
  /\ addresses' = [addresses EXCEPT ![calls[h].w] =
       [IF opened[h] = "inserted" THEN Dir!Reserved(calls[h].who) ELSE @
          EXCEPT !.checkedIn = calls[h].at]]
  /\ opened' = [opened EXCEPT ![h] = "no"]
  /\ calls' = [calls EXCEPT ![h].op = "renew"]
  /\ UNCHANGED <<operations, reports, book, minted, now, readers>>

(* It ends: UPDATE of checked_in_at, with the clock of then, and COMMIT.    *)
CheckIn(h) ==
  /\ opened[h] # "no"
  /\ addresses' = [addresses EXCEPT ![calls[h].w] =
       [IF opened[h] = "inserted" THEN Dir!Reserved(calls[h].who) ELSE @
          EXCEPT !.checkedIn = now]]
  /\ opened' = [opened EXCEPT ![h] = "no"]
  /\ calls' = [calls EXCEPT ![h].op = "renew"]
  /\ UNCHANGED <<operations, reports, book, minted, now, readers>>

(* What the directory's own handlers do once the row is free; a publication *)
(* may be the first to reserve its address.                                 *)
Listing ==
  \/ \E w \in Worlds :
       /\ ~Locked(w)
       /\ \/ \E a \in Holders, o \in Operations, e \in 0 .. MaxRevision,
                l \in Dir!Listings, c \in Dir!Capacity : Dir!Publish(w, a, o, e, l, c)
          \/ \E a \in Holders, e \in 0 .. MaxRevision, c \in Dir!Capacity,
                remove \in BOOLEAN : Dir!UpdateCapacity(w, a, e, c, remove)
          \/ \E r \in Reports, p \in Holders \cup Reporters, q \in BOOLEAN :
                Dir!SendReport(w, r, p, q)
          \/ \E hidden \in BOOLEAN : Dir!Moderate(w, hidden)
  \/ Dir!PurgeReports

(* What private setup does to its book alone.                               *)
Aside ==
  \/ \E h \in Clients :
       \/ \E w \in Worlds, who \in Holders, l \in Locators : Publish(h, w, who, l)
       \/ Renew(h) \/ Drop(h)
  \/ \E w \in Worlds, who \in Holders, l \in Locators : Revoke(w, who, l)
  \/ Signalling \/ Relaying \/ Sweep \/ Restart

(* A call that is cut, and the end of the process, roll back.               *)
RollBack ==
  opened' = [h \in Clients |-> IF calls'[h] = calls[h] THEN opened[h] ELSE "no"]

(* read and browse: the leases that run, and later the query.               *)
Online(r) ==
  /\ readers[r] = None
  /\ Entered
  /\ readers' = [readers EXCEPT ![r] =
       [at |-> now, seen |-> {w \in Worlds : LiveLeases[w] # None}]]
  /\ UNCHANGED <<owners, window, minted, calls, now, tables, opened>>

Query(r) ==
  /\ readers[r] # None
  /\ readers' = [readers EXCEPT ![r] = None]
  /\ UNCHANGED <<vars, tables, opened>>

(* A read is cut after 15 s like every call.                                *)
Later ==
  /\ \A r \in Readers : readers[r] # None => readers[r].at = now
  /\ Tick
  /\ UNCHANGED <<tables, opened, readers>>

AvailNext ==
  \/ \E h \in Clients : Claim(h) \/ (CheckIn(h) /\ SameOwners)
  \/ Listing /\ SameOwners /\ UNCHANGED <<book, minted, calls, opened, readers>>
  \/ Aside /\ RollBack /\ UNCHANGED <<tables, readers>>
  \/ \E r \in Readers : Online(r) \/ Query(r)
  \/ Later

AvailSpec == AvailInit /\ [][AvailNext]_availVars

-----------------------------------------------------------------------------
(* A World that a reader finds running has checked in within a lease and    *)
(* the length of a call, whatever happened to it between the two reads: so  *)
(* what an entry says of it agrees with its being online, and while it is   *)
(* listed and not hidden it is never left out for want of a check-in.       *)
OnlineFresh ==
  \A r \in Readers : readers[r] # None =>
    \A w \in readers[r].seen :
      /\ addresses[w] # None
      /\ addresses[w].checkedIn + LeaseTTL + 1 >= now
      /\ addresses[w].listing # None /\ ~addresses[w].hidden => Dir!Visible(w)

(* The tables change as Directory specifies, although setup's transaction   *)
(* has its statements apart, with the directory's handlers, other starts,   *)
(* time, cut calls and restarts in between: it is one check-in at the time  *)
(* of its commit, of a row it has not otherwise changed, or nothing.        *)
ImplementsDirectory == Dir!Spec

=============================================================================
