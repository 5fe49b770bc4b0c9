------------------------------ MODULE SetupBook ------------------------------
(***************************************************************************)
(* Private setup (src/src/setup.rs): the book of availability leases,      *)
(* connection attempts and relay grants that introduces a player to a      *)
(* running World.  The book is volatile and lives behind one mutex; every  *)
(* handler is a few critical sections, each of which begins by dropping    *)
(* what has expired (`enter`).  Between its sections a call waits for      *)
(* PostgreSQL (publish), for the task that issues its credential           *)
(* (issue_ice) or for the TURN provider (revoke_relay), and every other    *)
(* call may have its sections there.                                       *)
(*                                                                         *)
(* Abstractions.  A World and its address are one element of Worlds; a     *)
(* bearer capability and its digest are one.  A section takes place at one *)
(* instant.  The order of candidates is left out.  A refusal, the 15 s     *)
(* timeout and a disconnection end a call with no further effect: all are  *)
(* the action Drop, possible at every step, so the limits per second and   *)
(* per call are in it too.  Handlers with one section are one action; what *)
(* only reads the book is Sweep.                                           *)
(***************************************************************************)
EXTENDS Integers, FiniteSets

CONSTANTS
  Worlds,          \* (world_id, world_address) pairs
  Holders,         \* digests of bearer capabilities
  Locators,        \* identities of a World's running lifetimes
  Attempts,        \* attempt identifiers, chosen by the clients
  Peers,           \* peer_id
  Proofs,          \* control proofs
  Sdps,            \* session descriptions
  Candidates,      \* ICE candidates
  Principals,      \* identities of issued credentials
  Clients,         \* concurrent HTTP calls
  None,
  Revocable,       \* whether the TURN provider can revoke: Cloudflare, not coturn
  LeaseTTL,        \* 30 s
  AttemptTTL,      \* 60 s
  GrantTTL,        \* 300 .. 86400 s
  Window,          \* of the limits on openings and issuances: 60 s
  MaxLeases,       \* 512
  MaxAttempts,     \* pending attempts per lease: 8
  MaxOpened,       \* attempts opened per lease and window: 16
  MaxGrants,       \* 1024
  MaxWorldGrants,  \* 128
  MaxIssued,       \* issuances per window: 64
  MaxCandidates,   \* 32
  MaxAccess,       \* operations of a client on its attempt: 150
  MaxTime          \* bound of the checked runs: where the clock stops

(* A call and an issuance take at most one unit of the clock (see Tick).    *)
ASSUME PeriodsAssumption ==
  /\ LeaseTTL \in Nat \ {0} /\ AttemptTTL \in Nat \ {0} /\ Window \in Nat \ {0}
  /\ GrantTTL \in Nat /\ GrantTTL > 1

ASSUME LimitsAssumption ==
  /\ MaxLeases \in Nat /\ MaxAttempts \in Nat /\ MaxOpened \in Nat /\ MaxGrants \in Nat
  /\ MaxWorldGrants \in Nat /\ MaxIssued \in Nat /\ MaxCandidates \in Nat
  /\ MaxAccess \in Nat \ {0} /\ MaxTime \in Nat
  /\ Revocable \in BOOLEAN

Keys == Worlds \X Attempts \X BOOLEAN

(* A description: `repeats` counts the duplicates in its list.              *)
Description ==
  {d \in [sdp : Sdps, candidates : SUBSET Candidates, repeats : 0 .. MaxCandidates] :
     /\ Cardinality(d.candidates) + d.repeats <= MaxCandidates
     /\ d.candidates = {} => d.repeats = 0}

Lease == [locator : Locators, admin : Holders, expires : Nat, opened : Nat, since : Nat]

Attempt ==
  [client : Holders, peer : Peers, proof : Proofs, offer : Description \cup {None},
   answer : Description \cup {None}, expires : Nat, requests : Nat, relayRevoked : BOOLEAN]

Grant ==
  [digest : Holders, admin : Holders, expires : Nat, revoked : BOOLEAN,
   revokeAll : BOOLEAN, principal : Principals]

(* One issuance: its task, and then the credential at the provider.  `key`  *)
(* and `until`, the deadline of its grant, are not in the code; they record *)
(* what it was minted for.  `ends` is when the credential itself ends: its  *)
(* life is counted later than that of its grant, by the task or, for        *)
(* Cloudflare, by the provider.                                             *)
States == {"unused", "running", "failed", "issued", "revoked"}

Issuance == [state : States, key : Keys \cup {None}, until : Nat, ends : Nat]

Unused == [state |-> "unused", key |-> None, until |-> 0, ends |-> 0]

Idle == [op |-> "idle", at |-> 0]

Publishing == [op : {"reserve", "renew"}, at : Nat, w : Worlds, who : Holders, locator : Locators]

Entering == [op : {"grant"}, at : Nat, key : Keys, who : Holders]

Awaiting == [op : {"await"}, at : Nat, key : Keys, principal : Principals]

Revoking == [op : {"revoke"}, at : Nat, left : [BOOLEAN -> Principals \cup {None}]]

Call == {Idle} \cup Publishing \cup Entering \cup Awaiting \cup Revoking

ASSUME NoneAssumption ==
  None \notin Lease \cup Attempt \cup Grant \cup Description \cup Keys
              \cup Holders \cup Principals

VARIABLES
  owners,    \* administrator_digest of the durable table world_addresses
  leases,    \* the book, by World
  attempts,  \* the attempts of each lease
  grants,    \* the relay grants, by attempt and side (TRUE: the host's)
  window,    \* issuances since the start of the current window
  minted,    \* the issuances, by principal
  calls,     \* the calls between two of their sections
  now

book == <<leases, attempts, grants, window>>

vars == <<owners, leases, attempts, grants, window, minted, calls, now>>

-----------------------------------------------------------------------------
(* Mutant: grants are not expired.                                          *)
LiveGrants_Kept == grants

(* Book::expire: what is left of the book when a section enters.            *)
LiveLeases ==
  [w \in Worlds |-> IF leases[w] # None /\ leases[w].expires > now THEN leases[w] ELSE None]

LiveAttempts ==
  [w \in Worlds |-> [x \in Attempts |->
     IF LiveLeases[w] # None /\ attempts[w][x] # None /\ attempts[w][x].expires > now
       THEN attempts[w][x] ELSE None]]

(* Mutant: a grant goes with its attempt.                                   *)
LiveGrants_WithAttempt ==
  [k \in Keys |->
     IF grants[k] # None /\ grants[k].expires > now /\ LiveAttempts[k[1]][k[2]] # None
       THEN grants[k] ELSE None]

LiveGrants ==
  [k \in Keys |-> IF grants[k] # None /\ grants[k].expires > now THEN grants[k] ELSE None]

Running(w, locator) == LiveLeases[w] # None /\ LiveLeases[w].locator = locator

Known(f) == {x \in DOMAIN f : f[x] # None}

Init ==
  /\ owners = [w \in Worlds |-> None]
  /\ leases = [w \in Worlds |-> None]
  /\ attempts = [w \in Worlds |-> [x \in Attempts |-> None]]
  /\ grants = [k \in Keys |-> None]
  /\ window = [issued |-> 0, since |-> 0]
  /\ minted = [p \in Principals |-> Unused]
  /\ calls = [h \in Clients |-> Idle]
  /\ now = 0

(* A section that finds nothing to do, and the sweep every five seconds.    *)
Entered == leases' = LiveLeases /\ attempts' = LiveAttempts /\ grants' = LiveGrants

Sweep ==
  /\ Entered
  /\ UNCHANGED <<owners, window, minted, calls, now>>

Drop(h) ==
  /\ calls[h] # Idle
  /\ calls' = [calls EXCEPT ![h] = Idle]
  /\ UNCHANGED <<owners, book, minted, now>>

-----------------------------------------------------------------------------
(* publish: a section for the rate limit, the reservation of the address in *)
(* the database, and a section that starts or renews the lease.             *)
Publish(h, w, who, locator) ==
  /\ calls[h] = Idle
  /\ calls' = [calls EXCEPT ![h] =
       [op |-> "reserve", at |-> now, w |-> w, who |-> who, locator |-> locator]]
  /\ Entered
  /\ UNCHANGED <<owners, window, minted, now>>

(* Mutant: the transaction does not compare the administrators.             *)
Reserve_Anyone(h) ==
  /\ calls[h].op = "reserve"
  /\ LET call == calls[h]
     IN  owners' = [owners EXCEPT ![call.w] = IF @ = None THEN call.who ELSE @]
  /\ calls' = [calls EXCEPT ![h].op = "renew"]
  /\ UNCHANGED <<book, minted, now>>

Reserve(h) ==
  /\ calls[h].op = "reserve"
  /\ LET call == calls[h]
     IN  /\ owners[call.w] \in {None, call.who}
         /\ owners' = [owners EXCEPT ![call.w] = call.who]
  /\ calls' = [calls EXCEPT ![h].op = "renew"]
  /\ UNCHANGED <<book, minted, now>>

(* directory::publish reserves an address by the same statement.            *)
Reservation(w, who) ==
  /\ owners[w] = None
  /\ owners' = [owners EXCEPT ![w] = who]
  /\ UNCHANGED <<book, minted, calls, now>>

NewLease(call) ==
  [locator |-> call.locator, admin |-> call.who, expires |-> now + LeaseTTL,
   opened |-> 0, since |-> now]

(* Mutant: a limit off by one.                                              *)
LeaseRoom_OneMore == Cardinality(Known(LiveLeases)) <= MaxLeases

LeaseRoom == Cardinality(Known(LiveLeases)) < MaxLeases

Renew(h) ==
  /\ calls[h].op = "renew"
  /\ LET call == calls[h]
     IN
     /\ LiveLeases[call.w] = None => LeaseRoom
     /\ LiveLeases[call.w] # None => Running(call.w, call.locator)
     /\ leases' = [LiveLeases EXCEPT ![call.w] =
          IF @ = None THEN NewLease(call) ELSE [@ EXCEPT !.expires = now + LeaseTTL]]
  /\ attempts' = LiveAttempts /\ grants' = LiveGrants
  /\ calls' = [calls EXCEPT ![h] = Idle]
  /\ UNCHANGED <<owners, window, minted, now>>

(* The administrator stops a lifetime; without a lease this is Sweep.       *)
Revoke(w, who, locator) ==
  /\ Running(w, locator) /\ LiveLeases[w].admin = who
  /\ leases' = [LiveLeases EXCEPT ![w] = None]
  /\ attempts' = [LiveAttempts EXCEPT ![w] = [x \in Attempts |-> None]]
  /\ grants' = LiveGrants
  /\ UNCHANGED <<owners, window, minted, calls, now>>

-----------------------------------------------------------------------------
(* Attempt::access: a client's operation on its attempt.                    *)
Accessible(a, who) == a # None /\ a.client = who /\ a.requests < MaxAccess

Access(a) == [a EXCEPT !.requests = @ + 1]

(* The windows of a minute restart with the first section that finds them   *)
(* over, even when it then refuses.                                         *)
Restarted(lease) ==
  IF now - lease.since >= Window THEN [lease EXCEPT !.opened = 0, !.since = now] ELSE lease

RestartedWindow ==
  IF now - window.since >= Window THEN [issued |-> 0, since |-> now] ELSE window

NewAttempt(who, peer, proof) ==
  [client |-> who, peer |-> peer, proof |-> proof, offer |-> None, answer |-> None,
   expires |-> now + AttemptTTL, requests |-> 1, relayRevoked |-> FALSE]

(* Mutant: two attempts may claim one peer.                                 *)
PeerFree_Always(w, peer) == w \in Worlds /\ peer \in Peers

PeerFree(w, peer) == \A x \in Known(LiveAttempts[w]) : LiveAttempts[w][x].peer # peer

(* begin, first section: open the attempt, or recognise its retry.          *)
Begin(h, w, x, who, locator, peer, proof) ==
  /\ calls[h] = Idle
  /\ Running(w, locator)
  /\ LET lease == Restarted(LiveLeases[w])
         old == LiveAttempts[w][x]
     IN
     \/ /\ Accessible(old, who) /\ old.peer = peer /\ old.proof = proof
        /\ leases' = LiveLeases
        /\ attempts' = [LiveAttempts EXCEPT ![w][x] = Access(old)]
     \/ /\ old = None
        /\ Cardinality(Known(LiveAttempts[w])) < MaxAttempts /\ lease.opened < MaxOpened
        /\ PeerFree(w, peer)
        /\ leases' = [LiveLeases EXCEPT ![w] = [lease EXCEPT !.opened = @ + 1]]
        /\ attempts' = [LiveAttempts EXCEPT ![w][x] = NewAttempt(who, peer, proof)]
  /\ grants' = LiveGrants
  /\ calls' = [calls EXCEPT ![h] =
       [op |-> "grant", at |-> now, key |-> <<w, x, FALSE>>, who |-> who]]
  /\ UNCHANGED <<owners, window, minted, now>>

(* A fresh attempt that is refused: too many, or its peer is taken.         *)
RefuseBegin(w, peer) ==
  /\ LiveLeases[w] # None
  /\ LET lease == Restarted(LiveLeases[w])
     IN
     /\ \/ Cardinality(Known(LiveAttempts[w])) >= MaxAttempts
        \/ lease.opened >= MaxOpened
        \/ ~PeerFree(w, peer)
     /\ leases' = [LiveLeases EXCEPT ![w] = lease]
  /\ attempts' = LiveAttempts /\ grants' = LiveGrants
  /\ UNCHANGED <<owners, window, minted, calls, now>>

(* host_ice, first section.                                                 *)
HostIce(h, w, x, who, locator) ==
  /\ calls[h] = Idle
  /\ Running(w, locator) /\ LiveLeases[w].admin = who
  /\ LiveAttempts[w][x] # None
  /\ Entered
  /\ calls' = [calls EXCEPT ![h] =
       [op |-> "grant", at |-> now, key |-> <<w, x, TRUE>>, who |-> who]]
  /\ UNCHANGED <<owners, window, minted, now>>

(* Mutant: only the side that asks is looked at.                            *)
Grantable_OwnSide(k) ==
  /\ LiveAttempts[k[1]][k[2]] # None
  /\ ~LiveAttempts[k[1]][k[2]].relayRevoked
  /\ LiveGrants[k] # None => ~LiveGrants[k].revokeAll

(* issue_ice: what stands against any credential for an attempt.            *)
Grantable(k) ==
  /\ LiveAttempts[k[1]][k[2]] # None
  /\ ~LiveAttempts[k[1]][k[2]].relayRevoked
  /\ \A side \in BOOLEAN :
       LET g == LiveGrants[<<k[1], k[2], side>>] IN g # None => ~g.revokeAll

Roomy(w) ==
  /\ Cardinality(Known(LiveGrants)) < MaxGrants
  /\ RestartedWindow.issued < MaxIssued
  /\ Cardinality({k \in Known(LiveGrants) : k[1] = w}) < MaxWorldGrants

(* Mutant: an issuance is not counted.                                      *)
Counted_Not == RestartedWindow

Counted == [RestartedWindow EXCEPT !.issued = @ + 1]

Await(h, k, p) ==
  calls' = [calls EXCEPT ![h] = [op |-> "await", at |-> calls[h].at, key |-> k, principal |-> p]]

(* Mutant: a grant that does not remember its administrator.                *)
NewGrant_NoAdmin(k, who, p) ==
  [digest |-> who, admin |-> None, expires |-> now + GrantTTL,
   revoked |-> k \notin Keys, revokeAll |-> FALSE, principal |-> p]

NewGrant(k, who, p) ==
  [digest |-> who, admin |-> LiveLeases[k[1]].admin, expires |-> now + GrantTTL,
   revoked |-> FALSE, revokeAll |-> FALSE, principal |-> p]

(* issue_ice, first section.  The call that finds no grant starts the one   *)
(* issuance; it runs on whatever becomes of the call.                       *)
Mint(h, p) ==
  /\ calls[h].op = "grant"
  /\ LET k == calls[h].key
     IN
     /\ Grantable(k) /\ LiveGrants[k] = None /\ Roomy(k[1])
     /\ minted[p].state = "unused"
     /\ grants' = [LiveGrants EXCEPT ![k] = NewGrant(k, calls[h].who, p)]
     /\ minted' = [minted EXCEPT ![p] =
          [state |-> "running", key |-> k, until |-> now + GrantTTL, ends |-> 0]]
     /\ Await(h, k, p)
  /\ window' = Counted
  /\ leases' = LiveLeases /\ attempts' = LiveAttempts
  /\ UNCHANGED <<owners, now>>

(* The next call finds the grant and waits for the same result.             *)
Join(h) ==
  /\ calls[h].op = "grant"
  /\ LET k == calls[h].key
     IN
     /\ Grantable(k) /\ LiveGrants[k] # None
     /\ LiveGrants[k].digest = calls[h].who /\ ~LiveGrants[k].revoked
     /\ Await(h, k, LiveGrants[k].principal)
  /\ Entered
  /\ UNCHANGED <<owners, window, minted, now>>

(* A grant that is refused for want of room.                                *)
RefuseGrant(h) ==
  /\ calls[h].op = "grant"
  /\ Grantable(calls[h].key) /\ LiveGrants[calls[h].key] = None
  /\ ~Roomy(calls[h].key[1])
  /\ window' = RestartedWindow
  /\ Entered
  /\ calls' = [calls EXCEPT ![h] = Idle]
  /\ UNCHANGED <<owners, minted, now>>

(* The task of an issuance ends: the provider answers within 5 seconds, or  *)
(* the issuance fails.  The credential's life began at some instant of the  *)
(* task.                                                                    *)
Issued(p, state) ==
  /\ minted[p].state = "running"
  /\ \E t \in minted[p].until .. now + GrantTTL :
       minted' = [minted EXCEPT ![p].state = state,
                                ![p].ends = IF state = "issued" THEN t ELSE 0]
  /\ UNCHANGED <<owners, book, calls, now>>

(* Mutant: the answer is not checked again after the wait.                  *)
Disclosable_Unchecked(k) == LiveAttempts[k[1]][k[2]] # None

Disclosable(k) ==
  /\ LiveGrants[k] # None /\ ~LiveGrants[k].revoked
  /\ LiveAttempts[k[1]][k[2]] # None

(* issue_ice, last section: the credential is handed out.                   *)
Disclose(h) ==
  /\ calls[h].op = "await"
  /\ minted[calls[h].principal].state \in {"issued", "revoked"}
  /\ Disclosable(calls[h].key)
  /\ Entered
  /\ calls' = [calls EXCEPT ![h] = Idle]
  /\ UNCHANGED <<owners, window, minted, now>>

-----------------------------------------------------------------------------
(* Mutant: whoever asks is obeyed.                                          *)
Mine_Anyone(g, who) == g # None /\ who \in Holders

(* revoke_relay, first section: deny further issuance.                      *)
Mine(g, who) == g # None /\ (g.digest = who \/ g.admin = who)

RevokeRelay(h, w, x, who) ==
  LET Side(host) == LiveGrants[<<w, x, host>>]
      attempt == LiveAttempts[w][x]
  IN
  /\ calls[h] = Idle
  /\ leases' = LiveLeases
  /\ attempts' = [LiveAttempts EXCEPT ![w][x] =
       IF attempt # None /\ LiveLeases[w].admin = who
         THEN [attempt EXCEPT !.relayRevoked = TRUE] ELSE attempt]
  /\ IF Side(FALSE) # None /\ ~Mine(Side(FALSE), who)
       THEN grants' = LiveGrants /\ UNCHANGED calls
       ELSE /\ grants' = [k \in Keys |->
                 IF k[1] = w /\ k[2] = x /\ Mine(LiveGrants[k], who)
                   THEN [LiveGrants[k] EXCEPT !.revoked = TRUE,
                                              !.revokeAll = @ \/ LiveGrants[k].admin = who]
                   ELSE LiveGrants[k]]
            /\ calls' = [calls EXCEPT ![h] =
                 [op |-> "revoke", at |-> now,
                  left |-> [host \in BOOLEAN |->
                    IF Mine(Side(host), who) THEN Side(host).principal ELSE None]]]
  /\ UNCHANGED <<owners, window, minted, now>>

(* Then, the client's side first, wait for each issuance and revoke its     *)
(* credential; the first failure of the provider ends the call (Drop).      *)
RevokeNext(h, host) ==
  /\ calls[h].op = "revoke"
  /\ host => calls[h].left[FALSE] = None
  /\ LET p == calls[h].left[host]
     IN
     /\ p # None /\ minted[p].state # "running"
     /\ minted' = [minted EXCEPT ![p].state =
          IF @ = "issued" /\ Revocable THEN "revoked" ELSE @]
  /\ calls' = [calls EXCEPT ![h].left[host] = None]
  /\ UNCHANGED <<owners, book, now>>

RelayRevoked(h) ==
  /\ calls[h].op = "revoke"
  /\ \A host \in BOOLEAN : calls[h].left[host] = None
  /\ calls' = [calls EXCEPT ![h] = Idle]
  /\ UNCHANGED <<owners, book, minted, now>>

-----------------------------------------------------------------------------
(* Mutant: the candidates of a retry replace those sent before.             *)
Merged_Replaces(old, d) == IF old = None THEN d ELSE [old EXCEPT !.candidates = d.candidates]

(* merge_candidates, on what is kept of the same description: the first     *)
(* list is stored as it comes, with its duplicates, and later lists add     *)
(* what is new.                                                             *)
Merged(old, d) ==
  IF old = None THEN d ELSE [old EXCEPT !.candidates = @ \cup d.candidates]

Mergeable(old, d) ==
  old # None => /\ old.sdp = d.sdp
                /\ Merged(old, d) \in Description

SetAttempt(w, x, a) ==
  /\ leases' = LiveLeases /\ grants' = LiveGrants
  /\ attempts' = [LiveAttempts EXCEPT ![w][x] = a]
  /\ UNCHANGED <<owners, window, minted, calls, now>>

Offer(w, x, who, locator, peer, proof, d) ==
  LET a == LiveAttempts[w][x]
  IN  /\ Running(w, locator) /\ Accessible(a, who)
      /\ a.peer = peer /\ a.proof = proof
      /\ Mergeable(a.offer, d)
      /\ SetAttempt(w, x, [Access(a) EXCEPT !.offer = Merged(a.offer, d)])

Answer(w, x, who, locator, d) ==
  LET a == LiveAttempts[w][x]
  IN  /\ Running(w, locator) /\ LiveLeases[w].admin = who
      /\ a # None
      /\ Mergeable(a.answer, d)
      /\ SetAttempt(w, x, [a EXCEPT !.answer = Merged(a.answer, d)])

(* The client polls; a refused retry of begin or offer counts the same.     *)
Read(w, x, who) ==
  /\ Accessible(LiveAttempts[w][x], who)
  /\ SetAttempt(w, x, Access(LiveAttempts[w][x]))

Remove(w, x, who) ==
  LET a == LiveAttempts[w][x]
  IN  /\ LiveLeases[w] # None
      /\ a # None
      /\ LiveLeases[w].admin = who \/ Accessible(a, who)
      /\ SetAttempt(w, x, None)

-----------------------------------------------------------------------------
(* The process restarts: the book, the calls and the running tasks are      *)
(* gone; the reservations and the issued credentials are not.               *)
Restart ==
  /\ leases' = [w \in Worlds |-> None]
  /\ attempts' = [w \in Worlds |-> [x \in Attempts |-> None]]
  /\ grants' = [k \in Keys |-> None]
  /\ window' = [issued |-> 0, since |-> now]
  /\ minted' = [p \in Principals |->
       [minted[p] EXCEPT !.key = None, !.state = IF @ = "running" THEN "failed" ELSE @]]
  /\ calls' = [h \in Clients |-> Idle]
  /\ UNCHANGED <<owners, now>>

(* A call is cut after 15 s and an issuance after 5 s, so each sees the     *)
(* clock of the model move at most once.                                    *)
Tick ==
  /\ now < MaxTime
  /\ \A h \in Clients : calls[h] # Idle => calls[h].at = now
  /\ \A p \in Principals : minted[p].state = "running" => minted[p].until = now + GrantTTL
  /\ now' = now + 1
  /\ UNCHANGED <<owners, book, minted, calls>>

Publication ==
  \/ \E h \in Clients, w \in Worlds, who \in Holders, l \in Locators : Publish(h, w, who, l)
  \/ \E h \in Clients : Reserve(h) \/ Renew(h)
  \/ \E w \in Worlds, who \in Holders :
       Reservation(w, who) \/ \E l \in Locators : Revoke(w, who, l)

Signalling ==
  \E w \in Worlds, x \in Attempts, who \in Holders :
    \/ \E l \in Locators, peer \in Peers, proof \in Proofs, d \in Description :
         Offer(w, x, who, l, peer, proof, d)
    \/ \E l \in Locators, d \in Description : Answer(w, x, who, l, d)
    \/ Read(w, x, who)
    \/ Remove(w, x, who)

Relaying ==
  \/ \E h \in Clients, w \in Worlds, x \in Attempts, who \in Holders :
       \/ \E l \in Locators, peer \in Peers, proof \in Proofs :
            Begin(h, w, x, who, l, peer, proof)
       \/ \E l \in Locators : HostIce(h, w, x, who, l)
       \/ RevokeRelay(h, w, x, who)
  \/ \E w \in Worlds, peer \in Peers : RefuseBegin(w, peer)
  \/ \E h \in Clients :
       \/ \E p \in Principals : Mint(h, p)
       \/ Join(h) \/ RefuseGrant(h) \/ Disclose(h) \/ RelayRevoked(h)
       \/ \E host \in BOOLEAN : RevokeNext(h, host)
  \/ \E p \in Principals, state \in {"issued", "failed"} : Issued(p, state)

Next ==
  \/ Publication
  \/ Signalling
  \/ Relaying
  \/ Sweep
  \/ \E h \in Clients : Drop(h)
  \/ Restart
  \/ Tick

Spec == Init /\ [][Next]_vars

(* Time passes, the sweep runs every five seconds, and the server cuts off  *)
(* every call.  Nothing is assumed of the clients.                          *)
Fairness ==
  /\ WF_vars(Tick) /\ WF_vars(Sweep)
  /\ \A h \in Clients : WF_vars(Drop(h))
  /\ \A p \in Principals : WF_vars(Issued(p, "failed"))

FairSpec == Spec /\ Fairness

-----------------------------------------------------------------------------
(* The types, among them: attempts exist only within a lease.               *)
TypeOK ==
  /\ owners \in [Worlds -> Holders \cup {None}]
  /\ leases \in [Worlds -> Lease \cup {None}]
  /\ attempts \in [Worlds -> [Attempts -> Attempt \cup {None}]]
  /\ grants \in [Keys -> Grant \cup {None}]
  /\ window \in [issued : Nat, since : Nat]
  /\ minted \in [Principals -> Issuance]
  /\ calls \in [Clients -> Call]
  /\ now \in Nat

(* The volatile book and the database agree on who administers a World:     *)
(* although a lease is entered long after the transaction that checked the  *)
(* reservation, every lease and every grant, retained ones included, names  *)
(* the one owner of the address.                                            *)
OwnersAgree ==
  /\ \A w \in Worlds : leases[w] # None => leases[w].admin = owners[w]
  /\ \A k \in Keys : grants[k] # None => grants[k].admin = owners[k[1]]

(* The book stays within its limits.                                        *)
BookBounded ==
  /\ Cardinality(Known(leases)) <= MaxLeases
  /\ \A w \in Worlds : Cardinality(Known(attempts[w])) <= MaxAttempts
  /\ Cardinality(Known(grants)) <= MaxGrants
  /\ \A w \in Worlds : Cardinality({k \in Known(grants) : k[1] = w}) <= MaxWorldGrants

(* A peer identity names one connection of a World at a time.               *)
PeersDistinct ==
  \A w \in Worlds, x, y \in Attempts :
    /\ x # y /\ attempts[w][x] # None /\ attempts[w][y] # None
    => attempts[w][x].peer # attempts[w][y].peer

(* As long as it lasts, a lifetime keeps its locator and an attempt its     *)
(* credential, peer, proof, deadline and descriptions; candidates are only  *)
(* added, and a revocation by the administrator stays.                      *)
Extends(old, new) ==
  old # None => new # None /\ new.sdp = old.sdp /\ old.candidates \subseteq new.candidates

Unaltered(a, b) ==
  /\ b.client = a.client /\ b.peer = a.peer /\ b.proof = a.proof /\ b.expires = a.expires
  /\ Extends(a.offer, b.offer) /\ Extends(a.answer, b.answer)
  /\ a.relayRevoked => b.relayRevoked

NothingRewritten ==
  [][/\ \A w \in Worlds : LiveLeases[w] # None /\ leases'[w] # None =>
          leases'[w].locator = leases[w].locator
     /\ \A w \in Worlds, x \in Attempts :
          LiveAttempts[w][x] # None /\ attempts'[w][x] # None =>
            Unaltered(attempts[w][x], attempts'[w][x])]_vars

(* Retries and concurrent calls never mint a second credential for one side *)
(* of an attempt while the first is retained.                               *)
MintedOnce ==
  \A p, q \in Principals :
    /\ minted[p].key # None /\ minted[p].key = minted[q].key
    /\ minted[p].until > now /\ minted[q].until > now
    => p = q

(* The owner of a World can have a credential revoked: its grant is kept    *)
(* and names him and it, whatever becomes of the attempt, of the lease and  *)
(* of earlier revocations that failed half-way.  This is from the request   *)
(* on and until the last moments of the credential's own life, no more than *)
(* an issuance takes: its grant, whose deadline was counted from the        *)
(* request, ends before it.                                                 *)
StaysRevocable ==
  \A p \in Principals :
    LET i == minted[p]
    IN  /\ i.key # None
        /\ i.state = "running" \/ (i.state = "issued" /\ i.ends > now + 1)
        => /\ Mine(grants[i.key], owners[i.key[1]])
           /\ grants[i.key].principal = p

(* No window issues more than its limit, whoever restarts it.               *)
IssuanceBounded ==
  Cardinality({p \in Principals :
    minted[p].key # None /\ minted[p].until >= window.since + GrantTTL}) <= MaxIssued

(* A credential whose grant is revoked is handed to no call, also not to    *)
(* one that was already waiting for it.                                     *)
RevokedNotDisclosed ==
  [][\A h \in Clients : Disclose(h) =>
       \A k \in Keys :
         /\ LiveGrants[k] # None /\ LiveGrants[k].principal = calls[h].principal
         => ~LiveGrants[k].revoked]_vars

(* Once the administrator has revoked an attempt's grant, neither side of   *)
(* that attempt gets a credential, new or old, as long as the grant is      *)
(* retained, whatever becomes of the attempt and its lease.                 *)
Denied(w, x) ==
  \E host \in BOOLEAN :
    LiveGrants[<<w, x, host>>] # None /\ LiveGrants[<<w, x, host>>].revokeAll

RevocationSticks ==
  [][\A w \in Worlds, x \in Attempts : Denied(w, x) =>
       /\ \A p \in Principals : minted[p].key # minted'[p].key =>
            minted'[p].key \notin {<<w, x, host>> : host \in BOOLEAN}
       /\ \A h \in Clients : Disclose(h) =>
            calls[h].key \notin {<<w, x, host>> : host \in BOOLEAN}]_vars

(* The life of the credential of issuance i, a failed one's included, under *)
(* the grant g at t: it lasts for as long as this process keeps the grant.  *)
LifeOf(i, g, t) ==
  IF i.state = "unused" THEN [phase |-> "unissued", attempt |-> None, host |-> None]
  ELSE IF i.key = None \/ i.until <= t
    THEN [phase |-> "over", attempt |-> None, host |-> None]
  ELSE [phase |-> IF g.revokeAll THEN "barred" ELSE IF g.revoked THEN "denied" ELSE "open",
        attempt |-> <<i.key[1], i.key[2]>>, host |-> i.key[3]]

Lives == [p \in Principals |-> LifeOf(minted[p], grants[minted[p].key], now)]

Relay == INSTANCE Credential WITH
  Credentials <- Principals, Attempts <- Worlds \X Attempts, life <- Lives

(* The book, its calls and its tasks keep what Credential promises.         *)
ImplementsCredential == Relay!Spec

(* Expired data is erased although no call comes.                           *)
VolatileErased ==
  /\ \A w \in Worlds :
       (leases[w] # None /\ leases[w].expires <= MaxTime)
         ~> (leases[w] = None \/ leases[w].expires > MaxTime)
  /\ \A w \in Worlds, x \in Attempts :
       (attempts[w][x] # None /\ attempts[w][x].expires <= MaxTime)
         ~> (attempts[w][x] = None \/ attempts[w][x].expires > MaxTime)
  /\ \A k \in Keys :
       (grants[k] # None /\ grants[k].expires <= MaxTime)
         ~> (grants[k] = None \/ grants[k].expires > MaxTime)

=============================================================================
