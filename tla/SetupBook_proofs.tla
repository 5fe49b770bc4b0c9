--------------------------- MODULE SetupBook_proofs ---------------------------
(***************************************************************************)
(* Proofs about SetupBook, for every number of Worlds, capabilities,       *)
(* attempts, credentials and concurrent calls, and every limit and period. *)
(***************************************************************************)
EXTENDS SetupBook, TLAPS, FiniteSetTheorems

-----------------------------------------------------------------------------
(* What a section finds when it enters.                                     *)
LEMMA LiveBook ==
  ASSUME TypeOK
  PROVE  /\ LiveLeases \in [Worlds -> Lease \cup {None}]
         /\ LiveAttempts \in [Worlds -> [Attempts -> Attempt \cup {None}]]
         /\ LiveGrants \in [Keys -> Grant \cup {None}]
         /\ \A w \in Worlds : LiveLeases[w] \in {leases[w], None}
         /\ \A w \in Worlds, x \in Attempts : LiveAttempts[w][x] \in {attempts[w][x], None}
         /\ \A w \in Worlds, x \in Attempts : LiveAttempts[w][x] # None => LiveLeases[w] # None
         /\ \A k \in Keys : LiveGrants[k] \in {grants[k], None}
<1>1. /\ LiveLeases \in [Worlds -> Lease \cup {None}]
      /\ \A w \in Worlds : LiveLeases[w] \in {leases[w], None}
  BY DEF TypeOK, LiveLeases
<1>2. /\ LiveAttempts \in [Worlds -> [Attempts -> Attempt \cup {None}]]
      /\ \A w \in Worlds, x \in Attempts : LiveAttempts[w][x] \in {attempts[w][x], None}
      /\ \A w \in Worlds, x \in Attempts : LiveAttempts[w][x] # None => LiveLeases[w] # None
  BY DEF TypeOK, LiveAttempts
<1>3. /\ LiveGrants \in [Keys -> Grant \cup {None}]
      /\ \A k \in Keys : LiveGrants[k] \in {grants[k], None}
  BY DEF TypeOK, LiveGrants
<1> QED
  BY <1>1, <1>2, <1>3

LEMMA NotNone ==
  /\ None \notin Lease /\ None \notin Attempt /\ None \notin Grant /\ None \notin Keys
  /\ None \notin Holders /\ None \notin Principals /\ None \notin Description
  BY NoneAssumption

LEMMA KeysOf ==
  ASSUME NEW k \in Keys
  PROVE  k[1] \in Worlds /\ k[2] \in Attempts /\ k[3] \in BOOLEAN /\ k = <<k[1], k[2], k[3]>>
  BY DEF Keys

(* The state of a call tells its fields.                                    *)
LEMMA CallKinds ==
  ASSUME TypeOK, NEW h \in Clients
  PROVE  /\ calls[h].op \in {"reserve", "renew"} => calls[h] \in Publishing
         /\ calls[h].op = "grant" => calls[h] \in Entering
         /\ calls[h].op = "await" => calls[h] \in Awaiting
         /\ calls[h].op = "revoke" => calls[h] \in Revoking
         /\ calls[h] # Idle => calls[h].at \in Nat
<1>1. calls[h] \in Call
  BY DEF TypeOK
<1> QED
  BY <1>1 DEF Call, Idle, Publishing, Entering, Awaiting, Revoking

-----------------------------------------------------------------------------
(* The operators that make rows of the book.                                *)
LEMMA NewLeaseType ==
  ASSUME TypeOK, NEW call \in Publishing
  PROVE  NewLease(call) \in Lease /\ NewLease(call).admin = call.who
  BY PeriodsAssumption DEF TypeOK, NewLease, Lease, Publishing

LEMMA LeaseOperators ==
  ASSUME TypeOK, NEW lease \in Lease
  PROVE  /\ Restarted(lease) \in Lease
         /\ [Restarted(lease) EXCEPT !.opened = @ + 1] \in Lease
         /\ [lease EXCEPT !.expires = now + LeaseTTL] \in Lease
         /\ Restarted(lease).admin = lease.admin
         /\ [Restarted(lease) EXCEPT !.opened = @ + 1].admin = lease.admin
         /\ [lease EXCEPT !.expires = now + LeaseTTL].admin = lease.admin
<1>1. Restarted(lease) \in Lease /\ Restarted(lease).admin = lease.admin
  BY DEF TypeOK, Restarted, Lease
<1>2. /\ [Restarted(lease) EXCEPT !.opened = @ + 1] \in Lease
      /\ [Restarted(lease) EXCEPT !.opened = @ + 1].admin = lease.admin
  BY <1>1 DEF Lease
<1>3. /\ [lease EXCEPT !.expires = now + LeaseTTL] \in Lease
      /\ [lease EXCEPT !.expires = now + LeaseTTL].admin = lease.admin
  BY PeriodsAssumption DEF TypeOK, Lease
<1> QED
  BY <1>1, <1>2, <1>3

LEMMA AttemptOperators ==
  ASSUME TypeOK, NEW who \in Holders, NEW peer \in Peers, NEW proof \in Proofs
  PROVE  /\ NewAttempt(who, peer, proof) \in Attempt
         /\ NewAttempt(who, peer, proof).peer = peer
  BY PeriodsAssumption DEF TypeOK, NewAttempt, Attempt

LEMMA AttemptUpdates ==
  ASSUME TypeOK, NEW a \in Attempt, NEW d \in Description
  PROVE  /\ Access(a) \in Attempt
         /\ [Access(a) EXCEPT !.offer = d] \in Attempt
         /\ [a EXCEPT !.answer = d] \in Attempt
         /\ [a EXCEPT !.relayRevoked = TRUE] \in Attempt
         /\ Access(a).peer = a.peer
         /\ [Access(a) EXCEPT !.offer = d].peer = a.peer
         /\ [a EXCEPT !.answer = d].peer = a.peer
         /\ [a EXCEPT !.relayRevoked = TRUE].peer = a.peer
<1>1. Access(a) \in Attempt /\ Access(a).peer = a.peer
  BY DEF Access, Attempt
<1>2. /\ [Access(a) EXCEPT !.offer = d] \in Attempt
      /\ [Access(a) EXCEPT !.offer = d].peer = a.peer
  BY <1>1 DEF Attempt
<1>3. [a EXCEPT !.answer = d] \in Attempt /\ [a EXCEPT !.answer = d].peer = a.peer
  BY DEF Attempt
<1>4. /\ [a EXCEPT !.relayRevoked = TRUE] \in Attempt
      /\ [a EXCEPT !.relayRevoked = TRUE].peer = a.peer
  BY DEF Attempt
<1> QED
  BY <1>1, <1>2, <1>3, <1>4

LEMMA MergedType ==
  ASSUME NEW old \in Description \cup {None}, NEW d \in Description, Mergeable(old, d)
  PROVE  Merged(old, d) \in Description
  BY DEF Mergeable, Merged

LEMMA GrantOperators ==
  ASSUME TypeOK, NEW k \in Keys, NEW who \in Holders, NEW p \in Principals,
         LiveLeases[k[1]] # None
  PROVE  LET g == NewGrant(k, who, p)
         IN  /\ g \in Grant
             /\ g.admin = LiveLeases[k[1]].admin /\ g.principal = p
             /\ g.expires = now + GrantTTL /\ ~g.revoked /\ ~g.revokeAll
<1>1. LiveLeases[k[1]] \in Lease
  BY LiveBook, KeysOf
<1>2. LiveLeases[k[1]].admin \in Holders /\ now + GrantTTL \in Nat
  BY <1>1, PeriodsAssumption DEF Lease, TypeOK
<1> QED
  BY <1>2 DEF NewGrant, Grant

RevokedGrant(g, who) == [g EXCEPT !.revoked = TRUE, !.revokeAll = @ \/ g.admin = who]

LEMMA RevokedGrantFields ==
  ASSUME NEW g \in Grant, NEW who \in Holders
  PROVE  LET r == RevokedGrant(g, who)
         IN  /\ r \in Grant
             /\ r.admin = g.admin /\ r.principal = g.principal /\ r.expires = g.expires
             /\ r.digest = g.digest
             /\ r.revoked /\ (r.revokeAll <=> g.revokeAll \/ g.admin = who)
<1>1. (g.revokeAll \/ g.admin = who) \in BOOLEAN
  OBVIOUS
<1> QED
  BY <1>1 DEF RevokedGrant, Grant

-----------------------------------------------------------------------------
(* Every action keeps the types.                                            *)
LEMMA EnteredType ==
  ASSUME TypeOK, Entered
  PROVE  /\ leases' \in [Worlds -> Lease \cup {None}]
         /\ attempts' \in [Worlds -> [Attempts -> Attempt \cup {None}]]
         /\ grants' \in [Keys -> Grant \cup {None}]
  BY LiveBook DEF Entered

LEMMA WindowType ==
  ASSUME TypeOK
  PROVE  /\ RestartedWindow \in [issued : Nat, since : Nat]
         /\ Counted \in [issued : Nat, since : Nat]
<1>1. RestartedWindow \in [issued : Nat, since : Nat]
  BY DEF TypeOK, RestartedWindow
<1> QED
  BY <1>1 DEF Counted

LEMMA PublicationType ==
  ASSUME TypeOK, Publication
  PROVE  TypeOK'
<1>1. ASSUME NEW h \in Clients, NEW w \in Worlds, NEW who \in Holders, NEW l \in Locators,
             Publish(h, w, who, l)
      PROVE  TypeOK'
  <2>1. calls' \in [Clients -> Call]
    <3>1. [op |-> "reserve", at |-> now, w |-> w, who |-> who, locator |-> l] \in Call
      BY DEF Call, Publishing, TypeOK
    <3> QED
      BY <1>1, <3>1 DEF Publish, TypeOK
  <2> QED
    BY <1>1, <2>1, EnteredType DEF Publish, TypeOK
<1>2. ASSUME NEW h \in Clients, Reserve(h)
      PROVE  TypeOK'
  <2>1. calls[h] \in Publishing
    BY <1>2, CallKinds DEF Reserve
  <2>2. [calls[h] EXCEPT !.op = "renew"] \in Call
    BY <2>1 DEF Publishing, Call
  <2>3. calls' \in [Clients -> Call]
    BY <1>2, <2>2 DEF Reserve, TypeOK
  <2>4. owners' \in [Worlds -> Holders \cup {None}]
    BY <1>2, <2>1 DEF Reserve, TypeOK, Publishing
  <2> QED
    BY <1>2, <2>3, <2>4 DEF Reserve, TypeOK, book
<1>3. ASSUME NEW h \in Clients, Renew(h)
      PROVE  TypeOK'
  <2>1. calls[h] \in Publishing
    BY <1>3, CallKinds DEF Renew
  <2> DEFINE w == calls[h].w
             lease == IF LiveLeases[w] = None THEN NewLease(calls[h])
                      ELSE [LiveLeases[w] EXCEPT !.expires = now + LeaseTTL]
  <2>2. w \in Worlds
    BY <2>1 DEF Publishing
  <2>3. lease \in Lease
    BY <2>1, <2>2, LiveBook, NewLeaseType, LeaseOperators
  <2>4. leases' = [LiveLeases EXCEPT ![w] = lease]
    BY <1>3 DEF Renew
  <2>5. leases' \in [Worlds -> Lease \cup {None}]
    <3> HIDE DEF lease
    <3> QED
      BY <2>3, <2>4, LiveBook
  <2>6. calls' \in [Clients -> Call]
    BY <1>3 DEF Renew, TypeOK, Call
  <2> QED
    BY <1>3, <2>5, <2>6, LiveBook DEF Renew, TypeOK
<1>4. ASSUME NEW w \in Worlds, NEW who \in Holders, NEW l \in Locators, Revoke(w, who, l)
      PROVE  TypeOK'
  <2>1. leases' \in [Worlds -> Lease \cup {None}]
    BY <1>4, LiveBook DEF Revoke
  <2>2. attempts' \in [Worlds -> [Attempts -> Attempt \cup {None}]]
    BY <1>4, LiveBook DEF Revoke
  <2> QED
    BY <1>4, <2>1, <2>2, LiveBook DEF Revoke, TypeOK
<1>5. ASSUME NEW w \in Worlds, NEW who \in Holders, Reservation(w, who)
      PROVE  TypeOK'
  BY <1>5 DEF Reservation, TypeOK, book
<1> QED
  BY <1>1, <1>2, <1>3, <1>4, <1>5 DEF Publication

LEMMA SetAttemptType ==
  ASSUME TypeOK, NEW w \in Worlds, NEW x \in Attempts, NEW a \in Attempt \cup {None},
         SetAttempt(w, x, a)
  PROVE  TypeOK'
<1>1. attempts' \in [Worlds -> [Attempts -> Attempt \cup {None}]]
  BY LiveBook DEF SetAttempt
<1> QED
  BY <1>1, LiveBook DEF SetAttempt, TypeOK

LEMMA SignallingType ==
  ASSUME TypeOK, Signalling
  PROVE  TypeOK'
<1> SUFFICES ASSUME NEW w \in Worlds, NEW x \in Attempts, NEW who \in Holders,
                    \/ \E l \in Locators, peer \in Peers, proof \in Proofs, d \in Description :
                         Offer(w, x, who, l, peer, proof, d)
                    \/ \E l \in Locators, d \in Description : Answer(w, x, who, l, d)
                    \/ Read(w, x, who)
                    \/ Remove(w, x, who)
             PROVE  TypeOK'
  BY DEF Signalling
<1> DEFINE a == LiveAttempts[w][x]
<1>1. a # None => a \in Attempt /\ a.offer \in Description \cup {None}
                  /\ a.answer \in Description \cup {None}
  BY LiveBook DEF Attempt
<1>2. ASSUME NEW l \in Locators, NEW peer \in Peers, NEW proof \in Proofs, NEW d \in Description,
             Offer(w, x, who, l, peer, proof, d)
      PROVE  TypeOK'
  <2>1. a # None /\ Mergeable(a.offer, d)
        /\ SetAttempt(w, x, [Access(a) EXCEPT !.offer = Merged(a.offer, d)])
    BY <1>2 DEF Offer, Accessible
  <2>2. Merged(a.offer, d) \in Description
    BY <1>1, <2>1, MergedType
  <2>3. [Access(a) EXCEPT !.offer = Merged(a.offer, d)] \in Attempt
    BY <1>1, <2>1, <2>2, AttemptUpdates
  <2> QED
    BY <2>1, <2>3, SetAttemptType
<1>3. ASSUME NEW l \in Locators, NEW d \in Description, Answer(w, x, who, l, d)
      PROVE  TypeOK'
  <2>1. a # None /\ Mergeable(a.answer, d)
        /\ SetAttempt(w, x, [a EXCEPT !.answer = Merged(a.answer, d)])
    BY <1>3 DEF Answer
  <2>2. Merged(a.answer, d) \in Description
    BY <1>1, <2>1, MergedType
  <2>3. [a EXCEPT !.answer = Merged(a.answer, d)] \in Attempt
    BY <1>1, <2>1, <2>2, AttemptUpdates
  <2> QED
    BY <2>1, <2>3, SetAttemptType
<1>4. ASSUME Read(w, x, who)
      PROVE  TypeOK'
  <2>1. a # None /\ SetAttempt(w, x, Access(a))
    BY <1>4 DEF Read, Accessible
  <2>2. Access(a) \in Attempt
    BY <1>1, <2>1 DEF Access, Attempt
  <2> QED
    BY <2>1, <2>2, SetAttemptType
<1>5. ASSUME Remove(w, x, who)
      PROVE  TypeOK'
  BY <1>5, SetAttemptType DEF Remove
<1> QED
  BY <1>2, <1>3, <1>4, <1>5

LEMMA BeginType ==
  ASSUME TypeOK, NEW h \in Clients, NEW w \in Worlds, NEW x \in Attempts, NEW who \in Holders,
         NEW l \in Locators, NEW peer \in Peers, NEW proof \in Proofs,
         Begin(h, w, x, who, l, peer, proof)
  PROVE  TypeOK'
<1> DEFINE lease == Restarted(LiveLeases[w])
           old == LiveAttempts[w][x]
<1>1. LiveLeases[w] \in Lease
  BY LiveBook DEF Begin, Running
<1>2. calls' \in [Clients -> Call]
  <2>1. [op |-> "grant", at |-> now, key |-> <<w, x, FALSE>>, who |-> who] \in Call
    BY DEF Call, Entering, Keys, TypeOK
  <2> QED
    BY <2>1 DEF Begin, TypeOK
<1>3. /\ leases' \in [Worlds -> Lease \cup {None}]
      /\ attempts' \in [Worlds -> [Attempts -> Attempt \cup {None}]]
  <2>1. CASE /\ old # None
             /\ leases' = LiveLeases
             /\ attempts' = [LiveAttempts EXCEPT ![w][x] = Access(old)]
    <3>1. Access(old) \in Attempt
      <4>1. old \in Attempt
        BY <2>1, LiveBook
      <4> HIDE DEF old
      <4> QED
        BY <4>1 DEF Access, Attempt
    <3> QED
      BY <2>1, <3>1, LiveBook
  <2>2. CASE /\ leases' = [LiveLeases EXCEPT ![w] = [lease EXCEPT !.opened = @ + 1]]
             /\ attempts' = [LiveAttempts EXCEPT ![w][x] = NewAttempt(who, peer, proof)]
    <3>1. [lease EXCEPT !.opened = @ + 1] \in Lease
      BY <1>1, LeaseOperators
    <3>2. NewAttempt(who, peer, proof) \in Attempt
      BY AttemptOperators
    <3> HIDE DEF lease
    <3>3. leases' \in [Worlds -> Lease \cup {None}]
      BY <2>2, <3>1, LiveBook
    <3>4. attempts' \in [Worlds -> [Attempts -> Attempt \cup {None}]]
      BY <2>2, <3>2, LiveBook
    <3> QED
      BY <3>3, <3>4
  <2> QED
    BY <2>1, <2>2 DEF Begin, Accessible
<1> QED
  BY <1>2, <1>3, LiveBook DEF Begin, TypeOK

LEMMA MintType ==
  ASSUME TypeOK, NEW h \in Clients, NEW p \in Principals, Mint(h, p)
  PROVE  TypeOK'
<1> DEFINE k == calls[h].key
<1>1. calls[h] \in Entering /\ k \in Keys /\ calls[h].who \in Holders
  BY CallKinds DEF Mint, Entering
<1>2. LiveLeases[k[1]] # None
  BY <1>1, KeysOf, LiveBook DEF Mint, Grantable
<1>3. grants' \in [Keys -> Grant \cup {None}]
  <2>1. NewGrant(k, calls[h].who, p) \in Grant
    BY <1>1, <1>2, GrantOperators
  <2> QED
    BY <2>1, LiveBook DEF Mint
<1>4. minted' \in [Principals -> Issuance]
  <2>1. [state |-> "running", key |-> k, until |-> now + GrantTTL, ends |-> 0]
        \in Issuance
    BY <1>1, PeriodsAssumption DEF Issuance, States, TypeOK
  <2> QED
    BY <2>1 DEF Mint, TypeOK
<1>5. calls' \in [Clients -> Call]
  <2>1. [op |-> "await", at |-> calls[h].at, key |-> k, principal |-> p] \in Call
    BY <1>1 DEF Call, Awaiting, Entering
  <2> QED
    BY <2>1 DEF Mint, Await, TypeOK
<1> QED
  BY <1>3, <1>4, <1>5, LiveBook, WindowType DEF Mint, TypeOK

LEMMA JoinType ==
  ASSUME TypeOK, NEW h \in Clients, Join(h)
  PROVE  TypeOK'
<1> DEFINE k == calls[h].key
<1>1. calls[h] \in Entering /\ k \in Keys
  BY CallKinds DEF Join, Entering
<1>2. LiveGrants[k] \in Grant
  BY <1>1, LiveBook DEF Join
<1>3. [op |-> "await", at |-> calls[h].at, key |-> k, principal |-> LiveGrants[k].principal]
        \in Call
  BY <1>1, <1>2 DEF Call, Awaiting, Entering, Grant
<1>4. calls' \in [Clients -> Call]
  BY <1>3 DEF Join, Await, TypeOK
<1> QED
  BY <1>4, EnteredType DEF Join, TypeOK

LEMMA RevokeRelayType ==
  ASSUME TypeOK, NEW h \in Clients, NEW w \in Worlds, NEW x \in Attempts, NEW who \in Holders,
         RevokeRelay(h, w, x, who)
  PROVE  TypeOK'
<1> DEFINE Side(host) == LiveGrants[<<w, x, host>>]
           attempt == LiveAttempts[w][x]
<1>1. attempts' \in [Worlds -> [Attempts -> Attempt \cup {None}]]
  <2> DEFINE new == IF attempt # None /\ LiveLeases[w].admin = who
                      THEN [attempt EXCEPT !.relayRevoked = TRUE] ELSE attempt
  <2>1. new \in Attempt \cup {None}
    <3>1. attempt \in Attempt \cup {None}
      BY LiveBook
    <3>2. attempt \in Attempt => [attempt EXCEPT !.relayRevoked = TRUE] \in Attempt
      BY DEF Attempt
    <3> HIDE DEF attempt
    <3> QED
      BY <3>1, <3>2
  <2>2. attempts' = [LiveAttempts EXCEPT ![w][x] = new]
    BY DEF RevokeRelay
  <2> HIDE DEF new
  <2> QED
    BY <2>1, <2>2, LiveBook
<1>2. grants' \in [Keys -> Grant \cup {None}]
  <2>1. CASE grants' = LiveGrants
    BY <2>1, LiveBook
  <2>2. CASE grants' = [k \in Keys |->
                          IF k[1] = w /\ k[2] = x /\ Mine(LiveGrants[k], who)
                            THEN RevokedGrant(LiveGrants[k], who) ELSE LiveGrants[k]]
    <3>1. \A k \in Keys : Mine(LiveGrants[k], who) => RevokedGrant(LiveGrants[k], who) \in Grant
      BY LiveBook, RevokedGrantFields DEF Mine
    <3> QED
      BY <2>2, <3>1, LiveBook
  <2> QED
    BY <2>1, <2>2 DEF RevokeRelay, RevokedGrant
<1>3. calls' \in [Clients -> Call]
  <2> DEFINE left == [host \in BOOLEAN |->
                        IF Mine(Side(host), who) THEN Side(host).principal ELSE None]
  <2>1. left \in [BOOLEAN -> Principals \cup {None}]
    <3>1. \A host \in BOOLEAN : <<w, x, host>> \in Keys
      BY DEF Keys
    <3>2. \A host \in BOOLEAN : Mine(Side(host), who) => Side(host).principal \in Principals
      BY <3>1, LiveBook DEF Mine, Grant
    <3> QED
      BY <3>2
  <2>2. calls' = calls \/ calls' = [calls EXCEPT ![h] = [op |-> "revoke", at |-> now, left |-> left]]
    BY DEF RevokeRelay
  <2> HIDE DEF left
  <2>3. [op |-> "revoke", at |-> now, left |-> left] \in Call
    BY <2>1 DEF Call, Revoking, TypeOK
  <2> QED
    BY <2>2, <2>3 DEF TypeOK
<1> QED
  BY <1>1, <1>2, <1>3, LiveBook DEF RevokeRelay, TypeOK

LEMMA RevokeNextType ==
  ASSUME TypeOK, NEW h \in Clients, NEW host \in BOOLEAN, RevokeNext(h, host)
  PROVE  TypeOK'
<1>1. calls[h] \in Revoking
  BY CallKinds DEF RevokeNext
<1> DEFINE p == calls[h].left[host]
<1>2. p \in Principals
  BY <1>1 DEF RevokeNext, Revoking
<1>3. minted' \in [Principals -> Issuance]
  <2>1. [minted[p] EXCEPT !.state = IF @ = "issued" /\ Revocable THEN "revoked" ELSE @] \in Issuance
    <3> DEFINE i == minted[p]
               state == IF i.state = "issued" /\ Revocable THEN "revoked" ELSE i.state
    <3>1. i \in Issuance
      BY <1>2 DEF TypeOK
    <3>2. state \in States
      BY <3>1 DEF Issuance, States
    <3>3. [i EXCEPT !.state = state] \in Issuance
      <4> HIDE DEF i, state
      <4> QED
        BY <3>1, <3>2 DEF Issuance
    <3> QED
      BY <3>3
  <2> QED
    BY <1>2, <2>1 DEF RevokeNext, TypeOK
<1>4. calls' \in [Clients -> Call]
  <2>1. [calls[h] EXCEPT !.left[host] = None] \in Revoking
    BY <1>1 DEF Revoking
  <2> QED
    BY <2>1 DEF RevokeNext, TypeOK, Call
<1> QED
  BY <1>3, <1>4 DEF RevokeNext, TypeOK, book

(* The end of a credential's life: counted from some instant of its task.   *)
LEMMA IssuedLife ==
  ASSUME TypeOK, NEW p \in Principals, NEW state \in {"issued", "failed"}, Issued(p, state)
  PROVE  \E ends \in Nat :
           /\ minted' = [minted EXCEPT ![p] = [minted[p] EXCEPT !.state = state, !.ends = ends]]
           /\ state = "issued" => ends <= now + GrantTTL
<1>1. PICK t \in minted[p].until .. now + GrantTTL :
        minted' = [minted EXCEPT ![p].state = state,
                                 ![p].ends = IF state = "issued" THEN t ELSE 0]
  BY DEF Issued
<1>2. t \in Nat /\ t <= now + GrantTTL
  BY PeriodsAssumption DEF TypeOK, Issuance
<1> DEFINE ends == IF state = "issued" THEN t ELSE 0
<1>3. ends \in Nat /\ (state = "issued" => ends <= now + GrantTTL)
  BY <1>2
<1>4. minted' = [minted EXCEPT ![p] = [minted[p] EXCEPT !.state = state, !.ends = ends]]
  BY <1>1 DEF TypeOK, Issuance
<1> HIDE DEF ends
<1> QED
  BY <1>3, <1>4

LEMMA RelayingType ==
  ASSUME TypeOK, Relaying
  PROVE  TypeOK'
<1>1. ASSUME NEW h \in Clients, NEW w \in Worlds, NEW x \in Attempts, NEW who \in Holders,
             NEW l \in Locators, HostIce(h, w, x, who, l)
      PROVE  TypeOK'
  <2>1. [op |-> "grant", at |-> now, key |-> <<w, x, TRUE>>, who |-> who] \in Call
    BY DEF Call, Entering, Keys, TypeOK
  <2>2. calls' \in [Clients -> Call]
    BY <1>1, <2>1 DEF HostIce, TypeOK
  <2> QED
    BY <1>1, <2>2, EnteredType DEF HostIce, TypeOK
<1>2. ASSUME NEW w \in Worlds, NEW peer \in Peers, RefuseBegin(w, peer)
      PROVE  TypeOK'
  <2>1. Restarted(LiveLeases[w]) \in Lease
    BY <1>2, LiveBook, LeaseOperators DEF RefuseBegin
  <2>2. leases' \in [Worlds -> Lease \cup {None}]
    BY <1>2, <2>1, LiveBook DEF RefuseBegin
  <2> QED
    BY <1>2, <2>2, LiveBook DEF RefuseBegin, TypeOK
<1>3. ASSUME NEW h \in Clients, RefuseGrant(h) \/ Disclose(h) \/ RelayRevoked(h)
      PROVE  TypeOK'
  <2>1. calls' \in [Clients -> Call]
    BY <1>3 DEF RefuseGrant, Disclose, RelayRevoked, TypeOK, Call
  <2>2. window' \in [issued : Nat, since : Nat]
    BY <1>3, WindowType DEF RefuseGrant, Disclose, RelayRevoked, TypeOK, book
  <2>3. CASE RelayRevoked(h)
    BY <2>1, <2>3 DEF RelayRevoked, TypeOK, book
  <2>4. CASE RefuseGrant(h) \/ Disclose(h)
    BY <2>1, <2>2, <2>4, EnteredType DEF RefuseGrant, Disclose, TypeOK
  <2> QED
    BY <1>3, <2>3, <2>4
<1>4. ASSUME NEW p \in Principals, NEW state \in {"issued", "failed"}, Issued(p, state)
      PROVE  TypeOK'
  <2>1. PICK ends \in Nat :
          minted' = [minted EXCEPT ![p] = [minted[p] EXCEPT !.state = state, !.ends = ends]]
    BY <1>4, IssuedLife
  <2>2. [minted[p] EXCEPT !.state = state, !.ends = ends] \in Issuance
    <3>1. minted[p] \in Issuance /\ state \in States /\ ends \in Nat
      BY <2>1 DEF TypeOK, States
    <3> QED
      BY <3>1 DEF Issuance
  <2>3. minted' \in [Principals -> Issuance]
    BY <2>1, <2>2 DEF TypeOK
  <2> QED
    BY <1>4, <2>3 DEF Issued, TypeOK, book
<1> QED
  BY <1>1, <1>2, <1>3, <1>4, BeginType, MintType, JoinType, RevokeRelayType, RevokeNextType
  DEF Relaying

LEMMA InitType == Init => TypeOK
  BY DEF Init, TypeOK, Issuance, Unused, States, Call

LEMMA NextType ==
  ASSUME TypeOK, [Next]_vars
  PROVE  TypeOK'
<1>1. CASE Publication
  BY <1>1, PublicationType
<1>2. CASE Signalling
  BY <1>2, SignallingType
<1>3. CASE Relaying
  BY <1>3, RelayingType
<1>4. CASE Sweep
  BY <1>4, EnteredType DEF Sweep, TypeOK
<1>5. ASSUME NEW h \in Clients, Drop(h)
      PROVE  TypeOK'
  BY <1>5 DEF Drop, TypeOK, book, Call
<1>6. CASE Restart
  <2>1. minted' \in [Principals -> Issuance]
    BY <1>6 DEF Restart, TypeOK, Issuance, States
  <2>2. calls' \in [Clients -> Call]
    BY <1>6 DEF Restart, Call
  <2> QED
    BY <1>6, <2>1, <2>2 DEF Restart, TypeOK
<1>7. CASE Tick
  BY <1>7 DEF Tick, TypeOK, book
<1>8. CASE UNCHANGED vars
  BY <1>8 DEF vars, TypeOK, book
<1> QED
  BY <1>1, <1>2, <1>3, <1>4, <1>5, <1>6, <1>7, <1>8 DEF Next

(* Rows keep their types; in particular no grant lacks an administrator.    *)
THEOREM TypeCorrect == Spec => []TypeOK
  BY InitType, NextType, PTL DEF Spec

-----------------------------------------------------------------------------
(* What a step can be.  Most steps are routine: they expire what is due and *)
(* move the calls and issuances on, and neither enter nor mark anything.    *)
QuietMints ==
  \A p \in Principals :
    /\ minted'[p].key = minted[p].key /\ minted'[p].until = minted[p].until
    /\ minted'[p].state = "unused" <=> minted[p].state = "unused"

(* Owners are never replaced.                                               *)
OwnersKept == \A w \in Worlds : owners[w] # None => owners'[w] = owners[w]

Routine ==
  /\ OwnersKept
  /\ leases' \in {leases, LiveLeases}
  /\ attempts' \in {attempts, LiveAttempts}
  /\ grants' \in {grants, LiveGrants}
  /\ QuietMints
  /\ \A h \in Clients : calls'[h] = calls[h] \/ calls'[h].op \notin {"renew", "await"}
  /\ now' \in {now, now + 1}

(* An operation on one attempt.                                             *)
Signalled ==
  /\ leases' = LiveLeases /\ grants' = LiveGrants
  /\ UNCHANGED <<owners, minted, calls, now>>
  /\ \A w \in Worlds, x \in Attempts : attempts'[w][x] # None =>
       attempts[w][x] # None /\ attempts'[w][x].peer = attempts[w][x].peer

LEMMA RoutineCall ==
  ASSUME TypeOK, NEW h \in Clients, NEW call, call.op \notin {"renew", "await"},
         calls' = [calls EXCEPT ![h] = call]
  PROVE  \A g \in Clients : calls'[g] = calls[g] \/ calls'[g].op \notin {"renew", "await"}
  BY DEF TypeOK

LEMMA RoutineEntered ==
  ASSUME TypeOK, Entered
  PROVE  /\ leases' \in {leases, LiveLeases}
         /\ attempts' \in {attempts, LiveAttempts}
         /\ grants' \in {grants, LiveGrants}
  BY DEF Entered

LEMMA RoutineSteps ==
  ASSUME TypeOK
  PROVE  /\ \A h \in Clients, w \in Worlds, who \in Holders, l \in Locators :
              Publish(h, w, who, l) => Routine
         /\ \A h \in Clients, w \in Worlds, x \in Attempts, who \in Holders, l \in Locators :
              HostIce(h, w, x, who, l) => Routine
         /\ \A h \in Clients :
              Disclose(h) \/ RefuseGrant(h) \/ RelayRevoked(h) \/ Drop(h) => Routine
         /\ \A h \in Clients, host \in BOOLEAN : RevokeNext(h, host) => Routine
         /\ \A p \in Principals, state \in {"issued", "failed"} : Issued(p, state) => Routine
         /\ \A w \in Worlds, who \in Holders : Reservation(w, who) => Routine
         /\ Sweep \/ Tick \/ UNCHANGED vars => Routine
<1>0. owners' = owners => OwnersKept
  BY DEF OwnersKept
<1>1. minted' = minted => QuietMints
  BY DEF QuietMints
<1>2. ASSUME NEW h \in Clients, NEW w \in Worlds, NEW who \in Holders, NEW l \in Locators,
             Publish(h, w, who, l)
      PROVE  Routine
  <2>1. \A g \in Clients : calls'[g] = calls[g] \/ calls'[g].op \notin {"renew", "await"}
    BY <1>2, RoutineCall DEF Publish
  <2> QED
    BY <1>0, <1>1, <1>2, <2>1, RoutineEntered DEF Publish, Routine
<1>3. ASSUME NEW h \in Clients, NEW w \in Worlds, NEW x \in Attempts, NEW who \in Holders,
             NEW l \in Locators, HostIce(h, w, x, who, l)
      PROVE  Routine
  <2>1. \A g \in Clients : calls'[g] = calls[g] \/ calls'[g].op \notin {"renew", "await"}
    BY <1>3, RoutineCall DEF HostIce
  <2> QED
    BY <1>0, <1>1, <1>3, <2>1, RoutineEntered DEF HostIce, Routine
<1>4. ASSUME NEW h \in Clients, Disclose(h) \/ RefuseGrant(h) \/ RelayRevoked(h) \/ Drop(h)
      PROVE  Routine
  <2>1. calls' = [calls EXCEPT ![h] = Idle] /\ minted' = minted /\ owners' = owners /\ now' = now
    BY <1>4 DEF Disclose, RefuseGrant, RelayRevoked, Drop
  <2>2. \A g \in Clients : calls'[g] = calls[g] \/ calls'[g].op \notin {"renew", "await"}
    BY <2>1, RoutineCall DEF Idle
  <2>3. Entered \/ UNCHANGED book
    BY <1>4 DEF Disclose, RefuseGrant, RelayRevoked, Drop
  <2> QED
    BY <1>0, <1>1, <2>1, <2>2, <2>3, RoutineEntered DEF Routine, book
<1>5. ASSUME NEW h \in Clients, NEW host \in BOOLEAN, RevokeNext(h, host)
      PROVE  Routine
  <2>1. \A g \in Clients : calls'[g] = calls[g] \/ calls'[g].op \notin {"renew", "await"}
    <3>1. calls[h] \in Revoking
      BY <1>5, CallKinds DEF RevokeNext
    <3>2. [calls[h] EXCEPT !.left[host] = None].op = "revoke"
      BY <3>1 DEF Revoking
    <3>3. calls' = [calls EXCEPT ![h] = [calls[h] EXCEPT !.left[host] = None]]
      BY <1>5 DEF RevokeNext
    <3> QED
      BY <3>2, <3>3, RoutineCall
  <2>2. QuietMints
    <3> DEFINE p == calls[h].left[host]
               state == IF minted[p].state = "issued" /\ Revocable THEN "revoked"
                        ELSE minted[p].state
    <3>1. minted' = [minted EXCEPT ![p] = [minted[p] EXCEPT !.state = state]]
      BY <1>5 DEF RevokeNext
    <3>2. \A q \in Principals : minted[q] \in Issuance
      BY DEF TypeOK
    <3>3. state = "unused" <=> minted[p].state = "unused"
      OBVIOUS
    <3> HIDE DEF p, state
    <3>4. \A q \in Principals :
            minted'[q] = IF q = p THEN [minted[q] EXCEPT !.state = state] ELSE minted[q]
      BY <3>1 DEF TypeOK
    <3> QED
      BY <3>2, <3>3, <3>4 DEF QuietMints, Issuance
  <2> QED
    BY <1>0, <1>5, <2>1, <2>2 DEF RevokeNext, Routine, book
<1>6. ASSUME NEW p \in Principals, NEW state \in {"issued", "failed"}, Issued(p, state)
      PROVE  Routine
  <2>1. QuietMints
    <3>1. \A q \in Principals : minted[q] \in Issuance
      BY DEF TypeOK
    <3>2. PICK ends \in Nat :
            minted' = [minted EXCEPT ![p] = [minted[p] EXCEPT !.state = state, !.ends = ends]]
      BY <1>6, IssuedLife
    <3>3. \A q \in Principals :
            minted'[q] = IF q = p THEN [minted[q] EXCEPT !.state = state, !.ends = ends]
                         ELSE minted[q]
      BY <3>2 DEF TypeOK
    <3>4. minted[p].state = "running" /\ state # "unused"
      BY <1>6 DEF Issued
    <3> QED
      BY <3>1, <3>3, <3>4 DEF QuietMints, Issuance
  <2> QED
    BY <1>0, <1>6, <2>1 DEF Issued, Routine, book
<1>7. ASSUME Sweep \/ Tick \/ UNCHANGED vars
      PROVE  Routine
  <2>1. Entered \/ UNCHANGED book
    BY <1>7 DEF Sweep, Tick, vars, book
  <2>2. /\ owners' = owners /\ minted' = minted /\ calls' = calls
        /\ now' \in {now, now + 1}
    BY <1>7 DEF Sweep, Tick, vars
  <2> QED
    BY <1>0, <1>1, <2>1, <2>2, RoutineEntered DEF Routine, book
<1>8. ASSUME NEW w \in Worlds, NEW who \in Holders, Reservation(w, who)
      PROVE  Routine
  <2>1. OwnersKept
    BY <1>8 DEF Reservation, OwnersKept, TypeOK
  <2> QED
    BY <1>1, <1>8, <2>1 DEF Reservation, Routine, book
<1> QED
  BY <1>2, <1>3, <1>4, <1>5, <1>6, <1>7, <1>8

LEMMA SetAttemptStep ==
  ASSUME TypeOK, NEW w \in Worlds, NEW x \in Attempts, NEW a \in Attempt \cup {None},
         SetAttempt(w, x, a),
         a # None => LiveAttempts[w][x] # None /\ a.peer = LiveAttempts[w][x].peer
  PROVE  Signalled
<1>1. \A v \in Worlds, y \in Attempts :
        attempts'[v][y] = IF v = w /\ y = x THEN a ELSE LiveAttempts[v][y]
  BY LiveBook DEF SetAttempt
<1>2. \A v \in Worlds, y \in Attempts : attempts'[v][y] # None =>
        attempts[v][y] # None /\ attempts'[v][y].peer = attempts[v][y].peer
  BY <1>1, LiveBook
<1> QED
  BY <1>2 DEF SetAttempt, Signalled

LEMMA SignallingSteps ==
  ASSUME TypeOK, Signalling
  PROVE  Signalled
<1> SUFFICES ASSUME NEW w \in Worlds, NEW x \in Attempts, NEW who \in Holders,
                    \/ \E l \in Locators, peer \in Peers, proof \in Proofs, d \in Description :
                         Offer(w, x, who, l, peer, proof, d)
                    \/ \E l \in Locators, d \in Description : Answer(w, x, who, l, d)
                    \/ Read(w, x, who)
                    \/ Remove(w, x, who)
             PROVE  Signalled
  BY DEF Signalling
<1> DEFINE a == LiveAttempts[w][x]
<1>1. a # None => a \in Attempt /\ a.offer \in Description \cup {None}
                  /\ a.answer \in Description \cup {None}
  BY LiveBook DEF Attempt
<1>2. ASSUME NEW l \in Locators, NEW peer \in Peers, NEW proof \in Proofs, NEW d \in Description,
             Offer(w, x, who, l, peer, proof, d)
      PROVE  Signalled
  <2> DEFINE new == [Access(a) EXCEPT !.offer = Merged(a.offer, d)]
  <2>1. a # None /\ Mergeable(a.offer, d) /\ SetAttempt(w, x, new)
    BY <1>2 DEF Offer, Accessible
  <2>2. Merged(a.offer, d) \in Description
    BY <1>1, <2>1, MergedType
  <2>3. new \in Attempt /\ new.peer = a.peer
    BY <1>1, <2>1, <2>2, AttemptUpdates
  <2> HIDE DEF new
  <2> QED
    BY <2>1, <2>3, SetAttemptStep
<1>3. ASSUME NEW l \in Locators, NEW d \in Description, Answer(w, x, who, l, d)
      PROVE  Signalled
  <2> DEFINE new == [a EXCEPT !.answer = Merged(a.answer, d)]
  <2>1. a # None /\ Mergeable(a.answer, d) /\ SetAttempt(w, x, new)
    BY <1>3 DEF Answer
  <2>2. Merged(a.answer, d) \in Description
    BY <1>1, <2>1, MergedType
  <2>3. new \in Attempt /\ new.peer = a.peer
    BY <1>1, <2>1, <2>2, AttemptUpdates
  <2> HIDE DEF new
  <2> QED
    BY <2>1, <2>3, SetAttemptStep
<1>4. ASSUME Read(w, x, who)
      PROVE  Signalled
  <2>1. a # None /\ SetAttempt(w, x, Access(a))
    BY <1>4 DEF Read, Accessible
  <2>2. Access(a) \in Attempt /\ Access(a).peer = a.peer
    <3>1. a \in Attempt
      BY <1>1, <2>1
    <3> HIDE DEF a
    <3> QED
      BY <3>1 DEF Access, Attempt
  <2> QED
    BY <2>1, <2>2, SetAttemptStep
<1>5. ASSUME Remove(w, x, who)
      PROVE  Signalled
  BY <1>5, SetAttemptStep DEF Remove
<1> QED
  BY <1>2, <1>3, <1>4, <1>5

(* The other steps, each with the variables it does not touch.              *)
Opening ==
  \E h \in Clients, w \in Worlds, x \in Attempts, who \in Holders, l \in Locators,
     peer \in Peers, proof \in Proofs : Begin(h, w, x, who, l, peer, proof)

Denying ==
  \E h \in Clients, w \in Worlds, x \in Attempts, who \in Holders : RevokeRelay(h, w, x, who)

LEMMA RelayingKinds ==
  ASSUME TypeOK, Relaying
  PROVE  \/ Routine
         \/ \E h \in Clients : Join(h)
         \/ \E w \in Worlds, peer \in Peers : RefuseBegin(w, peer)
         \/ Opening
         \/ \E h \in Clients, p \in Principals : Mint(h, p)
         \/ Denying
<1>1. CASE \E h \in Clients, w \in Worlds, x \in Attempts, who \in Holders :
             \/ \E l \in Locators, peer \in Peers, proof \in Proofs :
                  Begin(h, w, x, who, l, peer, proof)
             \/ \E l \in Locators : HostIce(h, w, x, who, l)
             \/ RevokeRelay(h, w, x, who)
  BY <1>1, RoutineSteps DEF Opening, Denying
<1>2. CASE \E w \in Worlds, peer \in Peers : RefuseBegin(w, peer)
  BY <1>2
<1>3. CASE \E h \in Clients :
             \/ \E p \in Principals : Mint(h, p)
             \/ Join(h) \/ RefuseGrant(h) \/ Disclose(h) \/ RelayRevoked(h)
             \/ \E host \in BOOLEAN : RevokeNext(h, host)
  BY <1>3, RoutineSteps
<1>4. CASE \E p \in Principals, state \in {"issued", "failed"} : Issued(p, state)
  BY <1>4, RoutineSteps
<1> QED
  BY <1>1, <1>2, <1>3, <1>4 DEF Relaying

LEMMA StepKinds ==
  ASSUME TypeOK, [Next]_vars
  PROVE  \/ Routine
         \/ Signalling /\ Signalled
         \/ \E h \in Clients : Reserve(h) \/ Renew(h) \/ Join(h)
         \/ \E w \in Worlds, who \in Holders, l \in Locators : Revoke(w, who, l)
         \/ \E w \in Worlds, peer \in Peers : RefuseBegin(w, peer)
         \/ Opening
         \/ \E h \in Clients, p \in Principals : Mint(h, p)
         \/ Denying
         \/ Restart
<1>1. CASE Publication
  BY <1>1, RoutineSteps DEF Publication
<1>2. CASE Signalling
  BY <1>2, SignallingSteps
<1>3. CASE Relaying
  BY <1>3, RelayingKinds
<1>4. CASE \E h \in Clients : Drop(h)
  BY <1>4, RoutineSteps
<1>5. CASE Sweep \/ Tick \/ UNCHANGED vars
  BY <1>5, RoutineSteps
<1> QED
  BY <1>1, <1>2, <1>3, <1>4, <1>5 DEF Next

-----------------------------------------------------------------------------
(* OwnersAgree is not inductive by itself: a publication is between its     *)
(* transaction and its section.  Owned adds what the transaction has left   *)
(* behind, and that owners are never replaced.                              *)
Reserving(h) == calls[h].op = "renew" => owners[calls[h].w] = calls[h].who

Owned == OwnersAgree /\ \A h \in Clients : Reserving(h)

LEMMA OwnedKept ==
  ASSUME TypeOK, Owned, OwnersKept,
         \A w \in Worlds : leases'[w] # None =>
            leases[w] # None /\ leases'[w].admin = leases[w].admin,
         \A k \in Keys : grants'[k] # None =>
            grants[k] # None /\ grants'[k].admin = grants[k].admin,
         \A h \in Clients : calls'[h] = calls[h] \/ calls'[h].op # "renew"
  PROVE  Owned'
<1>1. OwnersAgree'
  <2>1. \A w \in Worlds : leases[w] # None => leases[w].admin # None
    BY NotNone DEF TypeOK, Lease
  <2>2. \A k \in Keys : grants[k] # None => grants[k].admin # None /\ k[1] \in Worlds
    BY NotNone, KeysOf DEF TypeOK, Grant
  <2> QED
    BY <2>1, <2>2 DEF Owned, OwnersAgree, OwnersKept
<1>2. ASSUME NEW h \in Clients
      PROVE  Reserving(h)'
  <2>1. calls[h].op = "renew" => calls[h].w \in Worlds /\ calls[h].who # None
    BY CallKinds, NotNone DEF Publishing
  <2> QED
    BY <2>1 DEF Owned, OwnersKept, Reserving
<1> QED
  BY <1>1, <1>2 DEF Owned

LEMMA Subsiding ==
  ASSUME TypeOK
  PROVE  /\ leases' \in {leases, LiveLeases} =>
              \A w \in Worlds : leases'[w] # None =>
                leases[w] # None /\ leases'[w].admin = leases[w].admin
         /\ grants' \in {grants, LiveGrants} =>
              \A k \in Keys : grants'[k] # None =>
                grants[k] # None /\ grants'[k].admin = grants[k].admin
  BY LiveBook

LEMMA OtherCalls ==
  ASSUME TypeOK, NEW h \in Clients, NEW call, call.op # "renew",
         calls' = [calls EXCEPT ![h] = call]
  PROVE  \A g \in Clients : calls'[g] = calls[g] \/ calls'[g].op # "renew"
  BY DEF TypeOK

LEMMA OwnedReserve ==
  ASSUME TypeOK, Owned, NEW h \in Clients, Reserve(h)
  PROVE  Owned'
<1>1. calls[h] \in Publishing
  BY CallKinds DEF Reserve
<1> DEFINE w == calls[h].w
           who == calls[h].who
<1>2. w \in Worlds /\ who \in Holders
  BY <1>1 DEF Publishing
<1>3. /\ owners[w] \in {None, who}
      /\ owners' = [owners EXCEPT ![w] = who]
      /\ UNCHANGED <<leases, grants>>
  BY DEF Reserve, book
<1>4. OwnersKept
  BY <1>2, <1>3 DEF TypeOK, OwnersKept
<1>5. OwnersAgree'
  <2>1. \A v \in Worlds : leases[v] # None => leases[v].admin # None
    BY NotNone DEF TypeOK, Lease
  <2>2. \A k \in Keys : grants[k] # None => grants[k].admin # None /\ k[1] \in Worlds
    BY NotNone, KeysOf DEF TypeOK, Grant
  <2> QED
    BY <1>3, <1>4, <2>1, <2>2 DEF Owned, OwnersAgree, OwnersKept
<1>6. ASSUME NEW g \in Clients
      PROVE  Reserving(g)'
  <2>1. CASE g = h
    <3>1. calls'[h] = [calls[h] EXCEPT !.op = "renew"]
      BY DEF Reserve, TypeOK
    <3>2. calls'[h].w = w /\ calls'[h].who = who
      BY <1>1, <3>1 DEF Publishing
    <3> QED
      BY <1>2, <1>3, <2>1, <3>2 DEF Reserving, TypeOK
  <2>2. CASE g # h
    <3>1. calls'[g] = calls[g]
      BY <2>2 DEF Reserve
    <3>2. calls[g].op = "renew" => calls[g].w \in Worlds /\ calls[g].who # None
      BY CallKinds, NotNone DEF Publishing
    <3> QED
      BY <1>4, <3>1, <3>2 DEF Owned, Reserving, OwnersKept
  <2> QED
    BY <2>1, <2>2
<1> QED
  BY <1>5, <1>6 DEF Owned

LEMMA OwnedRenew ==
  ASSUME TypeOK, Owned, NEW h \in Clients, Renew(h)
  PROVE  Owned'
<1>1. calls[h] \in Publishing
  BY CallKinds DEF Renew
<1> DEFINE w == calls[h].w
           lease == IF LiveLeases[w] = None THEN NewLease(calls[h])
                    ELSE [LiveLeases[w] EXCEPT !.expires = now + LeaseTTL]
<1>2. w \in Worlds /\ owners[w] = calls[h].who
  BY <1>1 DEF Renew, Publishing, Owned, Reserving
<1>3. lease.admin = owners[w]
  <2>1. CASE LiveLeases[w] = None
    BY <1>1, <1>2, <2>1, NewLeaseType
  <2>2. CASE LiveLeases[w] # None
    <3>1. LiveLeases[w] \in Lease /\ LiveLeases[w] = leases[w]
      BY <1>2, <2>2, LiveBook
    <3>2. lease.admin = LiveLeases[w].admin
      BY <2>2, <3>1, LeaseOperators
    <3> QED
      BY <1>2, <2>2, <3>1, <3>2 DEF Owned, OwnersAgree
  <2> QED
    BY <2>1, <2>2
<1>4. leases' = [LiveLeases EXCEPT ![w] = lease] /\ grants' = LiveGrants /\ owners' = owners
  BY DEF Renew
<1> HIDE DEF lease
<1>5. OwnersAgree'
  <2>1. \A v \in Worlds : leases'[v] = IF v = w THEN lease ELSE LiveLeases[v]
    BY <1>4, LiveBook
  <2> QED
    BY <1>3, <1>4, <2>1, LiveBook DEF Owned, OwnersAgree
<1>6. \A g \in Clients : Reserving(g)'
  <2>1. \A g \in Clients : calls'[g] = calls[g] \/ calls'[g].op # "renew"
    BY OtherCalls DEF Renew, Idle
  <2> QED
    BY <1>4, <2>1 DEF Owned, Reserving
<1> QED
  BY <1>5, <1>6 DEF Owned

LEMMA OwnedBegin ==
  ASSUME TypeOK, Owned, NEW h \in Clients, NEW w \in Worlds, NEW x \in Attempts,
         NEW who \in Holders, NEW l \in Locators, NEW peer \in Peers, NEW proof \in Proofs,
         Begin(h, w, x, who, l, peer, proof)
  PROVE  Owned'
<1> DEFINE lease == [Restarted(LiveLeases[w]) EXCEPT !.opened = @ + 1]
<1>1. LiveLeases[w] \in Lease /\ LiveLeases[w] = leases[w] /\ leases[w] # None
  BY LiveBook, NotNone DEF Begin, Running
<1>2. lease.admin = leases[w].admin
  BY <1>1, LeaseOperators
<1>3. leases' = LiveLeases \/ leases' = [LiveLeases EXCEPT ![w] = lease]
  BY DEF Begin
<1> HIDE DEF lease
<1>4. \A v \in Worlds : leases'[v] # None =>
        leases[v] # None /\ leases'[v].admin = leases[v].admin
  BY <1>1, <1>2, <1>3, LiveBook
<1>5. \A g \in Clients : calls'[g] = calls[g] \/ calls'[g].op # "renew"
  BY OtherCalls DEF Begin
<1> QED
  BY <1>4, <1>5, Subsiding, OwnedKept DEF Begin, OwnersKept

LEMMA OwnedRefuseBegin ==
  ASSUME TypeOK, Owned, NEW w \in Worlds, NEW peer \in Peers, RefuseBegin(w, peer)
  PROVE  Owned'
<1> DEFINE lease == Restarted(LiveLeases[w])
<1>1. LiveLeases[w] \in Lease /\ LiveLeases[w] = leases[w] /\ leases[w] # None
  BY LiveBook, NotNone DEF RefuseBegin
<1>2. lease.admin = leases[w].admin
  BY <1>1, LeaseOperators
<1>3. leases' = [LiveLeases EXCEPT ![w] = lease]
  BY DEF RefuseBegin
<1> HIDE DEF lease
<1>4. \A v \in Worlds : leases'[v] # None =>
        leases[v] # None /\ leases'[v].admin = leases[v].admin
  BY <1>1, <1>2, <1>3, LiveBook
<1> QED
  BY <1>4, Subsiding, OwnedKept DEF RefuseBegin, OwnersKept

LEMMA OwnedMint ==
  ASSUME TypeOK, Owned, NEW h \in Clients, NEW p \in Principals, Mint(h, p)
  PROVE  Owned'
<1> DEFINE k == calls[h].key
           g == NewGrant(k, calls[h].who, p)
<1>1. k \in Keys /\ calls[h].who \in Holders
  BY CallKinds DEF Mint, Entering
<1>2. LiveLeases[k[1]] # None /\ LiveLeases[k[1]] = leases[k[1]]
  BY <1>1, KeysOf, LiveBook DEF Mint, Grantable
<1>3. g.admin = owners[k[1]]
  BY <1>1, <1>2, GrantOperators, KeysOf DEF Owned, OwnersAgree
<1>4. /\ grants' = [LiveGrants EXCEPT ![k] = g] /\ leases' = LiveLeases
      /\ owners' = owners
  BY DEF Mint
<1> HIDE DEF g, k
<1>5. OwnersAgree'
  <2>1. \A j \in Keys : grants'[j] = IF j = k THEN g ELSE LiveGrants[j]
    BY <1>1, <1>4, LiveBook
  <2> QED
    BY <1>3, <1>4, <2>1, LiveBook DEF Owned, OwnersAgree
<1>6. \A i \in Clients : Reserving(i)'
  <2>1. \A i \in Clients : calls'[i] = calls[i] \/ calls'[i].op # "renew"
    BY OtherCalls DEF Mint, Await
  <2> QED
    BY <1>4, <2>1 DEF Owned, Reserving
<1> QED
  BY <1>5, <1>6 DEF Owned

LEMMA OwnedRevokeRelay ==
  ASSUME TypeOK, Owned, NEW h \in Clients, NEW w \in Worlds, NEW x \in Attempts,
         NEW who \in Holders, RevokeRelay(h, w, x, who)
  PROVE  Owned'
<1>1. \A k \in Keys : grants'[k] # None =>
        grants[k] # None /\ grants'[k].admin = grants[k].admin
  <2>1. CASE grants' = LiveGrants
    BY <2>1, Subsiding
  <2>2. CASE grants' = [k \in Keys |->
                          IF k[1] = w /\ k[2] = x /\ Mine(LiveGrants[k], who)
                            THEN RevokedGrant(LiveGrants[k], who) ELSE LiveGrants[k]]
    <3>1. \A k \in Keys : Mine(LiveGrants[k], who) =>
            /\ LiveGrants[k] = grants[k] /\ grants[k] # None
            /\ RevokedGrant(LiveGrants[k], who).admin = grants[k].admin
      BY LiveBook, RevokedGrantFields DEF Mine
    <3> QED
      BY <2>2, <3>1, LiveBook
  <2> QED
    BY <2>1, <2>2 DEF RevokeRelay, RevokedGrant
<1>2. \A g \in Clients : calls'[g] = calls[g] \/ calls'[g].op # "renew"
  <2>1. CASE UNCHANGED calls
    BY <2>1
  <2>2. CASE ~UNCHANGED calls
    BY <2>2, OtherCalls DEF RevokeRelay
  <2> QED
    BY <2>1, <2>2
<1> QED
  BY <1>1, <1>2, Subsiding, OwnedKept DEF RevokeRelay, OwnersKept

LEMMA OwnedInductive ==
  ASSUME TypeOK, Owned, [Next]_vars
  PROVE  Owned'
<1>1. CASE Routine
  BY <1>1, Subsiding, OwnedKept DEF Routine
<1>2. CASE Signalled
  BY <1>2, Subsiding, OwnedKept DEF Signalled, OwnersKept
<1>3. ASSUME NEW h \in Clients, Join(h)
      PROVE  Owned'
  <2>1. \A g \in Clients : calls'[g] = calls[g] \/ calls'[g].op # "renew"
    BY <1>3, OtherCalls DEF Join, Await
  <2> QED
    BY <1>3, <2>1, Subsiding, OwnedKept DEF Join, Entered, OwnersKept
<1>4. ASSUME NEW w \in Worlds, NEW who \in Holders, NEW l \in Locators, Revoke(w, who, l)
      PROVE  Owned'
  <2>1. \A v \in Worlds : leases'[v] # None =>
          leases[v] # None /\ leases'[v].admin = leases[v].admin
    BY <1>4, LiveBook DEF Revoke
  <2> QED
    BY <1>4, <2>1, Subsiding, OwnedKept DEF Revoke, OwnersKept
<1>5. CASE Restart
  BY <1>5, OwnedKept DEF Restart, Idle, OwnersKept
<1> QED
  BY <1>1, <1>2, <1>3, <1>4, <1>5, StepKinds, OwnedReserve, OwnedRenew, OwnedBegin,
     OwnedRefuseBegin, OwnedMint, OwnedRevokeRelay DEF Opening, Denying

LEMMA OwnedAlways == Spec => [](TypeOK /\ Owned)
<1>1. Init => Owned
  BY DEF Init, Owned, OwnersAgree, Reserving, Idle
<1>2. TypeOK /\ Owned /\ [Next]_vars => Owned'
  BY OwnedInductive
<1> QED
  BY <1>1, <1>2, TypeCorrect, PTL DEF Spec

(* Every lease and every grant names the owner of the address.              *)
THEOREM OwnersAlwaysAgree == Spec => []OwnersAgree
<1>1. Owned => OwnersAgree
  BY DEF Owned
<1> QED
  BY <1>1, OwnedAlways, PTL

-----------------------------------------------------------------------------
(* A peer identity names one connection of a World at a time.               *)
LEMMA PeersKept ==
  ASSUME PeersDistinct,
         \A w \in Worlds, x \in Attempts : attempts'[w][x] # None =>
           attempts[w][x] # None /\ attempts'[w][x].peer = attempts[w][x].peer
  PROVE  PeersDistinct'
  BY DEF PeersDistinct

LEMMA PeersBegin ==
  ASSUME TypeOK, PeersDistinct, NEW h \in Clients, NEW w \in Worlds, NEW x \in Attempts,
         NEW who \in Holders, NEW l \in Locators, NEW peer \in Peers, NEW proof \in Proofs,
         Begin(h, w, x, who, l, peer, proof)
  PROVE  PeersDistinct'
<1> DEFINE old == LiveAttempts[w][x]
<1>1. CASE /\ old # None
           /\ attempts' = [LiveAttempts EXCEPT ![w][x] = Access(old)]
  <2>1. old \in Attempt
    BY <1>1, LiveBook
  <2>2. Access(old).peer = old.peer
    <3> HIDE DEF old
    <3> QED
      BY <2>1 DEF Access, Attempt
  <2>3. \A v \in Worlds, y \in Attempts :
          attempts'[v][y] = IF v = w /\ y = x THEN Access(old) ELSE LiveAttempts[v][y]
    BY <1>1, LiveBook
  <2>4. \A v \in Worlds, y \in Attempts : attempts'[v][y] # None =>
          attempts[v][y] # None /\ attempts'[v][y].peer = attempts[v][y].peer
    BY <1>1, <2>2, <2>3, LiveBook
  <2> QED
    BY <2>4, PeersKept
<1>2. CASE /\ PeerFree(w, peer)
           /\ attempts' = [LiveAttempts EXCEPT ![w][x] = NewAttempt(who, peer, proof)]
  <2> DEFINE new == NewAttempt(who, peer, proof)
  <2>1. new.peer = peer
    BY AttemptOperators
  <2> HIDE DEF new
  <2>2. \A v \in Worlds, y \in Attempts :
          attempts'[v][y] = IF v = w /\ y = x THEN new ELSE LiveAttempts[v][y]
    BY <1>2, LiveBook DEF new
  <2>3. \A y \in Attempts : LiveAttempts[w][y] # None => LiveAttempts[w][y].peer # peer
    <3>1. DOMAIN LiveAttempts[w] = Attempts
      BY LiveBook
    <3> QED
      BY <1>2, <3>1 DEF PeerFree, Known
  <2>4. \A v \in Worlds, y, z \in Attempts :
          y # z /\ LiveAttempts[v][y] # None /\ LiveAttempts[v][z] # None
          => LiveAttempts[v][y].peer # LiveAttempts[v][z].peer
    BY LiveBook DEF PeersDistinct
  <2> QED
    BY <2>1, <2>2, <2>3, <2>4 DEF PeersDistinct
<1> QED
  BY <1>1, <1>2 DEF Begin, Accessible

THEOREM PeersAlwaysDistinct == Spec => []PeersDistinct
<1>1. Init => PeersDistinct
  BY DEF Init, PeersDistinct
<1>2. ASSUME TypeOK, PeersDistinct, [Next]_vars
      PROVE  PeersDistinct'
  <2>1. \A w \in Worlds, x \in Attempts : LiveAttempts[w][x] \in {attempts[w][x], None}
    BY <1>2, LiveBook
  <2>2. CASE attempts' \in {attempts, LiveAttempts}
    BY <1>2, <2>1, <2>2, PeersKept
  <2>3. CASE Signalled
    BY <1>2, <2>3, PeersKept DEF Signalled
  <2>4. ASSUME NEW w \in Worlds, NEW who \in Holders, NEW l \in Locators, Revoke(w, who, l)
        PROVE  PeersDistinct'
    <3>1. \A v \in Worlds, x \in Attempts :
            attempts'[v][x] \in {LiveAttempts[v][x], None}
      BY <1>2, <2>4, LiveBook DEF Revoke
    <3> QED
      BY <1>2, <2>1, <3>1, PeersKept
  <2>5. CASE Opening
    BY <1>2, <2>5, PeersBegin DEF Opening
  <2>6. ASSUME NEW h \in Clients, NEW w \in Worlds, NEW x \in Attempts, NEW who \in Holders,
               RevokeRelay(h, w, x, who)
        PROVE  PeersDistinct'
    <3> DEFINE a == LiveAttempts[w][x]
               new == IF a # None /\ LiveLeases[w].admin = who
                        THEN [a EXCEPT !.relayRevoked = TRUE] ELSE a
    <3>1. new # None => a # None /\ new.peer = a.peer
      <4>1. a \in Attempt \cup {None}
        BY <1>2, LiveBook
      <4>2. a \in Attempt => [a EXCEPT !.relayRevoked = TRUE].peer = a.peer
        BY DEF Attempt
      <4> HIDE DEF a
      <4> QED
        BY <4>1, <4>2
    <3>2. attempts' = [LiveAttempts EXCEPT ![w][x] = new]
      BY <2>6 DEF RevokeRelay
    <3> HIDE DEF new
    <3>3. \A v \in Worlds, y \in Attempts :
            attempts'[v][y] = IF v = w /\ y = x THEN new ELSE LiveAttempts[v][y]
      BY <1>2, <3>2, LiveBook
    <3> QED
      BY <1>2, <2>1, <3>1, <3>3, PeersKept
  <2>7. CASE Restart
    BY <1>2, <2>7, PeersKept DEF Restart
  <2>8. ASSUME \/ \E h \in Clients : Reserve(h) \/ Renew(h) \/ Join(h)
               \/ \E w \in Worlds, peer \in Peers : RefuseBegin(w, peer)
               \/ \E h \in Clients, p \in Principals : Mint(h, p)
               \/ Routine
        PROVE  attempts' \in {attempts, LiveAttempts}
    BY <2>8 DEF Reserve, Renew, Join, RefuseBegin, Mint, Routine, Entered, book
  <2> QED
    BY <1>2, <2>2, <2>3, <2>4, <2>5, <2>6, <2>7, <2>8, StepKinds DEF Denying
<1> QED
  BY <1>1, <1>2, TypeCorrect, PTL DEF Spec

-----------------------------------------------------------------------------
(* The issuances and the grants agree: a credential that still lasts has    *)
(* its grant, a grant has its credential, and a call waits for the          *)
(* credential of its own side.                                              *)
Unminted(p) == minted[p].state = "unused" => minted[p].key = None

Backed(p) ==
  minted[p].key # None /\ minted[p].until > now =>
    LET g == grants[minted[p].key]
    IN  g # None /\ g.principal = p /\ g.expires = minted[p].until

Issuing(k) == grants[k] # None => minted[grants[k].principal].key = k

Expecting(h) == calls[h].op = "await" => minted[calls[h].principal].key = calls[h].key

Granted ==
  /\ \A p \in Principals : Unminted(p) /\ Backed(p)
  /\ \A k \in Keys : Issuing(k)
  /\ \A h \in Clients : Expecting(h)

(* Steps that change nothing about the issuances but time.                  *)
LEMMA GrantedKept ==
  ASSUME TypeOK, Granted, QuietMints,
         now' \in {now, now + 1},
         \A k \in Keys : grants[k] # None /\ grants[k].expires > now =>
           /\ grants'[k] # None /\ grants'[k].principal = grants[k].principal
           /\ grants'[k].expires = grants[k].expires,
         \A k \in Keys : grants'[k] # None =>
           grants[k] # None /\ grants'[k].principal = grants[k].principal,
         \A h \in Clients : calls'[h] = calls[h] \/ calls'[h].op # "await"
  PROVE  Granted'
<1>1. /\ now \in Nat
      /\ \A p \in Principals : minted[p].until \in Nat /\ minted[p].key \in Keys \cup {None}
      /\ \A k \in Keys : grants[k] # None => grants[k].principal \in Principals
      /\ \A h \in Clients : calls[h].op = "await" => calls[h].principal \in Principals
  BY CallKinds DEF TypeOK, Issuance, Grant, Awaiting
<1>2. \A p \in Principals : Unminted(p)'
  BY DEF Granted, Unminted, QuietMints
<1>3. \A p \in Principals : Backed(p)'
  <2> SUFFICES ASSUME NEW p \in Principals, minted'[p].key # None, minted'[p].until > now'
               PROVE  LET g == grants'[minted'[p].key]
                      IN  g # None /\ g.principal = p /\ g.expires = minted'[p].until
    BY DEF Backed
  <2> DEFINE k == minted[p].key
  <2>1. /\ minted'[p].key = k /\ minted'[p].until = minted[p].until
        /\ k \in Keys /\ minted[p].until > now
    BY <1>1 DEF QuietMints
  <2>2. grants[k] # None /\ grants[k].principal = p /\ grants[k].expires = minted[p].until
    BY <2>1 DEF Granted, Backed
  <2> QED
    BY <2>1, <2>2
<1>4. \A k \in Keys : Issuing(k)'
  BY <1>1 DEF Granted, Issuing, QuietMints
<1>5. \A h \in Clients : Expecting(h)'
  BY <1>1 DEF Granted, Expecting, QuietMints
<1> QED
  BY <1>2, <1>3, <1>4, <1>5 DEF Granted

LEMMA GrantsSubside ==
  ASSUME TypeOK, grants' \in {grants, LiveGrants}
  PROVE  /\ \A k \in Keys : grants[k] # None /\ grants[k].expires > now => grants'[k] = grants[k]
         /\ \A k \in Keys : grants'[k] # None => grants'[k] = grants[k]
  BY DEF LiveGrants, TypeOK

LEMMA GrantedMint ==
  ASSUME TypeOK, Granted, NEW h \in Clients, NEW p \in Principals, Mint(h, p)
  PROVE  Granted'
<1> DEFINE k == calls[h].key
           g == NewGrant(k, calls[h].who, p)
           i == [state |-> "running", key |-> k, until |-> now + GrantTTL, ends |-> 0]
<1>1. k \in Keys /\ calls[h].who \in Holders
  BY CallKinds DEF Mint, Entering
<1>2. g # None /\ g.principal = p /\ g.expires = now + GrantTTL
  <2>1. LiveLeases[k[1]] # None
    BY <1>1, KeysOf, LiveBook DEF Mint, Grantable
  <2>2. g \in Grant /\ g.principal = p /\ g.expires = now + GrantTTL
    BY <1>1, <2>1, GrantOperators
  <2> QED
    BY <2>2, NotNone
<1>3. minted[p].key = None
  BY DEF Mint, Granted, Unminted
<1>4. /\ LiveGrants[k] = None /\ now' = now
      /\ grants' = [LiveGrants EXCEPT ![k] = g]
      /\ minted' = [minted EXCEPT ![p] = i]
      /\ calls' = [calls EXCEPT ![h] =
           [op |-> "await", at |-> calls[h].at, key |-> k, principal |-> p]]
  BY DEF Mint, Await
<1>5. i.state = "running" /\ i.key = k /\ i.until = now + GrantTTL
  OBVIOUS
<1> HIDE DEF g, i
<1>6. /\ \A j \in Keys : grants'[j] = IF j = k THEN g ELSE LiveGrants[j]
      /\ \A q \in Principals : minted'[q] = IF q = p THEN i ELSE minted[q]
  BY <1>1, <1>4, LiveBook DEF TypeOK
<1>7. \A q \in Principals : Unminted(q)'
  BY <1>5, <1>6 DEF Granted, Unminted
<1>8. \A q \in Principals : Backed(q)'
  <2> SUFFICES ASSUME NEW q \in Principals, minted'[q].key # None, minted'[q].until > now
               PROVE  LET f == grants'[minted'[q].key]
                      IN  f # None /\ f.principal = q /\ f.expires = minted'[q].until
    BY <1>4 DEF Backed
  <2>1. CASE q = p
    BY <1>1, <1>2, <1>5, <1>6, <2>1
  <2>2. CASE q # p
    <3> DEFINE j == minted[q].key
    <3>1. minted'[q] = minted[q] /\ j \in Keys
      BY <1>6, <2>2 DEF TypeOK, Issuance
    <3>2. grants[j] # None /\ grants[j].principal = q /\ grants[j].expires = minted[q].until
      BY <3>1 DEF Granted, Backed
    <3>3. LiveGrants[j] = grants[j]
      BY <3>1, <3>2 DEF LiveGrants
    <3> QED
      BY <1>4, <1>6, <3>1, <3>2, <3>3
  <2> QED
    BY <2>1, <2>2
<1>9. \A j \in Keys : Issuing(j)'
  <2> SUFFICES ASSUME NEW j \in Keys, grants'[j] # None
               PROVE  minted'[grants'[j].principal].key = j
    BY DEF Issuing
  <2>1. CASE j = k
    BY <1>1, <1>2, <1>5, <1>6, <2>1
  <2>2. CASE j # k
    <3>1. grants'[j] = grants[j] /\ grants[j] # None
      BY <1>6, <2>2, LiveBook
    <3>2. grants[j].principal \in Principals /\ minted[grants[j].principal].key = j
      BY <3>1 DEF TypeOK, Grant, Granted, Issuing
    <3>3. grants[j].principal # p
      BY <1>3, <3>2, NotNone
    <3> QED
      BY <1>6, <3>1, <3>2, <3>3
  <2> QED
    BY <2>1, <2>2
<1>10. \A e \in Clients : Expecting(e)'
  <2> SUFFICES ASSUME NEW e \in Clients, calls'[e].op = "await"
               PROVE  minted'[calls'[e].principal].key = calls'[e].key
    BY DEF Expecting
  <2>1. CASE e = h
    BY <1>4, <1>5, <1>6, <2>1 DEF TypeOK
  <2>2. CASE e # h
    <3>1. calls'[e] = calls[e]
      BY <1>4, <2>2
    <3>2. /\ calls[e].principal \in Principals /\ calls[e].key \in Keys
          /\ minted[calls[e].principal].key = calls[e].key
      BY <3>1, CallKinds DEF Awaiting, Granted, Expecting
    <3>3. calls[e].principal # p
      BY <1>3, <3>2, NotNone
    <3> QED
      BY <1>6, <3>1, <3>2, <3>3
  <2> QED
    BY <2>1, <2>2
<1> QED
  BY <1>7, <1>8, <1>9, <1>10 DEF Granted

LEMMA GrantedJoin ==
  ASSUME TypeOK, Granted, NEW h \in Clients, Join(h)
  PROVE  Granted'
<1> DEFINE k == calls[h].key
           call == [op |-> "await", at |-> calls[h].at, key |-> k,
                    principal |-> LiveGrants[k].principal]
<1>1. k \in Keys /\ LiveGrants[k] = grants[k] /\ grants[k] # None
  BY CallKinds, LiveBook DEF Join, Entering
<1>2. minted[LiveGrants[k].principal].key = k
  BY <1>1 DEF Granted, Issuing
<1>3. /\ grants' = LiveGrants /\ minted' = minted /\ now' = now
      /\ calls' = [calls EXCEPT ![h] = call]
  BY DEF Join, Await, Entered
<1>4. \A p \in Principals : Unminted(p)' /\ Backed(p)'
  <2>1. \A p \in Principals : minted[p].key \in Keys \cup {None}
    BY DEF TypeOK, Issuance
  <2>2. \A j \in Keys : grants[j] # None /\ grants[j].expires > now => grants'[j] = grants[j]
    BY <1>3, GrantsSubside
  <2> QED
    BY <1>3, <2>1, <2>2 DEF Granted, Unminted, Backed
<1>5. \A j \in Keys : Issuing(j)'
  BY <1>3, LiveBook DEF Granted, Issuing
<1>6. \A e \in Clients : Expecting(e)'
  <2> SUFFICES ASSUME NEW e \in Clients
               PROVE  Expecting(e)'
    OBVIOUS
  <2>1. CASE e = h
    BY <1>2, <1>3, <2>1 DEF Expecting, TypeOK
  <2>2. CASE e # h
    BY <1>3, <2>2 DEF Granted, Expecting
  <2> QED
    BY <2>1, <2>2
<1> QED
  BY <1>4, <1>5, <1>6 DEF Granted

LEMMA GrantedRevokeRelay ==
  ASSUME TypeOK, Granted, NEW h \in Clients, NEW w \in Worlds, NEW x \in Attempts,
         NEW who \in Holders, RevokeRelay(h, w, x, who)
  PROVE  Granted'
<1>1. \A k \in Keys : grants'[k] # None =>
        grants[k] # None /\ grants'[k].principal = grants[k].principal
  <2>1. CASE grants' = LiveGrants
    BY <2>1, GrantsSubside
  <2>2. CASE grants' = [k \in Keys |->
                          IF k[1] = w /\ k[2] = x /\ Mine(LiveGrants[k], who)
                            THEN RevokedGrant(LiveGrants[k], who) ELSE LiveGrants[k]]
    <3>1. \A k \in Keys : Mine(LiveGrants[k], who) =>
            /\ LiveGrants[k] = grants[k] /\ grants[k] # None
            /\ RevokedGrant(LiveGrants[k], who).principal = grants[k].principal
      BY LiveBook, RevokedGrantFields DEF Mine
    <3> QED
      BY <2>2, <3>1, LiveBook
  <2> QED
    BY <2>1, <2>2 DEF RevokeRelay, RevokedGrant
<1>2. \A k \in Keys : grants[k] # None /\ grants[k].expires > now =>
        /\ grants'[k] # None /\ grants'[k].principal = grants[k].principal
        /\ grants'[k].expires = grants[k].expires
  <2>1. \A k \in Keys : grants[k] # None /\ grants[k].expires > now =>
          LiveGrants[k] = grants[k] /\ grants[k] \in Grant
    BY DEF LiveGrants, TypeOK
  <2>2. CASE grants' = LiveGrants
    BY <2>1, <2>2
  <2>3. CASE grants' = [k \in Keys |->
                          IF k[1] = w /\ k[2] = x /\ Mine(LiveGrants[k], who)
                            THEN RevokedGrant(LiveGrants[k], who) ELSE LiveGrants[k]]
    <3>1. \A g \in Grant :
            /\ RevokedGrant(g, who) # None
            /\ RevokedGrant(g, who).principal = g.principal
            /\ RevokedGrant(g, who).expires = g.expires
      BY RevokedGrantFields, NotNone
    <3> QED
      BY <2>1, <2>3, <3>1
  <2> QED
    BY <2>2, <2>3 DEF RevokeRelay, RevokedGrant
<1>3. \A g \in Clients : calls'[g] = calls[g] \/ calls'[g].op # "await"
  <2>1. CASE UNCHANGED calls
    BY <2>1
  <2>2. CASE ~UNCHANGED calls
    BY <2>2, RoutineCall DEF RevokeRelay
  <2> QED
    BY <2>1, <2>2
<1>4. QuietMints /\ now' = now
  BY DEF RevokeRelay, QuietMints
<1> QED
  BY <1>1, <1>2, <1>3, <1>4, GrantedKept

(* Of all steps, only these four do anything to the issuances or the calls  *)
(* that wait for them.                                                      *)
LEMMA GrantKinds ==
  ASSUME TypeOK, [Next]_vars
  PROVE  \/ /\ grants' \in {grants, LiveGrants} /\ QuietMints /\ now' \in {now, now + 1}
            /\ \A h \in Clients : calls'[h] = calls[h] \/ calls'[h].op # "await"
         \/ \E h \in Clients : Join(h)
         \/ \E h \in Clients, p \in Principals : Mint(h, p)
         \/ Denying
         \/ Restart
<1>1. minted' = minted => QuietMints
  BY DEF QuietMints
<1>2. CASE Routine
  BY <1>2 DEF Routine
<1>3. CASE Signalled
  BY <1>1, <1>3 DEF Signalled
<1>4. ASSUME NEW h \in Clients, Reserve(h)
      PROVE  \A g \in Clients : calls'[g] = calls[g] \/ calls'[g].op # "await"
  <2>1. calls[h] \in Publishing
    BY <1>4, CallKinds DEF Reserve
  <2>2. [calls[h] EXCEPT !.op = "renew"].op = "renew"
    BY <2>1 DEF Publishing
  <2> QED
    BY <1>4, <2>2 DEF Reserve, TypeOK
<1>5. ASSUME NEW h \in Clients, Renew(h)
      PROVE  \A g \in Clients : calls'[g] = calls[g] \/ calls'[g].op # "await"
  BY <1>5, RoutineCall DEF Renew, Idle
<1>6. CASE \E h \in Clients : Reserve(h) \/ Renew(h)
  BY <1>1, <1>4, <1>5, <1>6 DEF Reserve, Renew, book
<1>7. CASE \/ \E w \in Worlds, who \in Holders, l \in Locators : Revoke(w, who, l)
           \/ \E w \in Worlds, peer \in Peers : RefuseBegin(w, peer)
  BY <1>1, <1>7 DEF Revoke, RefuseBegin
<1>8. CASE Opening
  <2>1. \A g \in Clients : calls'[g] = calls[g] \/ calls'[g].op # "await"
    BY <1>8, RoutineCall DEF Opening, Begin
  <2> QED
    BY <1>1, <1>8, <2>1 DEF Opening, Begin
<1> QED
  BY <1>2, <1>3, <1>6, <1>7, <1>8, StepKinds

LEMMA GrantedInductive ==
  ASSUME TypeOK, Granted, [Next]_vars
  PROVE  Granted'
<1>1. CASE /\ grants' \in {grants, LiveGrants} /\ QuietMints /\ now' \in {now, now + 1}
           /\ \A h \in Clients : calls'[h] = calls[h] \/ calls'[h].op # "await"
  BY <1>1, GrantsSubside, GrantedKept
<1>2. CASE Restart
  <2>1. \A p \in Principals : minted'[p].key = None
    BY <1>2 DEF Restart, TypeOK, Issuance
  <2> QED
    BY <1>2, <2>1 DEF Restart, Granted, Unminted, Backed, Issuing, Expecting, Idle
<1> QED
  BY <1>1, <1>2, GrantKinds, GrantedJoin, GrantedMint, GrantedRevokeRelay DEF Denying

LEMMA GrantedAlways == Spec => [](TypeOK /\ Granted)
<1>1. Init => Granted
  BY DEF Init, Granted, Unminted, Backed, Issuing, Expecting, Unused, Idle
<1>2. TypeOK /\ Granted /\ [Next]_vars => Granted'
  BY GrantedInductive
<1> QED
  BY <1>1, <1>2, TypeCorrect, PTL DEF Spec

(* Retries never mint a second credential for one side of an attempt.       *)
THEOREM MintedAtMostOnce == Spec => []MintedOnce
<1>1. TypeOK /\ Granted => MintedOnce
  BY DEF Granted, Backed, MintedOnce
<1> QED
  BY <1>1, GrantedAlways, PTL

(* The life of a credential is counted within its task, which sees the      *)
(* clock move at most once: it ends at most that much after its grant.      *)
Timely(p) ==
  /\ minted[p].state = "running" => now + GrantTTL <= minted[p].until + 1
  /\ minted[p].state = "issued" => minted[p].ends <= minted[p].until + 1

LEMMA MintSteps ==
  ASSUME [Next]_vars
  PROVE  \/ minted' = minted /\ now' = now
         \/ \E h \in Clients, p \in Principals : Mint(h, p)
         \/ \E h \in Clients, host \in BOOLEAN : RevokeNext(h, host)
         \/ \E p \in Principals, state \in {"issued", "failed"} : Issued(p, state)
         \/ Restart
         \/ Tick
<1>1. CASE Publication
  BY <1>1 DEF Publication, Publish, Reserve, Renew, Reservation, Revoke
<1>2. CASE Signalling
  BY <1>2 DEF Signalling, Offer, Answer, Read, Remove, SetAttempt
<1>3. CASE Relaying
  <2>1. ASSUME NEW h \in Clients, NEW w \in Worlds, NEW x \in Attempts, NEW who \in Holders,
               \/ \E l \in Locators, peer \in Peers, proof \in Proofs :
                    Begin(h, w, x, who, l, peer, proof)
               \/ \E l \in Locators : HostIce(h, w, x, who, l)
               \/ RevokeRelay(h, w, x, who)
        PROVE  minted' = minted /\ now' = now
    BY <2>1 DEF Begin, HostIce, RevokeRelay
  <2>2. ASSUME NEW h \in Clients,
               Join(h) \/ RefuseGrant(h) \/ Disclose(h) \/ RelayRevoked(h)
        PROVE  minted' = minted /\ now' = now
    BY <2>2 DEF Join, RefuseGrant, Disclose, RelayRevoked
  <2>3. ASSUME NEW w \in Worlds, NEW peer \in Peers, RefuseBegin(w, peer)
        PROVE  minted' = minted /\ now' = now
    BY <2>3 DEF RefuseBegin
  <2> QED
    BY <1>3, <2>1, <2>2, <2>3 DEF Relaying
<1>4. CASE Sweep \/ UNCHANGED vars \/ \E h \in Clients : Drop(h)
  BY <1>4 DEF Sweep, Drop, vars
<1> QED
  BY <1>1, <1>2, <1>3, <1>4 DEF Next

LEMMA TimelyNext ==
  ASSUME TypeOK, \A p \in Principals : Timely(p), [Next]_vars
  PROVE  \A p \in Principals : Timely(p)'
<1> SUFFICES ASSUME NEW p \in Principals
             PROVE  Timely(p)'
  OBVIOUS
<1>0. /\ now \in Nat /\ GrantTTL \in Nat /\ minted[p] \in Issuance
      /\ minted[p].until \in Nat /\ minted[p].ends \in Nat
      /\ Timely(p)
  BY PeriodsAssumption DEF TypeOK, Issuance
<1>1. ASSUME minted'[p] = minted[p], now' = now
      PROVE  Timely(p)'
  BY <1>0, <1>1 DEF Timely
<1>2. ASSUME NEW h \in Clients, NEW q \in Principals, Mint(h, q)
      PROVE  Timely(p)'
  <2> DEFINE i == [state |-> "running", key |-> calls[h].key, until |-> now + GrantTTL,
                   ends |-> 0]
  <2>1. minted' = [minted EXCEPT ![q] = i] /\ now' = now
    BY <1>2 DEF Mint
  <2>2. i.state = "running" /\ i.until = now + GrantTTL
    OBVIOUS
  <2> HIDE DEF i
  <2>3. minted'[p] = IF p = q THEN i ELSE minted[p]
    BY <2>1 DEF TypeOK
  <2> QED
    BY <1>0, <1>1, <2>1, <2>2, <2>3 DEF Timely
<1>3. ASSUME NEW h \in Clients, NEW host \in BOOLEAN, RevokeNext(h, host)
      PROVE  Timely(p)'
  <2> DEFINE q == calls[h].left[host]
             state == IF minted[q].state = "issued" /\ Revocable THEN "revoked"
                      ELSE minted[q].state
  <2>1. minted' = [minted EXCEPT ![q] = [minted[q] EXCEPT !.state = state]] /\ now' = now
    BY <1>3 DEF RevokeNext
  <2>2. state \in {"revoked", minted[q].state}
    OBVIOUS
  <2> HIDE DEF q, state
  <2>3. minted'[p] = IF p = q THEN [minted[p] EXCEPT !.state = state] ELSE minted[p]
    BY <2>1 DEF TypeOK
  <2> QED
    BY <1>0, <2>1, <2>2, <2>3 DEF Timely, Issuance
<1>4. ASSUME NEW q \in Principals, NEW state \in {"issued", "failed"}, Issued(q, state)
      PROVE  Timely(p)'
  <2>1. PICK ends \in Nat :
          /\ minted' = [minted EXCEPT ![q] = [minted[q] EXCEPT !.state = state, !.ends = ends]]
          /\ state = "issued" => ends <= now + GrantTTL
    BY <1>4, IssuedLife
  <2>2. minted'[p] = IF p = q THEN [minted[p] EXCEPT !.state = state, !.ends = ends]
                     ELSE minted[p]
    BY <2>1 DEF TypeOK
  <2>3. now' = now /\ minted[q].state = "running"
    BY <1>4 DEF Issued
  <2>4. CASE p # q
    BY <1>1, <2>2, <2>3, <2>4
  <2>5. CASE p = q
    <3>1. /\ minted'[p].state = state /\ minted'[p].ends = ends
          /\ minted'[p].until = minted[p].until
      BY <1>0, <2>2, <2>5 DEF Issuance
    <3> QED
      BY <1>0, <2>1, <2>3, <2>5, <3>1 DEF Timely
  <2> QED
    BY <2>4, <2>5
<1>5. CASE Restart
  <2> DEFINE state == IF minted[p].state = "running" THEN "failed" ELSE minted[p].state
  <2>1. minted'[p] = [minted[p] EXCEPT !.key = None, !.state = state] /\ now' = now
    BY <1>5 DEF Restart
  <2>2. state # "running" /\ (state = "issued" => minted[p].state = "issued")
    OBVIOUS
  <2> HIDE DEF state
  <2> QED
    BY <1>0, <2>1, <2>2 DEF Timely, Issuance
<1>6. CASE Tick
  <2>1. /\ minted' = minted /\ now' = now + 1
        /\ minted[p].state = "running" => minted[p].until = now + GrantTTL
    BY <1>6 DEF Tick
  <2> QED
    BY <1>0, <2>1 DEF Timely
<1> QED
  BY <1>1, <1>2, <1>3, <1>4, <1>5, <1>6, MintSteps

(* The owner of a World can have a credential revoked from its request on   *)
(* until the last moments of its own life.                                  *)
THEOREM AlwaysStaysRevocable == Spec => []StaysRevocable
<1>1. Init => \A p \in Principals : Timely(p)
  BY DEF Init, Unused, Timely
<1>2. TypeOK /\ (\A p \in Principals : Timely(p)) /\ [Next]_vars
      => (\A p \in Principals : Timely(p))'
  BY TimelyNext
<1>3. ASSUME TypeOK, Granted, OwnersAgree, \A p \in Principals : Timely(p)
      PROVE  StaysRevocable
  <2> SUFFICES ASSUME NEW p \in Principals, minted[p].key # None,
                      \/ minted[p].state = "running"
                      \/ minted[p].state = "issued" /\ minted[p].ends > now + 1
               PROVE  LET k == minted[p].key
                      IN  Mine(grants[k], owners[k[1]]) /\ grants[k].principal = p
    BY DEF StaysRevocable
  <2> DEFINE k == minted[p].key
  <2>1. k \in Keys /\ minted[p].until \in Nat /\ minted[p].ends \in Nat /\ now \in Nat
    BY <1>3 DEF TypeOK, Issuance
  <2>2. minted[p].until > now
    BY <1>3, <2>1, PeriodsAssumption DEF Timely
  <2>3. grants[k] # None /\ grants[k].principal = p
    BY <1>3, <2>2 DEF Granted, Backed
  <2>4. grants[k].admin = owners[k[1]]
    BY <1>3, <2>1, <2>3 DEF OwnersAgree
  <2> QED
    BY <2>3, <2>4 DEF Mine
<1> QED
  BY <1>1, <1>2, <1>3, GrantedAlways, OwnersAlwaysAgree, PTL DEF Spec

(* No call is handed a credential whose grant is revoked.                   *)
THEOREM RevokedNeverDisclosed == Spec => RevokedNotDisclosed
<1> DEFINE Undisclosed ==
      \A h \in Clients : Disclose(h) =>
        \A k \in Keys :
          /\ LiveGrants[k] # None /\ LiveGrants[k].principal = calls[h].principal
          => ~LiveGrants[k].revoked
<1>1. ASSUME TypeOK, Granted
      PROVE  Undisclosed
  <2> SUFFICES ASSUME NEW h \in Clients, Disclose(h), NEW k \in Keys,
                      LiveGrants[k] # None, LiveGrants[k].principal = calls[h].principal
               PROVE  ~LiveGrants[k].revoked
    OBVIOUS
  <2>1. minted[calls[h].principal].key = calls[h].key
    BY <1>1 DEF Disclose, Granted, Expecting
  <2>2. minted[calls[h].principal].key = k
    BY <1>1, LiveBook DEF Granted, Issuing
  <2> QED
    BY <2>1, <2>2 DEF Disclose, Disclosable
<1>2. TypeOK /\ Granted => [Undisclosed]_vars
  BY <1>1
<1> QED
  BY <1>2, GrantedAlways, PTL DEF RevokedNotDisclosed

-----------------------------------------------------------------------------
(* When the administrator has denied one side of an attempt, the other      *)
(* side's grant is revoked too.                                             *)
RevokedTogether ==
  \A w \in Worlds, x \in Attempts, s, t \in BOOLEAN :
    /\ grants[<<w, x, s>>] # None /\ grants[<<w, x, s>>].revokeAll
    /\ grants[<<w, x, t>>] # None
    => grants[<<w, x, t>>].revoked

LEMMA TogetherKept ==
  ASSUME RevokedTogether, \A k \in Keys : grants'[k] # None => grants'[k] = grants[k]
  PROVE  RevokedTogether'
<1>1. \A w \in Worlds, x \in Attempts, s \in BOOLEAN : <<w, x, s>> \in Keys
  BY DEF Keys
<1> QED
  BY <1>1 DEF RevokedTogether

LEMMA TogetherMint ==
  ASSUME TypeOK, RevokedTogether, NEW h \in Clients, NEW p \in Principals, Mint(h, p)
  PROVE  RevokedTogether'
<1> DEFINE k == calls[h].key
           g == NewGrant(k, calls[h].who, p)
<1>1. k \in Keys /\ calls[h].who \in Holders
  BY CallKinds DEF Mint, Entering
<1>2. ~g.revokeAll
  <2>1. LiveLeases[k[1]] # None
    BY <1>1, KeysOf, LiveBook DEF Mint, Grantable
  <2> QED
    BY <1>1, <2>1, GrantOperators
<1>3. \A side \in BOOLEAN :
        LiveGrants[<<k[1], k[2], side>>] # None => ~LiveGrants[<<k[1], k[2], side>>].revokeAll
  BY DEF Mint, Grantable
<1>4. grants' = [LiveGrants EXCEPT ![k] = g]
  BY DEF Mint
<1> HIDE DEF g
<1>5. \A j \in Keys : grants'[j] = IF j = k THEN g ELSE LiveGrants[j]
  BY <1>1, <1>4, LiveBook
<1> SUFFICES ASSUME NEW w \in Worlds, NEW x \in Attempts, NEW s \in BOOLEAN, NEW t \in BOOLEAN,
                    grants'[<<w, x, s>>] # None, grants'[<<w, x, s>>].revokeAll,
                    grants'[<<w, x, t>>] # None
             PROVE  grants'[<<w, x, t>>].revoked
  BY DEF RevokedTogether
<1>6. <<w, x, s>> \in Keys /\ <<w, x, t>> \in Keys
  BY DEF Keys
<1>7. <<w, x, s>> # k /\ grants'[<<w, x, s>>] = LiveGrants[<<w, x, s>>]
  BY <1>2, <1>5, <1>6
<1>8. w # k[1] \/ x # k[2]
  BY <1>3, <1>7
<1>9. grants'[<<w, x, t>>] = LiveGrants[<<w, x, t>>]
  BY <1>5, <1>6, <1>8
<1> QED
  BY <1>6, <1>7, <1>9, LiveBook DEF RevokedTogether

LEMMA TogetherRevokeRelay ==
  ASSUME TypeOK, Owned, RevokedTogether, NEW h \in Clients, NEW w \in Worlds,
         NEW x \in Attempts, NEW who \in Holders, RevokeRelay(h, w, x, who)
  PROVE  RevokedTogether'
<1>1. CASE grants' = LiveGrants
  BY <1>1, GrantsSubside, TogetherKept
<1>2. CASE grants' = [k \in Keys |->
                        IF k[1] = w /\ k[2] = x /\ Mine(LiveGrants[k], who)
                          THEN RevokedGrant(LiveGrants[k], who) ELSE LiveGrants[k]]
  <2> SUFFICES ASSUME NEW v \in Worlds, NEW y \in Attempts, NEW s \in BOOLEAN, NEW t \in BOOLEAN,
                      grants'[<<v, y, s>>] # None, grants'[<<v, y, s>>].revokeAll,
                      grants'[<<v, y, t>>] # None
               PROVE  grants'[<<v, y, t>>].revoked
    BY DEF RevokedTogether
  <2> DEFINE j == <<v, y, s>>
             k == <<v, y, t>>
  <2>1. /\ j \in Keys /\ k \in Keys
        /\ j[1] = v /\ j[2] = y /\ k[1] = v /\ k[2] = y
    BY DEF Keys
  <2>2. ASSUME NEW i \in Keys, grants'[i] # None
        PROVE  /\ grants[i] \in Grant /\ grants[i] # None /\ LiveGrants[i] = grants[i]
               /\ grants'[i] = IF i[1] = w /\ i[2] = x /\ Mine(grants[i], who)
                                THEN RevokedGrant(grants[i], who) ELSE grants[i]
    BY <1>2, <2>2, LiveBook, NotNone DEF Mine, TypeOK
  <2>3. grants'[k].revoked \/ grants'[k] = grants[k]
    BY <2>1, <2>2, RevokedGrantFields
  <2>4. CASE grants[j].revokeAll
    <3>1. grants[k].revoked
      BY <2>1, <2>2, <2>4 DEF RevokedTogether
    <3> QED
      BY <2>3, <3>1
  <2>5. CASE ~grants[j].revokeAll
    <3>1. v = w /\ y = x /\ grants[j].admin = who
      BY <2>1, <2>2, <2>5, RevokedGrantFields
    <3>2. grants[k].admin = who
      BY <2>1, <2>2, <3>1 DEF Owned, OwnersAgree
    <3>3. Mine(grants[k], who)
      BY <2>1, <2>2, <3>2 DEF Mine
    <3>4. grants'[k] = RevokedGrant(grants[k], who)
      BY <2>1, <2>2, <3>1, <3>3
    <3> QED
      BY <2>1, <2>2, <3>4, RevokedGrantFields
  <2> QED
    BY <2>4, <2>5
<1> QED
  BY <1>1, <1>2 DEF RevokeRelay, RevokedGrant

LEMMA TogetherAlways == Spec => [](TypeOK /\ RevokedTogether)
<1>1. Init => RevokedTogether
  BY DEF Init, RevokedTogether, Keys
<1>2. ASSUME TypeOK, Owned, RevokedTogether, [Next]_vars
      PROVE  RevokedTogether'
  <2>1. CASE grants' \in {grants, LiveGrants}
    BY <1>2, <2>1, GrantsSubside, TogetherKept
  <2>2. CASE Restart
    BY <1>2, <2>2, TogetherKept DEF Restart
  <2>3. CASE \E h \in Clients : Join(h)
    BY <1>2, <2>1, <2>3 DEF Join, Entered
  <2> QED
    BY <1>2, <2>1, <2>2, <2>3, GrantKinds, TogetherMint, TogetherRevokeRelay DEF Denying
<1> QED
  BY <1>1, <1>2, OwnedAlways, PTL DEF Spec

(* Once the administrator has revoked an attempt's grant, no side of that   *)
(* attempt gets a credential while the grant is retained.                   *)
THEOREM RevocationAlwaysSticks == Spec => RevocationSticks
<1> DEFINE Sides(w, x) == {<<w, x, host>> : host \in BOOLEAN}
           Sticks ==
             \A w \in Worlds, x \in Attempts : Denied(w, x) =>
               /\ \A p \in Principals : minted[p].key # minted'[p].key =>
                    minted'[p].key \notin Sides(w, x)
               /\ \A h \in Clients : Disclose(h) => calls[h].key \notin Sides(w, x)
<1>1. ASSUME TypeOK, RevokedTogether, [Next]_vars
      PROVE  Sticks
  <2> SUFFICES ASSUME NEW w \in Worlds, NEW x \in Attempts, Denied(w, x)
               PROVE  /\ \A p \in Principals : minted[p].key # minted'[p].key =>
                           minted'[p].key \notin Sides(w, x)
                      /\ \A h \in Clients : Disclose(h) => calls[h].key \notin Sides(w, x)
    OBVIOUS
  <2>1. \A side \in Sides(w, x) : side \in Keys /\ side[1] = w /\ side[2] = x
    BY DEF Keys
  <2>2. PICK s \in BOOLEAN : LiveGrants[<<w, x, s>>] # None /\ LiveGrants[<<w, x, s>>].revokeAll
    BY DEF Denied
  <2>3. ASSUME NEW p \in Principals, minted[p].key # minted'[p].key
        PROVE  minted'[p].key \notin Sides(w, x)
    <3>1. CASE QuietMints
      BY <2>3, <3>1 DEF QuietMints
    <3>2. CASE \E h \in Clients : Join(h)
      BY <2>3, <3>2 DEF Join
    <3>3. CASE Denying
      BY <2>3, <3>3 DEF Denying, RevokeRelay
    <3>4. CASE Restart
      <4>1. minted'[p].key = None
        BY <1>1, <3>4 DEF Restart, TypeOK, Issuance
      <4> QED
        BY <2>1, <4>1, NotNone
    <3>5. ASSUME NEW h \in Clients, NEW q \in Principals, Mint(h, q)
          PROVE  minted'[p].key \notin Sides(w, x)
      <4>1. minted'[p].key = calls[h].key
        BY <1>1, <2>3, <3>5 DEF Mint, TypeOK
      <4>2. Grantable(calls[h].key)
        BY <3>5 DEF Mint
      <4>3. ~(calls[h].key[1] = w /\ calls[h].key[2] = x)
        BY <2>2, <4>2 DEF Grantable
      <4> QED
        BY <2>1, <4>1, <4>3
    <3> QED
      BY <1>1, <3>1, <3>2, <3>3, <3>4, <3>5, GrantKinds
  <2>4. ASSUME NEW h \in Clients, Disclose(h), NEW t \in BOOLEAN, calls[h].key = <<w, x, t>>
        PROVE  FALSE
    <3>1. LiveGrants[<<w, x, t>>] # None /\ ~LiveGrants[<<w, x, t>>].revoked
      BY <2>4 DEF Disclose, Disclosable
    <3>2. <<w, x, s>> \in Keys /\ <<w, x, t>> \in Keys
      BY DEF Keys
    <3>3. /\ LiveGrants[<<w, x, s>>] = grants[<<w, x, s>>]
          /\ LiveGrants[<<w, x, t>>] = grants[<<w, x, t>>]
      BY <1>1, <2>2, <3>1, <3>2, LiveBook
    <3> QED
      BY <1>1, <2>2, <3>1, <3>3 DEF RevokedTogether
  <2> QED
    BY <2>3, <2>4
<1>2. TypeOK /\ RevokedTogether /\ [Next]_vars => [Sticks]_vars
  BY <1>1
<1> QED
  BY <1>2, TogetherAlways, PTL DEF Spec, RevocationSticks

-----------------------------------------------------------------------------
(* The limits of the book.  A part of it grows by one entry at a time, in a *)
(* section that has counted the live entries; what is expired only shrinks. *)
Fits(f, max) == IsFiniteSet(Known(f)) /\ Cardinality(Known(f)) <= max

OfWorld(w) == {k \in Known(grants) : k[1] = w}

Bounded ==
  /\ Fits(leases, MaxLeases)
  /\ \A w \in Worlds : Fits(attempts[w], MaxAttempts)
  /\ Fits(grants, MaxGrants)
  /\ \A w \in Worlds : Cardinality(OfWorld(w)) <= MaxWorldGrants

LEMMA CountLess ==
  ASSUME NEW S, NEW T, NEW max \in Nat, IsFiniteSet(S), Cardinality(S) <= max, T \subseteq S
  PROVE  IsFiniteSet(T) /\ Cardinality(T) <= max
<1>1. IsFiniteSet(T) /\ Cardinality(T) <= Cardinality(S)
  BY FS_Subset
<1>2. Cardinality(S) \in Nat /\ Cardinality(T) \in Nat
  BY <1>1, FS_CardinalityType
<1> QED
  BY <1>1, <1>2

LEMMA CountMore ==
  ASSUME NEW S, NEW T, NEW max \in Nat, NEW e, IsFiniteSet(S), Cardinality(S) < max,
         T \subseteq S \cup {e}
  PROVE  IsFiniteSet(T) /\ Cardinality(T) <= max
<1>1. /\ IsFiniteSet(S \cup {e})
      /\ Cardinality(S \cup {e}) = Cardinality(S) \/ Cardinality(S \cup {e}) = Cardinality(S) + 1
  BY FS_AddElement
<1>2. Cardinality(S) \in Nat
  BY FS_CardinalityType
<1>3. Cardinality(S \cup {e}) <= max
  BY <1>1, <1>2
<1> QED
  BY <1>1, <1>3, CountLess

LEMMA LiveKnown ==
  ASSUME TypeOK
  PROVE  /\ Known(LiveLeases) \subseteq Known(leases)
         /\ \A w \in Worlds : Known(LiveAttempts[w]) \subseteq Known(attempts[w])
         /\ Known(LiveGrants) \subseteq Known(grants)
  BY LiveBook DEF Known, TypeOK

LEMMA LeasesFit ==
  ASSUME TypeOK, TypeOK', Fits(leases, MaxLeases), [Next]_vars
  PROVE  Fits(leases, MaxLeases)'
<1>1. ASSUME \A w \in Worlds : leases'[w] # None => leases[w] # None
      PROVE  Fits(leases, MaxLeases)'
  <2>1. Known(leases') \subseteq Known(leases)
    BY <1>1 DEF Known, TypeOK
  <2> QED
    BY <2>1, CountLess, LimitsAssumption DEF Fits
<1>2. CASE leases' \in {leases, LiveLeases}
  BY <1>1, <1>2, LiveBook
<1>3. ASSUME NEW w \in Worlds, NEW lease, LiveLeases[w] # None,
             leases' = [LiveLeases EXCEPT ![w] = lease]
      PROVE  Fits(leases, MaxLeases)'
  BY <1>1, <1>3, LiveBook
<1>4. ASSUME NEW h \in Clients, Renew(h)
      PROVE  Fits(leases, MaxLeases)'
  <2> DEFINE w == calls[h].w
             lease == IF LiveLeases[w] = None THEN NewLease(calls[h])
                      ELSE [LiveLeases[w] EXCEPT !.expires = now + LeaseTTL]
  <2>1. w \in Worlds
    BY <1>4, CallKinds DEF Renew, Publishing
  <2>2. leases' = [LiveLeases EXCEPT ![w] = lease] /\ (LiveLeases[w] = None => LeaseRoom)
    BY <1>4 DEF Renew
  <2> HIDE DEF lease
  <2>3. CASE LiveLeases[w] # None
    BY <1>3, <2>1, <2>2, <2>3
  <2>4. CASE LiveLeases[w] = None
    <3>1. Known(leases') \subseteq Known(LiveLeases) \cup {w}
      BY <2>1, <2>2, LiveBook DEF Known
    <3>2. IsFiniteSet(Known(LiveLeases))
      BY LiveKnown, FS_Subset DEF Fits
    <3> QED
      BY <2>2, <2>4, <3>1, <3>2, CountMore, LimitsAssumption DEF LeaseRoom, Fits
  <2> QED
    BY <2>3, <2>4
<1>5. ASSUME NEW w \in Worlds, NEW who \in Holders, NEW l \in Locators, Revoke(w, who, l)
      PROVE  Fits(leases, MaxLeases)'
  BY <1>3, <1>5 DEF Revoke, Running
<1>6. ASSUME NEW w \in Worlds, NEW peer \in Peers, RefuseBegin(w, peer)
      PROVE  Fits(leases, MaxLeases)'
  BY <1>3, <1>6 DEF RefuseBegin
<1>7. ASSUME NEW h \in Clients, NEW w \in Worlds, NEW x \in Attempts, NEW who \in Holders,
             NEW l \in Locators, NEW peer \in Peers, NEW proof \in Proofs,
             Begin(h, w, x, who, l, peer, proof)
      PROVE  Fits(leases, MaxLeases)'
  <2>1. LiveLeases[w] # None
    BY <1>7 DEF Begin, Running
  <2>2. leases' = LiveLeases \/ \E lease : leases' = [LiveLeases EXCEPT ![w] = lease]
    BY <1>7 DEF Begin
  <2> QED
    BY <1>2, <1>3, <2>1, <2>2
<1>8. CASE Restart
  BY <1>1, <1>8 DEF Restart
<1>9. ASSUME NEW h \in Clients, NEW w \in Worlds, NEW x \in Attempts, NEW who \in Holders,
             RevokeRelay(h, w, x, who)
      PROVE  leases' = LiveLeases
  BY <1>9 DEF RevokeRelay
<1>10. ASSUME \/ Routine \/ Signalled
              \/ \E h \in Clients : Reserve(h) \/ Join(h)
              \/ \E h \in Clients, p \in Principals : Mint(h, p)
       PROVE  leases' \in {leases, LiveLeases}
  BY <1>10 DEF Routine, Signalled, Reserve, Join, Mint, Entered, book
<1> QED
  BY <1>2, <1>4, <1>5, <1>6, <1>7, <1>8, <1>9, <1>10, StepKinds DEF Opening, Denying

LEMMA AttemptsFit ==
  ASSUME TypeOK, TypeOK', [Next]_vars, NEW v \in Worlds, Fits(attempts[v], MaxAttempts)
  PROVE  Fits(attempts[v], MaxAttempts)'
<1>1. ASSUME \A x \in Attempts : attempts'[v][x] # None => attempts[v][x] # None
      PROVE  Fits(attempts[v], MaxAttempts)'
  <2>1. Known(attempts'[v]) \subseteq Known(attempts[v])
    BY <1>1 DEF Known, TypeOK
  <2> QED
    BY <2>1, CountLess, LimitsAssumption DEF Fits
<1>2. CASE attempts' \in {attempts, LiveAttempts}
  BY <1>1, <1>2, LiveBook
<1>3. ASSUME NEW w \in Worlds, NEW x \in Attempts, NEW a,
             a # None => LiveAttempts[w][x] # None,
             attempts' = [LiveAttempts EXCEPT ![w][x] = a]
      PROVE  Fits(attempts[v], MaxAttempts)'
  <2>1. \A y \in Attempts :
          attempts'[v][y] = IF v = w /\ y = x THEN a ELSE LiveAttempts[v][y]
    BY <1>3, LiveBook
  <2> QED
    BY <1>1, <1>3, <2>1, LiveBook
<1>4. ASSUME NEW h \in Clients, NEW w \in Worlds, NEW x \in Attempts, NEW who \in Holders,
             NEW l \in Locators, NEW peer \in Peers, NEW proof \in Proofs,
             Begin(h, w, x, who, l, peer, proof)
      PROVE  Fits(attempts[v], MaxAttempts)'
  <2>1. CASE /\ LiveAttempts[w][x] # None
             /\ attempts' = [LiveAttempts EXCEPT ![w][x] = Access(LiveAttempts[w][x])]
    <3> DEFINE a == Access(LiveAttempts[w][x])
    <3> HIDE DEF a
    <3> QED
      BY <1>3, <2>1 DEF a
  <2>2. CASE /\ Cardinality(Known(LiveAttempts[w])) < MaxAttempts
             /\ attempts' = [LiveAttempts EXCEPT ![w][x] = NewAttempt(who, peer, proof)]
    <3> DEFINE a == NewAttempt(who, peer, proof)
    <3>1. attempts' = [LiveAttempts EXCEPT ![w][x] = a]
      BY <2>2
    <3> HIDE DEF a
    <3>2. \A y \in Attempts :
            attempts'[v][y] = IF v = w /\ y = x THEN a ELSE LiveAttempts[v][y]
      BY <3>1, LiveBook
    <3>3. CASE v # w
      BY <1>1, <3>2, <3>3, LiveBook
    <3>4. CASE v = w
      <4>1. Known(attempts'[v]) \subseteq Known(LiveAttempts[v]) \cup {x}
        BY <3>2, LiveBook DEF Known, TypeOK
      <4>2. IsFiniteSet(Known(LiveAttempts[v]))
        BY LiveKnown, FS_Subset DEF Fits
      <4> QED
        BY <2>2, <3>4, <4>1, <4>2, CountMore, LimitsAssumption DEF Fits
    <3> QED
      BY <3>3, <3>4
  <2> QED
    BY <1>4, <2>1, <2>2 DEF Begin, Accessible
<1>5. ASSUME NEW h \in Clients, NEW w \in Worlds, NEW x \in Attempts, NEW who \in Holders,
             RevokeRelay(h, w, x, who)
      PROVE  Fits(attempts[v], MaxAttempts)'
  <2>1. \E a : /\ a # None => LiveAttempts[w][x] # None
               /\ attempts' = [LiveAttempts EXCEPT ![w][x] = a]
    BY <1>5 DEF RevokeRelay
  <2> QED
    BY <1>3, <2>1
<1>6. ASSUME NEW w \in Worlds, NEW who \in Holders, NEW l \in Locators, Revoke(w, who, l)
      PROVE  Fits(attempts[v], MaxAttempts)'
  <2>1. \A x \in Attempts : attempts'[v][x] \in {LiveAttempts[v][x], None}
    BY <1>6, LiveBook DEF Revoke
  <2> QED
    BY <1>1, <2>1, LiveBook
<1>7. CASE Signalled
  BY <1>1, <1>7 DEF Signalled
<1>8. CASE Restart
  BY <1>1, <1>8 DEF Restart
<1>9. ASSUME \/ Routine
             \/ \E h \in Clients : Reserve(h) \/ Renew(h) \/ Join(h)
             \/ \E w \in Worlds, peer \in Peers : RefuseBegin(w, peer)
             \/ \E h \in Clients, p \in Principals : Mint(h, p)
      PROVE  attempts' \in {attempts, LiveAttempts}
  BY <1>9 DEF Routine, Reserve, Renew, Join, RefuseBegin, Mint, Entered, book
<1> QED
  BY <1>2, <1>4, <1>5, <1>6, <1>7, <1>8, <1>9, StepKinds DEF Opening, Denying

LEMMA GrantsFit ==
  ASSUME TypeOK, TypeOK', [Next]_vars, Fits(grants, MaxGrants),
         NEW w \in Worlds, Cardinality(OfWorld(w)) <= MaxWorldGrants
  PROVE  Fits(grants, MaxGrants)' /\ (Cardinality(OfWorld(w)) <= MaxWorldGrants)'
<1>0. IsFiniteSet(OfWorld(w)) /\ OfWorld(w) \subseteq Known(grants)
  BY FS_Subset DEF Fits, OfWorld
<1>1. ASSUME \A k \in Keys : grants'[k] # None => grants[k] # None
      PROVE  Fits(grants, MaxGrants)' /\ (Cardinality(OfWorld(w)) <= MaxWorldGrants)'
  <2>1. Known(grants') \subseteq Known(grants)
    BY <1>1 DEF Known, TypeOK
  <2>2. OfWorld(w)' \subseteq OfWorld(w)
    BY <2>1 DEF OfWorld
  <2> QED
    BY <1>0, <2>1, <2>2, CountLess, LimitsAssumption DEF Fits
<1>2. CASE grants' \in {grants, LiveGrants}
  BY <1>1, <1>2, LiveBook
<1>3. ASSUME NEW h \in Clients, NEW p \in Principals, Mint(h, p)
      PROVE  Fits(grants, MaxGrants)' /\ (Cardinality(OfWorld(w)) <= MaxWorldGrants)'
  <2> DEFINE k == calls[h].key
             live == {j \in Known(LiveGrants) : j[1] = w}
  <2>1. /\ Cardinality(Known(LiveGrants)) < MaxGrants
        /\ k[1] = w => Cardinality(live) < MaxWorldGrants
    BY <1>3 DEF Mint, Roomy
  <2>2. Known(grants') \subseteq Known(LiveGrants) \cup {k}
    BY <1>3, LiveBook DEF Mint, Known
  <2>3. IsFiniteSet(Known(LiveGrants)) /\ IsFiniteSet(live) /\ live \subseteq OfWorld(w)
    BY LiveKnown, FS_Subset DEF Fits, OfWorld
  <2>4. Fits(grants, MaxGrants)'
    BY <2>1, <2>2, <2>3, CountMore, LimitsAssumption DEF Fits
  <2>5. CASE k[1] = w
    <3>1. OfWorld(w)' \subseteq live \cup {k}
      BY <2>2 DEF OfWorld
    <3> QED
      BY <2>1, <2>3, <2>4, <2>5, <3>1, CountMore, LimitsAssumption
  <2>6. CASE k[1] # w
    <3>1. OfWorld(w)' \subseteq OfWorld(w)
      BY <2>2, <2>3, <2>6 DEF OfWorld
    <3> QED
      BY <1>0, <2>4, <3>1, CountLess, LimitsAssumption
  <2> QED
    BY <2>5, <2>6
<1>4. ASSUME NEW h \in Clients, NEW v \in Worlds, NEW x \in Attempts, NEW who \in Holders,
             RevokeRelay(h, v, x, who)
      PROVE  \A k \in Keys : grants'[k] # None => grants[k] # None
  <2>1. CASE grants' = LiveGrants
    BY <2>1, LiveBook
  <2>2. CASE grants' = [k \in Keys |->
                          IF k[1] = v /\ k[2] = x /\ Mine(LiveGrants[k], who)
                            THEN RevokedGrant(LiveGrants[k], who) ELSE LiveGrants[k]]
    <3>1. \A k \in Keys : Mine(LiveGrants[k], who) => LiveGrants[k] # None
      BY DEF Mine
    <3> QED
      BY <2>2, <3>1, LiveBook
  <2> QED
    BY <1>4, <2>1, <2>2 DEF RevokeRelay, RevokedGrant
<1>5. CASE Denying
  BY <1>1, <1>4, <1>5 DEF Denying
<1>6. CASE Restart
  BY <1>1, <1>6 DEF Restart
<1>7. ASSUME NEW h \in Clients, Join(h)
      PROVE  grants' \in {grants, LiveGrants}
  BY <1>7 DEF Join, Entered
<1> QED
  BY <1>2, <1>3, <1>5, <1>6, <1>7, GrantKinds

(* The book never exceeds its limits: every limit counts what is live and   *)
(* is applied in the section that adds the entry.                           *)
THEOREM BookAlwaysBounded == Spec => []BookBounded
<1>1. Init => Bounded
  <2> SUFFICES ASSUME Init
               PROVE  Bounded
    OBVIOUS
  <2>1. /\ Known(leases) = {} /\ Known(grants) = {}
        /\ \A w \in Worlds : Known(attempts[w]) = {} /\ OfWorld(w) = {}
    BY DEF Init, Known, OfWorld
  <2> QED
    BY <2>1, FS_EmptySet, LimitsAssumption DEF Bounded, Fits
<1>2. ASSUME TypeOK, TypeOK', Bounded, [Next]_vars
      PROVE  Bounded'
  <2>1. Fits(leases, MaxLeases)' /\ \A w \in Worlds : Fits(attempts[w], MaxAttempts)'
    BY <1>2, LeasesFit, AttemptsFit DEF Bounded
  <2>2. \A w \in Worlds :
          Fits(grants, MaxGrants)' /\ (Cardinality(OfWorld(w)) <= MaxWorldGrants)'
    BY <1>2, GrantsFit DEF Bounded
  <2>3. Worlds = {} => Fits(grants, MaxGrants)'
    <3> SUFFICES ASSUME Worlds = {}
                 PROVE  Fits(grants, MaxGrants)'
      OBVIOUS
    <3>1. Known(grants') = {}
      BY <1>2 DEF Known, TypeOK, Keys
    <3> QED
      BY <3>1, FS_EmptySet, LimitsAssumption DEF Fits
  <2> QED
    BY <2>1, <2>2, <2>3 DEF Bounded
<1>3. Bounded => BookBounded
  BY DEF Bounded, BookBounded, Fits, OfWorld
<1> QED
  BY <1>1, <1>2, <1>3, TypeCorrect, PTL DEF Spec

-----------------------------------------------------------------------------
(* The limit on issuances.  IssuanceBounded is not inductive: when a window *)
(* restarts its count starts at zero, so Issuances adds that whatever was   *)
(* issued before then is older than the new window.                         *)
Since(t) == {p \in Principals : minted[p].key # None /\ minted[p].until >= t + GrantTTL}

Issuances ==
  /\ window.since <= now
  /\ \A p \in Principals : minted[p].key # None =>
       minted[p].until < window.since + Window + GrantTTL
  /\ IsFiniteSet(Since(window.since))
  /\ Cardinality(Since(window.since)) <= window.issued /\ window.issued <= MaxIssued

LEMMA WindowTurns ==
  ASSUME TypeOK, Issuances
  PROVE  LET r == RestartedWindow
         IN  /\ r \in [issued : Nat, since : Nat] /\ r.since <= now /\ now - r.since < Window
             /\ \A p \in Principals : minted[p].key # None =>
                  minted[p].until < r.since + Window + GrantTTL
             /\ IsFiniteSet(Since(r.since))
             /\ Cardinality(Since(r.since)) <= r.issued /\ r.issued <= MaxIssued
<1>0. /\ window \in [issued : Nat, since : Nat] /\ now \in Nat
      /\ \A p \in Principals : minted[p].until \in Nat
  BY DEF TypeOK, Issuance
<1>1. CASE now - window.since >= Window
  <2>1. RestartedWindow = [issued |-> 0, since |-> now]
    BY <1>1 DEF RestartedWindow
  <2>2. Since(now) = {}
    BY <1>0, <1>1, PeriodsAssumption DEF Issuances, Since
  <2>3. \A p \in Principals : minted[p].key # None => minted[p].until < now + Window + GrantTTL
    BY <1>0, <1>1, PeriodsAssumption DEF Issuances
  <2>4. IsFiniteSet(Since(now)) /\ Cardinality(Since(now)) = 0
    BY <2>2, FS_EmptySet
  <2>5. RestartedWindow.issued = 0 /\ RestartedWindow.since = now
    BY <2>1
  <2>6. RestartedWindow \in [issued : Nat, since : Nat]
    BY WindowType
  <2>7. now - now < Window /\ 0 <= MaxIssued /\ now <= now
    BY <1>0, PeriodsAssumption, LimitsAssumption
  <2> QED
    BY <2>3, <2>4, <2>5, <2>6, <2>7
<1>2. CASE ~(now - window.since >= Window)
  <2>1. RestartedWindow = window /\ now - window.since < Window
    BY <1>0, <1>2, PeriodsAssumption DEF RestartedWindow
  <2> QED
    BY <1>0, <2>1 DEF Issuances
<1> QED
  BY <1>1, <1>2

LEMMA WindowSteps ==
  ASSUME [Next]_vars
  PROVE  \/ UNCHANGED window
         \/ \E h \in Clients : RefuseGrant(h)
         \/ \E h \in Clients, p \in Principals : Mint(h, p)
         \/ Restart
<1>1. CASE Publication
  BY <1>1 DEF Publication, Publish, Reserve, Reservation, Renew, Revoke, book
<1>2. CASE Signalling
  BY <1>2 DEF Signalling, Offer, Answer, Read, Remove, SetAttempt
<1>3. CASE Relaying
  <2>1. ASSUME NEW h \in Clients, NEW w \in Worlds, NEW x \in Attempts, NEW who \in Holders,
               \/ \E l \in Locators, peer \in Peers, proof \in Proofs :
                    Begin(h, w, x, who, l, peer, proof)
               \/ \E l \in Locators : HostIce(h, w, x, who, l)
        PROVE  UNCHANGED window
    BY <2>1 DEF Begin, HostIce
  <2>2. ASSUME NEW h \in Clients, NEW w \in Worlds, NEW x \in Attempts, NEW who \in Holders,
               RevokeRelay(h, w, x, who)
        PROVE  UNCHANGED window
    BY <2>2 DEF RevokeRelay
  <2>3. ASSUME NEW w \in Worlds, NEW peer \in Peers, RefuseBegin(w, peer)
        PROVE  UNCHANGED window
    BY <2>3 DEF RefuseBegin
  <2>4. ASSUME NEW h \in Clients,
               \/ Join(h) \/ Disclose(h) \/ RelayRevoked(h)
               \/ \E host \in BOOLEAN : RevokeNext(h, host)
        PROVE  UNCHANGED window
    BY <2>4 DEF Join, Disclose, RelayRevoked, RevokeNext, book
  <2>5. ASSUME NEW p \in Principals, NEW state \in {"issued", "failed"}, Issued(p, state)
        PROVE  UNCHANGED window
    BY <2>5 DEF Issued, book
  <2> QED
    BY <1>3, <2>1, <2>2, <2>3, <2>4, <2>5 DEF Relaying
<1>4. CASE Sweep \/ Tick \/ UNCHANGED vars \/ \E h \in Clients : Drop(h)
  BY <1>4 DEF Sweep, Tick, Drop, vars, book
<1> QED
  BY <1>1, <1>2, <1>3, <1>4 DEF Next

LEMMA IssuancesMint ==
  ASSUME TypeOK, Issuances, NEW h \in Clients, NEW p \in Principals, Mint(h, p)
  PROVE  Issuances'
<1> DEFINE r == RestartedWindow
           i == [state |-> "running", key |-> calls[h].key, until |-> now + GrantTTL, ends |-> 0]
<1>0. now \in Nat /\ r \in [issued : Nat, since : Nat]
  BY WindowTurns DEF TypeOK
<1>1. /\ minted' = [minted EXCEPT ![p] = i] /\ now' = now /\ window' = Counted
      /\ r.issued < MaxIssued
  BY DEF Mint, Roomy
<1>2. window'.since = r.since /\ window'.issued = r.issued + 1
  <2> HIDE DEF r
  <2> QED
    BY <1>0, <1>1 DEF Counted, r
<1>3. i.until = now + GrantTTL
  OBVIOUS
<1> HIDE DEF i
<1>4. \A q \in Principals : minted'[q] = IF q = p THEN i ELSE minted[q]
  BY <1>1 DEF TypeOK
<1>5. /\ r.since <= now /\ now - r.since < Window
      /\ \A q \in Principals : minted[q].key # None =>
           minted[q].until < r.since + Window + GrantTTL
      /\ IsFiniteSet(Since(r.since)) /\ Cardinality(Since(r.since)) <= r.issued
      /\ Cardinality(Since(r.since)) \in Nat
  BY WindowTurns, FS_CardinalityType
<1> HIDE DEF r
<1>6. Since(window.since)' \subseteq Since(r.since) \cup {p}
  BY <1>2, <1>4 DEF Since
<1>7. IsFiniteSet(Since(window.since)') /\ Cardinality(Since(window.since)') <= r.issued + 1
  <2>1. Cardinality(Since(r.since)) < r.issued + 1 /\ r.issued + 1 \in Nat
    BY <1>0, <1>5
  <2> DEFINE S == Since(r.since)
             T == Since(window.since)'
             max == r.issued + 1
  <2>2. /\ max \in Nat /\ IsFiniteSet(S) /\ Cardinality(S) < max
        /\ T \subseteq S \cup {p}
    BY <1>5, <1>6, <2>1
  <2> HIDE DEF S, T, max
  <2>3. IsFiniteSet(T) /\ Cardinality(T) <= max
    BY <2>2, CountMore
  <2> QED
    BY <2>3 DEF T, max
<1>8. \A q \in Principals : minted'[q].key # None =>
        minted'[q].until < r.since + Window + GrantTTL
  BY <1>0, <1>3, <1>4, <1>5, PeriodsAssumption
<1>9. r.issued + 1 <= MaxIssued
  BY <1>0, <1>1, LimitsAssumption
<1> QED
  BY <1>1, <1>2, <1>5, <1>7, <1>8, <1>9 DEF Issuances

LEMMA IssuancesQuiet ==
  ASSUME TypeOK, Issuances, QuietMints, window' \in {window, RestartedWindow},
         now' \in {now, now + 1}
  PROVE  Issuances'
<1>1. now \in Nat /\ window \in [issued : Nat, since : Nat]
  BY DEF TypeOK
<1>2. \A p \in Principals : minted'[p].key = minted[p].key /\ minted'[p].until = minted[p].until
  BY DEF QuietMints
<1>3. Since(window.since)' = Since(window'.since)
  BY <1>2 DEF Since
<1>4. CASE window' = window
  BY <1>1, <1>2, <1>3, <1>4 DEF Issuances
<1>5. CASE window' = RestartedWindow
  <2>1. /\ window'.since <= now /\ window'.since \in Nat
        /\ \A p \in Principals : minted[p].key # None =>
             minted[p].until < window'.since + Window + GrantTTL
        /\ IsFiniteSet(Since(window'.since))
        /\ Cardinality(Since(window'.since)) <= window'.issued /\ window'.issued <= MaxIssued
    BY <1>5, WindowTurns
  <2> QED
    BY <1>1, <1>2, <1>3, <2>1 DEF Issuances
<1> QED
  BY <1>4, <1>5

(* No window issues more than its limit.                                    *)
THEOREM IssuanceAlwaysBounded == Spec => []IssuanceBounded
<1>1. Init => Issuances
  <2> SUFFICES ASSUME Init
               PROVE  Issuances
    OBVIOUS
  <2>1. Since(window.since) = {} /\ \A p \in Principals : minted[p].key = None
    BY DEF Init, Unused, Since
  <2>2. IsFiniteSet(Since(window.since)) /\ Cardinality(Since(window.since)) = 0
    BY <2>1, FS_EmptySet
  <2>3. window.issued = 0 /\ window.since = 0 /\ now = 0
    BY DEF Init
  <2> QED
    BY <2>1, <2>2, <2>3, LimitsAssumption DEF Issuances
<1>2. ASSUME TypeOK, Issuances, [Next]_vars
      PROVE  Issuances'
  <2>1. CASE Restart
    <3>1. /\ \A p \in Principals : minted'[p].key = None
          /\ window' = [issued |-> 0, since |-> now] /\ now' = now
      BY <1>2, <2>1 DEF Restart, TypeOK, Issuance
    <3>2. Since(window.since)' = {}
      BY <3>1 DEF Since
    <3>3. (IsFiniteSet(Since(window.since)) /\ Cardinality(Since(window.since)) = 0)'
      BY <3>2, FS_EmptySet
    <3>4. window'.issued = 0 /\ window'.since = now /\ now' = now /\ now \in Nat
      BY <1>2, <3>1 DEF TypeOK
    <3> QED
      BY <3>1, <3>3, <3>4, LimitsAssumption DEF Issuances
  <2>2. ASSUME NEW h \in Clients, RefuseGrant(h)
        PROVE  Issuances'
    <3>1. window' = RestartedWindow /\ minted' = minted /\ now' = now
      BY <2>2 DEF RefuseGrant
    <3> QED
      BY <1>2, <3>1, IssuancesQuiet DEF QuietMints
  <2>3. CASE \E h \in Clients : Join(h)
    BY <1>2, <2>3, IssuancesQuiet DEF Join, QuietMints
  <2>4. CASE Denying
    <3>1. window' = window /\ minted' = minted /\ now' = now
      BY <2>4 DEF Denying, RevokeRelay
    <3> QED
      BY <1>2, <3>1, IssuancesQuiet DEF QuietMints
  <2>5. CASE UNCHANGED window /\ QuietMints /\ now' \in {now, now + 1}
    BY <1>2, <2>5, IssuancesQuiet
  <2> QED
    BY <1>2, <2>1, <2>2, <2>3, <2>4, <2>5, IssuancesMint, WindowSteps, GrantKinds
<1>3. ASSUME TypeOK, Issuances
      PROVE  IssuanceBounded
  <2>1. Cardinality(Since(window.since)) \in Nat /\ window.issued \in Nat
    BY <1>3, FS_CardinalityType DEF TypeOK, Issuances
  <2> QED
    BY <1>3, <2>1, LimitsAssumption DEF Issuances, IssuanceBounded, Since
<1> QED
  BY <1>1, <1>2, <1>3, TypeCorrect, PTL DEF Spec

-----------------------------------------------------------------------------
(* What is live is never rewritten.                                         *)
LeaseStands(w) ==
  LiveLeases[w] # None /\ leases'[w] # None => leases'[w].locator = leases[w].locator

AttemptStands(w, x) ==
  LiveAttempts[w][x] # None /\ attempts'[w][x] # None =>
    Unaltered(attempts[w][x], attempts'[w][x])

LEMMA LocatorsKept ==
  ASSUME NEW lease \in Lease
  PROVE  /\ Restarted(lease).locator = lease.locator
         /\ [Restarted(lease) EXCEPT !.opened = @ + 1].locator = lease.locator
         /\ [lease EXCEPT !.expires = now + LeaseTTL].locator = lease.locator
<1>1. Restarted(lease).locator = lease.locator
  BY DEF Restarted, Lease
<1>2. [Restarted(lease) EXCEPT !.opened = @ + 1].locator = Restarted(lease).locator
  BY DEF Restarted, Lease
<1>3. [lease EXCEPT !.expires = now + LeaseTTL].locator = lease.locator
  BY DEF Lease
<1> QED
  BY <1>1, <1>2, <1>3

LEMMA LeasesStand ==
  ASSUME TypeOK, [Next]_vars, NEW v \in Worlds
  PROVE  LeaseStands(v)
<1>1. CASE leases' \in {leases, LiveLeases}
  BY <1>1, LiveBook DEF LeaseStands
<1>2. ASSUME NEW w \in Worlds, NEW lease, leases' = [LiveLeases EXCEPT ![w] = lease],
             LiveLeases[w] = None \/ lease = None \/ lease.locator = LiveLeases[w].locator
      PROVE  LeaseStands(v)
  <2>1. leases'[v] = IF v = w THEN lease ELSE LiveLeases[v]
    BY <1>2, LiveBook
  <2> QED
    BY <1>2, <2>1, LiveBook DEF LeaseStands
<1>3. ASSUME NEW h \in Clients, Renew(h)
      PROVE  LeaseStands(v)
  <2> DEFINE w == calls[h].w
             lease == IF LiveLeases[w] = None THEN NewLease(calls[h])
                      ELSE [LiveLeases[w] EXCEPT !.expires = now + LeaseTTL]
  <2>1. w \in Worlds
    BY <1>3, CallKinds DEF Renew, Publishing
  <2>2. leases' = [LiveLeases EXCEPT ![w] = lease]
    BY <1>3 DEF Renew
  <2>3. LiveLeases[w] # None => LiveLeases[w] \in Lease
    BY <2>1, LiveBook
  <2>4. LiveLeases[w] # None => lease.locator = LiveLeases[w].locator
    BY <2>3, LocatorsKept
  <2> HIDE DEF lease
  <2> QED
    BY <1>2, <2>1, <2>2, <2>4
<1>4. ASSUME NEW w \in Worlds, NEW who \in Holders, NEW l \in Locators, Revoke(w, who, l)
      PROVE  LeaseStands(v)
  BY <1>2, <1>4 DEF Revoke
<1>5. ASSUME NEW w \in Worlds, NEW peer \in Peers, RefuseBegin(w, peer)
      PROVE  LeaseStands(v)
  <2>1. LiveLeases[w] \in Lease /\ leases' = [LiveLeases EXCEPT ![w] = Restarted(LiveLeases[w])]
    BY <1>5, LiveBook DEF RefuseBegin
  <2> QED
    BY <1>2, <2>1, LocatorsKept
<1>6. ASSUME NEW h \in Clients, NEW w \in Worlds, NEW x \in Attempts, NEW who \in Holders,
             NEW l \in Locators, NEW peer \in Peers, NEW proof \in Proofs,
             Begin(h, w, x, who, l, peer, proof)
      PROVE  LeaseStands(v)
  <2> DEFINE lease == [Restarted(LiveLeases[w]) EXCEPT !.opened = @ + 1]
  <2>1. LiveLeases[w] \in Lease
    BY <1>6, LiveBook DEF Begin, Running
  <2>2. leases' = LiveLeases \/ leases' = [LiveLeases EXCEPT ![w] = lease]
    BY <1>6 DEF Begin
  <2>3. lease.locator = LiveLeases[w].locator
    BY <2>1, LocatorsKept
  <2> HIDE DEF lease
  <2> QED
    BY <1>1, <1>2, <2>2, <2>3
<1>7. ASSUME NEW h \in Clients, NEW w \in Worlds, NEW x \in Attempts, NEW who \in Holders,
             RevokeRelay(h, w, x, who)
      PROVE  leases' = LiveLeases
  BY <1>7 DEF RevokeRelay
<1>8. ASSUME \/ Routine \/ Signalled
             \/ \E h \in Clients : Reserve(h) \/ Join(h)
             \/ \E h \in Clients, p \in Principals : Mint(h, p)
      PROVE  leases' \in {leases, LiveLeases}
  BY <1>8 DEF Routine, Signalled, Reserve, Join, Mint, Entered, book
<1>9. CASE Restart
  BY <1>9 DEF Restart, LeaseStands
<1> QED
  BY <1>1, <1>3, <1>4, <1>5, <1>6, <1>7, <1>8, <1>9, StepKinds DEF Opening, Denying

LEMMA Unchanged ==
  ASSUME NEW a \in Attempt
  PROVE  Unaltered(a, a) /\ Unaltered(a, Access(a)) /\ Unaltered(a, [a EXCEPT !.relayRevoked = TRUE])
<1>1. Unaltered(a, a)
  BY DEF Unaltered, Extends
<1>2. Unaltered(a, Access(a))
  BY DEF Unaltered, Extends, Access, Attempt
<1>3. Unaltered(a, [a EXCEPT !.relayRevoked = TRUE])
  BY DEF Unaltered, Extends, Attempt
<1> QED
  BY <1>1, <1>2, <1>3

LEMMA MergedExtends ==
  ASSUME NEW old \in Description \cup {None}, NEW d \in Description, Mergeable(old, d)
  PROVE  Extends(old, Merged(old, d))
<1>1. CASE old = None
  BY <1>1 DEF Extends
<1>2. CASE old # None
  <2>1. old \in Description /\ Merged(old, d) = [old EXCEPT !.candidates = @ \cup d.candidates]
    BY <1>2 DEF Merged
  <2>2. /\ Merged(old, d).sdp = old.sdp
        /\ Merged(old, d).candidates = old.candidates \cup d.candidates
    BY <2>1 DEF Description
  <2>3. Merged(old, d) # None
    BY MergedType, NotNone
  <2> QED
    BY <2>2, <2>3 DEF Extends
<1> QED
  BY <1>1, <1>2

LEMMA DescriptionsAdded ==
  ASSUME NEW a \in Attempt, NEW d \in Description
  PROVE  /\ Mergeable(a.offer, d) =>
              Unaltered(a, [Access(a) EXCEPT !.offer = Merged(a.offer, d)])
         /\ Mergeable(a.answer, d) =>
              Unaltered(a, [a EXCEPT !.answer = Merged(a.answer, d)])
<1>0. a.offer \in Description \cup {None} /\ a.answer \in Description \cup {None}
  BY DEF Attempt
<1>1. ASSUME Mergeable(a.offer, d)
      PROVE  Unaltered(a, [Access(a) EXCEPT !.offer = Merged(a.offer, d)])
  <2> DEFINE merged == Merged(a.offer, d)
             b == [Access(a) EXCEPT !.offer = merged]
  <2>1. Extends(a.offer, merged)
    BY <1>0, <1>1, MergedExtends
  <2> HIDE DEF merged
  <2>2. /\ b.client = a.client /\ b.peer = a.peer /\ b.proof = a.proof
        /\ b.expires = a.expires /\ b.offer = merged /\ b.answer = a.answer
        /\ b.relayRevoked = a.relayRevoked
    BY DEF Access, Attempt
  <2>3. Extends(a.answer, a.answer)
    BY DEF Extends
  <2> QED
    BY <2>1, <2>2, <2>3 DEF Unaltered, merged
<1>2. ASSUME Mergeable(a.answer, d)
      PROVE  Unaltered(a, [a EXCEPT !.answer = Merged(a.answer, d)])
  <2> DEFINE merged == Merged(a.answer, d)
             b == [a EXCEPT !.answer = merged]
  <2>1. Extends(a.answer, merged)
    BY <1>0, <1>2, MergedExtends
  <2> HIDE DEF merged
  <2>2. /\ b.client = a.client /\ b.peer = a.peer /\ b.proof = a.proof
        /\ b.expires = a.expires /\ b.offer = a.offer /\ b.answer = merged
        /\ b.relayRevoked = a.relayRevoked
    BY DEF Attempt
  <2>3. Extends(a.offer, a.offer)
    BY DEF Extends
  <2> QED
    BY <2>1, <2>2, <2>3 DEF Unaltered, merged
<1> QED
  BY <1>1, <1>2

LEMMA AttemptsStand ==
  ASSUME TypeOK, [Next]_vars, NEW v \in Worlds, NEW y \in Attempts
  PROVE  AttemptStands(v, y)
<1>0. LiveAttempts[v][y] # None =>
        LiveAttempts[v][y] \in Attempt /\ LiveAttempts[v][y] = attempts[v][y]
  BY LiveBook
<1>1. CASE attempts' \in {attempts, LiveAttempts}
  BY <1>0, <1>1, Unchanged DEF AttemptStands
<1>2. ASSUME NEW w \in Worlds, NEW x \in Attempts, NEW a,
             attempts' = [LiveAttempts EXCEPT ![w][x] = a],
             \/ LiveAttempts[w][x] = None
             \/ a = None
             \/ Unaltered(LiveAttempts[w][x], a)
      PROVE  AttemptStands(v, y)
  <2>1. attempts'[v][y] = IF v = w /\ y = x THEN a ELSE LiveAttempts[v][y]
    BY <1>2, LiveBook
  <2> QED
    BY <1>0, <1>2, <2>1, Unchanged DEF AttemptStands
<1>3. CASE Signalling
  <2> SUFFICES ASSUME NEW w \in Worlds, NEW x \in Attempts, NEW who \in Holders,
                      \/ \E l \in Locators, peer \in Peers, proof \in Proofs, d \in Description :
                           Offer(w, x, who, l, peer, proof, d)
                      \/ \E l \in Locators, d \in Description : Answer(w, x, who, l, d)
                      \/ Read(w, x, who)
                      \/ Remove(w, x, who)
               PROVE  AttemptStands(v, y)
    BY <1>3 DEF Signalling
  <2> DEFINE a == LiveAttempts[w][x]
  <2>1. a # None => a \in Attempt
    BY LiveBook
  <2>2. ASSUME NEW l \in Locators, NEW peer \in Peers, NEW proof \in Proofs,
               NEW d \in Description, Offer(w, x, who, l, peer, proof, d)
        PROVE  AttemptStands(v, y)
    <3> DEFINE b == [Access(a) EXCEPT !.offer = Merged(a.offer, d)]
    <3>1. a # None /\ Mergeable(a.offer, d) /\ attempts' = [LiveAttempts EXCEPT ![w][x] = b]
      BY <2>2 DEF Offer, Accessible, SetAttempt
    <3>2. Unaltered(a, b)
      BY <2>1, <3>1, DescriptionsAdded
    <3> HIDE DEF b
    <3> QED
      BY <1>2, <3>1, <3>2
  <2>3. ASSUME NEW l \in Locators, NEW d \in Description, Answer(w, x, who, l, d)
        PROVE  AttemptStands(v, y)
    <3> DEFINE b == [a EXCEPT !.answer = Merged(a.answer, d)]
    <3>1. a # None /\ Mergeable(a.answer, d) /\ attempts' = [LiveAttempts EXCEPT ![w][x] = b]
      BY <2>3 DEF Answer, SetAttempt
    <3>2. Unaltered(a, b)
      BY <2>1, <3>1, DescriptionsAdded
    <3> HIDE DEF b
    <3> QED
      BY <1>2, <3>1, <3>2
  <2>4. ASSUME Read(w, x, who)
        PROVE  AttemptStands(v, y)
    <3>1. a # None /\ attempts' = [LiveAttempts EXCEPT ![w][x] = Access(a)]
      BY <2>4 DEF Read, Accessible, SetAttempt
    <3>2. Unaltered(a, Access(a))
      BY <2>1, <3>1, Unchanged
    <3> QED
      BY <1>2, <3>1, <3>2
  <2>5. ASSUME Remove(w, x, who)
        PROVE  AttemptStands(v, y)
    BY <1>2, <2>5 DEF Remove, SetAttempt
  <2> QED
    BY <2>2, <2>3, <2>4, <2>5
<1>4. ASSUME NEW h \in Clients, NEW w \in Worlds, NEW x \in Attempts, NEW who \in Holders,
             NEW l \in Locators, NEW peer \in Peers, NEW proof \in Proofs,
             Begin(h, w, x, who, l, peer, proof)
      PROVE  AttemptStands(v, y)
  <2> DEFINE old == LiveAttempts[w][x]
  <2>1. CASE old # None /\ attempts' = [LiveAttempts EXCEPT ![w][x] = Access(old)]
    <3>1. old \in Attempt
      BY <2>1, LiveBook
    <3>2. Unaltered(old, Access(old))
      BY <3>1, Unchanged
    <3> QED
      BY <1>2, <2>1, <3>2
  <2>2. CASE old = None /\ attempts' = [LiveAttempts EXCEPT ![w][x] = NewAttempt(who, peer, proof)]
    <3> DEFINE new == NewAttempt(who, peer, proof)
    <3>1. old = None /\ attempts' = [LiveAttempts EXCEPT ![w][x] = new]
      BY <2>2
    <3> HIDE DEF new
    <3> QED
      BY <1>2, <3>1
  <2> QED
    BY <1>4, <2>1, <2>2 DEF Begin, Accessible
<1>5. ASSUME NEW h \in Clients, NEW w \in Worlds, NEW x \in Attempts, NEW who \in Holders,
             RevokeRelay(h, w, x, who)
      PROVE  AttemptStands(v, y)
  <2> DEFINE a == LiveAttempts[w][x]
             b == IF a # None /\ LiveLeases[w].admin = who
                    THEN [a EXCEPT !.relayRevoked = TRUE] ELSE a
  <2>1. attempts' = [LiveAttempts EXCEPT ![w][x] = b]
    BY <1>5 DEF RevokeRelay
  <2>2. a # None => a \in Attempt
    BY LiveBook
  <2>3. a # None => Unaltered(a, b)
    BY <2>2, Unchanged
  <2> HIDE DEF b
  <2> QED
    BY <1>2, <2>1, <2>3
<1>6. ASSUME NEW w \in Worlds, NEW who \in Holders, NEW l \in Locators, Revoke(w, who, l)
      PROVE  AttemptStands(v, y)
  <2>1. attempts'[v][y] \in {LiveAttempts[v][y], None}
    BY <1>6, LiveBook DEF Revoke
  <2> QED
    BY <1>0, <2>1, Unchanged DEF AttemptStands
<1>7. CASE Restart
  BY <1>7 DEF Restart, AttemptStands
<1>8. ASSUME \/ Routine
             \/ \E h \in Clients : Reserve(h) \/ Renew(h) \/ Join(h)
             \/ \E w \in Worlds, peer \in Peers : RefuseBegin(w, peer)
             \/ \E h \in Clients, p \in Principals : Mint(h, p)
      PROVE  attempts' \in {attempts, LiveAttempts}
  BY <1>8 DEF Routine, Reserve, Renew, Join, RefuseBegin, Mint, Entered, book
<1> QED
  BY <1>1, <1>3, <1>4, <1>5, <1>6, <1>7, <1>8, StepKinds DEF Opening, Denying

(* No step rewrites a live lifetime or a live attempt.                      *)
THEOREM NothingEverRewritten == Spec => NothingRewritten
<1> DEFINE Standing ==
      /\ \A w \in Worlds : LiveLeases[w] # None /\ leases'[w] # None =>
           leases'[w].locator = leases[w].locator
      /\ \A w \in Worlds, x \in Attempts :
           LiveAttempts[w][x] # None /\ attempts'[w][x] # None =>
             Unaltered(attempts[w][x], attempts'[w][x])
<1>1. ASSUME TypeOK, [Next]_vars
      PROVE  Standing
  <2>1. \A w \in Worlds : LeaseStands(w)
    BY <1>1, LeasesStand
  <2>2. \A w \in Worlds, x \in Attempts : AttemptStands(w, x)
    BY <1>1, AttemptsStand
  <2> QED
    BY <2>1, <2>2 DEF LeaseStands, AttemptStands
<1>2. TypeOK /\ [Next]_vars => [Standing]_vars
  BY <1>1
<1> QED
  BY <1>2, TypeCorrect, PTL DEF Spec, NothingRewritten

=============================================================================
