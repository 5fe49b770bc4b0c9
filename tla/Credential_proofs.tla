--------------------------- MODULE Credential_proofs ---------------------------
(***************************************************************************)
(* Proof that SetupBook implements Credential: the book, its leases, its   *)
(* calls and its clock keep what is promised of relay credentials.         *)
(***************************************************************************)
EXTENDS SetupBook_proofs

-----------------------------------------------------------------------------
(* A client denies its own side alone, because the grant of the host's side *)
(* is the owner's: the call that asked for it was checked against the lease *)
(* and no owner is ever replaced.  HostsOwn says so of grants and of calls. *)
HostGrant(k) == grants[k] # None /\ k[3] => grants[k].digest = owners[k[1]]

HostAsks(h) ==
  calls[h].op = "grant" /\ calls[h].key[3] => calls[h].who = owners[calls[h].key[1]]

HostsOwn ==
  /\ \A k \in Keys : HostGrant(k)
  /\ \A h \in Clients : HostAsks(h)

LEMMA OwnersStay ==
  ASSUME TypeOK, [Next]_vars, NEW w \in Worlds, owners[w] # None
  PROVE  owners'[w] = owners[w]
<1>1. CASE owners' = owners
  BY <1>1
<1>2. ASSUME NEW h \in Clients, Reserve(h)
      PROVE  owners'[w] = owners[w]
  BY <1>2 DEF Reserve, TypeOK
<1>3. CASE Routine \/ Signalled \/ Restart
  BY <1>1, <1>3 DEF Routine, OwnersKept, Signalled, Restart
<1>4. CASE \E h \in Clients : Renew(h) \/ Join(h)
  BY <1>1, <1>4 DEF Renew, Join
<1>5. CASE \E h \in Clients, p \in Principals : Mint(h, p)
  BY <1>1, <1>5 DEF Mint
<1>6. CASE \/ \E v \in Worlds, who \in Holders, l \in Locators : Revoke(v, who, l)
           \/ \E v \in Worlds, peer \in Peers : RefuseBegin(v, peer)
  BY <1>1, <1>6 DEF Revoke, RefuseBegin
<1>7. CASE Opening
  BY <1>1, <1>7 DEF Opening, Begin
<1>8. CASE Denying
  BY <1>1, <1>8 DEF Denying, RevokeRelay
<1> QED
  BY <1>2, <1>3, <1>4, <1>5, <1>6, <1>7, <1>8, StepKinds

(* A grant keeps whose it is, and is entered for the caller.                *)
LEMMA DigestsStay ==
  ASSUME TypeOK, [Next]_vars, NEW k \in Keys, grants'[k] # None
  PROVE  \/ grants[k] # None /\ grants'[k].digest = grants[k].digest
         \/ \E h \in Clients :
              /\ calls[h].op = "grant" /\ calls[h].key = k
              /\ grants'[k].digest = calls[h].who
<1>1. CASE grants' \in {grants, LiveGrants}
  BY <1>1, GrantsSubside
<1>2. ASSUME NEW h \in Clients, Join(h)
      PROVE  grants' = LiveGrants
  BY <1>2 DEF Join, Entered
<1>3. ASSUME NEW h \in Clients, NEW p \in Principals, Mint(h, p)
      PROVE  \/ grants[k] # None /\ grants'[k].digest = grants[k].digest
             \/ /\ calls[h].op = "grant" /\ calls[h].key = k
                /\ grants'[k].digest = calls[h].who
  <2> DEFINE g == NewGrant(calls[h].key, calls[h].who, p)
  <2>1. calls[h].op = "grant" /\ grants' = [LiveGrants EXCEPT ![calls[h].key] = g]
    BY <1>3 DEF Mint
  <2>2. g.digest = calls[h].who
    BY DEF NewGrant
  <2> HIDE DEF g
  <2>3. calls[h].key = k => grants'[k] = g
    BY <2>1, LiveBook
  <2>4. calls[h].key # k => grants'[k] = LiveGrants[k]
    BY <2>1, LiveBook
  <2> QED
    BY <2>1, <2>2, <2>3, <2>4, LiveBook
<1>4. ASSUME NEW h \in Clients, NEW w \in Worlds, NEW x \in Attempts, NEW who \in Holders,
             RevokeRelay(h, w, x, who)
      PROVE  grants[k] # None /\ grants'[k].digest = grants[k].digest
  <2>1. \/ grants'[k] = LiveGrants[k]
        \/ Mine(LiveGrants[k], who) /\ grants'[k] = RevokedGrant(LiveGrants[k], who)
    BY <1>4 DEF RevokeRelay, RevokedGrant
  <2>2. LiveGrants[k] # None => LiveGrants[k] \in Grant /\ LiveGrants[k] = grants[k]
    BY LiveBook
  <2>3. Mine(LiveGrants[k], who) => LiveGrants[k] # None
    BY DEF Mine
  <2> QED
    BY <2>1, <2>2, <2>3, RevokedGrantFields
<1>5. ASSUME Restart
      PROVE  grants'[k] = None
  BY <1>5 DEF Restart
<1> QED
  BY <1>1, <1>2, <1>3, <1>4, <1>5, GrantKinds DEF Denying

(* Who asks for a host's credential went through host_ice.                  *)
LEMMA Askers ==
  ASSUME TypeOK, [Next]_vars, NEW g \in Clients, calls'[g].op = "grant"
  PROVE  \/ calls'[g] = calls[g]
         \/ ~calls'[g].key[3]
         \/ \E w \in Worlds, x \in Attempts, who \in Holders, l \in Locators :
              HostIce(g, w, x, who, l)
<1> DEFINE Goal ==
      \/ calls'[g] = calls[g]
      \/ ~calls'[g].key[3]
      \/ \E w \in Worlds, x \in Attempts, who \in Holders, l \in Locators :
           HostIce(g, w, x, who, l)
<1>1. ASSUME NEW h \in Clients, NEW call, calls' = [calls EXCEPT ![h] = call],
             call.op # "grant"
      PROVE  calls'[g] = calls[g]
  BY <1>1 DEF TypeOK
<1>2. ASSUME Publication
      PROVE  calls'[g] = calls[g]
  <2>1. ASSUME NEW h \in Clients, Reserve(h)
        PROVE  calls'[g] = calls[g]
    <3>1. [calls[h] EXCEPT !.op = "renew"].op = "renew"
      BY <2>1, CallKinds DEF Reserve, Publishing
    <3>2. calls' = [calls EXCEPT ![h] = [calls[h] EXCEPT !.op = "renew"]]
      BY <2>1 DEF Reserve
    <3> QED
      BY <1>1, <3>1, <3>2
  <2>2. ASSUME NEW h \in Clients,
               \/ Renew(h)
               \/ \E w \in Worlds, who \in Holders, l \in Locators : Publish(h, w, who, l)
        PROVE  calls'[g] = calls[g]
    BY <1>1, <2>2 DEF Publish, Renew, Idle
  <2> QED
    BY <1>2, <2>1, <2>2 DEF Publication, Reservation, Revoke
<1>3. ASSUME NEW h \in Clients, NEW w \in Worlds, NEW x \in Attempts, NEW who \in Holders,
             NEW l \in Locators, NEW peer \in Peers, NEW proof \in Proofs,
             Begin(h, w, x, who, l, peer, proof)
      PROVE  Goal
  BY <1>3 DEF Begin, TypeOK
<1>4. ASSUME NEW h \in Clients, NEW w \in Worlds, NEW x \in Attempts, NEW who \in Holders,
             NEW l \in Locators, HostIce(h, w, x, who, l)
      PROVE  Goal
  <2>1. g # h => calls'[g] = calls[g]
    BY <1>4 DEF HostIce
  <2> QED
    BY <1>4, <2>1
<1>5. ASSUME NEW h \in Clients, NEW w \in Worlds, NEW x \in Attempts, NEW who \in Holders,
             RevokeRelay(h, w, x, who)
      PROVE  calls'[g] = calls[g]
  <2> DEFINE call == [op |-> "revoke", at |-> now,
                      left |-> [host \in BOOLEAN |->
                        IF Mine(LiveGrants[<<w, x, host>>], who)
                          THEN LiveGrants[<<w, x, host>>].principal ELSE None]]
  <2>1. calls' = calls \/ calls' = [calls EXCEPT ![h] = call]
    BY <1>5 DEF RevokeRelay
  <2>2. call.op # "grant"
    OBVIOUS
  <2> HIDE DEF call
  <2> QED
    BY <1>1, <2>1, <2>2
<1>6. ASSUME NEW h \in Clients,
             \/ \E p \in Principals : Mint(h, p)
             \/ Join(h) \/ RefuseGrant(h) \/ Disclose(h) \/ RelayRevoked(h) \/ Drop(h)
      PROVE  calls'[g] = calls[g]
  BY <1>1, <1>6 DEF Mint, Join, Await, RefuseGrant, Disclose, RelayRevoked, Drop, Idle
<1>7. ASSUME NEW h \in Clients, NEW host \in BOOLEAN, RevokeNext(h, host)
      PROVE  calls'[g] = calls[g]
  <2>1. [calls[h] EXCEPT !.left[host] = None].op = "revoke"
    BY <1>7, CallKinds DEF RevokeNext, Revoking
  <2>2. calls' = [calls EXCEPT ![h] = [calls[h] EXCEPT !.left[host] = None]]
    BY <1>7 DEF RevokeNext
  <2> QED
    BY <1>1, <2>1, <2>2
<1>8. ASSUME \/ Signalling
             \/ \E w \in Worlds, peer \in Peers : RefuseBegin(w, peer)
             \/ \E p \in Principals, state \in {"issued", "failed"} : Issued(p, state)
             \/ Sweep \/ Tick \/ UNCHANGED vars
      PROVE  calls'[g] = calls[g]
  <2>1. CASE Signalling
    BY <2>1, SignallingSteps DEF Signalled
  <2> QED
    BY <1>8, <2>1 DEF RefuseBegin, Issued, Sweep, Tick, vars
<1>9. CASE Restart
  BY <1>9 DEF Restart, Idle
<1> HIDE DEF Goal
<1>10. Goal
  <2>1. CASE Relaying
    BY <1>3, <1>4, <1>5, <1>6, <1>7, <1>8, <2>1 DEF Relaying, Goal
  <2> QED
    BY <1>2, <1>6, <1>8, <1>9, <2>1 DEF Next, Goal
<1> QED
  BY <1>10 DEF Goal

LEMMA HostsOwnInductive ==
  ASSUME TypeOK, Owned, HostsOwn, [Next]_vars
  PROVE  HostsOwn'
<1>1. ASSUME NEW k \in Keys, grants'[k] # None, k[3]
      PROVE  grants'[k].digest = owners'[k[1]]
  <2>1. k[1] \in Worlds
    BY KeysOf
  <2>2. CASE grants[k] # None /\ grants'[k].digest = grants[k].digest
    <3>1. grants[k].digest = owners[k[1]] /\ grants[k].admin = owners[k[1]]
      BY <1>1, <2>2 DEF HostsOwn, HostGrant, Owned, OwnersAgree
    <3>2. owners[k[1]] # None
      BY <2>2, <3>1, NotNone DEF TypeOK, Grant
    <3> QED
      BY <2>1, <2>2, <3>1, <3>2, OwnersStay
  <2>3. ASSUME NEW h \in Clients, calls[h].op = "grant", calls[h].key = k,
               grants'[k].digest = calls[h].who
        PROVE  grants'[k].digest = owners'[k[1]]
    <3>1. calls[h].who = owners[k[1]]
      BY <1>1, <2>3 DEF HostsOwn, HostAsks
    <3>2. owners[k[1]] # None
      BY <2>3, <3>1, CallKinds, NotNone DEF Entering
    <3> QED
      BY <2>1, <2>3, <3>1, <3>2, OwnersStay
  <2> QED
    BY <1>1, <2>2, <2>3, DigestsStay
<1>2. ASSUME NEW h \in Clients, calls'[h].op = "grant", calls'[h].key[3]
      PROVE  calls'[h].who = owners'[calls'[h].key[1]]
  <2>1. CASE calls'[h] = calls[h]
    <3>1. calls[h].who = owners[calls[h].key[1]]
      BY <1>2, <2>1 DEF HostsOwn, HostAsks
    <3>2. calls[h].key[1] \in Worlds /\ calls[h].who # None
      BY <1>2, <2>1, CallKinds, KeysOf, NotNone DEF Entering
    <3> QED
      BY <2>1, <3>1, <3>2, OwnersStay
  <2>2. ASSUME NEW w \in Worlds, NEW x \in Attempts, NEW who \in Holders, NEW l \in Locators,
               HostIce(h, w, x, who, l)
        PROVE  calls'[h].who = owners'[calls'[h].key[1]]
    <3>1. calls'[h].who = who /\ calls'[h].key = <<w, x, TRUE>> /\ owners' = owners
      BY <2>2 DEF HostIce, TypeOK
    <3>2. leases[w] # None /\ leases[w].admin = who
      BY <2>2, LiveBook DEF HostIce, Running
    <3> QED
      BY <3>1, <3>2 DEF Owned, OwnersAgree
  <2> QED
    BY <1>2, <2>1, <2>2, Askers
<1> QED
  BY <1>1, <1>2 DEF HostsOwn, HostGrant, HostAsks

LEMMA HostsOwnAlways == Spec => [](TypeOK /\ Owned /\ HostsOwn)
<1>1. Init => HostsOwn
  BY DEF Init, HostsOwn, HostGrant, HostAsks, Idle
<1>2. TypeOK /\ Owned /\ HostsOwn /\ [Next]_vars => HostsOwn'
  BY HostsOwnInductive
<1> QED
  BY <1>1, <1>2, OwnedAlways, PTL DEF Spec

-----------------------------------------------------------------------------
(* What a credential is in the abstract, from its issuance and its grant.   *)
Lasts(p) == minted[p].key # None /\ minted[p].until > now

PhaseOf(g) == IF g.revokeAll THEN "barred" ELSE IF g.revoked THEN "denied" ELSE "open"

Placed(phase, k) == [phase |-> phase, attempt |-> <<k[1], k[2]>>, host |-> k[3]]

LEMMA LifeOfEach ==
  ASSUME NEW i \in Issuance, NEW g, NEW t \in Nat
  PROVE  /\ i.state = "unused" => LifeOf(i, g, t) = Relay!Unissued
         /\ i.state # "unused" /\ (i.key = None \/ i.until <= t) => LifeOf(i, g, t) = Relay!Over
         /\ i.state # "unused" /\ i.key # None /\ i.until > t =>
              LifeOf(i, g, t) = Placed(PhaseOf(g), i.key)
<1>1. i.until \in Nat
  BY DEF Issuance
<1> QED
  BY <1>1 DEF LifeOf, Placed, PhaseOf, Relay!Unissued, Relay!Over

LEMMA PhaseFields ==
  ASSUME NEW g, NEW k
  PROVE  /\ Placed(PhaseOf(g), k).phase \in {"open", "denied", "barred"}
         /\ Placed(PhaseOf(g), k).phase = PhaseOf(g)
         /\ Placed(PhaseOf(g), k).attempt = <<k[1], k[2]>>
         /\ Placed(PhaseOf(g), k).host = k[3]
  BY DEF Placed, PhaseOf

(* A credential lasts exactly as long as its grant is live.                 *)
LEMMA LivesAt ==
  ASSUME TypeOK, Granted, NEW p \in Principals
  PROVE  /\ Relay!Lasting(p) <=> Lasts(p)
         /\ Lives[p] = Relay!Unissued <=> minted[p].state = "unused"
         /\ Lasts(p) =>
              LET k == minted[p].key
              IN  /\ k \in Keys /\ minted[p].state # "unused"
                  /\ LiveGrants[k] = grants[k] /\ grants[k] \in Grant
                  /\ grants[k].principal = p /\ grants[k].expires = minted[p].until
                  /\ Lives[p] = Placed(PhaseOf(grants[k]), k)
<1> DEFINE k == minted[p].key
<1>1. /\ minted[p] \in Issuance /\ now \in Nat
      /\ Lives[p] = LifeOf(minted[p], grants[k], now)
  BY DEF TypeOK, Lives
<1>2. Lasts(p) =>
        /\ k \in Keys /\ minted[p].state # "unused"
        /\ LiveGrants[k] = grants[k] /\ grants[k] \in Grant
        /\ grants[k].principal = p /\ grants[k].expires = minted[p].until
  <2>1. Lasts(p) =>
          /\ k \in Keys /\ minted[p].state # "unused"
          /\ grants[k] # None /\ grants[k].principal = p /\ grants[k].expires = minted[p].until
    BY <1>1 DEF Granted, Unminted, Backed, Lasts, Issuance
  <2> QED
    BY <2>1 DEF LiveGrants, Lasts, TypeOK
<1>3. Lasts(p) => Lives[p] = Placed(PhaseOf(grants[k]), k)
  BY <1>1, <1>2, LifeOfEach DEF Lasts
<1>4. ~Lasts(p) => Lives[p] \in {Relay!Unissued, Relay!Over}
  BY <1>1, LifeOfEach DEF Lasts, Issuance
<1>5. Relay!Lasting(p) <=> Lasts(p)
  BY <1>3, <1>4, PhaseFields DEF Relay!Lasting, Relay!Unissued, Relay!Over
<1>6. Lives[p] = Relay!Unissued <=> minted[p].state = "unused"
  <2>1. Placed(PhaseOf(grants[k]), k) # Relay!Unissued
    BY PhaseFields DEF Relay!Unissued
  <2>2. Relay!Over # Relay!Unissued
    BY DEF Relay!Over, Relay!Unissued
  <2> QED
    BY <1>1, <1>2, <1>3, <2>1, <2>2, LifeOfEach DEF Lasts, Issuance
<1> QED
  BY <1>2, <1>3, <1>5, <1>6

-----------------------------------------------------------------------------
(* Every step of the book is one of Credential, or none.                    *)
LEMMA LivesInit ==
  ASSUME Init
  PROVE  Relay!Init
  BY DEF Init, Relay!Init, Lives, LifeOf, Unused, Relay!Unissued

(* The credentials whose time is over at the next instant end.              *)
LEMMA QuietLives ==
  ASSUME TypeOK, TypeOK', Granted, QuietMints, now' \in {now, now + 1},
         \A k \in Keys : grants[k] # None /\ grants[k].expires > now => grants'[k] = grants[k]
  PROVE  Relay!Next
<1> DEFINE gone == {p \in Principals : Lasts(p) /\ minted[p].until <= now'}
<1>1. ASSUME NEW p \in Principals
      PROVE  Lives'[p] = IF p \in gone THEN Relay!Over ELSE Lives[p]
  <2> DEFINE k == minted[p].key
             i == minted'[p]
  <2>1. /\ minted[p] \in Issuance /\ i \in Issuance /\ now \in Nat /\ now' \in Nat
        /\ Lives[p] = LifeOf(minted[p], grants[k], now)
        /\ Lives'[p] = LifeOf(i, grants'[i.key], now')
    BY DEF TypeOK, Lives
  <2>2. i.key = k /\ i.until = minted[p].until /\ (i.state = "unused" <=> minted[p].state = "unused")
    BY DEF QuietMints
  <2>3. minted[p].until \in Nat /\ (minted[p].until <= now => minted[p].until <= now')
    BY <2>1 DEF Issuance
  <2>4. CASE minted[p].state = "unused"
    <3>1. p \notin gone
      BY <2>4, LivesAt
    <3> QED
      BY <2>1, <2>2, <2>4, <3>1, LifeOfEach
  <2>5. CASE minted[p].state # "unused" /\ ~Lasts(p)
    <3>1. k = None \/ (minted[p].until <= now /\ minted[p].until <= now')
      BY <2>1, <2>3, <2>5 DEF Lasts
    <3>2. Lives[p] = Relay!Over
      BY <2>1, <2>5, <3>1, LifeOfEach
    <3>3. Lives'[p] = Relay!Over
      BY <2>1, <2>2, <2>5, <3>1, LifeOfEach
    <3> QED
      BY <2>5, <3>2, <3>3
  <2>6. CASE Lasts(p)
    <3>1. minted[p].state # "unused" /\ k # None /\ k \in Keys
      BY <2>6, LivesAt, NotNone
    <3>2. CASE minted[p].until <= now'
      BY <2>1, <2>2, <2>6, <3>1, <3>2, LifeOfEach
    <3>3. CASE minted[p].until > now'
      <4>1. grants'[k] = grants[k]
        BY <2>6, <3>1, LivesAt, NotNone DEF Lasts
      <4>2. Lives'[p] = Placed(PhaseOf(grants'[k]), k)
        BY <2>1, <2>2, <3>1, <3>3, LifeOfEach
      <4> QED
        BY <2>1, <2>3, <2>6, <3>3, <4>1, <4>2, LivesAt
    <3> QED
      BY <2>1, <2>3, <3>2, <3>3
  <2> QED
    BY <2>4, <2>5, <2>6
<1>2. Relay!End(gone)
  <2>1. \A p \in gone : Relay!Lasting(p)
    BY LivesAt
  <2>2. Lives' = [p \in Principals |-> IF p \in gone THEN Relay!Over ELSE Lives[p]]
    BY <1>1 DEF Lives
  <2> QED
    BY <2>1, <2>2 DEF Relay!End
<1>3. gone \in SUBSET Principals
  OBVIOUS
<1> HIDE DEF gone
<1> QED
  BY <1>2, <1>3 DEF Relay!Next

(* A call that finds no grant for its side is issued the one credential.    *)
LEMMA MintLives ==
  ASSUME TypeOK, TypeOK', Granted, NEW h \in Clients, NEW p \in Principals, Mint(h, p)
  PROVE  Relay!Next
<1> DEFINE k == calls[h].key
           x == <<k[1], k[2]>>
           g == NewGrant(k, calls[h].who, p)
           i == [state |-> "running", key |-> k, until |-> now + GrantTTL, ends |-> 0]
<1>1. /\ k \in Keys /\ calls[h].who \in Holders /\ x \in Worlds \X Attempts
      /\ k[3] \in BOOLEAN /\ now \in Nat
  BY CallKinds, KeysOf DEF Mint, Entering, TypeOK
<1>2. ~g.revoked /\ ~g.revokeAll
  BY DEF NewGrant
<1>3. /\ i.state = "running" /\ i.key = k /\ i.until = now + GrantTTL
      /\ i \in Issuance /\ i.key # None /\ i.until > now
  BY <1>1, PeriodsAssumption, NotNone DEF Issuance, States
<1>4. /\ Grantable(k) /\ LiveGrants[k] = None /\ minted[p].state = "unused" /\ now' = now
      /\ grants' = [LiveGrants EXCEPT ![k] = g]
      /\ minted' = [minted EXCEPT ![p] = i]
  BY DEF Mint
<1> HIDE DEF g, i
<1>5. /\ \A j \in Keys : grants'[j] = IF j = k THEN g ELSE LiveGrants[j]
      /\ \A q \in Principals : minted'[q] = IF q = p THEN i ELSE minted[q]
  BY <1>1, <1>4, LiveBook DEF TypeOK
<1>6. Lives[p] = Relay!Unissued
  BY <1>4, LivesAt
<1>7. ASSUME NEW q \in Relay!Of(x)
      PROVE  Lives[q].host # k[3] /\ Lives[q].phase # "barred"
  <2> DEFINE j == minted[q].key
  <2>1. q \in Principals /\ Lasts(q) /\ Lives[q].attempt = x
    BY LivesAt DEF Relay!Of
  <2>2. /\ j \in Keys /\ LiveGrants[j] = grants[j] /\ grants[j] \in Grant
        /\ Lives[q] = Placed(PhaseOf(grants[j]), j)
    BY <2>1, LivesAt
  <2>3. Lives[q].attempt = <<j[1], j[2]>> /\ Lives[q].host = j[3]
        /\ Lives[q].phase = PhaseOf(grants[j])
    BY <2>2, PhaseFields
  <2>4. j = <<k[1], k[2], j[3]>> /\ j[3] \in BOOLEAN /\ k = <<k[1], k[2], k[3]>>
    BY <1>1, <2>1, <2>2, <2>3, KeysOf
  <2>5. LiveGrants[j] # None /\ ~LiveGrants[j].revokeAll
    BY <1>4, <2>2, <2>4, NotNone DEF Grantable
  <2> QED
    BY <1>4, <2>2, <2>3, <2>4, <2>5 DEF PhaseOf
<1>8. Lives' = [Lives EXCEPT ![p] = [phase |-> "open", attempt |-> x, host |-> k[3]]]
  <2>1. ASSUME NEW q \in Principals
        PROVE  Lives'[q] = IF q = p THEN [phase |-> "open", attempt |-> x, host |-> k[3]]
                           ELSE Lives[q]
    <3>1. Lives'[q] = LifeOf(minted'[q], grants'[minted'[q].key], now)
      BY <1>4 DEF Lives
    <3>2. CASE q = p
      <4>1. Lives'[q] = LifeOf(i, g, now)
        BY <1>1, <1>3, <1>5, <3>1, <3>2
      <4>2. LifeOf(i, g, now) = Placed(PhaseOf(g), k)
        BY <1>1, <1>3, LifeOfEach
      <4> QED
        BY <1>2, <3>2, <4>1, <4>2 DEF Placed, PhaseOf
    <3>3. CASE q # p
      <4> DEFINE j == minted[q].key
      <4>1. /\ Lives'[q] = LifeOf(minted[q], grants'[j], now)
            /\ Lives[q] = LifeOf(minted[q], grants[j], now)
            /\ minted[q] \in Issuance /\ minted[q].until \in Nat
        BY <1>5, <3>1, <3>3 DEF Lives, TypeOK, Issuance
      <4>2. CASE Lasts(q)
        <5>1. j \in Keys /\ LiveGrants[j] = grants[j] /\ grants[j] # None
          BY <4>2, LivesAt, NotNone
        <5> QED
          BY <1>4, <1>5, <3>3, <4>1, <5>1
      <4>3. CASE ~Lasts(q)
        <5>1. j = None \/ minted[q].until <= now
          BY <1>1, <4>1, <4>3 DEF Lasts
        <5> QED
          BY <1>1, <3>3, <4>1, <5>1, LifeOfEach
      <4> QED
        BY <4>2, <4>3
    <3> QED
      BY <3>2, <3>3
  <2> QED
    BY <2>1 DEF Lives
<1>9. Relay!Issue(p, x, k[3])
  BY <1>6, <1>7, <1>8 DEF Relay!Issue
<1> QED
  BY <1>1, <1>9 DEF Relay!Next

(* A denial: of both sides by the owner of the World, of its own side by    *)
(* the client.                                                              *)
LEMMA DenialLives ==
  ASSUME TypeOK, TypeOK', Granted, Owned, HostsOwn,
         NEW w \in Worlds, NEW x \in Attempts, NEW who \in Holders,
         minted' = minted, now' = now,
         grants' = [k \in Keys |->
           IF k[1] = w /\ k[2] = x /\ Mine(LiveGrants[k], who)
             THEN RevokedGrant(LiveGrants[k], who) ELSE LiveGrants[k]]
  PROVE  Relay!Next \/ UNCHANGED Lives
<1> DEFINE Key(p) == minted[p].key
           Taken(p) == /\ Lasts(p) /\ Key(p)[1] = w /\ Key(p)[2] = x
                       /\ Mine(grants[Key(p)], who)
           Marked(p) == PhaseOf(RevokedGrant(grants[Key(p)], who))
<1>1. ASSUME NEW p \in Principals
      PROVE  /\ Taken(p) => Lives'[p] = Placed(Marked(p), Key(p))
             /\ ~Taken(p) => Lives'[p] = Lives[p]
  <2>1. /\ Lives'[p] = LifeOf(minted[p], grants'[Key(p)], now)
        /\ Lives[p] = LifeOf(minted[p], grants[Key(p)], now)
        /\ minted[p] \in Issuance /\ minted[p].until \in Nat /\ now \in Nat
    BY DEF Lives, TypeOK, Issuance
  <2>2. CASE ~Lasts(p)
    <3>1. Key(p) = None \/ minted[p].until <= now
      BY <2>1, <2>2 DEF Lasts
    <3> QED
      BY <2>1, <2>2, <3>1, LifeOfEach
  <2>3. CASE Lasts(p)
    <3>1. /\ Key(p) \in Keys /\ minted[p].state # "unused" /\ Key(p) # None
          /\ minted[p].until > now /\ LiveGrants[Key(p)] = grants[Key(p)]
      BY <2>3, LivesAt DEF Lasts
    <3>2. Lives'[p] = Placed(PhaseOf(grants'[Key(p)]), Key(p))
      BY <2>1, <3>1, LifeOfEach
    <3>3. Lives[p] = Placed(PhaseOf(grants[Key(p)]), Key(p))
      BY <2>1, <3>1, LifeOfEach
    <3>4. grants'[Key(p)] = IF Taken(p) THEN RevokedGrant(grants[Key(p)], who)
                            ELSE grants[Key(p)]
      BY <2>3, <3>1
    <3> QED
      BY <3>2, <3>3, <3>4
  <2> QED
    BY <2>2, <2>3
<1>2. ASSUME NEW p \in Principals, Lasts(p)
      PROVE  LET g == grants[Key(p)]
             IN  /\ Key(p) \in Keys /\ g \in Grant /\ g.principal = p
                 /\ g.admin = owners[Key(p)[1]]
                 /\ Key(p)[3] => g.digest = owners[Key(p)[1]]
                 /\ Lives[p] = Placed(PhaseOf(g), Key(p))
                 /\ Marked(p) = IF g.revokeAll \/ g.admin = who THEN "barred" ELSE "denied"
  <2> DEFINE g == grants[Key(p)]
  <2>1. /\ Key(p) \in Keys /\ g \in Grant /\ g.principal = p
        /\ Lives[p] = Placed(PhaseOf(g), Key(p))
    BY <1>2, LivesAt
  <2>2. g.admin = owners[Key(p)[1]] /\ (Key(p)[3] => g.digest = owners[Key(p)[1]])
    BY <2>1, NotNone DEF Owned, OwnersAgree, HostsOwn, HostGrant
  <2>3. Marked(p) = IF g.revokeAll \/ g.admin = who THEN "barred" ELSE "denied"
    BY <2>1, RevokedGrantFields DEF PhaseOf
  <2> QED
    BY <2>1, <2>2, <2>3
<1>3. CASE who = owners[w]
  <2>1. ASSUME NEW p \in Principals
        PROVE  Taken(p) <=> p \in Relay!Of(<<w, x>>)
    <3>1. Lasts(p) => Lives[p].attempt = <<Key(p)[1], Key(p)[2]>>
      BY <1>2, PhaseFields
    <3>2. Lasts(p) /\ Key(p)[1] = w => Mine(grants[Key(p)], who)
      BY <1>2, <1>3, NotNone DEF Mine
    <3> QED
      BY <3>1, <3>2, LivesAt DEF Relay!Of
  <2>2. ASSUME NEW p \in Principals, Taken(p)
        PROVE  Lives'[p] = Relay!Turned(Lives[p], "barred")
    <3>1. Lives'[p] = Placed("barred", Key(p))
      BY <1>1, <1>2, <1>3, <2>2
    <3>2. Lives[p] = Placed(PhaseOf(grants[Key(p)]), Key(p))
      BY <1>2, <2>2
    <3> QED
      BY <3>1, <3>2, PhaseFields DEF Placed, Relay!Turned
  <2>3. ASSUME NEW p \in Principals
        PROVE  Lives'[p] = IF p \in Relay!Of(<<w, x>>)
                             THEN Relay!Turned(Lives[p], "barred") ELSE Lives[p]
    BY <1>1, <2>1, <2>2
  <2>4. Relay!Bar(<<w, x>>)
    BY <2>3 DEF Relay!Bar, Lives
  <2> QED
    BY <2>4 DEF Relay!Next
<1>4. CASE who # owners[w]
  <2>1. ASSUME NEW p \in Principals, Taken(p)
        PROVE  /\ Key(p) = <<w, x, FALSE>> /\ Key(p)[3] = FALSE /\ grants[Key(p)].principal = p
               /\ Lives[p] = Placed(PhaseOf(grants[Key(p)]), Key(p))
               /\ grants[Key(p)].revokeAll => Lives'[p] = Placed("barred", Key(p))
               /\ ~grants[Key(p)].revokeAll => Lives'[p] = Placed("denied", Key(p))
    <3>1. Key(p)[3] = FALSE
      BY <1>2, <1>4, <2>1, KeysOf DEF Mine
    <3>2. Key(p) = <<w, x, FALSE>>
      BY <1>2, <2>1, <3>1, KeysOf
    <3>3. Marked(p) = IF grants[Key(p)].revokeAll THEN "barred" ELSE "denied"
      BY <1>2, <1>4, <2>1
    <3>4. Lives'[p] = Placed(Marked(p), Key(p))
      BY <1>1, <2>1
    <3>5. Lasts(p)
      BY <2>1
    <3> HIDE DEF Taken, Marked
    <3> QED
      BY <1>2, <3>1, <3>2, <3>3, <3>4, <3>5
  <2>2. CASE \E p \in Principals : Taken(p) /\ PhaseOf(grants[Key(p)]) = "open"
    <3>1. PICK p \in Principals : Taken(p) /\ PhaseOf(grants[Key(p)]) = "open"
      BY <2>2
    <3>2. \A q \in Principals : Taken(q) => q = p
      BY <2>1, <3>1
    <3>3. Lives[p].phase = "open" /\ ~Lives[p].host
      <4>1. Key(p)[3] = FALSE /\ Lives[p] = Placed(PhaseOf(grants[Key(p)]), Key(p))
        BY <2>1, <3>1
      <4> HIDE DEF Key, Taken
      <4> QED
        BY <3>1, <4>1, PhaseFields
    <3>4. Lives'[p] = Relay!Turned(Lives[p], "denied")
      <4>1. Lives'[p] = Placed("denied", Key(p)) /\ Lives[p] = Placed("open", Key(p))
        BY <2>1, <3>1 DEF PhaseOf
      <4> QED
        BY <4>1 DEF Placed, Relay!Turned
    <3>5. Lives' = [Lives EXCEPT ![p] = Relay!Turned(@, "denied")]
      BY <1>1, <3>2, <3>4 DEF Lives
    <3>6. Relay!Deny(p)
      BY <3>3, <3>5 DEF Relay!Deny
    <3> QED
      BY <3>6 DEF Relay!Next
  <2>3. CASE ~\E p \in Principals : Taken(p) /\ PhaseOf(grants[Key(p)]) = "open"
    <3>1. ASSUME NEW p \in Principals
          PROVE  Lives'[p] = Lives[p]
      <4>1. CASE Taken(p)
        <5>1. PhaseOf(grants[Key(p)]) # "open"
          BY <2>3, <4>1
        <5>2. Lives[p] = Placed(PhaseOf(grants[Key(p)]), Key(p))
          BY <2>1, <4>1
        <5>3. CASE grants[Key(p)].revokeAll
          <6>1. PhaseOf(grants[Key(p)]) = "barred"
            BY <5>3 DEF PhaseOf
          <6>2. Lives'[p] = Placed("barred", Key(p))
            BY <2>1, <4>1, <5>3
          <6> QED
            BY <5>2, <6>1, <6>2
        <5>4. CASE ~grants[Key(p)].revokeAll
          <6>1. PhaseOf(grants[Key(p)]) = "denied"
            BY <5>1, <5>4 DEF PhaseOf
          <6>2. Lives'[p] = Placed("denied", Key(p))
            BY <2>1, <4>1, <5>4
          <6> QED
            BY <5>2, <6>1, <6>2
        <5> QED
          BY <5>3, <5>4
      <4> QED
        BY <1>1, <4>1
    <3> QED
      BY <3>1 DEF Lives
  <2> QED
    BY <2>2, <2>3
<1> QED
  BY <1>3, <1>4

(* A restart forgets the grants: all that lasts is over.                    *)
LEMMA RestartLives ==
  ASSUME TypeOK, TypeOK', Granted, Restart
  PROVE  Relay!Next
<1> DEFINE gone == {p \in Principals : Lasts(p)}
<1>1. ASSUME NEW p \in Principals
      PROVE  Lives'[p] = IF p \in gone THEN Relay!Over ELSE Lives[p]
  <2>1. /\ minted[p] \in Issuance /\ minted'[p] \in Issuance /\ now \in Nat /\ now' = now
        /\ Lives[p] = LifeOf(minted[p], grants[minted[p].key], now)
        /\ Lives'[p] = LifeOf(minted'[p], grants'[minted'[p].key], now)
    BY DEF TypeOK, Lives, Restart
  <2>2. minted'[p].key = None /\ (minted'[p].state = "unused" <=> minted[p].state = "unused")
    BY <2>1 DEF Restart, Issuance
  <2>3. minted[p].until \in Nat
    BY <2>1 DEF Issuance
  <2>4. CASE minted[p].state = "unused"
    <3>1. ~Lasts(p)
      BY <2>4, LivesAt
    <3> QED
      BY <2>1, <2>2, <2>4, <3>1, LifeOfEach
  <2>5. CASE minted[p].state # "unused"
    <3>1. Lives'[p] = Relay!Over
      BY <2>1, <2>2, <2>5, LifeOfEach
    <3>2. ~Lasts(p) => Lives[p] = Relay!Over
      BY <2>1, <2>3, <2>5, LifeOfEach DEF Lasts
    <3> QED
      BY <3>1, <3>2
  <2> QED
    BY <2>4, <2>5
<1>2. Relay!End(gone)
  BY <1>1, LivesAt DEF Relay!End, Lives
<1>3. gone \in SUBSET Principals
  OBVIOUS
<1> HIDE DEF gone
<1> QED
  BY <1>2, <1>3 DEF Relay!Next

LEMMA LivesNext ==
  ASSUME TypeOK, TypeOK', Granted, Owned, HostsOwn, [Next]_vars
  PROVE  [Relay!Next]_Lives
<1>1. CASE grants' \in {grants, LiveGrants} /\ QuietMints /\ now' \in {now, now + 1}
  BY <1>1, GrantsSubside, QuietLives
<1>2. ASSUME NEW h \in Clients, Join(h)
      PROVE  Relay!Next
  <2>1. grants' = LiveGrants /\ QuietMints /\ now' = now
    BY <1>2 DEF Join, Entered, QuietMints
  <2> QED
    BY <2>1, GrantsSubside, QuietLives
<1>3. ASSUME NEW h \in Clients, NEW w \in Worlds, NEW x \in Attempts, NEW who \in Holders,
             RevokeRelay(h, w, x, who)
      PROVE  Relay!Next \/ UNCHANGED Lives
  <2>1. minted' = minted /\ now' = now
    BY <1>3 DEF RevokeRelay
  <2>2. CASE grants' = LiveGrants
    BY <2>1, <2>2, GrantsSubside, QuietLives DEF QuietMints
  <2> QED
    BY <1>3, <2>1, <2>2, DenialLives DEF RevokeRelay, RevokedGrant
<1> QED
  BY <1>1, <1>2, <1>3, MintLives, RestartLives, GrantKinds DEF Denying

(* The book, its leases, its calls and its clock implement the promise      *)
(* about credentials: one for a side, the client's denial for its own side, *)
(* the administrator's for both and for good.                               *)
THEOREM CredentialRefinement == Spec => ImplementsCredential
  BY LivesInit, LivesNext, HostsOwnAlways, GrantedAlways, PTL
  DEF Spec, ImplementsCredential, Relay!Spec

=============================================================================
