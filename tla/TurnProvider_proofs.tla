------------------------- MODULE TurnProvider_proofs -------------------------
(***************************************************************************)
(* Proofs about TurnProvider, for any number of permits, calls and         *)
(* credentials.  The book under the provider is the book of SetupBook, so  *)
(* every theorem about Spec holds of TurnSpec.                             *)
(***************************************************************************)
EXTENDS TurnProvider, Credential_proofs, FiniteSetTheorems

TurnTypes ==
  /\ free \in Nat
  /\ issuing \in SUBSET Principals
  /\ revoking \in [Clients -> Principals \cup {None}]
  /\ provider \in [Principals -> {"none", "valid", "revoked"}]
  /\ unavailable \in BOOLEAN
  /\ covered \in [Clients -> SUBSET Principals]

Revokers == {h \in Clients : revoking[h] # None}

Permits ==
  /\ IsFiniteSet(issuing) /\ IsFiniteSet(Revokers)
  /\ free + Cardinality(issuing) + Cardinality(Revokers) = MaxPermits

(* What a call is revoking at the provider is the credential it is due to.  *)
OnTarget ==
  \A h \in Clients : revoking[h] # None =>
    /\ calls[h].op = "revoke"
    /\ revoking[h] =
         IF calls[h].left[FALSE] # None THEN calls[h].left[FALSE] ELSE calls[h].left[TRUE]

(* A credential that a revocation is about is still ahead of it, or it has  *)
(* been dealt with.                                                         *)
Done(p) == minted[p].state = "failed" \/ (Revocable => provider[p] = "revoked")

Ahead(h, p) == calls[h].op = "revoke" /\ \E host \in BOOLEAN : calls[h].left[host] = p

Accounted == \A h \in Clients : \A p \in covered[h] : Ahead(h, p) \/ Done(p)

-----------------------------------------------------------------------------
(* Every step of the provider and its callers is a step of the book.        *)
LEMMA BookSteps == [TurnNext]_turnVars => [Next]_vars
<1> SUFFICES ASSUME TurnNext
             PROVE  [Next]_vars
  BY DEF turnVars
<1>1. CASE Aside
  BY <1>1 DEF Aside, Next, Relaying
<1>2. ASSUME NEW p \in Principals,
             Saturated(p) \/ \E state \in {"issued", "failed"} : Settle(p, state)
      PROVE  Next
  BY <1>2 DEF Saturated, Settle, Next, Relaying
<1>3. ASSUME NEW p \in Principals, Acquire(p) \/ Honour(p)
      PROVE  UNCHANGED vars
  BY <1>3 DEF Acquire, Honour
<1>4. ASSUME NEW h \in Clients, NEW w \in Worlds, NEW x \in Attempts, NEW who \in Holders,
             BeginRevocation(h, w, x, who)
      PROVE  Next
  BY <1>4 DEF BeginRevocation, Next, Relaying
<1>5. ASSUME NEW h \in Clients, NEW host \in BOOLEAN, PassOver(h, host) \/ Revoked(h, host)
      PROVE  Next
  BY <1>5 DEF PassOver, Revoked, Next, Relaying
<1>6. ASSUME NEW h \in Clients, NEW host \in BOOLEAN, AskRevoke(h, host)
      PROVE  UNCHANGED vars
  BY <1>6 DEF AskRevoke
<1>7. ASSUME NEW h \in Clients, HonourRevocation(h)
      PROVE  UNCHANGED vars
  BY <1>7 DEF HonourRevocation
<1>8. ASSUME NEW h \in Clients, Answered(h) \/ End(h)
      PROVE  Next
  BY <1>8 DEF Answered, End, Next, Relaying
<1>9. CASE TurnRestart
  BY <1>9 DEF TurnRestart, Next
<1> QED
  BY <1>1, <1>2, <1>3, <1>4, <1>5, <1>6, <1>7, <1>8, <1>9 DEF TurnNext

(* The book under the provider behaves as SetupBook says: what is proved of *)
(* the book holds whatever the provider does.                               *)
THEOREM BookUnderProvider == TurnSpec => Spec
<1>1. TurnInit => Init
  BY DEF TurnInit
<1> QED
  BY <1>1, BookSteps, PTL DEF TurnSpec, Spec

(* Permits, provider and cut-off calls included, the service keeps what     *)
(* Credential promises.                                                     *)
THEOREM CredentialsUnderProvider == TurnSpec => ImplementsCredential
  BY BookUnderProvider, CredentialRefinement

-----------------------------------------------------------------------------
(* The permits.                                                             *)
LEMMA LeftPrincipal ==
  ASSUME TypeOK, NEW h \in Clients, calls[h].op = "revoke", NEW host \in BOOLEAN
  PROVE  calls[h].left[host] \in Principals \cup {None}
  BY CallKinds DEF Revoking

(* A revocation enters its list of credentials, or leaves every call as is. *)
LEMMA RevocationCall ==
  ASSUME TypeOK, NEW h \in Clients, NEW w \in Worlds, NEW x \in Attempts,
         NEW who \in Holders, RevokeRelay(h, w, x, who)
  PROVE  /\ \A g \in Clients : g # h => calls'[g] = calls[g]
         /\ calls'[h] # calls[h] => calls'[h].op = "revoke"
         /\ calls[h] = Idle
<1> DEFINE Entry ==
      [op |-> "revoke", at |-> now,
       left |-> [host \in BOOLEAN |->
         IF Mine(LiveGrants[<<w, x, host>>], who)
           THEN LiveGrants[<<w, x, host>>].principal ELSE None]]
<1>1. Entry.op = "revoke"
  OBVIOUS
<1>2. calls' = calls \/ calls' = [calls EXCEPT ![h] = Entry]
  BY DEF RevokeRelay
<1>3. calls[h] = Idle
  BY DEF RevokeRelay
<1>4. DOMAIN calls = Clients
  BY DEF TypeOK
<1> HIDE DEF Entry
<1> QED
  BY <1>1, <1>2, <1>3, <1>4

LEMMA TypesNext ==
  ASSUME TypeOK, TypeOK', TurnTypes, [TurnNext]_turnVars, free' \in Nat
  PROVE  TurnTypes'
<1>1. CASE UNCHANGED turn
  BY <1>1 DEF turn, TurnTypes
<1>2. ASSUME NEW p \in Principals,
             \/ Acquire(p) \/ Saturated(p) \/ Honour(p)
             \/ \E state \in {"issued", "failed"} : Settle(p, state)
      PROVE  TurnTypes'
  BY <1>2 DEF Acquire, Saturated, Honour, Settle, TurnTypes
<1>3. ASSUME NEW h \in Clients, NEW w \in Worlds, NEW x \in Attempts, NEW who \in Holders,
             BeginRevocation(h, w, x, who)
      PROVE  TurnTypes'
  <2>2. calls'[h] # calls[h] => calls'[h].op = "revoke"
    BY <1>3, RevocationCall DEF BeginRevocation
  <2>3. ASSUME calls'[h] # calls[h]
        PROVE  {calls'[h].left[host] : host \in BOOLEAN} \ {None} \in SUBSET Principals
    <3>1. calls'[h] \in Call
      BY DEF TypeOK
    <3>2. calls'[h] \in Revoking
      BY <2>2, <2>3, <3>1 DEF Call, Publishing, Entering, Awaiting, Revoking, Idle
    <3>3. \A host \in BOOLEAN : calls'[h].left[host] \in Principals \cup {None}
      BY <3>2 DEF Revoking
    <3> QED
      BY <3>3
  <2> QED
    BY <1>3, <2>3 DEF BeginRevocation, TurnTypes
<1>4. ASSUME NEW h \in Clients, NEW host \in BOOLEAN,
             PassOver(h, host) \/ Revoked(h, host)
      PROVE  TurnTypes'
  BY <1>4 DEF PassOver, Revoked, TurnTypes, turn
<1>5. ASSUME NEW h \in Clients, NEW host \in BOOLEAN, AskRevoke(h, host)
      PROVE  TurnTypes'
  BY <1>5, LeftPrincipal DEF AskRevoke, Due, TurnTypes
<1>6. ASSUME NEW h \in Clients, HonourRevocation(h) \/ Answered(h) \/ End(h)
      PROVE  TurnTypes'
  BY <1>6 DEF HonourRevocation, Answered, End, TurnTypes
<1>7. CASE TurnRestart
  BY <1>7 DEF TurnRestart, TurnTypes
<1> QED
  BY <1>1, <1>2, <1>3, <1>4, <1>5, <1>6, <1>7 DEF TurnNext, Aside, turnVars, turn

LEMMA PermitsNext ==
  ASSUME TypeOK, TurnTypes, Permits, [TurnNext]_turnVars
  PROVE  Permits' /\ free' \in Nat
<1>0. /\ Cardinality(issuing) \in Nat /\ Cardinality(Revokers) \in Nat
      /\ MaxPermits \in Nat
  BY FS_CardinalityType, PermitsAssumption DEF Permits
<1>1. CASE UNCHANGED <<free, issuing, revoking>>
  BY <1>1 DEF Permits, Revokers, TurnTypes
<1>2. ASSUME NEW p \in Principals, Acquire(p)
      PROVE  Permits' /\ free' \in Nat
  <2>1. issuing' = issuing \cup {p} /\ p \notin issuing /\ free' = free - 1 /\ free > 0
        /\ Revokers' = Revokers
    BY <1>2 DEF Acquire, Revokers
  <2>2. IsFiniteSet(issuing') /\ Cardinality(issuing') = Cardinality(issuing) + 1
    BY <2>1, FS_AddElement DEF Permits
  <2> QED
    BY <1>0, <2>1, <2>2 DEF Permits, TurnTypes
<1>3. ASSUME NEW p \in Principals, NEW state \in {"issued", "failed"}, Settle(p, state)
      PROVE  Permits' /\ free' \in Nat
  <2>1. issuing' = issuing \ {p} /\ p \in issuing /\ free' = free + 1
        /\ Revokers' = Revokers
    BY <1>3 DEF Settle, Revokers
  <2>2. IsFiniteSet(issuing') /\ Cardinality(issuing') = Cardinality(issuing) - 1
    BY <2>1, FS_RemoveElement DEF Permits
  <2> QED
    BY <1>0, <2>1, <2>2 DEF Permits, TurnTypes
<1>4. ASSUME NEW h \in Clients, NEW host \in BOOLEAN, AskRevoke(h, host)
      PROVE  Permits' /\ free' \in Nat
  <2>1. issuing' = issuing /\ free' = free - 1 /\ free > 0
    BY <1>4 DEF AskRevoke
  <2>2. Revokers' = Revokers \cup {h} /\ h \notin Revokers
    BY <1>4 DEF AskRevoke, Revokers, TurnTypes
  <2>3. IsFiniteSet(Revokers') /\ Cardinality(Revokers') = Cardinality(Revokers) + 1
    BY <2>2, FS_AddElement DEF Permits
  <2> QED
    BY <1>0, <2>1, <2>3 DEF Permits, TurnTypes
<1>5. ASSUME NEW h \in Clients, h \in Revokers, free' = free + 1, issuing' = issuing,
             revoking' = [revoking EXCEPT ![h] = None]
      PROVE  Permits' /\ free' \in Nat
  <2>1. Revokers' = Revokers \ {h}
    BY <1>5 DEF Revokers, TurnTypes
  <2>2. IsFiniteSet(Revokers') /\ Cardinality(Revokers') = Cardinality(Revokers) - 1
    BY <1>5, <2>1, FS_RemoveElement DEF Permits
  <2> QED
    BY <1>0, <1>5, <2>2 DEF Permits, TurnTypes
<1>6. ASSUME NEW h \in Clients, NEW host \in BOOLEAN, Revoked(h, host)
      PROVE  Permits' /\ free' \in Nat
  BY <1>5, <1>6 DEF Revoked, Revokers
<1>7. ASSUME NEW h \in Clients, End(h)
      PROVE  Permits' /\ free' \in Nat
  <2>1. CASE revoking[h] = None
    <3>1. revoking' = revoking /\ free' = free /\ issuing' = issuing
      BY <1>7, <2>1 DEF End, TurnTypes
    <3> QED
      BY <1>1, <3>1
  <2>2. CASE revoking[h] # None
    BY <1>5, <1>7, <2>2 DEF End, Revokers
  <2> QED
    BY <2>1, <2>2
<1>8. CASE TurnRestart
  <2>1. issuing' = {} /\ Revokers' = {} /\ free' = MaxPermits
    BY <1>8 DEF TurnRestart, Revokers
  <2> QED
    BY <1>0, <2>1, FS_EmptySet DEF Permits
<1> QED
  BY <1>1, <1>2, <1>3, <1>4, <1>6, <1>7, <1>8
  DEF TurnNext, Aside, Saturated, Honour, BeginRevocation, PassOver, HonourRevocation,
      Answered, turnVars, turn

-----------------------------------------------------------------------------
(* What the steps do to the calls that revoke.                              *)
LEMMA AsideCalls ==
  ASSUME TypeOK, Aside, NEW g \in Clients, calls[g].op = "revoke"
  PROVE  calls'[g] = calls[g]
<1>0. calls[g] # Idle
  BY DEF Idle
<1>1. CASE Publication
  BY <1>0, <1>1 DEF Publication, Publish, Reserve, Reservation, Renew, Revoke, TypeOK
<1>2. CASE Signalling
  BY <1>2 DEF Signalling, Offer, Answer, Read, Remove, SetAttempt
<1>3. ASSUME NEW h \in Clients, NEW c, calls' = [calls EXCEPT ![h] = c], g # h
      PROVE  calls'[g] = calls[g]
  BY <1>3 DEF TypeOK
<1>5. ASSUME NEW h \in Clients, NEW w \in Worlds, NEW x \in Attempts, NEW who \in Holders,
             NEW l \in Locators, NEW peer \in Peers, NEW proof \in Proofs,
             Begin(h, w, x, who, l, peer, proof)
      PROVE  calls'[g] = calls[g]
  <2>1. calls[h] = Idle
    BY <1>5 DEF Begin
  <2>2. calls' = [calls EXCEPT ![h] =
          [op |-> "grant", at |-> now, key |-> <<w, x, FALSE>>, who |-> who]]
    BY <1>5 DEF Begin
  <2> QED
    BY <1>0, <1>3, <2>1, <2>2
<1>6. ASSUME NEW h \in Clients, NEW w \in Worlds, NEW x \in Attempts, NEW who \in Holders,
             NEW l \in Locators, HostIce(h, w, x, who, l)
      PROVE  calls'[g] = calls[g]
  <2>1. calls[h] = Idle
    BY <1>6 DEF HostIce
  <2>2. calls' = [calls EXCEPT ![h] =
          [op |-> "grant", at |-> now, key |-> <<w, x, TRUE>>, who |-> who]]
    BY <1>6 DEF HostIce
  <2> QED
    BY <1>0, <1>3, <2>1, <2>2
<1>7. ASSUME NEW h \in Clients,
             (\E p \in Principals : Mint(h, p)) \/ Join(h)
      PROVE  calls'[g] = calls[g]
  <2>1. calls[h].op = "grant"
    BY <1>7 DEF Mint, Join
  <2>2. \E p : Await(h, calls[h].key, p)
    BY <1>7 DEF Mint, Join
  <2> QED
    BY <1>3, <2>1, <2>2 DEF Await
<1>8. ASSUME NEW h \in Clients, RefuseGrant(h) \/ Disclose(h)
      PROVE  calls'[g] = calls[g]
  <2>1. calls[h].op \in {"grant", "await"} /\ calls' = [calls EXCEPT ![h] = Idle]
    BY <1>8 DEF RefuseGrant, Disclose
  <2> QED
    BY <1>3, <2>1
<1>4. CASE \/ \E w \in Worlds, peer \in Peers : RefuseBegin(w, peer)
           \/ Sweep \/ Tick
  BY <1>4 DEF RefuseBegin, Sweep, Tick
<1> QED
  BY <1>1, <1>2, <1>4, <1>5, <1>6, <1>7, <1>8 DEF Aside

LEMMA DoneStays ==
  ASSUME TypeOK, TurnTypes, [TurnNext]_turnVars, NEW p \in Principals, Done(p)
  PROVE  Done(p)'
<1>1. minted[p].state = "failed" => minted'[p].state = "failed"
  <2>1. CASE UNCHANGED minted
    BY <2>1
  <2>2. ASSUME NEW h \in Clients, NEW q \in Principals, Mint(h, q)
        PROVE  minted[p].state = "failed" => minted'[p].state = "failed"
    BY <2>2 DEF Mint, TypeOK
  <2>3. ASSUME NEW q \in Principals, NEW state \in {"issued", "failed"}, Issued(q, state)
        PROVE  minted[p].state = "failed" => minted'[p].state = "failed"
    <3>1. q # p \/ minted[p].state # "failed"
      BY <2>3 DEF Issued
    <3> QED
      BY <2>3, <3>1, IssuedLife DEF TypeOK
  <2>4. ASSUME NEW h \in Clients, NEW host \in BOOLEAN, RevokeNext(h, host)
        PROVE  minted[p].state = "failed" => minted'[p].state = "failed"
    BY <2>4 DEF RevokeNext, TypeOK, Issuance
  <2>5. CASE Restart
    BY <2>5 DEF Restart, TypeOK, Issuance
  <2> QED
    BY <2>1, <2>2, <2>3, <2>4, <2>5, BookSteps, MintSteps DEF Tick
<1>2. provider[p] = "revoked" => provider'[p] = "revoked"
  BY DEF TurnNext, Aside, Acquire, Saturated, Honour, Settle, BeginRevocation, PassOver,
         AskRevoke, HonourRevocation, Revoked, Answered, End, TurnRestart, turnVars, turn,
         TurnTypes
<1> QED
  BY <1>1, <1>2 DEF Done

LEMMA TargetsKept ==
  ASSUME TypeOK, TurnTypes, OnTarget, [TurnNext]_turnVars
  PROVE  OnTarget'
<1>1. CASE UNCHANGED <<calls, revoking>>
  BY <1>1 DEF OnTarget
<1>2. CASE Aside
  BY <1>2, AsideCalls DEF OnTarget, Aside, turn
<1>3. ASSUME NEW h \in Clients, NEW host \in BOOLEAN, AskRevoke(h, host)
      PROVE  OnTarget'
  <2>1. /\ revoking' = [revoking EXCEPT ![h] = calls[h].left[host]] /\ calls' = calls
        /\ calls[h].op = "revoke" /\ calls[h].left[host] # None
        /\ host => calls[h].left[FALSE] = None
    BY <1>3 DEF AskRevoke, Due, vars
  <2>2. calls[h].left[host] =
          IF calls[h].left[FALSE] # None THEN calls[h].left[FALSE] ELSE calls[h].left[TRUE]
    <3>1. host = TRUE \/ host = FALSE
      OBVIOUS
    <3> QED
      BY <2>1, <3>1
  <2> QED
    BY <2>1, <2>2 DEF OnTarget, TurnTypes
<1>4. ASSUME NEW h \in Clients,
             \/ \E w \in Worlds, x \in Attempts, who \in Holders : BeginRevocation(h, w, x, who)
             \/ \E host \in BOOLEAN : PassOver(h, host) \/ Revoked(h, host)
             \/ Answered(h) \/ End(h)
      PROVE  OnTarget'
  <2>1. \A g \in Clients : g # h => calls'[g] = calls[g] /\ revoking'[g] = revoking[g]
    <3>1. ASSUME NEW w \in Worlds, NEW x \in Attempts, NEW who \in Holders,
                 BeginRevocation(h, w, x, who)
          PROVE  \A g \in Clients : g # h => calls'[g] = calls[g] /\ revoking'[g] = revoking[g]
      <4>1. revoking' = revoking /\ RevokeRelay(h, w, x, who)
        BY <3>1 DEF BeginRevocation
      <4> QED
        BY <4>1, RevocationCall
    <3>2. CASE \E host \in BOOLEAN : PassOver(h, host)
      BY <3>2 DEF PassOver, RevokeNext, TypeOK, turn
    <3>3. CASE \E host \in BOOLEAN : Revoked(h, host)
      BY <3>3 DEF Revoked, RevokeNext, TypeOK, TurnTypes
    <3>4. CASE Answered(h)
      BY <3>4 DEF Answered, RelayRevoked, TypeOK
    <3>5. CASE End(h)
      BY <3>5 DEF End, Drop, TypeOK, TurnTypes
    <3> QED
      BY <1>4, <3>1, <3>2, <3>3, <3>4, <3>5
  <2>2. revoking'[h] = None
    <3>1. ASSUME NEW w \in Worlds, NEW x \in Attempts, NEW who \in Holders,
                 BeginRevocation(h, w, x, who)
          PROVE  revoking'[h] = None
      <4>1. revoking' = revoking /\ RevokeRelay(h, w, x, who)
        BY <3>1 DEF BeginRevocation
      <4>2. calls[h].op = "idle"
        BY <4>1, RevocationCall DEF Idle
      <4> QED
        BY <4>1, <4>2 DEF OnTarget
    <3>2. CASE \E host \in BOOLEAN : PassOver(h, host)
      BY <3>2 DEF PassOver, turn
    <3>3. CASE \E host \in BOOLEAN : Revoked(h, host)
      BY <3>3 DEF Revoked, TurnTypes
    <3>4. CASE Answered(h)
      BY <3>4 DEF Answered, RelayRevoked, OnTarget
    <3>5. CASE End(h)
      BY <3>5 DEF End, TurnTypes
    <3> QED
      BY <1>4, <3>1, <3>2, <3>3, <3>4, <3>5
  <2> QED
    BY <2>1, <2>2 DEF OnTarget
<1>5. CASE TurnRestart
  BY <1>5 DEF TurnRestart, OnTarget
<1>6. ASSUME NEW p \in Principals,
             \/ Acquire(p) \/ Saturated(p) \/ Honour(p)
             \/ \E state \in {"issued", "failed"} : Settle(p, state)
      PROVE  UNCHANGED <<calls, revoking>>
  BY <1>6 DEF Acquire, Saturated, Honour, Settle, Issued, vars
<1>7. ASSUME NEW h \in Clients, HonourRevocation(h)
      PROVE  UNCHANGED <<calls, revoking>>
  BY <1>7 DEF HonourRevocation, vars
<1> QED
  BY <1>1, <1>2, <1>3, <1>4, <1>5, <1>6, <1>7 DEF TurnNext, turnVars, vars, turn

(* A revocation passes a credential only when it is dealt with.             *)
LEMMA AccountsKept ==
  ASSUME TypeOK, TypeOK', TurnTypes, OnTarget, Accounted, [TurnNext]_turnVars
  PROVE  Accounted'
<1>1. ASSUME NEW g \in Clients, NEW p \in Principals, p \in covered[g],
             calls'[g] = calls[g]
      PROVE  Ahead(g, p)' \/ Done(p)'
  BY <1>1, DoneStays DEF Accounted, Ahead
<1>2. \A g \in Clients : covered[g] \in SUBSET Principals
  BY DEF TurnTypes
<1>3. CASE UNCHANGED <<calls, covered>>
  BY <1>1, <1>2, <1>3 DEF Accounted
<1>4. CASE Aside
  <2>1. \A g \in Clients, p \in Principals : p \in covered[g] => Ahead(g, p)' \/ Done(p)'
    BY <1>1, <1>4, AsideCalls, DoneStays DEF Accounted, Ahead
  <2> QED
    BY <1>2, <1>4, <2>1 DEF Accounted, Aside, turn
<1>5. ASSUME NEW h \in Clients, NEW w \in Worlds, NEW x \in Attempts, NEW who \in Holders,
             BeginRevocation(h, w, x, who)
      PROVE  Accounted'
  <2>1. \A g \in Clients : g # h => calls'[g] = calls[g] /\ covered'[g] = covered[g]
    BY <1>5, RevocationCall DEF BeginRevocation, TurnTypes
  <2>2. calls'[h] # calls[h] => calls'[h].op = "revoke"
    BY <1>5, RevocationCall DEF BeginRevocation
  <2>3. covered'[h] =
          IF calls'[h] = calls[h] THEN {} ELSE {calls'[h].left[host] : host \in BOOLEAN} \ {None}
    BY <1>5 DEF BeginRevocation, TurnTypes
  <2>4. \A p \in covered'[h] : Ahead(h, p)'
    BY <2>2, <2>3 DEF Ahead
  <2> QED
    BY <1>1, <1>2, <2>1, <2>4 DEF Accounted
<1>6. ASSUME NEW h \in Clients, NEW host \in BOOLEAN, RevokeNext(h, host),
             covered' = covered, calls[h].op = "revoke", Done(calls[h].left[host])
      PROVE  Accounted'
  <2>1. \A g \in Clients : g # h => calls'[g] = calls[g]
    BY <1>6 DEF RevokeNext, TypeOK
  <2>2. calls'[h].op = "revoke" /\ \A side \in BOOLEAN : side # host =>
          calls'[h].left[side] = calls[h].left[side]
    <3>1. calls[h] \in Revoking
      BY <1>6, CallKinds
    <3>2. calls'[h] = [calls[h] EXCEPT !.left[host] = None]
      BY <1>6 DEF RevokeNext, TypeOK
    <3> QED
      BY <3>1, <3>2 DEF Revoking
  <2>3. ASSUME NEW p \in Principals, p \in covered[h]
        PROVE  Ahead(h, p)' \/ Done(p)'
    <3>1. CASE p = calls[h].left[host]
      BY <1>6, <3>1, DoneStays
    <3>2. CASE p # calls[h].left[host] /\ Ahead(h, p)
      BY <2>2, <3>2 DEF Ahead
    <3>3. CASE Done(p)
      BY <3>3, DoneStays
    <3> QED
      BY <2>3, <3>1, <3>2, <3>3 DEF Accounted
  <2> QED
    BY <1>1, <1>2, <1>6, <2>1, <2>3 DEF Accounted
<1>7. ASSUME NEW h \in Clients, NEW host \in BOOLEAN, PassOver(h, host)
      PROVE  Accounted'
  BY <1>6, <1>7 DEF PassOver, Unrevocable, Done, RevokeNext, turn
<1>8. ASSUME NEW h \in Clients, NEW host \in BOOLEAN, Revoked(h, host)
      PROVE  Accounted'
  <2>1. /\ RevokeNext(h, host) /\ covered' = covered /\ revoking[h] # None
        /\ provider[revoking[h]] = "revoked"
    BY <1>8 DEF Revoked
  <2>2. revoking[h] = calls[h].left[host]
    <3>1. /\ host => calls[h].left[FALSE] = None
          /\ calls[h].left[host] # None
      BY <2>1 DEF RevokeNext
    <3>2. host = TRUE \/ host = FALSE
      OBVIOUS
    <3> QED
      BY <2>1, <3>1, <3>2 DEF OnTarget
  <2> QED
    BY <1>6, <2>1, <2>2 DEF Done, RevokeNext
<1>9. ASSUME NEW h \in Clients, Answered(h) \/ End(h)
      PROVE  Accounted'
  <2>1. /\ \A g \in Clients : g # h => calls'[g] = calls[g]
        /\ covered' = [covered EXCEPT ![h] = {}]
    BY <1>9 DEF Answered, RelayRevoked, End, Drop, TypeOK
  <2> QED
    BY <1>1, <1>2, <2>1 DEF Accounted, TurnTypes
<1>10. CASE TurnRestart
  BY <1>10 DEF TurnRestart, Accounted
<1>11. ASSUME NEW p \in Principals,
             \/ Acquire(p) \/ Saturated(p) \/ Honour(p)
             \/ \E state \in {"issued", "failed"} : Settle(p, state)
      PROVE  UNCHANGED <<calls, covered>>
  BY <1>11 DEF Acquire, Saturated, Honour, Settle, Issued, vars
<1>12. ASSUME NEW h \in Clients,
              HonourRevocation(h) \/ \E host \in BOOLEAN : AskRevoke(h, host)
      PROVE  UNCHANGED <<calls, covered>>
  BY <1>12 DEF HonourRevocation, AskRevoke, vars
<1> QED
  BY <1>3, <1>4, <1>5, <1>7, <1>8, <1>9, <1>10, <1>11, <1>12 DEF TurnNext, turnVars, vars, turn

-----------------------------------------------------------------------------
TurnInv == TurnTypes /\ Permits /\ OnTarget /\ Accounted

LEMMA TurnInvariant == TurnSpec => [](TypeOK /\ TurnInv)
<1>1. TurnInit => TurnInv
  <2> SUFFICES ASSUME TurnInit
               PROVE  TurnInv
    OBVIOUS
  <2>1. TurnTypes /\ OnTarget /\ Accounted
    BY PermitsAssumption DEF TurnInit, TurnTypes, OnTarget, Accounted
  <2>2. Revokers = {} /\ issuing = {} /\ free = MaxPermits
    BY DEF TurnInit, Revokers
  <2>3. Permits
    BY <2>2, FS_EmptySet, PermitsAssumption DEF Permits
  <2> QED
    BY <2>1, <2>3 DEF TurnInv
<1>2. TypeOK /\ TypeOK' /\ TurnInv /\ [TurnNext]_turnVars => TurnInv'
  BY PermitsNext, TypesNext, TargetsKept, AccountsKept DEF TurnInv
<1> QED
  BY <1>1, <1>2, BookUnderProvider, TypeCorrect, PTL DEF TurnSpec

(* The permits, the provider and the book keep their types.                 *)
THEOREM TurnTypeCorrect == TurnSpec => []TurnTypeOK
<1>1. ASSUME TypeOK, TurnInv
      PROVE  TurnTypeOK
  <2>1. /\ free \in Nat /\ Cardinality(issuing) \in Nat /\ Cardinality(Revokers) \in Nat
        /\ free + Cardinality(issuing) + Cardinality(Revokers) = MaxPermits
    BY <1>1, FS_CardinalityType DEF TurnInv, TurnTypes, Permits
  <2>2. free \in 0 .. MaxPermits
    BY <2>1, PermitsAssumption
  <2> QED
    BY <1>1, <2>2 DEF TurnInv, TurnTypes, TurnTypeOK
<1> QED
  BY <1>1, TurnInvariant, PTL

(* Permits are out only for requests in flight.                             *)
THEOREM PermitsAlwaysReturned == TurnSpec => []PermitsReturned
<1>1. TurnInv => PermitsReturned
  BY DEF TurnInv, Permits, PermitsReturned, Revokers
<1> QED
  BY <1>1, TurnInvariant, PTL

(* What Cloudflare confirms as revoked is revoked or was never issued.      *)
THEOREM ConfirmedAlwaysRevoked == TurnSpec => ConfirmedIsRevoked
<1> DEFINE Confirmed ==
      \A h \in Clients : Answered(h) /\ Revocable =>
        \A p \in covered[h] : minted[p].state = "failed" \/ provider[p] = "revoked"
<1>1. ASSUME TurnInv
      PROVE  Confirmed
  <2> SUFFICES ASSUME NEW h \in Clients, Answered(h), Revocable, NEW p \in covered[h]
               PROVE  minted[p].state = "failed" \/ provider[p] = "revoked"
    OBVIOUS
  <2>1. p # None
    BY <1>1, NotNone DEF TurnInv, TurnTypes
  <2>2. ~Ahead(h, p)
    BY <2>1 DEF Answered, RelayRevoked, Ahead
  <2> QED
    BY <1>1, <2>2 DEF TurnInv, Accounted, Done
<1>2. TurnInv /\ [TurnNext]_turnVars => [Confirmed]_turnVars
  BY <1>1
<1> QED
  BY <1>2, TurnInvariant, PTL DEF TurnSpec, ConfirmedIsRevoked

=============================================================================
