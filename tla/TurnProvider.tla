---------------------------- MODULE TurnProvider ----------------------------
(***************************************************************************)
(* The TURN credential provider (src/src/turn.rs) under the setup book: the *)
(* tasks that issue credentials and the calls that revoke them share four  *)
(* permits, taken with try_acquire and returned when the request to the    *)
(* provider is over, however it ends; every reply of the provider may be   *)
(* lost after it has acted.                                                *)
(*                                                                         *)
(* Abstractions.  Revocable tells Cloudflare, which is asked over HTTP,    *)
(* from coturn, whose credential is computed here and valid at once.  A    *)
(* time-out of 5 s, a status other than success and a reply that is        *)
(* malformed, too long, without a relay or without a usable user name are  *)
(* one failure; a configuration is its principal.  The counters of         *)
(* /metrics are left out.                                                  *)
(***************************************************************************)
EXTENDS SetupBook

CONSTANT MaxPermits  \* provider requests in flight: 4

ASSUME PermitsAssumption == MaxPermits \in Nat

VARIABLES
  free,         \* permits of the semaphore `concurrent`
  issuing,      \* the issuances whose task holds a permit
  revoking,     \* the credential each call is revoking at the provider
  provider,     \* external: what the provider knows of each credential
  unavailable,  \* readiness: the last issuance to finish failed
  covered       \* history: the credentials the revocation of a call is about

turn == <<free, issuing, revoking, provider, unavailable, covered>>

turnVars == <<vars, turn>>

TurnInit ==
  /\ Init
  /\ free = MaxPermits
  /\ issuing = {}
  /\ revoking = [h \in Clients |-> None]
  /\ provider = [p \in Principals |-> "none"]
  /\ unavailable = FALSE
  /\ covered = [h \in Clients |-> {}]

-----------------------------------------------------------------------------
(* issue_inner: the task takes a permit, or fails at once.                  *)
Acquire(p) ==
  /\ minted[p].state = "running" /\ p \notin issuing
  /\ free > 0
  /\ free' = free - 1
  /\ issuing' = issuing \cup {p}
  /\ UNCHANGED <<vars, revoking, provider, unavailable, covered>>

Saturated(p) ==
  /\ p \notin issuing /\ free = 0
  /\ Issued(p, "failed")
  /\ unavailable' = TRUE
  /\ UNCHANGED <<free, issuing, revoking, provider, covered>>

(* External: the provider mints the credential it was asked for.            *)
Honour(p) ==
  /\ p \in issuing /\ provider[p] = "none"
  /\ provider' = [provider EXCEPT ![p] = "valid"]
  /\ UNCHANGED <<vars, free, issuing, revoking, unavailable, covered>>

(* issue: the result is known, the permit goes back.                        *)
Settle(p, state) ==
  /\ p \in issuing
  /\ state = "issued" => provider[p] = "valid"
  /\ Issued(p, state)
  /\ free' = free + 1
  /\ issuing' = issuing \ {p}
  /\ unavailable' = (state = "failed")
  /\ UNCHANGED <<revoking, provider, covered>>

-----------------------------------------------------------------------------
BeginRevocation(h, w, x, who) ==
  /\ RevokeRelay(h, w, x, who)
  /\ covered' = [covered EXCEPT ![h] =
       IF calls'[h] = calls[h] THEN {} ELSE {calls'[h].left[host] : host \in BOOLEAN} \ {None}]
  /\ UNCHANGED <<free, issuing, revoking, provider, unavailable>>

(* What revoke_relay passes over once it has waited for the result: a       *)
(* failed issuance, and whatever coturn issued.                             *)
Unrevocable(p) == ~Revocable \/ minted[p].state = "failed"

Due(h, host) == calls[h].op = "revoke" /\ (host => calls[h].left[FALSE] = None)

(* Mutant: an issuance that has no result yet is passed over.               *)
PassOver_Running(h, host) ==
  /\ Due(h, host) /\ calls[h].left[host] # None /\ revoking[h] = None
  /\ Unrevocable(calls[h].left[host]) \/ minted[calls[h].left[host]].state = "running"
  /\ calls' = [calls EXCEPT ![h].left[host] = None]
  /\ UNCHANGED <<owners, book, minted, now, turn>>

PassOver(h, host) ==
  /\ RevokeNext(h, host)
  /\ revoking[h] = None /\ Unrevocable(calls[h].left[host])
  /\ UNCHANGED turn

(* revoke_inner: the call takes a permit and asks Cloudflare.               *)
AskRevoke(h, host) ==
  /\ Due(h, host) /\ calls[h].left[host] # None
  /\ LET p == calls[h].left[host]
     IN  /\ minted[p].state # "running" /\ ~Unrevocable(p)
         /\ revoking' = [revoking EXCEPT ![h] = p]
  /\ revoking[h] = None /\ free > 0
  /\ free' = free - 1
  /\ UNCHANGED <<vars, issuing, provider, unavailable, covered>>

(* External: the provider revokes.                                          *)
HonourRevocation(h) ==
  /\ revoking[h] # None
  /\ provider' = [provider EXCEPT ![revoking[h]] = "revoked"]
  /\ UNCHANGED <<vars, free, issuing, revoking, unavailable, covered>>

(* 204 No Content: on to the other side.                                    *)
Revoked(h, host) ==
  /\ revoking[h] # None /\ provider[revoking[h]] = "revoked"
  /\ RevokeNext(h, host)
  /\ free' = free + 1
  /\ revoking' = [revoking EXCEPT ![h] = None]
  /\ UNCHANGED <<issuing, provider, unavailable, covered>>

(* The reply with provider_revoked, true for Cloudflare.                    *)
Answered(h) ==
  /\ RelayRevoked(h)
  /\ covered' = [covered EXCEPT ![h] = {}]
  /\ UNCHANGED <<free, issuing, revoking, provider, unavailable>>

(* Mutant: the permit is not returned when the call is cut off.             *)
End_Leaks(h) ==
  /\ Drop(h)
  /\ revoking' = [revoking EXCEPT ![h] = None]
  /\ covered' = [covered EXCEPT ![h] = {}]
  /\ UNCHANGED <<free, issuing, provider, unavailable>>

(* A call ends in any other way: 503 for want of a permit, a failure of the *)
(* provider, a time-out, a disconnection.  Dropping it returns its permit.  *)
End(h) ==
  /\ Drop(h)
  /\ free' = IF revoking[h] = None THEN free ELSE free + 1
  /\ revoking' = [revoking EXCEPT ![h] = None]
  /\ covered' = [covered EXCEPT ![h] = {}]
  /\ UNCHANGED <<issuing, provider, unavailable>>

TurnRestart ==
  /\ Restart
  /\ free' = MaxPermits
  /\ issuing' = {}
  /\ revoking' = [h \in Clients |-> None]
  /\ unavailable' = FALSE
  /\ covered' = [h \in Clients |-> {}]
  /\ UNCHANGED provider

(* What has nothing to do with the provider.                                *)
Aside ==
  /\ \/ Publication
     \/ Signalling
     \/ \E h \in Clients, w \in Worlds, x \in Attempts, who \in Holders, l \in Locators :
          \/ \E peer \in Peers, proof \in Proofs : Begin(h, w, x, who, l, peer, proof)
          \/ HostIce(h, w, x, who, l)
     \/ \E w \in Worlds, peer \in Peers : RefuseBegin(w, peer)
     \/ \E h \in Clients :
          \/ \E p \in Principals : Mint(h, p)
          \/ Join(h) \/ RefuseGrant(h) \/ Disclose(h)
     \/ Sweep
     \/ Tick
  /\ UNCHANGED turn

TurnNext ==
  \/ Aside
  \/ \E p \in Principals :
       \/ Acquire(p) \/ Saturated(p) \/ Honour(p)
       \/ \E state \in {"issued", "failed"} : Settle(p, state)
  \/ \E h \in Clients :
       \/ \E w \in Worlds, x \in Attempts, who \in Holders : BeginRevocation(h, w, x, who)
       \/ \E host \in BOOLEAN : PassOver(h, host) \/ AskRevoke(h, host) \/ Revoked(h, host)
       \/ HonourRevocation(h) \/ Answered(h) \/ End(h)
  \/ TurnRestart

TurnSpec == TurnInit /\ [][TurnNext]_turnVars

(* As for SetupBook: the 5 s of the HTTP client end every issuance.         *)
TurnFairSpec == TurnSpec /\ Fairness

-----------------------------------------------------------------------------
TurnTypeOK ==
  /\ TypeOK
  /\ free \in 0 .. MaxPermits
  /\ issuing \in SUBSET Principals
  /\ revoking \in [Clients -> Principals \cup {None}]
  /\ provider \in [Principals -> {"none", "valid", "revoked"}]
  /\ unavailable \in BOOLEAN
  /\ covered \in [Clients -> SUBSET Principals]

(* However issuances and revocations end, and whoever is cut off, a permit  *)
(* is out only while a request to the provider is in flight: an overload    *)
(* fails the calls that meet it and leaves nothing behind.                  *)
PermitsReturned ==
  free + Cardinality(issuing) + Cardinality({h \in Clients : revoking[h] # None}) = MaxPermits

(* A revocation that Cloudflare confirms has reached every credential that  *)
(* its section found, those whose issuance was still running included: none *)
(* of them is or becomes usable.                                            *)
ConfirmedIsRevoked ==
  [][\A h \in Clients : Answered(h) /\ Revocable =>
       \A p \in covered[h] : minted[p].state = "failed" \/ provider[p] = "revoked"]_turnVars

=============================================================================
