---------------------------- MODULE JoinRequests ----------------------------
(***************************************************************************)
(* The private join requests of the community service: the tables          *)
(* join_requests, installation_blocks and player_removals, the HTTP        *)
(* handlers of src/src/requests.rs and the player removal and unblocking   *)
(* handlers of src/src/moderation.rs that write them, and the maintenance  *)
(* loop that expires, scrubs and deletes rows.                             *)
(*                                                                         *)
(* A mutating handler first runs `cleanup`, a series of statements that    *)
(* commit one by one and take no world lock, and then ONE transaction that *)
(* locks the world's row.  Calls of different clients, and the maintenance *)
(* loop, interleave between those steps; the clock may move between any    *)
(* two of them; and every statement and every transaction works with       *)
(* PostgreSQL's now(), the instant at which it STARTED, which a wait for a *)
(* lock leaves behind the clock.                                           *)
(*                                                                         *)
(* Abstractions.  A World and its address are one element of Worlds; a     *)
(* capability and its digest are one; the private response, the text of    *)
(* the message and the submission digest are inert data (the message is    *)
(* reduced to whether it is still stored).  A refusal (validation,         *)
(* capability, rate limit, an unlisted, hidden, stale or full listing), an *)
(* error, the 15 s timeout, the client's disconnection and a crash all     *)
(* roll the open transaction back, so all of them are the action Abandon,  *)
(* possible at every step; a retry is a further call.                      *)
(***************************************************************************)
EXTENDS Integers, FiniteSets

CONSTANTS
  Worlds,         \* (world_id, world_address) pairs that have been published
  Installations,  \* applicants: digests of their bearer capability
  Requests,       \* request identifiers, chosen by the applicants
  Decisions,      \* decision identifiers, chosen by the administrators
  Names,          \* player names
  Credentials,    \* seat credentials authored by the Worlds
  Removals,       \* operation identifiers of player removals
  Clients,        \* concurrent HTTP calls
  Maintainers,    \* the maintenance loop: none or one
  None,           \* SQL NULL
  PendingTTL,     \* expires_at - created_at: 30 days
  Retention,      \* how long a terminal row and a removal receipt are kept
  MaxPending,     \* pending requests per World: 100
  MaxBlocks,      \* blocked installations per World: 1000
  MaxTime         \* bound of the checked runs: where the clock stops

Handlers == Clients \cup Maintainers

(* A call lasts at most one unit of the clock (see Tick); the two periods   *)
(* are 30 days and a call 15 seconds, so each spans more than a call.       *)
ASSUME PeriodsAssumption ==
  /\ PendingTTL \in Nat /\ PendingTTL > 1
  /\ Retention \in Nat /\ Retention > 1

ASSUME LimitsAssumption ==
  /\ MaxPending \in Nat /\ MaxBlocks \in Nat /\ MaxTime \in Nat

ASSUME NoneAssumption ==
  /\ None \notin Worlds \cup Installations \cup Decisions \cup Names
  /\ None \notin Nat
  /\ None \notin [name : Names, credential : Credentials]
  /\ None \notin [seat : Requests, banned : SUBSET Installations, created : Nat]

ASSUME FiniteAssumption ==
  /\ IsFiniteSet(Requests) /\ IsFiniteSet(Installations)

VARIABLES
  requests,  \* the table join_requests, by request_id
  blocks,    \* the table installation_blocks, by World
  removals,  \* the table player_removals, by World and operation_id
  calls,     \* how far each call has come, and when its cleanup began
  now        \* the clock

vars == <<requests, blocks, removals, calls, now>>

-----------------------------------------------------------------------------
Statuses == {"absent", "pending", "accepted", "rejected", "withdrawn", "expired"}

Receipt == [name : Names, credential : Credentials]

(* One row.  "absent" stands for no row under that request_id.              *)
Row ==
  [status : Statuses, world : Worlds \cup {None}, inst : Installations \cup {None},
   name : Names \cup {None}, message : BOOLEAN, expires : Nat,
   terminal : Nat \cup {None}, decision : Decisions \cup {None},
   receipt : Receipt \cup {None}, removed : BOOLEAN, blocked : BOOLEAN]

AbsentRow ==
  [status |-> "absent", world |-> None, inst |-> None, name |-> None,
   message |-> FALSE, expires |-> 0, terminal |-> None, decision |-> None,
   receipt |-> None, removed |-> FALSE, blocked |-> FALSE]

(* Mutant: expires_at without its default.                                  *)
NewRow_NoDeadline(w, i, n, t) ==
  [AbsentRow EXCEPT !.status = "pending", !.world = w, !.inst = i, !.name = n,
                    !.message = TRUE, !.expires = None]

NewRow(w, i, n, t) ==
  [AbsentRow EXCEPT !.status = "pending", !.world = w, !.inst = i, !.name = n,
                    !.message = TRUE, !.expires = t + PendingTTL]

(* Mutant: expiry drops the decision of a prepared request.                 *)
Expired_Undecided(q) == [q EXCEPT !.status = "expired", !.terminal = q.expires, !.decision = None]

(* What the UPDATE statements make of a row.                                *)
Expired(q) == [q EXCEPT !.status = "expired", !.terminal = q.expires]

Scrubbed(q) == [q EXCEPT !.name = None, !.message = FALSE]

Withdrawn(q, t) == [q EXCEPT !.status = "withdrawn", !.terminal = t]

DecidedBy(q, d) == [q EXCEPT !.decision = d]

Accepted(q, receipt, t) ==
  [q EXCEPT !.status = "accepted", !.terminal = t, !.receipt = receipt, !.message = FALSE]

(* Mutant: the sibling of a late receipt only loses its text.               *)
Superseded_TextOnly(q, t) == IF t \in Nat THEN Scrubbed(q) ELSE q

Superseded(q, t) ==
  [Scrubbed(q) EXCEPT !.status = "expired", !.terminal = t, !.decision = None]

Rejected(q, d, block, t) ==
  [q EXCEPT !.status = "rejected", !.terminal = t, !.decision = d, !.blocked = block]

(* Mutant: the credential survives the removal.                             *)
Removed_KeepsReceipt(q) == [q EXCEPT !.removed = TRUE]

Removed(q) == [q EXCEPT !.removed = TRUE, !.receipt = None]

(* What a removal remembers of its payload: the seat, which is the request *)
(* it came from, and the installations it was to block.                    *)
Removal == [seat : Requests, banned : SUBSET Installations, created : Nat]

Stages == {"idle", "expire", "scrub", "purge", "forget", "tx"}

Idle == [stage |-> "idle", at |-> 0]

-----------------------------------------------------------------------------
(* The row of an installation at a World.                                   *)
Owns(q, w, i) == q.world = w /\ q.inst = i

(* The rows the partial unique index join_request_active is about.          *)
Active(q) == q.status \in {"pending", "accepted"} /\ ~q.removed

Seated(q) == q.status = "accepted" /\ ~q.removed

Queue(w) == {r \in Requests : requests[r].status = "pending" /\ requests[r].world = w}

(* Mutant: a limit off by one.                                              *)
QueueOpen_OneMore(w) == Cardinality(Queue(w)) <= MaxPending

QueueOpen(w) == Cardinality(Queue(w)) < MaxPending

(* Mutant: one count before the loop over the digests.                      *)
Blockable_CountedOnce(w, is) == is \subseteq blocks[w] \/ Cardinality(blocks[w]) < MaxBlocks

(* moderation::block, run for each digest of `is` in turn: every step       *)
(* counts the OTHER blocked installations, so it only fails when the union  *)
(* would exceed the limit, and then the whole transaction fails.            *)
Blockable(w, is) == Cardinality(blocks[w] \cup is) <= MaxBlocks

-----------------------------------------------------------------------------
Init ==
  /\ requests = [r \in Requests |-> AbsentRow]
  /\ blocks = [w \in Worlds |-> {}]
  /\ removals = [w \in Worlds |-> [o \in Removals |-> None]]
  /\ calls = [h \in Handlers |-> Idle]
  /\ now = 0

(* A call reaches `cleanup`, or the maintenance timer ticks.                *)
Arrive(h) ==
  /\ calls[h].stage = "idle"
  /\ calls' = [calls EXCEPT ![h] = [stage |-> "expire", at |-> now]]
  /\ UNCHANGED <<requests, blocks, removals, now>>

(* A call ends without a further effect (see the header); a rollback leaves *)
(* the cleanup statements that have committed.  The maintenance loop ends   *)
(* every sweep here.                                                        *)
Abandon(h) ==
  /\ calls[h].stage # "idle"
  /\ calls' = [calls EXCEPT ![h] = Idle]
  /\ UNCHANGED <<requests, blocks, removals, now>>

Advance(h, from, to) ==
  /\ calls[h].stage = from
  /\ calls' = [calls EXCEPT ![h].stage = to]
  /\ UNCHANGED <<blocks, now>>

(* Mutant: prepared requests do not expire.                                 *)
Expire_Undecided(h) ==
  /\ Advance(h, "expire", "scrub")
  /\ requests' = [r \in Requests |->
       IF /\ requests[r].status = "pending" /\ requests[r].decision = None
          /\ requests[r].expires <= calls[h].at
         THEN Expired(requests[r]) ELSE requests[r]]
  /\ UNCHANGED removals

(* cleanup, first statement: whatever its decision, a pending row expires   *)
(* at its deadline.  The statement's now() is its arrival.                  *)
Expire(h) ==
  /\ Advance(h, "expire", "scrub")
  /\ requests' = [r \in Requests |->
       IF requests[r].status = "pending" /\ requests[r].expires <= calls[h].at
         THEN Expired(requests[r]) ELSE requests[r]]
  /\ UNCHANGED removals

(* Mutant: the text of an interrupted decision is kept.                     *)
Scrub_Undecided(h) ==
  /\ Advance(h, "scrub", "purge")
  /\ \E t \in calls[h].at .. now :
       requests' = [r \in Requests |->
         IF /\ requests[r].status # "absent" /\ requests[r].decision = None
            /\ requests[r].expires <= t
           THEN Scrubbed(requests[r]) ELSE requests[r]]
  /\ UNCHANGED removals

(* cleanup, second statement: recruitment text goes at the deadline of the  *)
(* request, whatever its status.                                            *)
Scrub(h) ==
  /\ Advance(h, "scrub", "purge")
  /\ \E t \in calls[h].at .. now :
       requests' = [r \in Requests |->
         IF requests[r].status # "absent" /\ requests[r].expires <= t
           THEN Scrubbed(requests[r]) ELSE requests[r]]
  /\ UNCHANGED removals

(* Mutant: retention counted from the deadline of the request.              *)
Purge_FromDeadline(h) ==
  /\ Advance(h, "purge", "forget")
  /\ \E t \in calls[h].at .. now :
       requests' = [r \in Requests |->
         IF requests[r].terminal # None /\ requests[r].expires + Retention <= t
           THEN AbsentRow ELSE requests[r]]
  /\ UNCHANGED removals

(* cleanup, the deletion of terminal rows.                                  *)
Purge(h) ==
  /\ Advance(h, "purge", "forget")
  /\ \E t \in calls[h].at .. now :
       requests' = [r \in Requests |->
         IF requests[r].terminal # None /\ requests[r].terminal + Retention <= t
           THEN AbsentRow ELSE requests[r]]
  /\ UNCHANGED removals

(* cleanup, the deletion of removal receipts.  (The two statements before   *)
(* it, of rate counters and abuse reports, touch neither table.)            *)
Forget(h) ==
  /\ Advance(h, "forget", "tx")
  /\ \E t \in calls[h].at .. now :
       removals' = [w \in Worlds |-> [o \in Removals |->
         IF removals[w][o] # None /\ removals[w][o].created + Retention <= t
           THEN None ELSE removals[w][o]]]
  /\ UNCHANGED requests

-----------------------------------------------------------------------------
(* The transactions.  Each is atomic: it holds the world's lock and the     *)
(* row's until it commits.  t is its now().                                 *)
Commit(h) ==
  /\ h \in Clients /\ calls[h].stage = "tx"
  /\ calls' = [calls EXCEPT ![h] = Idle]
  /\ UNCHANGED now

Write(r, row) ==
  /\ requests' = [requests EXCEPT ![r] = row]
  /\ UNCHANGED removals

Submit(h, r, w, i, n) ==
  /\ Commit(h)
  /\ requests[r].status = "absent"
  /\ i \notin blocks[w]
  /\ \A p \in Requests : Active(requests[p]) => ~Owns(requests[p], w, i)
  /\ QueueOpen(w)
  /\ \E t \in calls[h].at .. now : Write(r, NewRow(w, i, n, t))
  /\ UNCHANGED blocks

(* Mutant: a preparation does not fence withdrawal.                         *)
Withdraw_Unfenced(h, r) ==
  /\ Commit(h)
  /\ requests[r].status = "pending"
  /\ \E t \in calls[h].at .. now :
       Write(r, Withdrawn(requests[r], t))
  /\ UNCHANGED blocks

Withdraw(h, r) ==
  /\ Commit(h)
  /\ requests[r].status = "pending" /\ requests[r].decision = None
  /\ \E t \in calls[h].at .. now :
       Write(r, Withdrawn(requests[r], t))
  /\ UNCHANGED blocks

(* The guard common to the decisions on a pending row: an undecided request *)
(* past its deadline is refused by the clock of the server, not now(), and  *)
(* a preparation fences every other decision.                               *)
Decidable(q, d) ==
  /\ q.status = "pending"
  /\ q.decision \in {None, d}
  /\ ~(q.decision = None /\ q.expires <= now)

Prepare(h, r, d) ==
  /\ Commit(h)
  /\ Decidable(requests[r], d)
  /\ Write(r, DecidedBy(requests[r], d))
  /\ UNCHANGED blocks

Abort(h, r, d) ==
  /\ Commit(h)
  /\ requests[r].status = "pending" /\ requests[r].decision = d
  /\ \E t \in calls[h].at .. now :
       LET open == DecidedBy(requests[r], None)
       IN  Write(r, IF open.expires <= t THEN Expired(open) ELSE open)
  /\ UNCHANGED blocks

(* Mutant: the abort of an expired request opens it again.                  *)
AbortExpired_Reopens(h, r, d) ==
  /\ Commit(h)
  /\ requests[r].status = "expired" /\ requests[r].decision \in {None, d}
  /\ Write(r, [requests[r] EXCEPT !.decision = None, !.status = "pending", !.terminal = None])
  /\ UNCHANGED blocks

(* Mutant: the abort of an expired request is a new terminal outcome.       *)
AbortExpired_Renews(h, r, d) ==
  /\ Commit(h)
  /\ requests[r].status = "expired" /\ requests[r].decision \in {None, d}
  /\ Write(r, [requests[r] EXCEPT !.decision = None, !.terminal = now])
  /\ UNCHANGED blocks

(* An expired request cannot get a seat any more through this decision: its *)
(* proof goes, its retention stays.                                         *)
AbortExpired(h, r, d) ==
  /\ Commit(h)
  /\ requests[r].status = "expired" /\ requests[r].decision \in {None, d}
  /\ Write(r, DecidedBy(requests[r], None))
  /\ UNCHANGED blocks

Accept(h, r, d, receipt) ==
  /\ Commit(h)
  /\ requests[r].status = "pending" /\ requests[r].decision = d
  /\ requests[r].name \in {None, receipt.name}
  /\ \E t \in calls[h].at .. now : Write(r, Accepted(requests[r], receipt, t))
  /\ UNCHANGED blocks

(* The receipt of a preparation that expired before it arrived.  Every      *)
(* pending request of the same installation gives way to it.                *)
AcceptLate(h, r, d, receipt) ==
  LET Sibling(p) == Owns(requests[p], requests[r].world, requests[r].inst)
  IN
  /\ Commit(h)
  /\ requests[r].status = "expired" /\ requests[r].decision = d
  /\ requests[r].name \in {None, receipt.name}
  /\ \A p \in Requests : Sibling(p) => ~Seated(requests[p])
  /\ \E t \in calls[h].at .. now :
       requests' = [p \in Requests |->
         IF p = r THEN Accepted(requests[r], receipt, t)
         ELSE IF Sibling(p) /\ requests[p].status = "pending"
           THEN Superseded(requests[p], t)
         ELSE requests[p]]
  /\ UNCHANGED <<blocks, removals>>

(* reject and reject-block: the latter also blocks the installation, or     *)
(* fails as a whole at the limit.                                           *)
Reject(h, r, d, block) ==
  LET q == requests[r]
      is == IF block THEN {q.inst} ELSE {}
  IN
  /\ Commit(h)
  /\ Decidable(q, d) /\ q.decision = None
  /\ block => Blockable(q.world, is)
  /\ \E t \in calls[h].at .. now : Write(r, Rejected(q, d, block, t))
  /\ blocks' = [blocks EXCEPT ![q.world] = @ \cup is]

(* The administrator lifts a block.  Neither this handler nor the next runs *)
(* cleanup, so each is one transaction.                                     *)
Unblock(w, i) ==
  /\ blocks' = [blocks EXCEPT ![w] = @ \ {i}]
  /\ UNCHANGED <<requests, removals, calls, now>>

(* Mutant: the receipt of a removal is not looked up.                       *)
Unseen_Always(w, o) == o \in DOMAIN removals[w]

Unseen(w, o) == removals[w][o] = None

(* The removal of the player in seat r.  A repeated operation_id finds its  *)
(* receipt and changes nothing.  A receipt is dated by the start of the     *)
(* transaction, at most one unit of the clock ago.                          *)
RemovePlayer(w, o, r, banned) ==
  /\ Unseen(w, o)
  /\ banned # {} => Blockable(w, banned)
  /\ blocks' = [blocks EXCEPT ![w] = @ \cup banned]
  /\ requests' = [requests EXCEPT ![r] =
       IF @.status = "accepted" /\ @.world = w THEN Removed(@) ELSE @]
  /\ \E t \in {now - 1, now} \cap Nat :
       removals' = [removals EXCEPT ![w][o] =
         [seat |-> r, banned |-> banned, created |-> t]]
  /\ UNCHANGED <<calls, now>>

(* A call is cut after 15 seconds, so it sees the clock of the model move   *)
(* at most once.                                                            *)
Tick ==
  /\ now < MaxTime
  /\ \A h \in Handlers : calls[h].stage # "idle" => calls[h].at = now
  /\ now' = now + 1
  /\ UNCHANGED <<requests, blocks, removals, calls>>

Cleanup(h) == Arrive(h) \/ Expire(h) \/ Scrub(h) \/ Purge(h) \/ Forget(h)

Decide(h) ==
  \E r \in Requests, d \in Decisions :
    \/ Prepare(h, r, d)
    \/ Abort(h, r, d)
    \/ AbortExpired(h, r, d)
    \/ \E receipt \in Receipt : Accept(h, r, d, receipt)
    \/ \E receipt \in Receipt : AcceptLate(h, r, d, receipt)
    \/ \E block \in BOOLEAN : Reject(h, r, d, block)

Next ==
  \/ \E h \in Handlers : Cleanup(h)
  \/ \E h \in Handlers : Abandon(h)
  \/ \E h \in Clients, r \in Requests, w \in Worlds, i \in Installations, n \in Names :
       Submit(h, r, w, i, n)
  \/ \E h \in Clients, r \in Requests : Withdraw(h, r)
  \/ \E h \in Clients : Decide(h)
  \/ \E w \in Worlds, i \in Installations : Unblock(w, i)
  \/ \E w \in Worlds, o \in Removals, r \in Requests, banned \in SUBSET Installations :
       RemovePlayer(w, o, r, banned)
  \/ Tick

Spec == Init /\ [][Next]_vars

(* Fairness: time passes; every call ends (the server cuts it off); the      *)
(* maintenance loop starts its sweeps and its statements do not fail for    *)
(* ever.  Nothing is assumed of clients: no call need ever succeed or come. *)
Fairness ==
  /\ WF_vars(Tick)
  /\ \A h \in Handlers : WF_vars(Abandon(h))
  /\ \A m \in Maintainers :
       /\ WF_vars(Arrive(m))
       /\ SF_vars(Expire(m)) /\ SF_vars(Scrub(m)) /\ SF_vars(Purge(m)) /\ SF_vars(Forget(m))

FairSpec == Spec /\ Fairness

-----------------------------------------------------------------------------
(* The columns hold what the schema and the handlers take them to hold.     *)
TypeOK ==
  /\ requests \in [Requests -> Row]
  /\ blocks \in [Worlds -> SUBSET Installations]
  /\ removals \in [Worlds -> [Removals -> Removal \cup {None}]]
  /\ calls \in [Handlers -> [stage : Stages, at : Nat]]
  /\ now \in Nat

(* An installation has at most one active request at a World, through every *)
(* interleaving of submissions, expiries and late receipts: the statements  *)
(* never run into the unique index join_request_active, whose error the     *)
(* handlers do not expect.                                                  *)
OneActive ==
  \A p, r \in Requests :
    /\ p # r /\ Active(requests[p]) /\ Active(requests[r])
    => ~Owns(requests[p], requests[r].world, requests[r].inst)

(* The columns of one row agree, whichever handlers wrote them last: the    *)
(* CHECK of migration 0003 holds; a credential is stored exactly while its  *)
(* seat is taken, beside the decision that settled it and under the name    *)
(* the applicant gave; a withdrawal never overtakes a fence.                *)
RowConsistent(q) ==
  /\ q.status = "absent" => q = AbsentRow
  /\ q.status # "absent" => q.world \in Worlds /\ q.inst \in Installations
  /\ q.terminal = None <=> q.status \in {"absent", "pending"}
  /\ q.receipt # None <=> Seated(q)
  /\ q.status \in {"accepted", "rejected"} => q.decision # None
  /\ q.status = "withdrawn" => q.decision = None
  /\ q.status = "accepted" => ~q.message
  /\ Seated(q) => q.name \in {None, q.receipt.name}
  /\ q.removed => q.status = "accepted"
  /\ q.blocked => q.status = "rejected"

RowsConsistent == \A r \in Requests : RowConsistent(requests[r])

(* The deadlines hold for whoever reads or writes after a cleanup statement *)
(* of its own, whatever the other calls did since: no request whose 30 days *)
(* were over when the call came is still pending, no such text is stored,   *)
(* and no row whose retention was over remains.                             *)
DeadlineEnforced ==
  \A h \in Handlers, r \in Requests :
    LET done == calls[h].stage
        q == requests[r]
    IN
    /\ done \in {"scrub", "purge", "forget", "tx"} /\ q.status = "pending"
       => q.expires > calls[h].at
    /\ done \in {"purge", "forget", "tx"} /\ (q.name # None \/ q.message)
       => q.expires > calls[h].at
    /\ done \in {"forget", "tx"} /\ q.terminal # None
       => q.terminal + Retention > calls[h].at

(* At most 100 pending requests at a World, at most 1000 blocks.            *)
QueueBounded == \A w \in Worlds : Cardinality(Queue(w)) <= MaxPending

BlocksBounded == \A w \in Worlds : Cardinality(blocks[w]) <= MaxBlocks

(* The terminal instant of a row is final: only the acceptance of a late    *)
(* receipt renews it, and the row is not deleted before its retention ends. *)
RetentionHonoured ==
  [][\A r \in Requests :
       requests[r].terminal # None /\ requests'[r].terminal # requests[r].terminal =>
         \/ requests[r].status = "expired" /\ requests'[r].status = "accepted"
         \/ /\ requests'[r] = AbsentRow
            /\ requests[r].terminal + Retention <= now]_vars

(* An installation becomes blocked only in the step that records why: the   *)
(* rejection of a request of its own with a block, or the first execution   *)
(* of a removal that names it.  A retry of either does not restore a block  *)
(* that has been lifted.                                                    *)
BlocksAccounted ==
  [][\A w \in Worlds, i \in Installations :
       i \in blocks'[w] \ blocks[w] =>
         \/ \E r \in Requests :
              /\ requests[r].status = "pending" /\ requests'[r].status = "rejected"
              /\ requests'[r].blocked /\ Owns(requests[r], w, i)
         \/ \E o \in Removals :
              /\ removals[w][o] = None /\ removals'[w][o] # None
              /\ i \in removals'[w][o].banned]_vars

(* A removed seat holds no credential: after a removal that is later than   *)
(* the submission of the request, as long as its receipt is kept, the       *)
(* request of that seat has no receipt.                                     *)
RemovalSticks ==
  \A w \in Worlds, o \in Removals :
    removals[w][o] # None =>
      LET q == requests[removals[w][o].seat]
      IN  q.world = w /\ removals[w][o].created > q.expires - PendingTTL
          => q.receipt = None

(* What decide answers to an abort: 200, or a conflict.                     *)
AbortAnswered(q, d) ==
  \/ q.status = "expired" /\ q.decision \in {None, d}
  \/ q.status = "pending" /\ q.decision = d

(* A completed abort, repeated, has the same outcome.                       *)
AbortRetryAgrees ==
  [][\A r \in Requests, d \in Decisions :
       (\E h \in Clients : Abort(h, r, d)) => AbortAnswered(requests'[r], d)]_vars

-----------------------------------------------------------------------------
(* The abstract life of a row.                                              *)
Phase(q) ==
  CASE q.status = "pending"  -> IF q.decision = None THEN "open" ELSE "fenced"
    [] q.status = "accepted" -> IF q.removed THEN "removed" ELSE "seated"
    [] q.status = "expired"  -> "lapsed"
    [] OTHER                 -> q.status

LifeOf(q) ==
  [phase |-> Phase(q),
   owner |-> IF q.status = "absent" THEN None ELSE <<q.world, q.inst>>,
   decision |-> q.decision, receipt |-> q.receipt]

Lives == [r \in Requests |-> LifeOf(requests[r])]

Life == INSTANCE Lifecycle WITH
          Owners <- Worlds \X Installations, Receipts <- Receipt, life <- Lives

(* The tables implement the life cycle the documentation promises.          *)
ImplementsLifecycle == Life!Spec

-----------------------------------------------------------------------------
(* Liveness, of deadlines the clock of a run reaches.                       *)

(* No request stays pending for ever, prepared ones included.               *)
EveryRequestSettles ==
  \A r \in Requests :
    (requests[r].status = "pending" /\ requests[r].expires <= MaxTime)
      ~> requests[r].status # "pending"

(* Recruitment text is erased in the end, although the call that was to     *)
(* erase it may fail between any two of its statements.                     *)
TextErased ==
  \A r \in Requests :
    (requests[r].name # None /\ requests[r].expires <= MaxTime)
      ~> requests[r].name = None

(* A terminal row is deleted in the end, unless a late receipt renews it.   *)
TerminalForgotten ==
  \A r \in Requests :
    (requests[r].terminal # None /\ requests[r].terminal + Retention <= MaxTime)
      ~> (requests[r].terminal = None \/ requests[r].terminal + Retention > MaxTime)

=============================================================================
