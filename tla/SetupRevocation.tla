--------------------------- MODULE SetupRevocation ---------------------------
(***************************************************************************)
(* SetupBook with a history variable: the relay revocations that clients   *)
(* have made of their own attempts since the process started.  It states   *)
(* what the documentation says of such a revocation.                       *)
(***************************************************************************)
EXTENDS SetupBook

VARIABLE denied  \* <<world, attempt, client>> of the revocations made

IsClient(w, x, who) == LiveAttempts[w][x] # None /\ LiveAttempts[w][x].client = who

HistoryInit == Init /\ denied = {}

HistoryNext ==
  /\ Next
  /\ denied' =
       IF Restart THEN {}
       ELSE denied \cup
              {t \in Worlds \X Attempts \X Holders :
                 /\ IsClient(t[1], t[2], t[3])
                 /\ \E h \in Clients : RevokeRelay(h, t[1], t[2], t[3])}

HistorySpec == HistoryInit /\ [][HistoryNext]_<<vars, denied>>

MintedFor(k) == \E p \in Principals : minted[p].key # k /\ minted'[p].key = k

(* Once a client has revoked the relay of its attempt, no further           *)
(* credential is issued to its side of that attempt.                        *)
ClientDenies ==
  [][\A w \in Worlds, x \in Attempts, who \in Holders :
       IsClient(w, x, who) /\ <<w, x, who>> \in denied => ~MintedFor(<<w, x, FALSE>>)
     ]_<<vars, denied>>

=============================================================================
