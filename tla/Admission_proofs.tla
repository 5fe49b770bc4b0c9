-------------------------- MODULE Admission_proofs --------------------------
(***************************************************************************)
(* Proofs about Admission, for any number of calls, connections and        *)
(* limits.  IInv is inductive; its parts beyond the properties say that a  *)
(* call's bucket is not yet up for deletion, that one call at a time holds *)
(* a counter, and that the counter it holds is below the limit.            *)
(***************************************************************************)
EXTENDS Admission, SequenceTheorems, TLAPS

(* The call holds its installation's counter.                               *)
Holding(h) == Counting(h) /\ calls[h].step = "locked"

(* A call lives for less than an hour, so it counts in the hour of now or   *)
(* in the one before.                                                       *)
Timely ==
  \A h \in InFlight :
    calls[h].arrived <= calls[h].at /\ calls[h].at <= now /\ now <= calls[h].arrived + 1

HoldersDistinct ==
  \A h, g \in InFlight :
    /\ Holding(h) /\ Holding(g)
    /\ Install(h) = Install(g) /\ calls[h].at = calls[g].at
    => h = g

RoomHeld ==
  \A h \in InFlight :
    Holding(h) => hits[Install(h)][calls[h].at] < Limit(Install(h))

IInv ==
  TypeOK /\ Timely /\ HoldersDistinct /\ RoomHeld /\ RefusalsCostNothing /\ AdmittedBounded

-----------------------------------------------------------------------------
LEMMA ShortTuples ==
  ASSUME NEW S, NEW a \in S, NEW b \in S, NEW c \in S, NEW d \in S
  PROVE  /\ <<a, b>> \in Seq(S) \ {<< >>}
         /\ <<a, b, c>> \in Seq(S) \ {<< >>}
         /\ <<a, b, c, d>> \in Seq(S) \ {<< >>}
<1>1. <<a, b>> \in Seq(S) /\ Len(<<a, b>>) = 2
  OBVIOUS
<1>2. <<a, b, c>> \in Seq(S) /\ Len(<<a, b, c>>) = 3
  OBVIOUS
<1>3. <<a, b, c, d>> \in Seq(S) /\ Len(<<a, b, c, d>>) = 4
  OBVIOUS
<1> QED
  BY <1>1, <1>2, <1>3, EmptySeq

LEMMA RouteType == \A k \in Kinds : Route[k] \in Seq(Phases) \ {<< >>}
<1>1. /\ "sweep" \in Phases /\ "check" \in Phases
      /\ "submit" \in Phases /\ "work" \in Phases
  BY DEF Phases, Scopes
<1>3. Route["submit"] \in Seq(Phases) \ {<< >>}
  BY <1>1, ShortTuples DEF Route
<1>4. Route["decide"] \in Seq(Phases) \ {<< >>}
  BY <1>1, ShortTuples DEF Route
<1>5. Route["review"] \in Seq(Phases) \ {<< >>}
  BY <1>1, ShortTuples DEF Route
<1>6. Route["remove"] \in Seq(Phases) \ {<< >>}
  BY <1>1, ShortTuples DEF Route
<1>7. Route["report"] \in Seq(Phases) \ {<< >>}
  BY <1>1, ShortTuples DEF Route
<1>8. DOMAIN Route = {"submit", "decide", "review", "remove", "report"}
  BY DEF Route
<1> QED
  BY <1>3, <1>4, <1>5, <1>6, <1>7, <1>8, KindsAssumption

LEMMA LimitType == \A row \in Rows : Limit(row) \in Nat
  BY LimitsAssumption DEF Limit, Rows

LEMMA HoursNat == /\ Hours \subseteq Nat /\ MaxTime \in Nat /\ 0 \in Hours
                  /\ \A n \in Nat : n \in Hours <=> n <= MaxTime
  BY LimitsAssumption DEF Hours

(* The two rows that a call counts in are different rows.                   *)
LEMMA RowsOfCall ==
  ASSUME TypeOK, NEW h \in InFlight, Counting(h)
  PROVE  /\ Install(h) \in Rows /\ Network(h) \in Rows
         /\ calls[h].at \in Hours
         /\ \A g \in InFlight : Install(g) # Network(h)
<1>1. calls[h] \in Call /\ \A g \in InFlight : calls[g] \in Call
  BY DEF TypeOK
<1>2. \A g \in InFlight : calls[g].install \in Installations
  BY <1>1 DEF Call
<1>3. calls[h].network \in Networks /\ calls[h].at \in Hours
  BY <1>1 DEF Call
<1>4. Install(h) \in Rows /\ Network(h) \in Rows
  BY <1>2, <1>3 DEF Install, Network, Rows, Counting
<1>5. \A g \in InFlight : Install(g) # Network(h)
  BY <1>2, <1>3, KeysAssumption DEF Install, Network
<1> QED
  BY <1>3, <1>4, <1>5

(* The step of one call, or its end.                                        *)
LEMMA StepType ==
  ASSUME TypeOK, NEW h \in InFlight, NEW call \in Call, Step(h, call)
  PROVE  /\ InFlight' = InFlight /\ calls'[h] = call /\ now' = now
         /\ \A g \in InFlight \ {h} : calls'[g] = calls[g]
         /\ \A g \in InFlight' : calls'[g] \in Call
  BY DEF Step, TypeOK, InFlight

LEMMA ForgetType ==
  ASSUME NEW h \in InFlight, Forget(h)
  PROVE  /\ InFlight' = InFlight \ {h} /\ now' = now
         /\ \A g \in InFlight' : calls'[g] = calls[g]
  BY DEF Forget, InFlight

LEMMA NextPhaseType ==
  ASSUME TypeOK, NEW h \in InFlight, NextPhase(h)
  PROVE  /\ InFlight' \subseteq InFlight /\ now' = now
         /\ \A g \in InFlight' \ {h} : calls'[g] = calls[g]
         /\ \A g \in InFlight' : calls'[g] \in Call
         /\ h \in InFlight' =>
              /\ calls'[h].step = "wait"
              /\ calls'[h].arrived = calls[h].arrived /\ calls'[h].at = calls[h].at
<1> DEFINE call == [calls[h] EXCEPT !.phases = Tail(@), !.step = "wait"]
<1>1. CASE Len(calls[h].phases) = 1
  BY <1>1, ForgetType DEF NextPhase, TypeOK
<1>2. CASE Len(calls[h].phases) # 1
  <2>1. calls[h] \in Call
    BY DEF TypeOK
  <2>2. calls[h].phases \in Seq(Phases) /\ calls[h].phases # << >>
    BY <2>1 DEF Call
  <2>3. Tail(calls[h].phases) \in Seq(Phases) \ {<< >>}
    <3>1. /\ Tail(calls[h].phases) \in Seq(Phases)
          /\ Len(Tail(calls[h].phases)) = Len(calls[h].phases) - 1
      BY <2>2, HeadTailProperties
    <3>2. Len(calls[h].phases) - 1 # 0
      BY <1>2, <2>2, EmptySeq
    <3> QED
      BY <3>1, <3>2, EmptySeq
  <2>4. /\ call \in Call /\ call.step = "wait"
        /\ call.arrived = calls[h].arrived /\ call.at = calls[h].at
    BY <2>1, <2>3 DEF Call
  <2>5. Step(h, call)
    BY <1>2 DEF NextPhase
  <2> HIDE DEF call
  <2> QED
    BY <2>4, <2>5, StepType
<1> QED
  BY <1>1, <1>2

-----------------------------------------------------------------------------
(* Steps that count nothing and let no call start to hold a counter: a      *)
(* deletion touches no bucket in which a call may still count.              *)
LEMMA Quiet ==
  ASSUME IInv, hits' \in {hits, Swept}, admitted' = admitted, now' = now,
         InFlight' \subseteq Calls,
         \A g \in InFlight' :
           /\ calls'[g] \in Call
           /\ calls'[g].arrived <= calls'[g].at /\ calls'[g].at <= now
           /\ now <= calls'[g].arrived + 1
           /\ \/ g \in InFlight /\ calls'[g] = calls[g]
              \/ ~Holding(g)'
  PROVE  IInv'
<1>1. /\ hits' \in [Rows -> [Hours -> Nat]]
      /\ \A row \in Rows, b \in Hours : b + 2 > now => hits'[row][b] = hits[row][b]
  <2>1. hits \in [Rows -> [Hours -> Nat]] /\ now \in Nat /\ Hours \subseteq Nat
    BY HoursNat DEF IInv, TypeOK
  <2>2. Swept \in [Rows -> [Hours -> Nat]]
    BY <2>1 DEF Swept
  <2>3. \A row \in Rows, b \in Hours : b + 2 > now => Swept[row][b] = hits[row][b]
    BY <2>1 DEF Swept, Past
  <2> QED
    BY <2>1, <2>2, <2>3
<1>2. TypeOK'
  BY <1>1 DEF IInv, TypeOK
<1>3. Timely'
  BY DEF Timely
<1>4. \A g \in InFlight' : Holding(g)' =>
        /\ g \in InFlight /\ calls'[g] = calls[g] /\ Holding(g)
        /\ Install(g)' = Install(g) /\ Install(g) \in Rows
        /\ calls[g].at \in Hours /\ calls[g].at + 2 > now
  <2> SUFFICES ASSUME NEW g \in InFlight', Holding(g)'
               PROVE  /\ g \in InFlight /\ calls'[g] = calls[g] /\ Holding(g)
                      /\ Install(g)' = Install(g) /\ Install(g) \in Rows
                      /\ calls[g].at \in Hours /\ calls[g].at + 2 > now
    OBVIOUS
  <2>1. g \in InFlight /\ calls'[g] = calls[g]
    OBVIOUS
  <2>2. Holding(g) /\ Install(g)' = Install(g)
    BY <2>1 DEF Holding, Counting, Phase, Install
  <2>3. Install(g) \in Rows /\ calls[g].at \in Hours
    BY <2>1, <2>2, RowsOfCall DEF Holding, IInv
  <2>4. /\ calls[g].arrived \in Nat /\ calls[g].at \in Nat /\ now \in Nat
        /\ calls[g].arrived <= calls[g].at /\ now <= calls[g].arrived + 1
    BY <2>1, HoursNat DEF IInv, TypeOK, Call, Timely
  <2>5. calls[g].at + 2 > now
    BY <2>4
  <2> QED
    BY <2>1, <2>2, <2>3, <2>5
<1>5. HoldersDistinct'
  BY <1>4 DEF IInv, HoldersDistinct
<1>6. RoomHeld'
  <2>1. \A g \in InFlight' : Holding(g)' =>
          /\ hits'[Install(g)][calls[g].at] = hits[Install(g)][calls[g].at]
          /\ hits[Install(g)][calls[g].at] < Limit(Install(g))
    BY <1>1, <1>4 DEF IInv, RoomHeld
  <2>2. \A g \in InFlight' : Holding(g)' => Limit(Install(g))' = Limit(Install(g))
    BY <1>4 DEF Limit
  <2> QED
    BY <1>4, <2>1, <2>2 DEF RoomHeld
<1>7. RefusalsCostNothing'
  BY <1>1 DEF IInv, RefusalsCostNothing
<1>8. AdmittedBounded'
  BY DEF IInv, AdmittedBounded, Limit
<1> QED
  BY <1>2, <1>3, <1>5, <1>6, <1>7, <1>8 DEF IInv

(* The calls in flight, as the steps below find them.                       *)
LEMMA CallsFound ==
  ASSUME IInv, NEW g \in InFlight
  PROVE  /\ g \in Calls /\ calls[g] \in Call
         /\ calls[g].arrived <= calls[g].at /\ calls[g].at <= now
         /\ now <= calls[g].arrived + 1 /\ now \in Hours
         /\ calls[g].arrived \in Nat /\ calls[g].at \in Nat /\ now \in Nat
  BY HoursNat DEF IInv, TypeOK, Timely, Call

LEMMA QuietArrive ==
  ASSUME IInv, NEW h \in Calls, NEW i \in Installations, NEW n \in Networks, NEW k \in Kinds,
         Arrive(h, i, n, k)
  PROVE  IInv'
<1> DEFINE call == [phases |-> Route[k], step |-> "wait", install |-> i, network |-> n,
                    arrived |-> now, at |-> now]
<1>1. now \in Hours /\ now \in Nat
  BY HoursNat DEF IInv, TypeOK
<1>2. call \in Call /\ call.arrived = now /\ call.at = now /\ call.step = "wait"
  BY <1>1, RouteType DEF Call
<1>3. calls' = [g \in InFlight \cup {h} |-> IF g = h THEN call ELSE calls[g]]
  BY DEF Arrive
<1> HIDE DEF call
<1>4. /\ InFlight' = InFlight \cup {h} /\ calls'[h] = call
      /\ \A g \in InFlight : g # h => calls'[g] = calls[g]
  BY <1>3 DEF InFlight
<1>5. ~Holding(h)'
  BY <1>2, <1>4 DEF Holding
<1>6. /\ hits' = hits /\ admitted' = admitted /\ now' = now
      /\ InFlight' \subseteq Calls
  BY <1>4 DEF Arrive, IInv, TypeOK
<1>7. \A g \in InFlight : g # h =>
        /\ calls'[g] \in Call
        /\ calls'[g].arrived <= calls'[g].at /\ calls'[g].at <= now
        /\ now <= calls'[g].arrived + 1
        /\ calls'[g] = calls[g]
  BY <1>4, CallsFound
<1>8. /\ calls'[h] \in Call
      /\ calls'[h].arrived <= calls'[h].at /\ calls'[h].at <= now
      /\ now <= calls'[h].arrived + 1
  BY <1>1, <1>2, <1>4
<1> QED
  BY <1>4, <1>5, <1>6, <1>7, <1>8, Quiet

LEMMA QuietStep ==
  ASSUME IInv, NEW h \in InFlight, NEW call \in Call, Step(h, call),
         UNCHANGED <<hits, admitted>>,
         call.arrived <= call.at, call.at <= now, now <= call.arrived + 1,
         Head(call.phases) \in Scopes => call.step # "locked"
  PROVE  IInv'
<1>1. /\ InFlight' = InFlight /\ calls'[h] = call /\ now' = now
      /\ \A g \in InFlight \ {h} : calls'[g] = calls[g]
  BY StepType DEF IInv
<1>2. ~Holding(h)'
  BY <1>1 DEF Holding, Counting, Phase
<1>3. \A g \in InFlight \ {h} :
        /\ calls'[g] \in Call
        /\ calls'[g].arrived <= calls'[g].at /\ calls'[g].at <= now
        /\ now <= calls'[g].arrived + 1
  BY <1>1, CallsFound
<1>4. InFlight' \subseteq Calls
  BY <1>1 DEF IInv, TypeOK
<1> QED
  BY <1>1, <1>2, <1>3, <1>4, Quiet

LEMMA QuietConnect ==
  ASSUME IInv, NEW h \in Calls, Connect(h)
  PROVE  IInv'
<1> DEFINE call == [calls[h] EXCEPT !.step = "open", !.at = now]
<1>1. /\ h \in InFlight /\ calls[h] \in Call
      /\ calls[h].arrived <= now /\ now <= calls[h].arrived + 1 /\ now \in Hours /\ now \in Nat
  BY CallsFound DEF Connect
<1>2. call \in Call /\ call.arrived = calls[h].arrived /\ call.at = now /\ call.step = "open"
  BY <1>1 DEF Call
<1>3. Step(h, call) /\ UNCHANGED <<hits, admitted>>
  BY DEF Connect
<1> HIDE DEF call
<1>4. now <= now
  BY <1>1
<1> QED
  BY <1>1, <1>2, <1>3, <1>4, QuietStep

LEMMA QuietLockWorld ==
  ASSUME IInv, NEW h \in Calls, LockWorld(h)
  PROVE  IInv'
<1> DEFINE call == [calls[h] EXCEPT !.step = "locked"]
<1>1. /\ h \in InFlight /\ calls[h] \in Call
      /\ calls[h].arrived <= calls[h].at /\ calls[h].at <= now /\ now <= calls[h].arrived + 1
  BY CallsFound DEF LockWorld
<1>2. /\ call \in Call /\ call.arrived = calls[h].arrived /\ call.at = calls[h].at
      /\ call.phases = calls[h].phases
  BY <1>1 DEF Call
<1>3. Step(h, call) /\ UNCHANGED <<hits, admitted>> /\ Head(calls[h].phases) = "work"
  BY DEF LockWorld, Phase
<1>4. "work" \notin Scopes
  BY DEF Scopes
<1> HIDE DEF call
<1> QED
  BY <1>1, <1>2, <1>3, <1>4, QuietStep

(* The end of a phase or of a call, and the deletion of old counters.       *)
LEMMA QuietEnd ==
  ASSUME IInv, NEW h \in InFlight, Forget(h), UNCHANGED <<hits, admitted>>
  PROVE  IInv'
<1>1. /\ InFlight' = InFlight \ {h} /\ now' = now
      /\ \A g \in InFlight' : calls'[g] = calls[g]
  BY ForgetType
<1>2. \A g \in InFlight' :
        /\ g \in Calls /\ calls'[g] \in Call
        /\ calls'[g].arrived <= calls'[g].at /\ calls'[g].at <= now
        /\ now <= calls'[g].arrived + 1
  BY <1>1, CallsFound
<1> QED
  BY <1>1, <1>2, Quiet

LEMMA QuietNextPhase ==
  ASSUME IInv, NEW h \in InFlight, NextPhase(h), hits' \in {hits, Swept}, admitted' = admitted
  PROVE  IInv'
<1>1. /\ InFlight' \subseteq InFlight /\ now' = now
      /\ \A g \in InFlight' \ {h} : calls'[g] = calls[g]
      /\ \A g \in InFlight' : calls'[g] \in Call
      /\ h \in InFlight' =>
           /\ calls'[h].step = "wait"
           /\ calls'[h].arrived = calls[h].arrived /\ calls'[h].at = calls[h].at
  BY NextPhaseType DEF IInv
<1>2. h \in InFlight' => ~Holding(h)'
  BY <1>1 DEF Holding
<1>3. \A g \in InFlight' :
        /\ g \in Calls
        /\ calls'[g].arrived <= calls'[g].at /\ calls'[g].at <= now
        /\ now <= calls'[g].arrived + 1
  BY <1>1, CallsFound
<1> QED
  BY <1>1, <1>2, <1>3, Quiet

LEMMA QuietMaintain ==
  ASSUME IInv, Maintain
  PROVE  IInv'
<1>1. calls' = calls /\ hits' = Swept /\ admitted' = admitted /\ now' = now
  BY DEF Maintain
<1>2. InFlight' = InFlight
  BY <1>1 DEF InFlight
<1> QED
  BY <1>1, <1>2, CallsFound, Quiet

-----------------------------------------------------------------------------
(* The installation's counter is taken and there is room below its limit.   *)
LEMMA HoldCounter ==
  ASSUME IInv, NEW h \in Calls, CountInstall(h)
  PROVE  IInv'
<1> DEFINE call == [calls[h] EXCEPT !.step = "locked"]
<1>1. /\ h \in InFlight /\ calls[h] \in Call /\ Counting(h)
      /\ calls[h].arrived <= calls[h].at /\ calls[h].at <= now /\ now <= calls[h].arrived + 1
  BY CallsFound DEF CountInstall
<1>2. /\ call \in Call /\ call.arrived = calls[h].arrived /\ call.at = calls[h].at
      /\ call.phases = calls[h].phases /\ call.install = calls[h].install
  BY <1>1 DEF Call
<1>3. Step(h, call) /\ hits' = hits /\ admitted' = admitted
  BY DEF CountInstall
<1> HIDE DEF call
<1>4. /\ InFlight' = InFlight /\ calls'[h] = call /\ now' = now
      /\ \A g \in InFlight \ {h} : calls'[g] = calls[g]
      /\ \A g \in InFlight' : calls'[g] \in Call
  BY <1>1, <1>2, <1>3, StepType DEF IInv
<1>5. /\ \A g \in InFlight : Install(g)' = Install(g) /\ calls'[g].at = calls[g].at
      /\ \A g \in InFlight \ {h} : Holding(g)' <=> Holding(g)
  BY <1>1, <1>2, <1>4 DEF Install, Phase, Holding, Counting
<1>6. /\ hits[Install(h)][calls[h].at] < Limit(Install(h))
      /\ \A g \in InFlight : Holding(g) /\ Install(g) = Install(h) => calls[g].at # calls[h].at
  BY DEF CountInstall, Below, Locked, Holding
<1>7. TypeOK'
  BY <1>3, <1>4 DEF IInv, TypeOK
<1>8. Timely'
  BY <1>1, <1>2, <1>4, CallsFound DEF Timely
<1>9. HoldersDistinct'
  <2> SUFFICES ASSUME NEW f \in InFlight, NEW g \in InFlight, Holding(f)', Holding(g)',
                      Install(f) = Install(g), calls[f].at = calls[g].at, f # g
               PROVE  FALSE
    BY <1>4, <1>5 DEF HoldersDistinct
  <2>1. f # h /\ g # h => FALSE
    BY <1>5 DEF IInv, HoldersDistinct
  <2> QED
    BY <1>5, <1>6, <2>1
<1>10. RoomHeld'
  <2>1. \A g \in InFlight : Holding(g)' => hits[Install(g)][calls[g].at] < Limit(Install(g))
    BY <1>5, <1>6 DEF IInv, RoomHeld
  <2>2. \A g \in InFlight : Limit(Install(g))' = Limit(Install(g))
    BY <1>5 DEF Limit
  <2> QED
    BY <1>3, <1>4, <1>5, <2>1, <2>2 DEF RoomHeld
<1>11. RefusalsCostNothing' /\ AdmittedBounded'
  BY <1>3, <1>4 DEF IInv, RefusalsCostNothing, AdmittedBounded, Limit
<1> QED
  BY <1>7, <1>8, <1>9, <1>10, <1>11 DEF IInv

(* What Counted does to one counter.                                        *)
LEMMA CountedRows ==
  ASSUME TypeOK, NEW h \in InFlight, Counting(h), NEW f \in [Rows -> [Hours -> Nat]]
  PROVE  /\ Counted(f, h) \in [Rows -> [Hours -> Nat]]
         /\ \A row \in Rows, b \in Hours :
              Counted(f, h)[row][b] =
                IF row \in {Install(h), Network(h)} /\ b = calls[h].at
                  THEN f[row][b] + 1 ELSE f[row][b]
  BY RowsOfCall DEF Counted

(* Both counters are incremented and the call is let pass.                  *)
LEMMA PassRate ==
  ASSUME IInv, NEW h \in Calls, CountNetwork(h)
  PROVE  IInv'
<1> DEFINE a == calls[h].at
           rows == {Install(h), Network(h)}
<1>1. /\ h \in InFlight /\ Counting(h) /\ Holding(h) /\ calls[h] \in Call
      /\ calls[h].arrived <= a /\ a <= now /\ now <= calls[h].arrived + 1
      /\ calls[h].arrived \in Nat /\ a \in Nat /\ now \in Nat
  BY CallsFound DEF CountNetwork, Holding
<1>2. /\ Install(h) \in Rows /\ Network(h) \in Rows /\ a \in Hours
      /\ \A g \in InFlight : Install(g) # Network(h)
  BY <1>1, RowsOfCall DEF IInv
<1>3. /\ InFlight' \subseteq InFlight /\ now' = now
      /\ \A g \in InFlight' \ {h} : calls'[g] = calls[g]
      /\ \A g \in InFlight' : calls'[g] \in Call
      /\ h \in InFlight' =>
           /\ calls'[h].step = "wait"
           /\ calls'[h].arrived = calls[h].arrived /\ calls'[h].at = a
  BY <1>1, NextPhaseType DEF IInv, CountNetwork
<1>4. /\ hits' \in [Rows -> [Hours -> Nat]] /\ admitted' \in [Rows -> [Hours -> Nat]]
      /\ \A row \in Rows, b \in Hours :
           /\ hits'[row][b] = IF row \in rows /\ b = a THEN hits[row][b] + 1 ELSE hits[row][b]
           /\ admitted'[row][b] =
                IF row \in rows /\ b = a THEN admitted[row][b] + 1 ELSE admitted[row][b]
  BY <1>1, CountedRows DEF CountNetwork, IInv, TypeOK
<1>5. TypeOK'
  BY <1>3, <1>4 DEF IInv, TypeOK
<1>6. Timely'
  <2>1. \A g \in InFlight' : g # h => calls'[g] = calls[g] /\ g \in InFlight
    BY <1>3
  <2> QED
    BY <1>1, <1>3, <2>1, CallsFound DEF Timely
<1>7. \A g \in InFlight' : Holding(g)' =>
        /\ g \in InFlight /\ g # h /\ Holding(g)
        /\ Install(g)' = Install(g) /\ calls'[g].at = calls[g].at
        /\ Install(g) \in Rows /\ calls[g].at \in Hours
        /\ ~(Install(g) \in rows /\ calls[g].at = a)
  <2> SUFFICES ASSUME NEW g \in InFlight', Holding(g)'
               PROVE  /\ g \in InFlight /\ g # h /\ Holding(g)
                      /\ Install(g)' = Install(g) /\ calls'[g].at = calls[g].at
                      /\ Install(g) \in Rows /\ calls[g].at \in Hours
                      /\ ~(Install(g) \in rows /\ calls[g].at = a)
    OBVIOUS
  <2>1. g # h /\ g \in InFlight /\ calls'[g] = calls[g]
    BY <1>3 DEF Holding
  <2>2. Holding(g) /\ Install(g)' = Install(g)
    BY <2>1 DEF Holding, Counting, Phase, Install
  <2>3. Install(g) \in Rows /\ calls[g].at \in Hours
    BY <2>1, <2>2, RowsOfCall DEF Holding, IInv
  <2>4. ~(Install(g) = Install(h) /\ calls[g].at = a)
    BY <1>1, <2>1, <2>2 DEF IInv, HoldersDistinct
  <2> QED
    BY <1>2, <2>1, <2>2, <2>3, <2>4
<1>8. HoldersDistinct'
  BY <1>7 DEF IInv, HoldersDistinct
<1>9. RoomHeld'
  <2>1. \A g \in InFlight' : Holding(g)' =>
          hits'[Install(g)][calls[g].at] = hits[Install(g)][calls[g].at]
    BY <1>4, <1>7
  <2>2. \A g \in InFlight' : Holding(g)' =>
          hits[Install(g)][calls[g].at] < Limit(Install(g))
    BY <1>7 DEF IInv, RoomHeld
  <2>3. \A g \in InFlight' : Holding(g)' => Limit(Install(g))' = Limit(Install(g))
    BY <1>7 DEF Limit
  <2> QED
    BY <1>7, <2>1, <2>2, <2>3 DEF RoomHeld
<1>10. RefusalsCostNothing'
  BY <1>3, <1>4 DEF IInv, RefusalsCostNothing
<1>11. AdmittedBounded'
  <2>1. \A row \in rows : admitted[row][a] = hits[row][a]
    <3>1. a + 2 > now
      BY <1>1
    <3> QED
      BY <1>2, <3>1 DEF IInv, RefusalsCostNothing
  <2>2. \A row \in rows : hits[row][a] < Limit(row)
    <3>1. hits[Install(h)][a] < Limit(Install(h))
      BY <1>1 DEF IInv, RoomHeld
    <3>2. hits[Network(h)][a] < Limit(Network(h))
      BY DEF CountNetwork, Below
    <3> QED
      BY <3>1, <3>2
  <2>3. \A row \in rows : admitted[row][a] + 1 <= Limit(row)
    <3>1. \A row \in rows : admitted[row][a] \in Nat /\ Limit(row) \in Nat
      BY <1>2, LimitType DEF IInv, TypeOK
    <3> QED
      BY <2>1, <2>2, <3>1
  <2>4. \A row \in Rows, b \in Hours : admitted'[row][b] <= Limit(row)
    BY <1>4, <2>3 DEF IInv, AdmittedBounded
  <2> QED
    BY <2>4 DEF AdmittedBounded, Limit
<1> QED
  BY <1>5, <1>6, <1>8, <1>9, <1>10, <1>11 DEF IInv

(* The hour turns only while no call in flight has seen it turn before.     *)
LEMMA TurnHour ==
  ASSUME IInv, Tick
  PROVE  IInv'
<1>1. /\ hits' = hits /\ calls' = calls /\ admitted' = admitted /\ now' = now + 1
      /\ now < MaxTime /\ \A h \in InFlight : calls[h].arrived = now
  BY DEF Tick
<1>2. InFlight' = InFlight
  BY <1>1 DEF InFlight
<1>3. now \in Nat /\ now' \in Hours /\ Hours \subseteq Nat
  BY <1>1, HoursNat DEF IInv, TypeOK
<1>4. TypeOK'
  BY <1>1, <1>2, <1>3 DEF IInv, TypeOK
<1>5. Timely'
  <2>1. \A h \in InFlight : calls[h].at \in Nat /\ calls[h].at <= now
    BY CallsFound
  <2> QED
    BY <1>1, <1>2, <1>3, <2>1, CallsFound DEF Timely
<1>6. \A h \in InFlight : Install(h)' = Install(h) /\ (Holding(h)' <=> Holding(h))
  BY <1>1 DEF Install, Phase, Holding, Counting
<1>7. HoldersDistinct'
  BY <1>1, <1>2, <1>6 DEF IInv, HoldersDistinct
<1>8. RoomHeld'
  <2>1. \A h \in InFlight : Limit(Install(h))' = Limit(Install(h))
    BY <1>6 DEF Limit
  <2> QED
    BY <1>1, <1>2, <1>6, <2>1 DEF IInv, RoomHeld
<1>9. RefusalsCostNothing'
  BY <1>1, <1>3 DEF IInv, RefusalsCostNothing
<1>10. AdmittedBounded'
  BY <1>1 DEF IInv, AdmittedBounded, Limit
<1> QED
  BY <1>4, <1>5, <1>7, <1>8, <1>9, <1>10 DEF IInv

-----------------------------------------------------------------------------
LEMMA Initial == Init => IInv
<1> SUFFICES ASSUME Init
             PROVE  IInv
  OBVIOUS
<1>1. InFlight = {}
  BY DEF Init, InFlight
<1>2. TypeOK
  BY <1>1, HoursNat DEF Init, TypeOK
<1>3. AdmittedBounded
  BY LimitType DEF Init, AdmittedBounded
<1>4. RefusalsCostNothing
  BY DEF Init, RefusalsCostNothing
<1> QED
  BY <1>1, <1>2, <1>3, <1>4 DEF IInv, Timely, HoldersDistinct, RoomHeld

LEMMA Inductive ==
  ASSUME IInv, [Next]_vars
  PROVE  IInv'
<1>1. CASE UNCHANGED vars
  <2>1. calls' = calls /\ hits' = hits /\ admitted' = admitted /\ now' = now
    BY <1>1 DEF vars
  <2>2. InFlight' = InFlight
    BY <2>1 DEF InFlight
  <2> QED
    BY <2>1, <2>2, CallsFound, Quiet
<1>2. ASSUME NEW h \in Calls, Sweep(h)
      PROVE  IInv'
  BY <1>2, QuietNextPhase DEF Sweep
<1>3. ASSUME NEW h \in Calls, Finish(h)
      PROVE  IInv'
  BY <1>3, QuietNextPhase DEF Finish
<1>4. ASSUME NEW h \in Calls, End(h)
      PROVE  IInv'
  BY <1>4, QuietEnd DEF End
<1>5. ASSUME NEW h \in Calls, Proceed(h)
      PROVE  IInv'
  BY <1>2, <1>3, <1>4, <1>5, QuietConnect, HoldCounter, PassRate, QuietLockWorld DEF Proceed
<1> QED
  BY <1>1, <1>4, <1>5, QuietArrive, QuietMaintain, TurnHour DEF Next

LEMMA Invariant == Spec => []IInv
  BY Initial, Inductive, PTL DEF Spec

(* The counters hold what the table and the handlers take them to hold.     *)
THEOREM TypeCorrect == Spec => []TypeOK
<1>1. IInv => TypeOK
  BY DEF IInv
<1> QED
  BY <1>1, Invariant, PTL

(* No installation and no network is let pass more often than its limit.    *)
THEOREM AlwaysAdmittedBounded == Spec => []AdmittedBounded
<1>1. IInv => AdmittedBounded
  BY DEF IInv
<1> QED
  BY <1>1, Invariant, PTL

(* A refused or failed call costs nothing of the hour's budget.             *)
THEOREM RefusalsNeverCost == Spec => []RefusalsCostNothing
<1>1. IInv => RefusalsCostNothing
  BY DEF IInv
<1> QED
  BY <1>1, Invariant, PTL

-----------------------------------------------------------------------------
(* Every step of the calls is a charge, an erasure, a turn of the hour, or  *)
(* nothing: the charge is the commit, which finds the installation's        *)
(* counter as its first statement left it.                                  *)
LEMMA ChargeStep ==
  ASSUME IInv, NEW h \in Calls, CountNetwork(h)
  PROVE  Purse!Charge(Phase(h), calls[h].install, calls[h].network, calls[h].at)
<1> DEFINE a == calls[h].at
<1>1. /\ h \in InFlight /\ Counting(h) /\ Holding(h) /\ calls[h] \in Call
      /\ calls[h].arrived <= a /\ a <= now /\ now <= calls[h].arrived + 1
      /\ calls[h].arrived \in Nat /\ a \in Nat /\ now \in Nat
  BY CallsFound DEF CountNetwork, Holding
<1>2. Install(h) \in Rows /\ Network(h) \in Rows
  BY <1>1, RowsOfCall DEF IInv
<1>3. a \in {now - 1, now}
  BY <1>1
<1>4. hits[Install(h)][a] < Limit(Install(h)) /\ hits[Network(h)][a] < Limit(Network(h))
  BY <1>1 DEF IInv, RoomHeld, CountNetwork, Below
<1>5. hits' = Counted(hits, h) /\ now' = now
  BY DEF CountNetwork, NextPhase, Step, Forget
<1> QED
  BY <1>2, <1>3, <1>4, <1>5 DEF Purse!Charge, Purse!Rows, Rows, Counted, Install, Network

LEMMA ErasureStep ==
  ASSUME hits' = Swept, now' = now
  PROVE  Purse!Erase
  BY DEF Purse!Erase, Purse!Rows, Rows, Swept, Past

LEMMA BudgetNext ==
  ASSUME IInv, [Next]_vars
  PROVE  [Purse!Next]_<<hits, now>>
<1>1. ASSUME NEW h \in Calls, CountNetwork(h)
      PROVE  Purse!Next
  <2>1. calls[h] \in Call /\ Phase(h) \in Scopes
    BY <1>1, CallsFound DEF CountNetwork, Counting
  <2>2. /\ calls[h].install \in Installations /\ calls[h].network \in Networks
        /\ calls[h].at \in Hours
    BY <2>1 DEF Call
  <2> QED
    BY <1>1, <2>1, <2>2, ChargeStep DEF Purse!Next
<1>2. ASSUME NEW h \in Calls, Sweep(h)
      PROVE  Purse!Next
  BY <1>2, ErasureStep DEF Sweep, NextPhase, Step, Forget, Purse!Next
<1>3. ASSUME NEW h \in Calls, Proceed(h) \/ End(h)
      PROVE  [Purse!Next]_<<hits, now>>
  BY <1>1, <1>2, <1>3
  DEF Proceed, End, Connect, CountInstall, LockWorld, Finish, NextPhase, Step, Forget
<1>4. CASE Maintain
  BY <1>4, ErasureStep DEF Maintain, Purse!Next
<1>5. CASE Tick
  BY <1>5 DEF Tick, Purse!Turn, Purse!Next
<1>6. CASE \E h \in Calls, i \in Installations, n \in Networks, kind \in Kinds :
             Arrive(h, i, n, kind)
  BY <1>6 DEF Arrive
<1> QED
  BY <1>3, <1>4, <1>5, <1>6 DEF Next, vars

(* The counters of concurrent, failing and overlapping calls are those of   *)
(* calls charged one at a time, to both their budgets or to none.           *)
THEOREM BudgetRefinement == Spec => ImplementsBudget
<1>1. Init => Purse!Init
  BY DEF Init, Purse!Init, Purse!Rows, Rows
<1> QED
  BY <1>1, Invariant, BudgetNext, PTL DEF Spec, ImplementsBudget, Purse!Spec

=============================================================================
