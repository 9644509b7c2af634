-------------------------- MODULE AdaptiveRateProofs --------------------------
(*****************************************************************************)
(* Safety of AdaptiveRate for any number of threads inside on_response() and *)
(* any periods, thresholds and rates: the range of the rate, the hull of the *)
(* round-trip time, and the books that samples, losses and adjustments keep  *)
(* on each other.                                                            *)
(*****************************************************************************)
EXTENDS AdaptiveRate, FiniteSetTheorems, TLAPS

USE RespondersAssumption, RttsAssumption, PeriodAssumption, RateAssumption,
    SetRatesAssumption, MaxCallsAssumption

\* The rate on its way to rate_ is in range as well.
RateInv ==
    /\ RateInRange
    /\ \A r \in Responders : pc[r] = "store_rate" =>
           LeastRate <= new[r] /\ new[r] <= MostRate

\* t lies between two of the round-trip times that count.
Accountable(t) ==
    \E low, high \in {s \in Rtts : s >= 0} : low <= t /\ t <= high

Averaging == {"load_srtt", "first_srtt", "load_var", "store_srtt"}

\* An average is taken of a former one and a round-trip time that counts.
SrttInv ==
    /\ srtt # -1 => Accountable(srtt)
    /\ \A r \in Responders :
           /\ pc[r] \in Averaging => call[r].rtt >= 0
           /\ pc[r] \in {"load_var", "store_srtt"} => Accountable(old[r])

\* Who has counted his sample and not yet his loss.
Straddling == {r \in Responders : pc[r] = "loss"}

\* Who will adjust for the batch his sample completed, and who has not counted.
Adjusting == {r \in Responders :
                 \/ pc[r] = "load_losses"
                 \/ pc[r] = "loss" /\ n[r] % AdjustEvery = 0}
Uncounted == {r \in Responders :
                 pc[r] \in Averaging \union {"first_var", "store_var", "count"}}

LossInv ==
    (\A r \in Responders : pc[r] # "reset_losses") =>
        losses + Cardinality(Straddling) < samples + Cardinality(Responders)

SpacingInv ==
    (adjustments + Cardinality(Adjusting)) * AdjustEvery
        + (samples % AdjustEvery) + Cardinality(Uncounted) <= calls

-------------------------------------------------------------------------------
(* Types.                                                                    *)

LEMMA NoCallIsACall == NoCall \in Call
  <1>1. \E c \in Call : c.loss
    <2>1. PICK t \in Rtts : TRUE
      OBVIOUS
    <2>2. [rtt |-> t, loss |-> TRUE] \in Call /\ [rtt |-> t, loss |-> TRUE].loss
      BY DEF Call
    <2> QED BY <2>2
  <1> QED BY <1>1 DEF NoCall

LEMMA InitialTypes == Init => TypeOK
  BY NoCallIsACall DEF Init, TypeOK, Locs

\* The bounds of the rate, and that asking for more only widens them.
LEMMA BoundsOfTheRate ==
    ASSUME asked \in Nat
    PROVE  /\ LeastRate \in Nat /\ 0 < LeastRate /\ MostRate \in Nat
           /\ LeastRate <= Floor /\ LeastRate <= MaxRate
           /\ One <= MostRate /\ MaxRate <= MostRate /\ asked <= MostRate
  BY DEF LeastRate, MostRate, AtMost, AtLeast

LEMMA AskingWidens ==
    ASSUME asked \in Nat, asked' \in Nat, asked <= asked'
    PROVE  MostRate <= MostRate' /\ LeastRate' = LeastRate
  BY DEF LeastRate, MostRate, AtMost, AtLeast

\* A rate an adjustment computes is a rate between the bounds, from any rate
\* between them: a slow-down stops at One, a speed-up at MaxRate.
LEMMA NextRateInRange ==
    ASSUME NEW lost \in Int, NEW of \in Nat, NEW cur \in Nat,
           asked \in Nat, LeastRate <= cur, cur <= MostRate
    PROVE  /\ NextRate(lost, of, cur) \in Nat
           /\ LeastRate <= NextRate(lost, of, cur)
           /\ NextRate(lost, of, cur) <= MostRate
  <1> DEFINE high == lost * HighDen > of
             low == lost * LowDen < of
             least == LeastRate
             most == MostRate
  <1>1. /\ (cur * 7) \div 10 \in Nat /\ (cur * 7) \div 10 <= cur
        /\ (cur * 105) \div 100 \in Nat /\ cur <= (cur * 105) \div 100
    OBVIOUS
  <1>2. NextRate(lost, of, cur) =
            IF high THEN AtLeast(One, (cur * 7) \div 10)
            ELSE IF low THEN AtMost(MaxRate, (cur * 105) \div 100) ELSE cur
    BY DEF NextRate
  <1>3. /\ least \in Nat /\ most \in Nat /\ least <= cur /\ cur <= most
        /\ least <= One /\ least <= MaxRate /\ One <= most /\ MaxRate <= most
    BY BoundsOfTheRate
  <1> HIDE DEF high, low, least, most
  <1>4. /\ NextRate(lost, of, cur) \in Nat
        /\ least <= NextRate(lost, of, cur) /\ NextRate(lost, of, cur) <= most
    BY <1>1, <1>2, <1>3 DEF AtLeast, AtMost
  <1> QED BY <1>4 DEF least, most

LEMMA SomeNat == ASSUME NEW lost \in Int, NEW of \in Nat, NEW cur \in Nat
                 PROVE  NextRate(lost, of, cur) \in Nat
  <1> DEFINE high == lost * HighDen > of
             low == lost * LowDen < of
  <1>1. (cur * 7) \div 10 \in Nat /\ (cur * 105) \div 100 \in Nat
    OBVIOUS
  <1>2. NextRate(lost, of, cur) =
            IF high THEN AtLeast(One, (cur * 7) \div 10)
            ELSE IF low THEN AtMost(MaxRate, (cur * 105) \div 100) ELSE cur
    BY DEF NextRate
  <1> HIDE DEF high, low
  <1> QED BY <1>1, <1>2 DEF AtLeast, AtMost

\* A step of a responder keeps his place and his arguments well-typed.
LEMMA GotoTypes ==
    ASSUME TypeOK, NEW r \in Responders, NEW from, NEW to \in Locs,
           Goto(r, from, to)
    PROVE  /\ pc' \in [Responders -> Locs] /\ call' \in [Responders -> Call]
           /\ n' \in [Responders -> Nat]
  BY NoCallIsACall DEF TypeOK, Goto

LEMMA AveragingTypes ==
    ASSUME TypeOK, NEW r \in Responders,
           \/ \E c \in Call : Begin(r, c)
           \/ LoadSrtt(r) \/ FirstSrtt(r) \/ FirstVar(r) \/ LoadVar(r)
           \/ StoreSrtt(r) \/ StoreVar(r)
    PROVE  TypeOK'
  <1>1. call[r].rtt \in Int /\ old[r] \in Int /\ new[r] \in Int
    BY DEF TypeOK, Call
  <1>2. ASSUME NEW c \in Call, Begin(r, c) PROVE TypeOK'
    BY <1>2 DEF TypeOK, Begin, Locs, rtt, window
  <1>3. CASE LoadSrtt(r)
    <2>1. /\ (IF srtt < 0 THEN "first_srtt" ELSE "load_var") \in Locs
      BY DEF Locs
    <2> QED BY <1>3, <2>1, GotoTypes DEF TypeOK, LoadSrtt, rtt, window, ghosts
  <1>4. CASE FirstSrtt(r)
    BY <1>1, <1>4, GotoTypes DEF TypeOK, FirstSrtt, Locs, window, ghosts
  <1>5. CASE FirstVar(r)
    <2>1. call[r].rtt \div 2 \in Int
      BY <1>1
    <2> QED BY <1>5, <2>1, GotoTypes DEF TypeOK, FirstVar, Locs, window, ghosts
  <1>6. CASE LoadVar(r)
    <2>1. (3 * rttvar + Distance(old[r], call[r].rtt)) \div 4 \in Int
      BY <1>1 DEF TypeOK, Distance
    <2> QED BY <1>6, <2>1, GotoTypes
            DEF TypeOK, LoadVar, Locs, rtt, window, ghosts
  <1>7. CASE StoreSrtt(r)
    <2>1. (7 * old[r] + call[r].rtt) \div 8 \in Int
      BY <1>1
    <2> QED BY <1>7, <2>1, GotoTypes DEF TypeOK, StoreSrtt, Locs, window, ghosts
  <1>8. CASE StoreVar(r)
    <2>1. /\ pc' \in [Responders -> Locs] /\ call' \in [Responders -> Call]
          /\ n' \in [Responders -> Nat]
      BY <1>8, GotoTypes DEF StoreVar, Locs
    <2>2. old' \in [Responders -> Int] /\ new' \in [Responders -> Int]
      BY <1>8 DEF TypeOK, StoreVar
    <2>3. /\ rate' = rate /\ srtt' = srtt /\ rttvar' = new[r]
          /\ samples' = samples /\ losses' = losses
          /\ calls' = calls /\ adjustments' = adjustments /\ asked' = asked
      BY <1>8 DEF StoreVar, window, ghosts
    <2> QED BY <1>1, <2>1, <2>2, <2>3 DEF TypeOK
  <1> QED BY <1>2, <1>3, <1>4, <1>5, <1>6, <1>7, <1>8

LEMMA AdjustingTypes ==
    ASSUME TypeOK, RateInv, NEW r \in Responders,
           \/ Count(r) \/ CountLoss(r) \/ LoadLosses(r) \/ Adjust(r)
           \/ StoreRate(r) \/ ResetSamples(r) \/ ResetLosses(r)
    PROVE  TypeOK'
  <1>1. old[r] \in Int /\ n[r] \in Nat
    BY DEF TypeOK
  <1>2. AfterCount(samples + 1) \in Locs /\ AfterCount(n[r]) \in Locs
        /\ AfterAdjust(r) \in Locs
    BY DEF AfterCount, AfterAdjust, Locs
  <1>3. CASE Count(r)
    <2>1. /\ pc' \in [Responders -> Locs] /\ call' \in [Responders -> Call]
          /\ n' \in [Responders -> Nat]
      BY <1>2, <1>3, NoCallIsACall
         DEF TypeOK, Count, CountedAs, Goto, Locs
    <2> QED BY <1>3, <2>1 DEF TypeOK, Count, CountedAs, rtt, ghosts
  <1>4. CASE CountLoss(r)
    BY <1>2, <1>4, GotoTypes DEF TypeOK, CountLoss, rtt, ghosts
  <1>5. CASE LoadLosses(r)
    <2>1. /\ pc' \in [Responders -> Locs] /\ call' \in [Responders -> Call]
          /\ n' \in [Responders -> Nat]
      BY <1>5, GotoTypes DEF LoadLosses, Locs
    <2>2. old' \in [Responders -> Int] /\ new' \in [Responders -> Int]
      BY <1>5 DEF TypeOK, LoadLosses
    <2>3. /\ rate' = rate /\ srtt' = srtt /\ rttvar' = rttvar
          /\ samples' = samples /\ losses' = losses
          /\ calls' = calls /\ adjustments' = adjustments + 1
          /\ asked' = asked
      BY <1>5 DEF LoadLosses, rtt, window
    <2> QED BY <2>1, <2>2, <2>3 DEF TypeOK
  <1>6. CASE Adjust(r)
    <2> DEFINE next == NextRate(old[r], n[r], rate)
    <2>1. next \in Nat
      BY <1>1, SomeNat DEF TypeOK
    <2>2. /\ Goto(r, "adjust", IF next # rate THEN "store_rate" ELSE AfterAdjust(r))
          /\ new' = [new EXCEPT ![r] = IF next # rate THEN next ELSE 0]
          /\ old' = [old EXCEPT ![r] = 0]
          /\ UNCHANGED <<rate, rtt, window, ghosts>>
      BY <1>6 DEF Adjust
    <2> HIDE DEF next
    <2>3. (IF next # rate THEN "store_rate" ELSE AfterAdjust(r)) \in Locs
      BY <1>2 DEF Locs
    <2>4. /\ pc' \in [Responders -> Locs] /\ call' \in [Responders -> Call]
          /\ n' \in [Responders -> Nat]
      BY <2>2, <2>3, GotoTypes
    <2>5. old' \in [Responders -> Int]
      BY <2>2 DEF TypeOK
    <2>6. (IF next # rate THEN next ELSE 0) \in Int
      BY <2>1
    <2>7. new' \in [Responders -> Int]
      BY <2>2, <2>6 DEF TypeOK
    <2> QED BY <2>2, <2>4, <2>5, <2>7 DEF TypeOK, rtt, window, ghosts
  <1>7. CASE StoreRate(r)
    <2>1. new[r] \in Nat
      BY <1>7, BoundsOfTheRate DEF TypeOK, StoreRate, Goto, RateInv
    <2> QED BY <1>2, <1>7, <2>1, GotoTypes
            DEF TypeOK, StoreRate, rtt, window, ghosts
  <1>8. CASE ResetSamples(r)
    BY <1>8, GotoTypes DEF TypeOK, ResetSamples, Locs, rtt, ghosts
  <1>9. CASE ResetLosses(r)
    BY <1>9, GotoTypes DEF TypeOK, ResetLosses, Locs, rtt, ghosts
  <1> QED BY <1>3, <1>4, <1>5, <1>6, <1>7, <1>8, <1>9

-------------------------------------------------------------------------------
(* The rate and the round-trip time.                                         *)

\* Only StoreRate and SetRate write rate_, only Adjust computes a rate.
LEMMA RateStep == TypeOK /\ RateInv /\ [Next]_vars => RateInv'
  <1> SUFFICES ASSUME TypeOK, RateInv, [Next]_vars PROVE RateInv'
    OBVIOUS
  <1> USE DEF RateInv, RateInRange
  <1>0. /\ LeastRate \in Nat /\ MostRate \in Nat
        /\ LeastRate' = LeastRate
        /\ asked' = asked => MostRate' = MostRate
    BY BoundsOfTheRate DEF TypeOK, LeastRate, MostRate
  <1>1. CASE UNCHANGED vars
    BY <1>0, <1>1 DEF vars
  <1>2. ASSUME NEW r \in Responders, Adjust(r) PROVE RateInv'
    <2> DEFINE next == NextRate(old[r], n[r], rate)
    <2>1. /\ next \in Nat /\ LeastRate <= next /\ next <= MostRate
      BY NextRateInRange DEF TypeOK
    <2>2. /\ pc' = [pc EXCEPT ![r] =
                     IF next # rate THEN "store_rate" ELSE AfterAdjust(r)]
          /\ new' = [new EXCEPT ![r] = IF next # rate THEN next ELSE 0]
          /\ rate' = rate /\ asked' = asked
      BY <1>2 DEF Adjust, Goto, ghosts
    <2>3. AfterAdjust(r) # "store_rate"
      BY DEF AfterAdjust
    <2> HIDE DEF next
    <2> QED BY <1>0, <2>1, <2>2, <2>3 DEF TypeOK
  <1>3. ASSUME NEW r \in Responders, StoreRate(r) PROVE RateInv'
    <2>1. AfterAdjust(r) # "store_rate"
      BY DEF AfterAdjust
    <2> QED BY <1>0, <1>3, <2>1 DEF StoreRate, Goto, TypeOK, ghosts
  <1>4. ASSUME NEW r \in Responders, NEW c \in Call, Begin(r, c)
        PROVE  RateInv'
    BY <1>0, <1>4 DEF Begin, TypeOK
  <1>5. ASSUME NEW r \in Responders,
               LoadSrtt(r) \/ FirstSrtt(r) \/ FirstVar(r) \/ LoadVar(r)
                 \/ StoreSrtt(r)
        PROVE  RateInv'
    BY <1>0, <1>5
       DEF LoadSrtt, FirstSrtt, FirstVar, LoadVar, StoreSrtt, Goto, TypeOK, ghosts
  <1>6. ASSUME NEW r \in Responders,
               StoreVar(r) \/ LoadLosses(r) \/ ResetSamples(r) \/ ResetLosses(r)
        PROVE  RateInv'
    BY <1>0, <1>6
       DEF StoreVar, LoadLosses, ResetSamples, ResetLosses, Goto, TypeOK, ghosts
  <1>7. ASSUME NEW r \in Responders, Count(r) \/ CountLoss(r) PROVE RateInv'
    BY <1>0, <1>7
       DEF Count, CountedAs, CountLoss, AfterCount, Goto, TypeOK, ghosts
  <1>8. ASSUME NEW v \in SetRates, SetRate(v) PROVE RateInv'
    <2>1. /\ rate' = AtLeast(Floor, v) /\ asked' = AtLeast(asked, v)
          /\ pc' = pc /\ new' = new /\ v \in Int /\ asked \in Nat
      BY <1>8 DEF SetRate, TypeOK
    <2>2. asked' \in Nat /\ asked <= asked' /\ v <= asked'
      BY <2>1 DEF AtLeast
    <2>3. MostRate <= MostRate'
      BY <2>1, <2>2, AskingWidens
    <2>4. MostRate' \in Nat /\ asked' <= MostRate' /\ One <= MostRate'
      BY <2>2 DEF MostRate, AtLeast
    <2>5. LeastRate <= Floor
      BY <2>1, BoundsOfTheRate
    <2>6. LeastRate' <= rate' /\ rate' <= MostRate'
      BY <1>0, <2>1, <2>2, <2>4, <2>5 DEF AtLeast
    <2>7. ASSUME NEW r \in Responders, pc[r] = "store_rate"
          PROVE  LeastRate' <= new[r] /\ new[r] <= MostRate'
      <3>1. new[r] \in Int /\ LeastRate <= new[r] /\ new[r] <= MostRate
        BY <2>7 DEF TypeOK
      <3> QED BY <1>0, <2>3, <2>4, <3>1
    <2> QED BY <2>1, <2>6, <2>7
  <1> QED BY <1>1, <1>2, <1>3, <1>4, <1>5, <1>6, <1>7, <1>8
          DEF Next, OnResponse

LEMMA TypesStep == TypeOK /\ RateInv /\ [Next]_vars => TypeOK'
  <1>1. ASSUME TypeOK, NEW v \in SetRates, SetRate(v) PROVE TypeOK'
    BY <1>1 DEF SetRate, TypeOK, AtLeast, rtt, window
  <1>2. TypeOK /\ UNCHANGED vars => TypeOK'
    BY DEF TypeOK, vars
  <1> QED BY <1>1, <1>2, AveragingTypes, AdjustingTypes DEF Next, OnResponse

\* The weighted mean of two accountable times is accountable: the division
\* rounds down, and the lower of the two bounds is an integer.
LEMMA MeanAccountable ==
    ASSUME NEW a \in Int, NEW t \in Rtts, Accountable(a), t >= 0
    PROVE  Accountable((7 * a + t) \div 8)
  <1>1. PICK low \in {s \in Rtts : s >= 0}, high \in {s \in Rtts : s >= 0} :
            low <= a /\ a <= high
    BY DEF Accountable
  <1>2. low \in Int /\ high \in Int /\ t \in Int
    OBVIOUS
  <1> DEFINE m == (7 * a + t) \div 8
             least == IF low <= t THEN low ELSE t
             most == IF t <= high THEN high ELSE t
  <1>3. /\ least \in Int /\ least <= a /\ least <= t
        /\ most \in Int /\ a <= most /\ t <= most
    BY <1>1, <1>2
  <1>4. /\ least \in {s \in Rtts : s >= 0}
        /\ most \in {s \in Rtts : s >= 0}
    BY <1>1
  <1> HIDE DEF least, most
  <1>5. least <= m /\ m <= most
    BY <1>2, <1>3
  <1> QED BY <1>4, <1>5 DEF Accountable

LEMMA SrttStep == TypeOK /\ SrttInv /\ [Next]_vars => SrttInv'
  <1> SUFFICES ASSUME TypeOK, SrttInv, [Next]_vars PROVE SrttInv'
    OBVIOUS
  <1> USE DEF SrttInv, Averaging
  <1>1. CASE UNCHANGED vars
    BY <1>1 DEF vars, Accountable
  <1>2. ASSUME NEW t \in Rtts, t >= 0 PROVE Accountable(t)
    <2>1. t <= t
      OBVIOUS
    <2> QED BY <1>2, <2>1 DEF Accountable
  <1>3. ASSUME NEW r \in Responders, NEW c \in Call, Begin(r, c)
        PROVE  SrttInv'
    BY <1>3 DEF Begin, rtt, TypeOK, Accountable
  <1>4. ASSUME NEW r \in Responders, LoadSrtt(r) PROVE SrttInv'
    <2>1. /\ pc[r] = "load_srtt" /\ srtt' = srtt
          /\ pc' = [pc EXCEPT ![r] =
                      IF srtt < 0 THEN "first_srtt" ELSE "load_var"]
          /\ call' = call /\ old' = [old EXCEPT ![r] = srtt]
      BY <1>4 DEF LoadSrtt, Goto, rtt
    <2>2. srtt >= 0 => Accountable(srtt)
      BY DEF TypeOK
    <2> QED BY <2>1, <2>2 DEF TypeOK, Accountable
  <1>5. ASSUME NEW r \in Responders, FirstSrtt(r) PROVE SrttInv'
    <2>1. /\ pc[r] = "first_srtt" /\ pc' = [pc EXCEPT ![r] = "first_var"]
          /\ call' = call /\ srtt' = call[r].rtt /\ old' = old
      BY <1>5 DEF FirstSrtt, Goto
    <2>2. call[r].rtt \in Rtts
      BY DEF TypeOK, Call
    <2>3. Accountable(call[r].rtt)
      BY <1>2, <2>1, <2>2
    <2> QED BY <2>1, <2>3 DEF TypeOK, Accountable
  <1>6. ASSUME NEW r \in Responders, LoadVar(r) PROVE SrttInv'
    BY <1>6 DEF LoadVar, Goto, rtt, TypeOK, Accountable
  <1>7. ASSUME NEW r \in Responders, StoreSrtt(r) PROVE SrttInv'
    <2>1. /\ pc[r] = "store_srtt" /\ pc' = [pc EXCEPT ![r] = "store_var"]
          /\ call' = call /\ srtt' = (7 * old[r] + call[r].rtt) \div 8
          /\ old' = old
      BY <1>7 DEF StoreSrtt, Goto
    <2>2. call[r].rtt \in Rtts /\ old[r] \in Int
      BY DEF TypeOK, Call
    <2>3. Accountable((7 * old[r] + call[r].rtt) \div 8)
      BY <2>1, <2>2, MeanAccountable
    <2> QED BY <2>1, <2>3 DEF TypeOK, Accountable
  <1>8. ASSUME NEW r \in Responders,
               FirstVar(r) \/ StoreVar(r) \/ CountLoss(r) \/ LoadLosses(r)
        PROVE  SrttInv'
    BY <1>8 DEF FirstVar, StoreVar, CountLoss, LoadLosses, AfterCount, Goto,
                rtt, TypeOK, Accountable
  <1>9. ASSUME NEW r \in Responders,
               StoreRate(r) \/ ResetSamples(r) \/ ResetLosses(r)
        PROVE  SrttInv'
    BY <1>9 DEF StoreRate, ResetSamples, ResetLosses, AfterAdjust, Goto,
                rtt, TypeOK, Accountable
  <1>10. ASSUME NEW r \in Responders, Count(r) PROVE SrttInv'
    BY <1>10 DEF Count, CountedAs, AfterCount, Goto, rtt, TypeOK, Accountable
  <1>11. ASSUME NEW r \in Responders, Adjust(r) PROVE SrttInv'
    <2> DEFINE next == NextRate(old[r], n[r], rate)
    <2>1. /\ pc' = [pc EXCEPT ![r] =
                     IF next # rate THEN "store_rate" ELSE AfterAdjust(r)]
          /\ call' \in {call, [call EXCEPT ![r] = NoCall]}
          /\ old' = [old EXCEPT ![r] = 0] /\ srtt' = srtt
      BY <1>11 DEF Adjust, Goto, rtt
    <2>2. AfterAdjust(r) \in {"reset_samples", "idle"}
      BY DEF AfterAdjust
    <2> HIDE DEF next
    <2> QED BY <2>1, <2>2 DEF TypeOK, Accountable
  <1>12. ASSUME NEW v \in SetRates, SetRate(v) PROVE SrttInv'
    BY <1>12 DEF SetRate, rtt, Accountable
  <1> QED BY <1>1, <1>3, <1>4, <1>5, <1>6, <1>7, <1>8, <1>9, <1>10, <1>11,
             <1>12 DEF Next, OnResponse

-------------------------------------------------------------------------------
(* The books: who is where, in numbers.                                      *)

LEMMA ModUnique ==
    ASSUME NEW a \in Nat, NEW b \in Nat \ {0}, NEW q \in Nat,
           NEW r \in 0..(b - 1), a = b * q + r
    PROVE  a % b = r
  OBVIOUS

\* The next number's remainder is one more, or the count starts again.
LEMMA ModNext ==
    ASSUME NEW a \in Nat, NEW b \in Nat \ {0}
    PROVE  /\ a % b \in 0..(b - 1)
           /\ (a + 1) % b = IF (a % b) + 1 = b THEN 0 ELSE (a % b) + 1
<1> DEFINE q == a \div b
           r == a % b
<1>1. q \in Nat /\ r \in 0..(b - 1)
  OBVIOUS
<1>2. r = a - b * q
  OBVIOUS
<1> HIDE DEF q, r
<1>3. a = b * q + r
  BY <1>1, <1>2
<1>4. CASE r + 1 = b
    <2>1. a + 1 = b * (q + 1) + 0 /\ a + 1 \in Nat /\ q + 1 \in Nat /\ 0 \in 0..(b - 1)
      BY <1>1, <1>3, <1>4
    <2>2. (a + 1) % b = 0
      BY <2>1, ModUnique
    <2> QED BY <1>1, <1>4, <2>2 DEF r
<1>5. CASE r + 1 # b
    <2>1. a + 1 = b * q + (r + 1) /\ r + 1 \in 0..(b - 1) /\ a + 1 \in Nat
      BY <1>1, <1>3, <1>5
    <2>2. (a + 1) % b = r + 1
      BY <1>1, <2>1, ModUnique
    <2> QED BY <1>1, <1>5, <2>2 DEF r
<1> QED BY <1>1, <1>4, <1>5 DEF r

\* T is S but for r.
ButFor(S, T, r) ==
    /\ Cardinality(S) \in Nat /\ Cardinality(T) \in Nat
    /\ Cardinality(T) = Cardinality(S) + (IF r \in T THEN 1 ELSE 0)
                                       - (IF r \in S THEN 1 ELSE 0)

LEMMA OneMoves ==
    ASSUME NEW S \in SUBSET Responders, NEW T \in SUBSET Responders,
           NEW r \in Responders,
           \A q \in Responders : q # r => (q \in S <=> q \in T)
    PROVE  ButFor(S, T, r)
  <1>1. IsFiniteSet(S) /\ IsFiniteSet(T)
    BY FS_Subset
  <1>2. Cardinality(S) \in Nat /\ Cardinality(T) \in Nat
    BY <1>1, FS_CardinalityType
  <1>3. CASE r \in S <=> r \in T
    <2>1. T = S
      BY <1>3
    <2> QED BY <1>2, <1>3, <2>1 DEF ButFor
  <1>4. CASE r \notin S /\ r \in T
    <2>1. T = S \union {r}
      BY <1>4
    <2>2. Cardinality(T) = Cardinality(S) + 1
      BY <1>1, <1>4, <2>1, FS_AddElement
    <2> QED BY <1>2, <1>4, <2>2 DEF ButFor
  <1>5. CASE r \in S /\ r \notin T
    <2>1. T = S \ {r}
      BY <1>5
    <2>2. Cardinality(T) = Cardinality(S) - 1
      BY <1>1, <1>5, <2>1, FS_RemoveElement
    <2> QED BY <1>2, <1>5, <2>2 DEF ButFor
  <1> QED BY <1>3, <1>4, <1>5

\* A step of r moves nobody else into one of the three sets or out of it.
LEMMA OthersStay ==
    ASSUME NEW r \in Responders,
           \A q \in Responders : q # r => pc'[q] = pc[q] /\ n'[q] = n[q]
    PROVE  /\ ButFor(Straddling, Straddling', r)
           /\ ButFor(Adjusting, Adjusting', r)
           /\ ButFor(Uncounted, Uncounted', r)
  <1>1. /\ Straddling \in SUBSET Responders /\ Straddling' \in SUBSET Responders
        /\ \A q \in Responders :
               q # r => (q \in Straddling <=> q \in Straddling')
    BY DEF Straddling
  <1>2. /\ Adjusting \in SUBSET Responders /\ Adjusting' \in SUBSET Responders
        /\ \A q \in Responders : q # r => (q \in Adjusting <=> q \in Adjusting')
    BY DEF Adjusting
  <1>3. /\ Uncounted \in SUBSET Responders /\ Uncounted' \in SUBSET Responders
        /\ \A q \in Responders : q # r => (q \in Uncounted <=> q \in Uncounted')
    BY DEF Uncounted
  <1> QED BY <1>1, <1>2, <1>3, OneMoves

\* A set of responders with a responder outside it is short of him at least.
LEMMA OneMissing ==
    ASSUME NEW S \in SUBSET Responders, NEW r \in Responders, r \notin S
    PROVE  Cardinality(S) < Cardinality(Responders)
  <1>1. S \in SUBSET (Responders \ {r})
    OBVIOUS
  <1>2. /\ IsFiniteSet(Responders \ {r})
        /\ Cardinality(Responders \ {r}) = Cardinality(Responders) - 1
    BY FS_RemoveElement
  <1>3. Cardinality(S) <= Cardinality(Responders \ {r})
    BY <1>1, <1>2, FS_Subset
  <1>4. Cardinality(S) \in Nat /\ Cardinality(Responders) \in Nat
    BY <1>1, <1>2, FS_Subset, FS_CardinalityType
  <1> QED BY <1>2, <1>3, <1>4

\* The steps that leave samples, losses and adjustments alone, and what they
\* leave alone besides.
Elsewhere(r) ==
    LoadSrtt(r) \/ FirstSrtt(r) \/ FirstVar(r) \/ LoadVar(r) \/ StoreSrtt(r)
      \/ StoreVar(r) \/ Adjust(r) \/ StoreRate(r)

LEMMA ElsewhereKeepsBooks ==
    ASSUME TypeOK, NEW r \in Responders, Elsewhere(r)
    PROVE  /\ UNCHANGED <<samples, losses, calls, adjustments>>
           /\ pc[r] # "reset_losses" /\ pc'[r] # "reset_losses"
           /\ r \notin Straddling /\ r \notin Straddling'
           /\ r \notin Adjusting /\ r \notin Adjusting'
           /\ r \in Uncounted <=> r \in Uncounted'
           /\ \A q \in Responders : q # r => pc'[q] = pc[q] /\ n'[q] = n[q]
  <1> USE DEF Straddling, Adjusting, Uncounted, Averaging, TypeOK, Goto, ghosts,
              window
  <1>1. CASE LoadSrtt(r) \/ FirstSrtt(r) \/ FirstVar(r)
    BY <1>1 DEF LoadSrtt, FirstSrtt, FirstVar
  <1>2. CASE LoadVar(r) \/ StoreSrtt(r) \/ StoreVar(r)
    BY <1>2 DEF LoadVar, StoreSrtt, StoreVar
  <1>3. AfterAdjust(r) \in {"reset_samples", "idle"}
    BY DEF AfterAdjust
  <1>4. CASE StoreRate(r)
    BY <1>3, <1>4 DEF StoreRate
  <1>5. CASE Adjust(r)
    <2> DEFINE next == NextRate(old[r], n[r], rate)
    <2>1. /\ Goto(r, "adjust", IF next # rate THEN "store_rate" ELSE AfterAdjust(r))
          /\ UNCHANGED <<rate, rtt, window, ghosts>>
      BY <1>5 DEF Adjust
    <2> HIDE DEF next
    <2> QED BY <1>3, <2>1
  <1> QED BY <1>1, <1>2, <1>4, <1>5 DEF Elsewhere

LEMMA LossInitially == Init => LossInv
  <1> SUFFICES ASSUME Init PROVE LossInv
    OBVIOUS
  <1>1. Straddling = {}
    BY DEF Init, Straddling
  <1>2. PICK r \in Responders : TRUE
    OBVIOUS
  <1>3. Cardinality(Straddling) < Cardinality(Responders)
    BY <1>1, <1>2, OneMissing
  <1>4. Cardinality(Straddling) = 0 /\ Cardinality(Responders) \in Nat
    BY <1>1, FS_EmptySet, FS_CardinalityType
  <1> QED BY <1>3, <1>4 DEF Init, LossInv

\* Losses and straddlers never gain on samples, and the last reset to finish
\* leaves no loss behind and one responder who straddles nothing.
LEMMA LossStep == TypeOK /\ LossInv /\ [Next]_vars => LossInv'
  <1> SUFFICES ASSUME TypeOK, LossInv, [Next]_vars PROVE LossInv'
    OBVIOUS
  <1>0. Cardinality(Responders) \in Nat /\ samples \in Nat /\ losses \in Nat
    BY FS_CardinalityType DEF TypeOK
  <1>1. CASE UNCHANGED vars
    BY <1>1 DEF vars, LossInv, Straddling
  <1>2. ASSUME NEW v \in SetRates, SetRate(v) PROVE LossInv'
    BY <1>2 DEF SetRate, window, LossInv, Straddling
  <1>3. ASSUME NEW r \in Responders, NEW c \in Call, Begin(r, c)
        PROVE  LossInv'
    <2>1. /\ samples' = samples /\ losses' = losses /\ pc[r] = "idle"
          /\ r \notin Straddling /\ r \notin Straddling'
          /\ \A q \in Responders : q # r => pc'[q] = pc[q] /\ n'[q] = n[q]
      BY <1>3 DEF Begin, window, Straddling, TypeOK
    <2>2. ButFor(Straddling, Straddling', r)
      BY <2>1, OthersStay
    <2>3. Cardinality(Straddling') = Cardinality(Straddling)
      BY <2>1, <2>2 DEF ButFor
    <2> QED BY <1>0, <2>1, <2>3 DEF LossInv
  <1>4. ASSUME NEW r \in Responders, Elsewhere(r) PROVE LossInv'
    <2>1. /\ samples' = samples /\ losses' = losses /\ pc[r] # "reset_losses"
          /\ r \notin Straddling /\ r \notin Straddling'
          /\ \A q \in Responders : q # r => pc'[q] = pc[q] /\ n'[q] = n[q]
      BY <1>4, ElsewhereKeepsBooks
    <2>2. ButFor(Straddling, Straddling', r)
      BY <2>1, OthersStay
    <2>3. Cardinality(Straddling') = Cardinality(Straddling)
      BY <2>1, <2>2 DEF ButFor
    <2> QED BY <1>0, <2>1, <2>3 DEF LossInv
  <1>5. ASSUME NEW r \in Responders, Count(r) PROVE LossInv'
    <2>1. /\ samples' = samples + 1 /\ losses' = losses /\ pc[r] = "count"
          /\ r \notin Straddling
          /\ \A q \in Responders : q # r => pc'[q] = pc[q] /\ n'[q] = n[q]
      BY <1>5 DEF Count, CountedAs, Goto, Straddling, TypeOK
    <2>2. ButFor(Straddling, Straddling', r)
      BY <2>1, OthersStay
    <2>3. /\ Cardinality(Straddling) \in Nat /\ Cardinality(Straddling') \in Nat
          /\ Cardinality(Straddling') <= Cardinality(Straddling) + 1
      BY <2>1, <2>2 DEF ButFor
    <2> QED BY <1>0, <2>1, <2>3 DEF LossInv
  <1>6. ASSUME NEW r \in Responders, CountLoss(r) PROVE LossInv'
    <2>1. /\ samples' = samples /\ losses' = losses + 1 /\ pc[r] = "loss"
          /\ r \in Straddling /\ r \notin Straddling'
          /\ \A q \in Responders : q # r => pc'[q] = pc[q] /\ n'[q] = n[q]
      BY <1>6 DEF CountLoss, Goto, AfterCount, Straddling, TypeOK
    <2>2. ButFor(Straddling, Straddling', r)
      BY <2>1, OthersStay
    <2>3. /\ Cardinality(Straddling) \in Nat
          /\ Cardinality(Straddling') = Cardinality(Straddling) - 1
      BY <2>1, <2>2 DEF ButFor
    <2> QED BY <1>0, <2>1, <2>3 DEF LossInv
  <1>7. ASSUME NEW r \in Responders, LoadLosses(r) PROVE LossInv'
    <2>1. /\ samples' = samples /\ losses' = losses /\ pc[r] = "load_losses"
          /\ r \notin Straddling /\ r \notin Straddling'
          /\ \A q \in Responders : q # r => pc'[q] = pc[q] /\ n'[q] = n[q]
      BY <1>7 DEF LoadLosses, window, Goto, Straddling, TypeOK
    <2>2. ButFor(Straddling, Straddling', r)
      BY <2>1, OthersStay
    <2>3. Cardinality(Straddling') = Cardinality(Straddling)
      BY <2>1, <2>2 DEF ButFor
    <2> QED BY <1>0, <2>1, <2>3 DEF LossInv
  <1>8. ASSUME NEW r \in Responders, ResetSamples(r) PROVE LossInv'
    <2>1. pc'[r] = "reset_losses"
      BY <1>8 DEF ResetSamples, Goto, TypeOK
    <2> QED BY <2>1 DEF LossInv
  <1>9. ASSUME NEW r \in Responders, ResetLosses(r) PROVE LossInv'
    <2>1. samples' = samples /\ losses' = 0 /\ pc'[r] = "idle"
      BY <1>9 DEF ResetLosses, Goto, TypeOK
    <2>2. Straddling' \in SUBSET Responders /\ r \notin Straddling'
      BY <2>1 DEF Straddling
    <2>3. IsFiniteSet(Straddling')
      BY <2>2, FS_Subset
    <2>4. /\ Cardinality(Straddling') \in Nat
          /\ Cardinality(Straddling') < Cardinality(Responders)
      BY <2>2, <2>3, OneMissing, FS_CardinalityType
    <2> QED BY <1>0, <2>1, <2>4 DEF LossInv
  <1> QED BY <1>1, <1>2, <1>3, <1>4, <1>5, <1>6, <1>7, <1>8, <1>9
          DEF Next, OnResponse, Elsewhere

-------------------------------------------------------------------------------

LEMMA SpacingInitially == Init => SpacingInv
  <1> SUFFICES ASSUME Init PROVE SpacingInv
    OBVIOUS
  <1>1. Adjusting = {} /\ Uncounted = {}
    BY DEF Init, Adjusting, Uncounted, Averaging
  <1>2. 0 % AdjustEvery = 0
    OBVIOUS
  <1> QED BY <1>1, <1>2, FS_EmptySet DEF Init, SpacingInv

\* The accounts balance if a call pays for what a step adds to the samples in
\* sight, and a full batch for one more adjustment.
LEMMA Paid ==
    ASSUME NEW x \in Nat, NEW y \in Nat, NEW p \in Nat, NEW q \in Nat,
           NEW c \in Nat, NEW d \in Nat, x * AdjustEvery + p <= c,
           \/ y = x /\ q + c <= p + d
           \/ y = x + 1 /\ q + AdjustEvery + c <= p + d
    PROVE  y * AdjustEvery + q <= d
  <1>1. /\ (x + 1) * AdjustEvery = x * AdjustEvery + AdjustEvery
        /\ x * AdjustEvery \in Nat
    OBVIOUS
  <1> DEFINE z == x * AdjustEvery
  <1>2. /\ y * AdjustEvery = IF y = x THEN z ELSE z + AdjustEvery
        /\ z \in Nat /\ z + p <= c
    BY <1>1
  <1> HIDE DEF z
  <1> QED BY <1>2

\* Whoever completes a batch of AdjustEvery samples spends it on one adjustment.
LEMMA SpacingStep ==
    TypeOK /\ TypeOK' /\ SpacingInv /\ [Next]_vars => SpacingInv'
  <1> SUFFICES ASSUME TypeOK, TypeOK', SpacingInv, [Next]_vars
               PROVE  SpacingInv'
    OBVIOUS
  <1> DEFINE part == samples % AdjustEvery
             due == adjustments + Cardinality(Adjusting)
             open == part + Cardinality(Uncounted)
  <1>1. /\ part \in 0..(AdjustEvery - 1)
        /\ (samples + 1) % AdjustEvery =
               IF part + 1 = AdjustEvery THEN 0 ELSE part + 1
    <2>1. samples \in Nat
      BY DEF TypeOK
    <2> QED BY <2>1, ModNext
  <1>2. 0 % AdjustEvery = 0 /\ part' \in Nat
    <2>1. samples' \in Nat
      BY DEF TypeOK
    <2>2. part' \in 0..(AdjustEvery - 1)
      BY <2>1, ModNext
    <2> QED BY <2>2
  <1>3. /\ Cardinality(Adjusting) \in Nat /\ Cardinality(Adjusting') \in Nat
        /\ Cardinality(Uncounted) \in Nat /\ Cardinality(Uncounted') \in Nat
    <2>1. /\ IsFiniteSet(Adjusting) /\ IsFiniteSet(Adjusting')
          /\ IsFiniteSet(Uncounted) /\ IsFiniteSet(Uncounted')
      BY FS_Subset DEF Adjusting, Uncounted
    <2> QED BY <2>1, FS_CardinalityType
  <1>4. /\ due \in Nat /\ due' \in Nat /\ open \in Nat /\ open' \in Nat
        /\ calls \in Nat /\ calls' \in Nat
    BY <1>1, <1>2, <1>3 DEF TypeOK
  <1>5. /\ SpacingInv <=> due * AdjustEvery + open <= calls
        /\ SpacingInv' <=> due' * AdjustEvery + open' <= calls'
    BY <1>1, <1>2, <1>3, <1>4 DEF SpacingInv
  <1> DEFINE Pays ==
                 \/ due' = due /\ open' + calls <= open + calls'
                 \/ due' = due + 1 /\ open' + AdjustEvery + calls <= open + calls'
  <1>6. SUFFICES Pays
    <2> HIDE DEF due, open
    <2> QED BY <1>4, <1>5, <1>6, Paid
  <1>7. CASE UNCHANGED vars
    BY <1>4, <1>7 DEF vars, Adjusting, Uncounted
  <1>8. ASSUME NEW v \in SetRates, SetRate(v) PROVE Pays
    <2>1. /\ Adjusting' = Adjusting /\ Uncounted' = Uncounted
          /\ samples' = samples /\ adjustments' = adjustments
          /\ calls' = calls + 1
      BY <1>8 DEF SetRate, window, Adjusting, Uncounted
    <2>2. due' = due /\ open' = open
      BY <2>1
    <2> HIDE DEF due, open
    <2> QED BY <1>4, <2>1, <2>2
  <1>9. ASSUME NEW r \in Responders, NEW c \in Call, Begin(r, c) PROVE Pays
    <2>1. /\ samples' = samples /\ adjustments' = adjustments
          /\ calls' = calls + 1
          /\ r \notin Adjusting /\ r \notin Adjusting'
          /\ r \notin Uncounted /\ r \in Uncounted'
          /\ \A q \in Responders : q # r => pc'[q] = pc[q] /\ n'[q] = n[q]
      BY <1>9 DEF Begin, window, Adjusting, Uncounted, Averaging, TypeOK
    <2>2. ButFor(Adjusting, Adjusting', r) /\ ButFor(Uncounted, Uncounted', r)
      BY <2>1, OthersStay
    <2>3. due' = due /\ open' = open + 1
      BY <1>1, <2>1, <2>2 DEF ButFor
    <2> HIDE DEF due, open
    <2> QED BY <1>4, <2>1, <2>3
  <1>10. ASSUME NEW r \in Responders, Elsewhere(r) PROVE Pays
    <2>1. /\ samples' = samples /\ adjustments' = adjustments
          /\ calls' = calls
          /\ r \notin Adjusting /\ r \notin Adjusting'
          /\ r \in Uncounted <=> r \in Uncounted'
          /\ \A q \in Responders : q # r => pc'[q] = pc[q] /\ n'[q] = n[q]
      BY <1>10, ElsewhereKeepsBooks
    <2>2. ButFor(Adjusting, Adjusting', r) /\ ButFor(Uncounted, Uncounted', r)
      BY <2>1, OthersStay
    <2>3. due' = due /\ open' = open
      BY <1>1, <2>1, <2>2 DEF ButFor
    <2> HIDE DEF due, open
    <2> QED BY <1>4, <2>1, <2>3
  <1>11. ASSUME NEW r \in Responders, Count(r) PROVE Pays
    <2> DEFINE full == (samples + 1) % AdjustEvery = 0
    <2>1. /\ samples' = samples + 1 /\ adjustments' = adjustments
          /\ calls' = calls /\ pc[r] = "count"
          /\ r \notin Adjusting /\ r \in Uncounted
          /\ \A q \in Responders : q # r => pc'[q] = pc[q] /\ n'[q] = n[q]
      BY <1>11 DEF Count, CountedAs, Goto, ghosts, Adjusting, Uncounted, TypeOK
    <2>2. /\ pc'[r] \in {"loss", "load_losses", "idle"}
          /\ full <=> r \in Adjusting'
      <3>1. CASE call[r].loss
        <4>1. pc'[r] = "loss" /\ n'[r] = samples + 1
          BY <1>11, <3>1 DEF Count, CountedAs, TypeOK
        <4> QED BY <4>1 DEF Adjusting
      <3>2. CASE ~call[r].loss /\ full
        <4>1. pc'[r] = "load_losses"
          BY <1>11, <3>2 DEF Count, CountedAs, AfterCount, TypeOK
        <4> QED BY <3>2, <4>1 DEF Adjusting
      <3>3. CASE ~call[r].loss /\ ~full
        <4>1. pc'[r] = "idle"
          BY <1>11, <3>3 DEF Count, CountedAs, AfterCount, Goto, TypeOK
        <4> QED BY <3>3, <4>1 DEF Adjusting
      <3> QED BY <3>1, <3>2, <3>3
    <2>3. r \notin Uncounted'
      BY <2>2 DEF Uncounted, Averaging
    <2>4. ButFor(Adjusting, Adjusting', r) /\ ButFor(Uncounted, Uncounted', r)
      BY <2>1, OthersStay
    <2>5. part' = IF full THEN 0 ELSE part + 1
      BY <1>1, <2>1
    <2>6. full => part + 1 = AdjustEvery
      BY <1>1
    <2> HIDE DEF full, part
    <2>7. /\ adjustments \in Nat
          /\ Cardinality(Uncounted) = Cardinality(Uncounted') + 1
          /\ full => Cardinality(Adjusting') = Cardinality(Adjusting) + 1
          /\ ~full => Cardinality(Adjusting') = Cardinality(Adjusting)
      BY <1>3, <2>1, <2>2, <2>3, <2>4 DEF ButFor, TypeOK
    <2>8. /\ full => due' = due + 1 /\ open' + AdjustEvery = open
          /\ ~full => due' = due /\ open' = open
      BY <1>1, <1>3, <2>1, <2>5, <2>6, <2>7
    <2> HIDE DEF due, open
    <2> QED BY <1>4, <2>1, <2>8
  <1>12. ASSUME NEW r \in Responders, CountLoss(r) PROVE Pays
    <2>1. /\ samples' = samples /\ adjustments' = adjustments /\ calls' = calls
          /\ pc[r] = "loss" /\ pc'[r] = AfterCount(n[r])
          /\ \A q \in Responders : q # r => pc'[q] = pc[q] /\ n'[q] = n[q]
      BY <1>12 DEF CountLoss, Goto, ghosts, TypeOK
    <2>2. /\ r \in Adjusting <=> r \in Adjusting'
          /\ r \notin Uncounted /\ r \notin Uncounted'
      BY <2>1 DEF AfterCount, Adjusting, Uncounted, Averaging
    <2>3. ButFor(Adjusting, Adjusting', r) /\ ButFor(Uncounted, Uncounted', r)
      BY <2>1, OthersStay
    <2>4. due' = due /\ open' = open
      BY <1>1, <2>1, <2>2, <2>3 DEF ButFor
    <2> HIDE DEF due, open
    <2> QED BY <1>4, <2>1, <2>4
  <1>13. ASSUME NEW r \in Responders, LoadLosses(r) PROVE Pays
    <2>1. /\ samples' = samples /\ adjustments' = adjustments + 1
          /\ calls' = calls
          /\ r \in Adjusting /\ r \notin Adjusting'
          /\ r \notin Uncounted /\ r \notin Uncounted'
          /\ \A q \in Responders : q # r => pc'[q] = pc[q] /\ n'[q] = n[q]
      BY <1>13 DEF LoadLosses, Goto, window, Adjusting, Uncounted, Averaging,
                   TypeOK
    <2>2. ButFor(Adjusting, Adjusting', r) /\ ButFor(Uncounted, Uncounted', r)
      BY <2>1, OthersStay
    <2>3. due' = due /\ open' = open
      BY <1>1, <2>1, <2>2 DEF ButFor, TypeOK
    <2> HIDE DEF due, open
    <2> QED BY <1>4, <2>1, <2>3
  <1>14. ASSUME NEW r \in Responders, ResetSamples(r) \/ ResetLosses(r)
         PROVE  Pays
    <2>1. /\ samples' \in {0, samples} /\ adjustments' = adjustments
          /\ calls' = calls
          /\ r \notin Adjusting /\ r \notin Adjusting'
          /\ r \notin Uncounted /\ r \notin Uncounted'
          /\ \A q \in Responders : q # r => pc'[q] = pc[q] /\ n'[q] = n[q]
      BY <1>14 DEF ResetSamples, ResetLosses, Goto, ghosts, Adjusting,
                   Uncounted, Averaging, TypeOK
    <2>2. ButFor(Adjusting, Adjusting', r) /\ ButFor(Uncounted, Uncounted', r)
      BY <2>1, OthersStay
    <2>3. part' \in {0, part}
      BY <1>2, <2>1
    <2>4. due' = due /\ open' <= open
      BY <1>1, <2>1, <2>2, <2>3 DEF ButFor
    <2> HIDE DEF due, open
    <2> QED BY <1>4, <2>1, <2>4
  <1> HIDE DEF Pays
  <1> QED BY <1>7, <1>8, <1>9, <1>10, <1>11, <1>12, <1>13, <1>14
          DEF Next, OnResponse, Elsewhere

-------------------------------------------------------------------------------
(* Theorems.                                                                 *)

AdaptiveInv == TypeOK /\ RateInv /\ SrttInv /\ LossInv /\ SpacingInv

\* The invariant of on_response() and set_rate(): types, the rate and the one
\* on its way to be stored, the averages and the sample in each responder's
\* hands, and the two books that count responders between two steps.
THEOREM AdaptiveInvariant == Spec => []AdaptiveInv
  <1>1. Init => AdaptiveInv
    <2>1. Init => RateInv
      BY DEF Init, RateInv, RateInRange, LeastRate, MostRate, AtLeast, AtMost
    <2>2. Init => SrttInv
      BY DEF Init, SrttInv, Averaging
    <2> QED BY <2>1, <2>2, InitialTypes, LossInitially, SpacingInitially
            DEF AdaptiveInv
  <1>2. AdaptiveInv /\ [Next]_vars => AdaptiveInv'
    BY TypesStep, RateStep, SrttStep, LossStep, SpacingStep DEF AdaptiveInv
  <1> QED BY <1>1, <1>2, PTL DEF Spec

\* Every member of RateLimiter::on_response() keeps its type.
THEOREM AdaptiveTypes == Spec => []TypeOK
  BY AdaptiveInvariant, PTL DEF AdaptiveInv

\* rate_ stays positive, and at most max_rate_, 1.0 or a rate set_rate() was
\* called with, for any arguments of set_rate() and any rates the limiter is
\* constructed from, whatever adjustments and set_rate() store over each other.
THEOREM RateKept == Spec => []RateInRange
  BY AdaptiveInvariant, PTL DEF AdaptiveInv, RateInv

\* srtt_ms_ stays between two round-trip times that were measured.
THEOREM SrttKept == Spec => []SrttWithinSamples
  <1>1. SrttInv => SrttWithinSamples
    BY DEF SrttInv, SrttWithinSamples, Accountable
  <1> QED BY <1>1, AdaptiveInvariant, PTL DEF AdaptiveInv

\* Away from a reset, loss_count_ exceeds sample_count_ by fewer than there are
\* responders, however many windows have gone by.
THEOREM LossesKept == Spec => []LossesAccounted
  <1>1. TypeOK /\ LossInv => LossesAccounted
    <2> SUFFICES ASSUME TypeOK, LossInv,
                        \A r \in Responders : pc[r] # "reset_losses"
                 PROVE  losses < samples + Cardinality(Responders)
      BY DEF LossesAccounted
    <2>1. IsFiniteSet(Straddling)
      BY FS_Subset DEF Straddling
    <2>2. Cardinality(Straddling) \in Nat /\ Cardinality(Responders) \in Nat
      BY <2>1, FS_CardinalityType
    <2> QED BY <2>2 DEF LossInv, TypeOK
  <1> QED BY <1>1, AdaptiveInvariant, PTL DEF AdaptiveInv

\* There are AdjustEvery calls to every adjustment of the rate at least: no two
\* responders adjust for one batch, whatever resets in between.
THEOREM SpacingKept == Spec => []AdjustmentsSpaced
  <1>1. TypeOK /\ SpacingInv => AdjustmentsSpaced
    <2> SUFFICES ASSUME TypeOK, SpacingInv PROVE AdjustmentsSpaced
      OBVIOUS
    <2>1. IsFiniteSet(Adjusting) /\ IsFiniteSet(Uncounted)
      BY FS_Subset DEF Adjusting, Uncounted
    <2>2. /\ Cardinality(Adjusting) \in Nat /\ Cardinality(Uncounted) \in Nat
          /\ samples % AdjustEvery \in 0..(AdjustEvery - 1)
      BY <2>1, FS_CardinalityType, ModNext DEF TypeOK
    <2> DEFINE a == Cardinality(Adjusting)
    <2>3. /\ (adjustments + a) * AdjustEvery
                 = adjustments * AdjustEvery + a * AdjustEvery
          /\ a * AdjustEvery \in Nat /\ adjustments * AdjustEvery \in Nat
      BY <2>2 DEF TypeOK
    <2> QED BY <2>2, <2>3 DEF SpacingInv, AdjustmentsSpaced, TypeOK
  <1> QED BY <1>1, AdaptiveInvariant, PTL DEF AdaptiveInv
===============================================================================
