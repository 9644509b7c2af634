--------------------------- MODULE RateLimiterProofs ---------------------------
(*****************************************************************************)
(* RateLimiter, proved for every number of coroutines and workers, every     *)
(* capacity and every set of rates: types, the capacity bound (which no race *)
(* breaks), and, as long as the strand serialises acquire(), the budget and  *)
(* that it implements TokenBucket: each step is a credit, an elapsed tick, a *)
(* grant, or nothing a client can see.                                       *)
(*****************************************************************************)
EXTENDS MCRateLimiter, FiniteSetTheorems, TLAPS

LEMMA HorizonType == Horizon \in Nat \ {0}
BY HorizonAssumption

USE CoroutinesAssumption, ThreadsAssumption, TokenAssumption, CapAssumption,
    MaxRateAssumption, RatesAssumption, HorizonType

-------------------------------------------------------------------------------
(* Types.                                                                    *)

LEMMA OlderType ==
    ASSUME NEW a \in 0..Horizon
    PROVE  Older(a) \in 0..Horizon
BY DEF Older, AtMost

LEMMA QuotientType ==
    ASSUME NEW a \in Nat, NEW b \in Nat \ {0}
    PROVE  a \div b \in Nat
OBVIOUS

\* Every variable keeps its type; tokens_ is an Int, since two workers may both
\* take the last token.
THEOREM TypeCorrect == Spec => []TypeOK
<1>1. Init => TypeOK
  BY DEF Init, TypeOK, Locs, RunLocs
<1>2. TypeOK /\ [Next]_vars => TypeOK'
  <2> SUFFICES ASSUME TypeOK, [Next]_vars
               PROVE  TypeOK'
    OBVIOUS
  <2> USE DEF TypeOK, Goto, Locs, RunLocs, locals, bucket
  <2>1. CASE Tick
    <3>1. /\ Older(clock) \in 0..Horizon
          /\ Older(sinceRefill) \in 0..Horizon
          /\ \A c \in Coroutines : Older(age[c]) \in 0..Horizon
      BY OlderType
    <3>2. age' \in [Coroutines -> 0..Horizon]
      BY <2>1, <3>1 DEF Tick
    <3>3. timer' \in [Coroutines -> Nat]
      BY <2>1 DEF Tick, NonNegative
    <3>4. QED
      BY <2>1, <3>1, <3>2, <3>3 DEF Tick
  <2>2. CASE ChangeRate
    BY <2>2 DEF ChangeRate
  <2>3. ASSUME NEW c \in Coroutines, Step(c)
        PROVE  TypeOK'
    <3>1. CASE Dispatch(c)
      BY <3>1 DEF Dispatch
    <3>2. CASE EnterStrand(c)
      BY <3>2, SMTT(30) DEF EnterStrand
    <3>3. CASE Sample(c)
      BY <3>3 DEF Sample
    <3>4. CASE LoadTokens(c)
      <4>1. AtMost(CapQ, tokens + dt[c] * rate) \in Int
        BY DEF AtMost
      <4>2. QED
        BY <3>4, <4>1, SMTT(30) DEF LoadTokens
    <3>5. CASE StoreTokens(c)
      BY <3>5 DEF StoreTokens
    <3>6. CASE Stamp(c)
      BY <3>6 DEF Stamp
    <3>7. CASE Check(c)
      BY <3>7 DEF Check
    <3>8. CASE TakeLoad(c)
      BY <3>8 DEF TakeLoad
    <3>9. CASE TakeStore(c)
      BY <3>9 DEF TakeStore
    <3>10. CASE Suspend(c)
      <4>1. NonNegative(TokenQ - tokens) \in Nat
        BY DEF NonNegative
      <4>2. NonNegative(TokenQ - tokens) \div rate \in Nat
        <5>1. rate \in Nat \ {0}
          BY RatesAssumption, MaxRateAssumption DEF TypeOK
        <5>2. QED
          BY <4>1, <5>1, QuotientType
      <4>3. QED
        BY <3>10, <4>2 DEF Suspend
    <3>11. CASE Resume(c)
      BY <3>11 DEF Resume
    <3>12. QED
      BY <2>3, <3>1, <3>2, <3>3, <3>4, <3>5, <3>6, <3>7, <3>8, <3>9, <3>10,
         <3>11 DEF Step
  <2>4. CASE UNCHANGED vars
    BY <2>4 DEF vars
  <2>5. QED
    BY <2>1, <2>2, <2>3, <2>4 DEF Next
<1>3. QED
  BY <1>1, <1>2, PTL DEF Spec

-------------------------------------------------------------------------------
(* Capacity.                                                                 *)

\* Whatever is on its way to tokens_ fits the bucket as well.
CapInv == tokens <= CapQ /\ \A c \in Coroutines : seen[c] <= CapQ

\* refill_locked() cannot overfill the bucket, and neither can a race on it:
\* every value any worker is about to store is bounded by capacity_.
THEOREM CapacityKept == Spec => []NeverOverfull
<1>1. Init => CapInv
  BY DEF Init, CapInv
<1>2. TypeOK /\ CapInv /\ [Next]_vars => CapInv'
  <2> SUFFICES ASSUME TypeOK, CapInv, [Next]_vars
               PROVE  CapInv'
    OBVIOUS
  <2> USE DEF TypeOK, CapInv, Goto, bucket, locals
  <2>1. CASE Tick
    BY <2>1 DEF Tick
  <2>2. CASE ChangeRate
    BY <2>2 DEF ChangeRate
  <2>3. ASSUME NEW c \in Coroutines, LoadTokens(c)
        PROVE  CapInv'
    <3>1. AtMost(CapQ, tokens + dt[c] * rate) <= CapQ
      BY DEF AtMost
    <3>2. QED
      BY <2>3, <3>1 DEF LoadTokens
  <2>4. ASSUME NEW c \in Coroutines, StoreTokens(c) \/ TakeStore(c)
        PROVE  CapInv'
    <3>1. CASE StoreTokens(c)
      BY <3>1 DEF StoreTokens
    <3>2. CASE TakeStore(c)
      BY <3>2 DEF TakeStore
    <3>3. QED
      BY <2>4, <3>1, <3>2
  <2>5. ASSUME NEW c \in Coroutines, TakeLoad(c)
        PROVE  CapInv'
    BY <2>5 DEF TakeLoad
  <2>6. ASSUME NEW c \in Coroutines,
               \/ Dispatch(c) \/ EnterStrand(c) \/ Sample(c) \/ Stamp(c)
               \/ Check(c) \/ Suspend(c) \/ Resume(c)
        PROVE  CapInv'
    BY <2>6 DEF Dispatch, EnterStrand, Sample, Stamp, Check, Suspend, Resume
  <2>7. CASE UNCHANGED vars
    BY <2>7 DEF vars
  <2>8. QED
    BY <2>1, <2>2, <2>3, <2>4, <2>5, <2>6, <2>7 DEF Next, Step
<1>3. CapInv => NeverOverfull
  BY DEF CapInv, NeverOverfull
<1>4. QED
  BY <1>1, <1>2, <1>3, TypeCorrect, PTL DEF Spec

-------------------------------------------------------------------------------
(* The budget: what a tick earns and what a token costs.                     *)

LEMMA EarnedType == \A a \in 0..Horizon : Earned(a) \in Nat
BY DEF Earned

\* A tick earns MaxRate until an age stops at Horizon, then nothing.
LEMMA EarnedByTick ==
    ASSUME NEW a \in 0..Horizon
    PROVE  /\ Earned(Older(a)) <= Earned(a) + MaxRate
           /\ a < Horizon => Earned(Older(a)) = Earned(a) + MaxRate
<1>1. MaxRate * (a + 1) = MaxRate * a + MaxRate
  OBVIOUS
<1>2. Older(a) = a + 1 \/ Older(a) = a
  BY DEF Older, AtMost
<1>3. a < Horizon => Older(a) = a + 1
  BY DEF Older, AtMost
<1>4. QED
  BY <1>1, <1>2, <1>3 DEF Earned

\* A refill at any rate pays no more than MaxRate a tick.
LEMMA RefillBound ==
    ASSUME NEW n \in Nat, NEW r \in Rates, NEW t \in Int
    PROVE  AtMost(CapQ, t + n * r) <= t + Earned(n)
<1>1. r \in Nat /\ r <= MaxRate
  OBVIOUS
<1>2. n * r <= n * MaxRate
  BY <1>1
<1>3. n * MaxRate = MaxRate * n
  OBVIOUS
<1>4. QED
  BY <1>1, <1>2, <1>3 DEF AtMost, Earned

LEMMA GrantedFinite == IsFiniteSet(Granted) /\ Cardinality(Granted) \in Nat
BY FS_Subset, FS_CardinalityType DEF Granted

LEMMA SpentType == Spent \in Int
<1>1. Cardinality(Granted) \in Nat
  BY GrantedFinite
<1>2. QED
  BY <1>1 DEF Spent

LEMMA AllowanceType == TypeOK => Allowance \in Int
BY SpentType, EarnedType DEF TypeOK, Allowance

\* Handing out a token spends TokenQ quanta.
LEMMA GrantSpends ==
    ASSUME TypeOK, NEW c \in Coroutines, TakeStore(c)
    PROVE  Spent' = Spent + TokenQ
<1>1. Granted' = Granted \union {c} /\ c \notin Granted
  BY DEF TypeOK, TakeStore, Goto, Granted
<1>2. Cardinality(Granted') = Cardinality(Granted) + 1
  BY <1>1, GrantedFinite, FS_AddElement
<1>3. Cardinality(Granted) \in Nat
  BY GrantedFinite
<1>4. (Cardinality(Granted) + 1) * TokenQ = Cardinality(Granted) * TokenQ + TokenQ
  BY <1>3
<1>5. QED
  BY <1>2, <1>4 DEF Spent

\* A step of acquire() that grants nothing leaves the allowance as it is.
LEMMA AllowanceKept ==
    ASSUME TypeOK, NEW c \in Coroutines, NEW l, loc[c] # "done", l # "done",
           loc' = [loc EXCEPT ![c] = l], UNCHANGED clock
    PROVE  Allowance' = Allowance
<1>1. Granted' = Granted
  BY DEF TypeOK, Granted
<1>2. QED
  BY <1>1 DEF Allowance, Spent

-------------------------------------------------------------------------------
(* The budget: a serial acquire() has one coroutine inside at most.          *)

\* Nobody is inside when a serial acquire() lets a coroutine in.
LEMMA EntersAlone ==
    ASSUME TypeOK, Serial', NEW c \in Coroutines, EnterStrand(c) \/ Resume(c)
    PROVE  Running = {}
<1>1. IsFiniteSet(Running)
  BY FS_Subset DEF Running
<1>2. CASE threads = 1
  <2>1. Cardinality(Running) < 1
    BY <1>2 DEF EnterStrand, Resume, WorkerIdle
  <2>2. Cardinality(Running) = 0
    BY <1>1, <2>1, FS_CardinalityType
  <2>3. QED
    BY <1>1, <2>2, FS_EmptySet
<1>3. CASE threads # 1
  <2>1. \A d \in Coroutines : ~offStrand'[d]
    BY <1>3 DEF Serial, EnterStrand, Resume
  <2>2. ~Resume(c)
    BY <2>1 DEF Resume, TypeOK
  <2>3. EnterStrand(c) /\ offStrand' = offStrand
    BY <2>2 DEF EnterStrand
  <2>4. QED
    BY <2>1, <2>3 DEF EnterStrand, StrandFree, Running
<1>4. QED
  BY <1>2, <1>3

\* A coroutine never returns to the strand: what is serial was serial.
LEMMA SerialBefore ==
    ASSUME TypeOK, [Next]_vars, Serial'
    PROVE  Serial
<1> USE DEF Serial, TypeOK
<1>1. threads' = threads
  BY DEF Next, Step, Tick, ChangeRate, Dispatch, EnterStrand, Sample,
         LoadTokens, StoreTokens, Stamp, Check, TakeLoad, TakeStore, Suspend,
         Resume, vars
<1>2. ASSUME NEW c \in Coroutines, Resume(c), NEW d \in Coroutines,
             offStrand[d]
      PROVE  offStrand'[d]
  BY <1>2 DEF Resume
<1>3. CASE \E c \in Coroutines : Resume(c)
  BY <1>1, <1>2, <1>3
<1>4. CASE ~\E c \in Coroutines : Resume(c)
  <2>1. offStrand' = offStrand
    BY <1>4 DEF Next, Step, Tick, ChangeRate, Dispatch, EnterStrand, Sample,
                LoadTokens, StoreTokens, Stamp, Check, TakeLoad, TakeStore,
                Suspend, vars
  <2>2. QED
    BY <1>1, <2>1
<1>5. QED
  BY <1>3, <1>4

LEMMA SerializedKept ==
    ASSUME TypeOK, [Next]_vars, Serial', Serialized
    PROVE  Serialized'
<1> USE DEF TypeOK, Serialized, Running, RunLocs, Goto
<1>1. ASSUME NEW c \in Coroutines, EnterStrand(c) \/ Resume(c)
      PROVE  Serialized'
  <2>1. Running = {}
    BY <1>1, EntersAlone
  <2>2. loc' = [loc EXCEPT ![c] = "sample"]
    BY <1>1 DEF EnterStrand, Resume
  <2>3. QED
    BY <2>1, <2>2
<1>2. ASSUME NEW c \in Coroutines, Dispatch(c)
      PROVE  Serialized'
  BY <1>2 DEF Dispatch
<1>3. ASSUME NEW c \in Coroutines,
             \/ Sample(c) \/ LoadTokens(c) \/ StoreTokens(c) \/ Stamp(c)
             \/ Check(c) \/ TakeLoad(c) \/ TakeStore(c) \/ Suspend(c)
      PROVE  Serialized'
  <2>1. c \in Running /\ \E l \in Locs : loc' = [loc EXCEPT ![c] = l]
    BY <1>3 DEF Sample, LoadTokens, StoreTokens, Stamp, Check, TakeLoad,
                TakeStore, Suspend, Locs
  <2>2. \A d \in Coroutines : d # c => d \notin Running
    BY <2>1
  <2>3. QED
    BY <2>1, <2>2
<1>4. CASE UNCHANGED loc
  BY <1>4
<1>5. QED
  BY <1>1, <1>2, <1>3, <1>4 DEF Next, Step, Tick, ChangeRate, vars

-------------------------------------------------------------------------------
(* The budget: time is covered from the clock reading to the store of it.    *)

\* What BudgetInv says of a limiter whose clock has not reached its bound.
Covered == tokens <= Allowance /\ TimeCovered

\* One coroutine inside: every other one is at no point TimeCoveredAt speaks of.
LEMMA OthersOutside ==
    ASSUME TypeOK, Serialized', NEW c \in Coroutines,
           loc'[c] \in RunLocs, NEW d \in Coroutines, d # c
    PROVE  loc'[d] \notin Refilling /\ TimeCoveredAt(d)'
BY DEF Serialized, Running, RunLocs, Refilling, TimeCoveredAt

\* TimeCoveredAt of the next state, with the primes on the variables.
LEMMA CoveredAtNext ==
    ASSUME NEW c \in Coroutines,
           loc'[c] = "load" =>
               tokens' + Earned(dt'[c]) + Earned(age'[c]) <= Allowance',
           loc'[c] = "store" => seen'[c] + Earned(age'[c]) <= Allowance',
           loc'[c] = "stamp" => tokens' + Earned(age'[c]) <= Allowance',
           loc'[c] = "take_store" => seen'[c] = tokens' - TokenQ
    PROVE  TimeCoveredAt(c)'
BY DEF TimeCoveredAt, Earned

\* Everything Covered says of a step of the one coroutine inside.
LEMMA CoveredBySoleRunner ==
    ASSUME TypeOK, Serialized', NEW c \in Coroutines, loc'[c] \in RunLocs,
           tokens' <= Allowance', TimeCoveredAt(c)',
           loc'[c] \notin Refilling =>
               tokens' + Earned(sinceRefill') <= Allowance'
    PROVE  Covered'
<1>1. \A d \in Coroutines : TimeCoveredAt(d)'
  BY OthersOutside
<1>2. (\A d \in Coroutines : loc'[d] \notin Refilling) =>
          tokens' + Earned(sinceRefill') <= Allowance'
  OBVIOUS
<1>3. QED
  BY <1>1, <1>2 DEF Covered, TimeCovered, Earned

LEMMA TickKeepsCover ==
    ASSUME TypeOK, Covered, Tick, clock < Horizon
    PROVE  Covered'
<1> USE DEF TypeOK
<1>1. Allowance' = Allowance + MaxRate
  <2>1. Spent' = Spent
    BY DEF Tick, Spent, Granted
  <2>2. Earned(clock)' = Earned(clock) + MaxRate
    BY EarnedByTick DEF Tick, Earned
  <2>3. Earned(clock) \in Nat
    BY EarnedType
  <2>4. QED
    BY <2>1, <2>2, <2>3, SpentType DEF Allowance
<1>2. Allowance \in Int
  BY AllowanceType
<1>3. Earned(sinceRefill') <= Earned(sinceRefill) + MaxRate
  BY EarnedByTick DEF Tick
<1>4. Earned(sinceRefill) \in Nat /\ Earned(sinceRefill') \in Nat
  BY EarnedType, OlderType DEF Tick
<1>5. ASSUME NEW c \in Coroutines
      PROVE  TimeCoveredAt(c)'
  <2>1. /\ Earned(age'[c]) <= Earned(age[c]) + MaxRate
        /\ Earned(age'[c]) \in Nat
    <3>1. age'[c] = Older(age[c]) \/ age'[c] = age[c]
      BY DEF Tick
    <3>2. Older(age[c]) \in 0..Horizon
      BY OlderType
    <3>3. Earned(Older(age[c])) <= Earned(age[c]) + MaxRate
      BY EarnedByTick
    <3>4. Earned(age[c]) \in Nat /\ Earned(Older(age[c])) \in Nat
      BY <3>2, EarnedType
    <3>5. QED
      BY <3>1, <3>3, <3>4
  <2>2. Earned(age[c]) \in Nat /\ Earned(dt[c]) \in Nat
    BY EarnedType
  <2>3. TimeCoveredAt(c)
    BY DEF Covered, TimeCovered
  <2>4. dt' = dt /\ seen' = seen /\ tokens' = tokens /\ loc' = loc
    BY DEF Tick
  <2>5. seen[c] \in Int /\ tokens \in Int
    OBVIOUS
  <2>6. loc[c] = "load" =>
            tokens + Earned(dt[c]) + Earned(age'[c]) <= Allowance'
    BY <1>1, <1>2, <2>1, <2>2, <2>3, <2>5, SMTT(30) DEF TimeCoveredAt
  <2>7. loc[c] = "store" => seen[c] + Earned(age'[c]) <= Allowance'
    BY <1>1, <1>2, <2>1, <2>2, <2>3, <2>5 DEF TimeCoveredAt
  <2>8. loc[c] = "stamp" => tokens + Earned(age'[c]) <= Allowance'
    BY <1>1, <1>2, <2>1, <2>2, <2>3, <2>5, SMTT(30) DEF TimeCoveredAt
  <2>9. loc[c] = "take_store" => seen[c] = tokens - TokenQ
    BY <2>3 DEF TimeCoveredAt
  <2>10. QED
    BY <2>4, <2>6, <2>7, <2>8, <2>9, CoveredAtNext
<1>6. tokens' <= Allowance'
  BY <1>1, <1>2 DEF Tick, Covered
<1>7. (\A c \in Coroutines : loc'[c] \notin Refilling) =>
          tokens' + Earned(sinceRefill') <= Allowance'
  BY <1>1, <1>2, <1>3, <1>4 DEF Tick, Covered, TimeCovered
<1>8. QED
  BY <1>5, <1>6, <1>7 DEF Covered, TimeCovered, Earned

\* The steps inside refill_locked(): the time taken from last_refill_ is first
\* in dt, then in the value to store, then in tokens_ itself.
LEMMA RefillKeepsCover ==
    ASSUME TypeOK, Covered, Serialized, Serialized', NEW c \in Coroutines,
           Sample(c) \/ LoadTokens(c) \/ StoreTokens(c) \/ Stamp(c)
    PROVE  Covered'
<1> USE DEF TypeOK, Goto, RunLocs, Refilling, bucket
<1>1. Allowance' = Allowance /\ Allowance \in Int
  <2>1. \E l \in RunLocs : loc' = [loc EXCEPT ![c] = l]
    BY DEF Sample, LoadTokens, StoreTokens, Stamp
  <2>2. loc[c] # "done" /\ UNCHANGED clock
    BY DEF Sample, LoadTokens, StoreTokens, Stamp
  <2>3. QED
    BY <2>1, <2>2, AllowanceKept, AllowanceType
<1>2. TimeCoveredAt(c) /\ tokens <= Allowance
  BY DEF Covered, TimeCovered
<1>3. /\ Earned(sinceRefill) \in Nat /\ Earned(age[c]) \in Nat
      /\ Earned(dt[c]) \in Nat /\ Earned(0) = 0
  BY EarnedType DEF Earned
<1>4. \A d \in Coroutines : d # c => loc[d] \notin RunLocs \/ loc[c] \notin RunLocs
  BY DEF Serialized, Running
<1>5. CASE Sample(c)
  <2>1. tokens + Earned(sinceRefill) <= Allowance
    BY <1>4, <1>5 DEF Sample, Covered, TimeCovered
  <2>2. /\ loc'[c] = "load" /\ tokens' = tokens
        /\ dt'[c] = sinceRefill /\ age'[c] = 0
    BY <1>5 DEF Sample
  <2>3. tokens' + Earned(dt'[c]) + Earned(age'[c]) <= Allowance'
    BY <1>1, <1>3, <2>1, <2>2
  <2>4. TimeCoveredAt(c)'
    BY <2>2, <2>3, CoveredAtNext
  <2>5. QED
    BY <1>1, <1>2, <2>2, <2>4, CoveredBySoleRunner
<1>6. CASE LoadTokens(c)
  <2> DEFINE refilled == AtMost(CapQ, tokens + dt[c] * rate)
  <2>1. /\ loc[c] = "load" /\ loc'[c] = "store"
        /\ tokens' = tokens /\ age'[c] = age[c]
        /\ seen'[c] = refilled
    BY <1>6 DEF LoadTokens
  <2>2. dt[c] \in Nat /\ rate \in Rates /\ tokens \in Int
    OBVIOUS
  <2>3. refilled <= tokens + Earned(dt[c]) /\ refilled \in Int
    <3>1. dt[c] * rate \in Int
      BY <2>2
    <3>2. refilled \in Int
      BY <2>2, <3>1 DEF AtMost
    <3>3. QED
      BY <2>2, <3>2, RefillBound
  <2> HIDE DEF refilled
  <2>4. seen'[c] + Earned(age'[c]) <= Allowance'
    BY <1>1, <1>2, <1>3, <2>1, <2>2, <2>3, SMTT(30) DEF TimeCoveredAt
  <2>5. TimeCoveredAt(c)'
    BY <2>1, <2>4, CoveredAtNext
  <2>6. QED
    BY <1>1, <1>2, <2>1, <2>5, CoveredBySoleRunner
<1>7. CASE StoreTokens(c)
  <2>1. /\ loc[c] = "store" /\ loc'[c] = "stamp"
        /\ tokens' = seen[c] /\ age'[c] = age[c]
    BY <1>7 DEF StoreTokens
  <2>2. tokens' + Earned(age'[c]) <= Allowance'
    BY <1>1, <1>2, <2>1 DEF TimeCoveredAt
  <2>3. tokens' <= Allowance'
    BY <1>1, <1>3, <2>1, <2>2
  <2>4. TimeCoveredAt(c)'
    BY <2>1, <2>2, CoveredAtNext
  <2>5. QED
    BY <2>1, <2>3, <2>4, CoveredBySoleRunner
<1>8. CASE Stamp(c)
  <2>1. /\ loc[c] = "stamp" /\ loc'[c] = "check"
        /\ tokens' = tokens /\ sinceRefill' = age[c]
    BY <1>8 DEF Stamp
  <2>2. tokens' + Earned(sinceRefill') <= Allowance'
    BY <1>1, <1>2, <2>1 DEF TimeCoveredAt
  <2>3. TimeCoveredAt(c)'
    BY <2>1, CoveredAtNext
  <2>4. QED
    BY <1>1, <1>2, <2>1, <2>2, <2>3, CoveredBySoleRunner
<1>9. QED
  BY <1>5, <1>6, <1>7, <1>8

\* The steps after it: a look at tokens_, and a token taken from it.
LEMMA TakeKeepsCover ==
    ASSUME TypeOK, Covered, Serialized, Serialized', NEW c \in Coroutines,
           Check(c) \/ TakeLoad(c) \/ TakeStore(c) \/ Suspend(c)
    PROVE  Covered'
<1> USE DEF TypeOK, Goto, RunLocs, Refilling, bucket, locals
<1>1. /\ loc[c] \in RunLocs \ Refilling
      /\ \A d \in Coroutines : d # c => loc[d] \notin RunLocs
  BY DEF Check, TakeLoad, TakeStore, Suspend, Serialized, Running
<1>2. /\ Allowance \in Int /\ tokens <= Allowance
      /\ tokens + Earned(sinceRefill) <= Allowance
  BY <1>1, AllowanceType DEF Covered, TimeCovered
<1>3. sinceRefill' = sinceRefill /\ Earned(sinceRefill) \in Nat
  <2>1. Earned(sinceRefill) \in Nat
    BY EarnedType
  <2>2. sinceRefill' = sinceRefill
    BY DEF Check, TakeLoad, TakeStore, Suspend
  <2>3. QED
    BY <2>1, <2>2
<1>4. CASE Check(c) \/ TakeLoad(c)
  <2>1. Allowance' = Allowance /\ tokens' = tokens
    <3>1. \E l \in RunLocs : loc' = [loc EXCEPT ![c] = l]
      BY <1>4 DEF Check, TakeLoad
    <3>2. loc[c] # "done" /\ UNCHANGED clock /\ tokens' = tokens
      BY <1>1, <1>4 DEF Check, TakeLoad
    <3>3. QED
      BY <3>1, <3>2, AllowanceKept
  <2>2. /\ loc'[c] \in {"take_load", "suspend", "take_store"}
        /\ loc'[c] = "take_store" => seen'[c] = tokens - TokenQ
    BY <1>4 DEF Check, TakeLoad
  <2>3. TimeCoveredAt(c)'
    BY <2>1, <2>2, CoveredAtNext
  <2>4. QED
    BY <1>2, <1>3, <2>1, <2>2, <2>3, CoveredBySoleRunner
<1>5. ASSUME TakeStore(c) \/ Suspend(c), tokens' <= Allowance',
             tokens' + Earned(sinceRefill') <= Allowance'
      PROVE  Covered'
  <2>1. \A d \in Coroutines : loc'[d] \notin RunLocs
    BY <1>1, <1>5 DEF TakeStore, Suspend
  <2>2. ASSUME NEW d \in Coroutines PROVE TimeCoveredAt(d)'
    BY <2>1, CoveredAtNext
  <2>3. QED
    BY <1>5, <2>2 DEF Covered, TimeCovered, Earned
<1>6. CASE TakeStore(c)
  <2>1. tokens' = tokens - TokenQ
    BY <1>6 DEF TakeStore, Covered, TimeCovered, TimeCoveredAt
  <2>2. Allowance' = Allowance - TokenQ
    <3>1. Spent' = Spent + TokenQ
      BY <1>6, GrantSpends
    <3>2. Earned(clock)' = Earned(clock)
      BY <1>6 DEF TakeStore, Earned
    <3>3. Earned(clock) \in Nat
      BY EarnedType
    <3>4. QED
      BY <3>1, <3>2, <3>3, SpentType DEF Allowance
  <2>3. QED
    BY <1>2, <1>3, <1>5, <1>6, <2>1, <2>2
<1>7. CASE Suspend(c)
  <2>1. Allowance' = Allowance /\ tokens' = tokens
    BY <1>1, <1>7, AllowanceKept DEF Suspend
  <2>2. QED
    BY <1>2, <1>3, <1>5, <1>7, <2>1
<1>8. QED
  BY <1>4, <1>6, <1>7

\* The steps that let a coroutine wait for the strand, or in.
LEMMA EntryKeepsCover ==
    ASSUME TypeOK, Covered, Serial', Serialized', NEW c \in Coroutines,
           Dispatch(c) \/ EnterStrand(c) \/ Resume(c)
    PROVE  Covered'
<1> USE DEF TypeOK, Goto, RunLocs, Refilling, bucket, locals
<1>1. Allowance' = Allowance /\ tokens' = tokens /\ sinceRefill' = sinceRefill
  <2>1. \E l \in {"queued", "sample"} : loc' = [loc EXCEPT ![c] = l]
    BY DEF Dispatch, EnterStrand, Resume
  <2>2. loc[c] # "done" /\ UNCHANGED <<clock, tokens, sinceRefill>>
    BY DEF Dispatch, EnterStrand, Resume
  <2>3. QED
    BY <2>1, <2>2, AllowanceKept
<1>2. tokens' <= Allowance'
  BY <1>1 DEF Covered
<1>3. CASE Dispatch(c)
  <2>1. \A d \in Coroutines : loc'[d] = loc[d] \/ (d = c /\ loc'[d] = "queued")
    BY <1>3 DEF Dispatch
  <2>2. ASSUME NEW d \in Coroutines PROVE TimeCoveredAt(d)'
    <3>1. TimeCoveredAt(d) /\ UNCHANGED <<age, dt, seen>>
      BY <1>3 DEF Dispatch, Covered, TimeCovered
    <3>2. QED
      BY <1>1, <2>1, <3>1, CoveredAtNext DEF TimeCoveredAt
  <2>3. (\A d \in Coroutines : loc'[d] \notin Refilling) =>
            tokens' + Earned(sinceRefill') <= Allowance'
    BY <1>1, <1>3, <2>1 DEF Dispatch, Covered, TimeCovered
  <2>4. QED
    BY <1>2, <2>2, <2>3 DEF Covered, TimeCovered, Earned
<1>4. CASE EnterStrand(c) \/ Resume(c)
  <2>1. loc'[c] = "sample" /\ Running = {}
    BY <1>4, EntersAlone DEF EnterStrand, Resume
  <2>2. tokens' + Earned(sinceRefill') <= Allowance'
    BY <1>1, <2>1 DEF Covered, TimeCovered, Running
  <2>3. TimeCoveredAt(c)'
    BY <2>1, CoveredAtNext
  <2>4. QED
    BY <1>2, <2>1, <2>2, <2>3, CoveredBySoleRunner
<1>5. QED
  BY <1>3, <1>4

-------------------------------------------------------------------------------

\* As long as the strand serialises acquire() - always with one worker, and
\* with any number until a coroutine first waits for a token - at most one
\* coroutine is inside, and no scan gets more tokens than its capacity and the
\* time elapsed at the highest rate allow.
THEOREM BudgetKept == Spec => []SerializedBudget
<1>1. Init => BudgetInv
  <2> SUFFICES ASSUME Init PROVE BudgetInv
    OBVIOUS
  <2>1. Running = {} /\ Granted = {}
    BY DEF Init, Running, RunLocs, Granted
  <2>2. Allowance = CapQ /\ Earned(0) = 0
    BY <2>1, FS_EmptySet DEF Init, Allowance, Spent, Earned
  <2>3. QED
    BY <2>1, <2>2 DEF Init, BudgetInv, Serialized, TimeCovered, TimeCoveredAt
<1>2. TypeOK /\ BudgetInv /\ [Next]_vars => BudgetInv'
  <2> SUFFICES ASSUME TypeOK, BudgetInv, [Next]_vars, Serial'
               PROVE  Serialized' /\ (clock' < Horizon => Covered')
    BY DEF BudgetInv, Covered
  <2>1. Serialized /\ Serialized'
    BY SerialBefore, SerializedKept DEF BudgetInv
  <2>2. SUFFICES ASSUME clock' < Horizon
                 PROVE  Covered'
    BY <2>1
  <2>3. clock < Horizon
    BY <2>2 DEF Next, Step, Tick, ChangeRate, Dispatch, EnterStrand, Sample,
         LoadTokens, StoreTokens, Stamp, Check, TakeLoad, TakeStore, Suspend,
         Resume, vars, Older, AtMost, TypeOK
  <2>4. Covered
    BY <2>3, SerialBefore DEF BudgetInv, Covered
  <2>5. CASE Tick
    BY <2>3, <2>4, <2>5, TickKeepsCover
  <2>6. CASE ChangeRate \/ UNCHANGED vars
    BY <2>4, <2>6 DEF ChangeRate, vars, locals, Covered, TimeCovered,
         TimeCoveredAt, Allowance, Earned, Spent, Granted
  <2>7. ASSUME NEW c \in Coroutines, Step(c)
        PROVE  Covered'
    BY <2>1, <2>4, <2>7, RefillKeepsCover, TakeKeepsCover, EntryKeepsCover
       DEF Step
  <2>8. QED
    BY <2>5, <2>6, <2>7 DEF Next
<1>3. BudgetInv => SerializedBudget
  BY DEF BudgetInv, SerializedBudget, WithinBudget
<1>4. QED
  BY <1>1, <1>2, <1>3, TypeCorrect, PTL DEF Spec

-------------------------------------------------------------------------------
(* The refinement of TokenBucket.                                            *)

\* What a pass of acquire() is about to do is something a bucket may do: the
\* credit it carries is for time last_refill_ still owes, and the token it
\* takes is in the bucket.
InHand(c) ==
    /\ loc[c] = "load" =>
           /\ age[c] <= sinceRefill
           /\ sinceRefill = Horizon \/ dt[c] + age[c] <= sinceRefill
    /\ loc[c] = "store" =>
           /\ tokens <= seen[c] /\ seen[c] <= CapQ
           /\ age[c] <= sinceRefill
           /\ \/ sinceRefill = Horizon
              \/ seen[c] + Earned(age[c]) <= tokens + Earned(sinceRefill)
    /\ loc[c] = "take_load" => tokens >= TokenQ
    /\ loc[c] = "take_store" => tokens >= TokenQ /\ seen[c] = tokens - TokenQ

HandsInv == tokens >= 0 /\ \A c \in Coroutines : InHand(c)
BucketInv == Serial => HandsInv

\* What the refinement rests on.
Basis == TypeOK /\ NeverOverfull /\ SerializedBudget

LEMMA BasisHolds == Spec => []Basis
  BY TypeCorrect, CapacityKept, BudgetKept, PTL DEF Basis

-------------------------------------------------------------------------------
(* The hands of the coroutine inside.                                        *)

\* Only the coroutine that is inside acquire() has anything in hand.
LEMMA OutsideEmptyHanded ==
    ASSUME NEW c \in Coroutines, loc[c] \notin RunLocs
    PROVE  InHand(c)
  BY DEF InHand, RunLocs

\* The next state, with the primes on the variables.
LEMMA InHandNext ==
    ASSUME NEW c \in Coroutines,
           loc'[c] = "load" =>
               /\ age'[c] <= sinceRefill'
               /\ sinceRefill' = Horizon \/ dt'[c] + age'[c] <= sinceRefill',
           loc'[c] = "store" =>
               /\ tokens' <= seen'[c] /\ seen'[c] <= CapQ
               /\ age'[c] <= sinceRefill'
               /\ \/ sinceRefill' = Horizon
                  \/ seen'[c] + Earned(age'[c]) <= tokens' + Earned(sinceRefill'),
           loc'[c] = "take_load" => tokens' >= TokenQ,
           loc'[c] = "take_store" =>
               tokens' >= TokenQ /\ seen'[c] = tokens' - TokenQ
    PROVE  InHand(c)'
  BY DEF InHand, Earned

\* A step of the one coroutine inside: what he has in hand is all there is.
LEMMA SoleHand ==
    ASSUME TypeOK, Serialized, NEW c \in Coroutines, loc[c] \in RunLocs,
           \A d \in Coroutines : d # c => loc'[d] = loc[d],
           tokens' >= 0, InHand(c)'
    PROVE  HandsInv'
  <1>1. ASSUME NEW d \in Coroutines, d # c PROVE InHand(d)'
    <2>1. loc'[d] \notin RunLocs
      BY <1>1 DEF Serialized, Running
    <2> QED BY <2>1 DEF InHand, RunLocs
  <1> QED BY <1>1 DEF HandsInv

LEMMA TickKeepsHands ==
    ASSUME TypeOK, HandsInv, Tick
    PROVE  HandsInv'
  <1> USE DEF TypeOK
  <1>1. ASSUME NEW c \in Coroutines PROVE InHand(c)'
    <2>1. InHand(c)
      BY DEF HandsInv
    <2>2. /\ loc' = loc /\ dt' = dt /\ seen' = seen /\ tokens' = tokens
          /\ sinceRefill' = IF sinceRefill < Horizon THEN sinceRefill + 1
                            ELSE Horizon
          /\ age'[c] = IF loc[c] \notin Refilling THEN age[c]
                       ELSE IF age[c] < Horizon THEN age[c] + 1 ELSE Horizon
      BY DEF Tick, Older, AtMost
    <2>3. /\ Earned(age[c] + 1) = Earned(age[c]) + MaxRate
          /\ Earned(sinceRefill + 1) = Earned(sinceRefill) + MaxRate
      BY DEF Earned
    <2>4. Earned(age[c]) \in Nat /\ Earned(sinceRefill) \in Nat
      BY EarnedType
    <2>5. CASE loc[c] = "load"
      BY <2>1, <2>2, <2>5, InHandNext DEF InHand, Refilling
    <2>6. CASE loc[c] = "store"
      <3>1. age'[c] <= sinceRefill'
        BY <2>1, <2>2, <2>6 DEF InHand, Refilling
      <3>2. \/ sinceRefill' = Horizon
            \/ seen'[c] + Earned(age'[c]) <= tokens' + Earned(sinceRefill')
        <4>1. CASE sinceRefill >= Horizon
          BY <2>2, <4>1
        <4>2. CASE sinceRefill < Horizon
          <5>1. age[c] < Horizon
            BY <2>1, <2>6, <4>2 DEF InHand
          <5>2. sinceRefill' = sinceRefill + 1 /\ age'[c] = age[c] + 1
            BY <2>2, <2>6, <4>2, <5>1 DEF Refilling
          <5>3. /\ Earned(age'[c]) = Earned(age[c]) + MaxRate
                /\ Earned(sinceRefill') = Earned(sinceRefill) + MaxRate
            BY <2>3, <5>2
          <5>4. seen[c] + Earned(age[c]) <= tokens + Earned(sinceRefill)
            BY <2>1, <2>6, <4>2 DEF InHand
          <5> QED BY <2>2, <2>4, <5>3, <5>4, SMTT(30)
        <4> QED BY <4>1, <4>2
      <3> QED BY <2>1, <2>2, <2>6, <3>1, <3>2, InHandNext DEF InHand
    <2>7. CASE loc[c] \notin Refilling
      BY <2>1, <2>2, <2>7, InHandNext DEF InHand, Refilling
    <2>8. CASE loc[c] = "stamp"
      BY <2>2, <2>8, InHandNext
    <2> QED BY <2>5, <2>6, <2>7, <2>8 DEF Refilling
  <1> QED BY <1>1 DEF HandsInv, Tick

LEMMA EntryKeepsHands ==
    ASSUME TypeOK, HandsInv, NEW c \in Coroutines,
           Dispatch(c) \/ EnterStrand(c) \/ Resume(c)
    PROVE  HandsInv'
  <1>1. /\ UNCHANGED <<tokens, sinceRefill, age, dt, seen>>
        /\ loc' = [loc EXCEPT ![c] = "queued"] \/ loc' = [loc EXCEPT ![c] = "sample"]
    BY DEF Dispatch, EnterStrand, Resume, Goto, bucket, locals
  <1>2. ASSUME NEW d \in Coroutines PROVE InHand(d)'
    <2>1. \/ loc'[d] = loc[d]
          \/ loc'[d] \in {"queued", "sample"}
      BY <1>1 DEF TypeOK
    <2>2. InHand(d)
      BY DEF HandsInv
    <2> QED BY <1>1, <2>1, <2>2, InHandNext DEF InHand
  <1> QED BY <1>1, <1>2 DEF HandsInv

LEMMA RefillKeepsHands ==
    ASSUME TypeOK, NeverOverfull, Serialized, HandsInv, NEW c \in Coroutines,
           Sample(c) \/ LoadTokens(c) \/ StoreTokens(c) \/ Stamp(c)
    PROVE  HandsInv'
  <1> USE DEF TypeOK, Goto, bucket
  <1>1. InHand(c) /\ tokens >= 0
    BY DEF HandsInv
  <1>2. /\ loc[c] \in RunLocs
        /\ \A d \in Coroutines : d # c => loc'[d] = loc[d]
    BY DEF Sample, LoadTokens, StoreTokens, Stamp, RunLocs
  <1>3. CASE Sample(c)
    <2>1. /\ loc'[c] = "load" /\ age'[c] = 0 /\ dt'[c] = sinceRefill
          /\ tokens' = tokens /\ sinceRefill' = sinceRefill
      BY <1>3 DEF Sample
    <2>2. age'[c] <= sinceRefill' /\ dt'[c] + age'[c] <= sinceRefill'
      BY <2>1
    <2>3. InHand(c)'
      BY <2>1, <2>2, InHandNext
    <2> QED BY <1>1, <1>2, <2>1, <2>3, SoleHand
  <1>4. CASE LoadTokens(c)
    <2> DEFINE refilled == AtMost(CapQ, tokens + dt[c] * rate)
    <2>1. /\ loc[c] = "load" /\ loc'[c] = "store" /\ age' = age
          /\ tokens' = tokens /\ sinceRefill' = sinceRefill
          /\ seen'[c] = refilled
      BY <1>4 DEF LoadTokens
    <2>2. /\ refilled \in Int /\ tokens <= refilled /\ refilled <= CapQ
      <3>1. dt[c] * rate \in Nat
        OBVIOUS
      <3> QED BY <3>1 DEF AtMost, NeverOverfull
    <2>3. refilled <= tokens + Earned(dt[c])
      <3>1. dt[c] \in Nat /\ rate \in Rates /\ tokens \in Int
        OBVIOUS
      <3> QED BY <3>1, RefillBound
    <2>4. \/ sinceRefill = Horizon
          \/ Earned(dt[c]) + Earned(age[c]) <= Earned(sinceRefill)
      <3>1. ASSUME NEW a \in Nat, NEW b \in Nat, NEW s \in Nat, a + b <= s
            PROVE  Earned(a) + Earned(b) <= Earned(s)
        <4>1. MaxRate * (a + b) <= MaxRate * s
          BY <3>1
        <4>2. MaxRate * (a + b) = MaxRate * a + MaxRate * b
          OBVIOUS
        <4> QED BY <4>1, <4>2 DEF Earned
      <3>2. dt[c] \in Nat /\ age[c] \in Nat /\ sinceRefill \in Nat
        OBVIOUS
      <3> QED BY <1>1, <2>1, <3>1, <3>2 DEF InHand
    <2>5. /\ Earned(dt[c]) \in Nat /\ Earned(age[c]) \in Nat
          /\ Earned(sinceRefill) \in Nat
      BY EarnedType
    <2> HIDE DEF refilled
    <2>6. \/ sinceRefill = Horizon
          \/ refilled + Earned(age[c]) <= tokens + Earned(sinceRefill)
      BY <2>2, <2>3, <2>4, <2>5, SMTT(30)
    <2>7. InHand(c)'
      BY <1>1, <2>1, <2>2, <2>6, InHandNext DEF InHand
    <2> QED BY <1>1, <1>2, <2>1, <2>7, SoleHand
  <1>5. CASE StoreTokens(c)
    <2>1. loc[c] = "store" /\ loc'[c] = "stamp" /\ tokens' = seen[c]
      BY <1>5 DEF StoreTokens
    <2>2. InHand(c)'
      BY <2>1, InHandNext
    <2>3. tokens' >= 0
      BY <1>1, <2>1 DEF InHand
    <2> QED BY <1>2, <2>2, <2>3, SoleHand
  <1>6. CASE Stamp(c)
    <2>1. loc'[c] = "check" /\ tokens' = tokens
      BY <1>6 DEF Stamp
    <2>2. InHand(c)'
      BY <2>1, InHandNext
    <2> QED BY <1>1, <1>2, <2>1, <2>2, SoleHand
  <1> QED BY <1>3, <1>4, <1>5, <1>6

LEMMA TakeKeepsHands ==
    ASSUME TypeOK, Serialized, HandsInv, NEW c \in Coroutines,
           Check(c) \/ TakeLoad(c) \/ TakeStore(c) \/ Suspend(c)
    PROVE  HandsInv'
  <1> USE DEF TypeOK, Goto, bucket, locals
  <1>1. InHand(c) /\ tokens >= 0
    BY DEF HandsInv
  <1>2. /\ loc[c] \in RunLocs
        /\ \A d \in Coroutines : d # c => loc'[d] = loc[d]
    BY DEF Check, TakeLoad, TakeStore, Suspend, RunLocs
  <1>3. CASE Check(c)
    <2>1. /\ loc'[c] \in {"take_load", "suspend"} /\ tokens' = tokens
          /\ loc'[c] = "take_load" => tokens >= TokenQ
      BY <1>3 DEF Check
    <2>2. InHand(c)'
      BY <2>1, InHandNext
    <2> QED BY <1>1, <1>2, <2>1, <2>2, SoleHand
  <1>4. CASE TakeLoad(c)
    <2>1. /\ loc[c] = "take_load" /\ loc'[c] = "take_store"
          /\ tokens' = tokens /\ seen'[c] = tokens - TokenQ
      BY <1>4 DEF TakeLoad
    <2>2. InHand(c)'
      BY <1>1, <2>1, InHandNext DEF InHand
    <2> QED BY <1>1, <1>2, <2>1, <2>2, SoleHand
  <1>5. CASE TakeStore(c)
    <2>1. loc[c] = "take_store" /\ loc'[c] = "done" /\ tokens' = seen[c]
      BY <1>5 DEF TakeStore
    <2>2. InHand(c)'
      BY <2>1, InHandNext
    <2>3. tokens' >= 0
      BY <1>1, <2>1 DEF InHand
    <2> QED BY <1>2, <2>2, <2>3, SoleHand
  <1>6. CASE Suspend(c)
    <2>1. loc'[c] = "waiting" /\ tokens' = tokens
      BY <1>6 DEF Suspend
    <2>2. InHand(c)'
      BY <2>1, InHandNext
    <2> QED BY <1>1, <1>2, <2>1, <2>2, SoleHand
  <1> QED BY <1>3, <1>4, <1>5, <1>6

\* A serial acquire() only ever credits time that has passed and takes tokens
\* that are there.
LEMMA HandsKept == Spec => []BucketInv
  <1>1. Init => BucketInv
    BY DEF Init, BucketInv, HandsInv, InHand
  <1>2. Basis /\ BucketInv /\ [Next]_vars => BucketInv'
    <2> SUFFICES ASSUME Basis, BucketInv, [Next]_vars, Serial'
                 PROVE  HandsInv'
      BY DEF BucketInv
    <2>1. TypeOK /\ NeverOverfull /\ Serial
      BY SerialBefore DEF Basis
    <2>2. Serialized /\ HandsInv
      BY <2>1 DEF Basis, SerializedBudget, BucketInv
    <2>3. CASE Tick
      BY <2>1, <2>2, <2>3, TickKeepsHands
    <2>4. CASE ChangeRate \/ UNCHANGED vars
      BY <2>2, <2>4 DEF ChangeRate, vars, locals, HandsInv, InHand, Earned
    <2>5. ASSUME NEW c \in Coroutines, Step(c) PROVE HandsInv'
      BY <2>1, <2>2, <2>5, EntryKeepsHands, RefillKeepsHands, TakeKeepsHands
         DEF Step
    <2> QED BY <2>3, <2>4, <2>5 DEF Next
  <1> QED BY <1>1, <1>2, BasisHolds, PTL DEF Spec

-------------------------------------------------------------------------------
(* What is unpaid.                                                           *)

UnpaidOf(l, a, since) ==
    IF \E c \in Coroutines : l[c] = "stamp"
    THEN a[CHOOSE c \in Coroutines : l[c] = "stamp"]
    ELSE since

LEMMA UnpaidIs ==
    /\ Unpaid = UnpaidOf(loc, age, sinceRefill)
    /\ Unpaid' = UnpaidOf(loc', age', sinceRefill')
  BY DEF Unpaid, UnpaidOf

LEMMA UnpaidByStamper ==
    ASSUME NEW l, NEW a, NEW since, NEW c \in Coroutines, l[c] = "stamp",
           \A d \in Coroutines : l[d] = "stamp" => d = c
    PROVE  UnpaidOf(l, a, since) = a[c]
  <1> DEFINE d == CHOOSE d \in Coroutines : l[d] = "stamp"
  <1>1. d \in Coroutines /\ l[d] = "stamp"
    OBVIOUS
  <1>2. d = c
    BY <1>1
  <1> QED BY <1>2 DEF UnpaidOf

LEMMA UnpaidByNobody ==
    ASSUME NEW l, NEW a, NEW since, \A c \in Coroutines : l[c] # "stamp"
    PROVE  UnpaidOf(l, a, since) = since
  BY DEF UnpaidOf

\* The only running coroutine is at no stamp before the step and at none after.
LEMMA UnpaidWhileRunning ==
    ASSUME Serialized, NEW c \in Coroutines, loc[c] \in RunLocs,
           loc[c] # "stamp", \A d \in Coroutines : d # c => loc'[d] = loc[d]
    PROVE  /\ Unpaid = sinceRefill
           /\ loc'[c] # "stamp" => Unpaid' = sinceRefill'
           /\ loc'[c] = "stamp" => Unpaid' = age'[c]
  <1>1. \A d \in Coroutines : d # c => loc[d] # "stamp" /\ loc'[d] # "stamp"
    BY DEF Serialized, Running, RunLocs
  <1>2. Unpaid = sinceRefill
    BY <1>1, UnpaidIs, UnpaidByNobody
  <1>3. loc'[c] # "stamp" => Unpaid' = sinceRefill'
    BY <1>1, UnpaidIs, UnpaidByNobody
  <1>4. loc'[c] = "stamp" => Unpaid' = age'[c]
    BY <1>1, UnpaidIs, UnpaidByStamper
  <1> QED BY <1>2, <1>3, <1>4

\* Who stamps, if anyone, is the same before and after.
LEMMA UnpaidWhoever ==
    ASSUME Serialized,
           \A d \in Coroutines : loc[d] = "stamp" <=> loc'[d] = "stamp"
    PROVE  \/ Unpaid = sinceRefill /\ Unpaid' = sinceRefill'
           \/ \E c \in Coroutines : /\ loc[c] = "stamp"
                                    /\ Unpaid = age[c] /\ Unpaid' = age'[c]
  <1>1. CASE \A d \in Coroutines : loc[d] # "stamp"
    BY <1>1, UnpaidIs, UnpaidByNobody
  <1>2. ASSUME NEW c \in Coroutines, loc[c] = "stamp"
        PROVE  Unpaid = age[c] /\ Unpaid' = age'[c]
    <2>1. \A d \in Coroutines : loc[d] = "stamp" => d = c
      BY <1>2 DEF Serialized, Running, RunLocs
    <2>2. \A d \in Coroutines : loc'[d] = "stamp" => d = c
      BY <2>1
    <2> QED BY <1>2, <2>1, <2>2, UnpaidIs, UnpaidByStamper
  <1> QED BY <1>1, <1>2

-------------------------------------------------------------------------------
(* The refinement.                                                           *)

BucketStep == [Bucket!Next]_(Bucket!bucketVars)

LEMMA StutterIsAStep ==
    ASSUME tokens' = tokens, Unpaid' = Unpaid, Granted' = Granted
    PROVE  BucketStep
  BY DEF BucketStep, Bucket!bucketVars

LEMMA TickElapses ==
    ASSUME TypeOK, Serialized, Tick
    PROVE  BucketStep
  <1> USE DEF TypeOK
  <1>1. tokens' = tokens /\ Granted' = Granted /\ loc' = loc
    BY DEF Tick, Granted
  <1>2. /\ sinceRefill' = Older(sinceRefill)
        /\ \A c \in Coroutines : loc[c] = "stamp" => age'[c] = Older(age[c])
    BY DEF Tick, Refilling
  <1>3. Unpaid \in 0..Horizon /\ Unpaid' = Older(Unpaid)
    BY <1>1, <1>2, UnpaidWhoever
  <1>4. Unpaid' = Unpaid \/ (Unpaid < Horizon /\ Unpaid' = Unpaid + 1)
    BY <1>3 DEF Older, AtMost
  <1>5. CASE Unpaid < Horizon /\ Unpaid' = Unpaid + 1
    <2>1. Bucket!Elapse
      BY <1>1, <1>5 DEF Bucket!Elapse
    <2> QED BY <2>1 DEF BucketStep, Bucket!Next
  <1> QED BY <1>1, <1>4, <1>5, StutterIsAStep

LEMMA StoreCredits ==
    ASSUME TypeOK, Serialized, HandsInv, NEW c \in Coroutines, StoreTokens(c)
    PROVE  BucketStep
  <1> USE DEF TypeOK
  <1>1. /\ loc[c] = "store" /\ loc'[c] = "stamp"
        /\ \A d \in Coroutines : d # c => loc'[d] = loc[d]
        /\ tokens' = seen[c] /\ age' = age /\ sinceRefill' = sinceRefill
    BY DEF StoreTokens, Goto
  <1>2. Granted' = Granted
    BY <1>1 DEF Granted
  <1>3. Unpaid = sinceRefill /\ Unpaid' = age[c]
    BY <1>1, UnpaidWhileRunning DEF RunLocs
  <1>4. /\ 0 <= tokens /\ tokens <= seen[c] /\ seen[c] <= CapQ
        /\ age[c] <= sinceRefill
        /\ \/ sinceRefill = Horizon
           \/ seen[c] + Earned(age[c]) <= tokens + Earned(sinceRefill)
    BY <1>1 DEF HandsInv, InHand
  <1> DEFINE left == age[c]
             quanta == seen[c] - tokens
  <1>5. left \in 0..Unpaid /\ quanta \in 0..CapQ
    BY <1>3, <1>4
  <1>6. quanta <= MaxRate * (Unpaid - left) \/ Unpaid = Horizon
    <2>1. MaxRate * (sinceRefill - left) = Earned(sinceRefill) - Earned(left)
      BY DEF Earned
    <2>2. Earned(sinceRefill) \in Nat /\ Earned(left) \in Nat
      BY EarnedType
    <2>3. CASE sinceRefill = Horizon
      BY <1>3, <2>3
    <2>4. CASE seen[c] + Earned(left) <= tokens + Earned(sinceRefill)
      <3>1. quanta <= Earned(sinceRefill) - Earned(left)
        BY <2>2, <2>4
      <3> QED BY <1>3, <2>1, <3>1
    <2> QED BY <1>4, <2>3, <2>4
  <1>7. /\ tokens + quanta <= CapQ /\ tokens' = tokens + quanta
        /\ Unpaid' = left
    BY <1>1, <1>3, <1>4
  <1> HIDE DEF left, quanta
  <1>8. Bucket!Credit
    BY <1>2, <1>5, <1>6, <1>7 DEF Bucket!Credit
  <1> QED BY <1>8 DEF BucketStep, Bucket!Next

LEMMA TakeGrants ==
    ASSUME TypeOK, Serialized, HandsInv, NEW c \in Coroutines, TakeStore(c)
    PROVE  BucketStep
  <1> USE DEF TypeOK
  <1>1. /\ loc[c] = "take_store" /\ loc'[c] = "done"
        /\ \A d \in Coroutines : d # c => loc'[d] = loc[d]
        /\ tokens' = seen[c] /\ sinceRefill' = sinceRefill
    BY DEF TakeStore, Goto
  <1>2. c \notin Granted /\ Granted' = Granted \union {c}
    BY <1>1 DEF Granted
  <1>3. Unpaid' = Unpaid
    BY <1>1, UnpaidWhileRunning DEF RunLocs
  <1>4. tokens >= TokenQ /\ tokens' = tokens - TokenQ
    BY <1>1 DEF HandsInv, InHand
  <1>5. Bucket!Grant(c)
    BY <1>2, <1>3, <1>4 DEF Bucket!Grant
  <1> QED BY <1>5 DEF BucketStep, Bucket!Next

\* Every other step of acquire(), last_refill_ = now included, changes nothing
\* that a bucket has.
LEMMA OthersStutter ==
    ASSUME TypeOK, Serialized, NEW c \in Coroutines,
           \/ Dispatch(c) \/ EnterStrand(c) \/ Sample(c) \/ LoadTokens(c)
           \/ Stamp(c) \/ Check(c) \/ TakeLoad(c) \/ Suspend(c) \/ Resume(c)
    PROVE  BucketStep
  <1> USE DEF TypeOK, Goto, bucket, locals
  <1>1. tokens' = tokens /\ Granted' = Granted
    <2>1. /\ tokens' = tokens /\ loc[c] # "done"
          /\ \E l \in Locs \ {"done"} : loc' = [loc EXCEPT ![c] = l]
      BY DEF Dispatch, EnterStrand, Sample, LoadTokens, Stamp, Check, TakeLoad,
             Suspend, Resume, Locs, RunLocs
    <2> QED BY <2>1 DEF Granted
  <1>2. CASE Stamp(c)
    <2>1. /\ loc[c] = "stamp" /\ loc'[c] = "check"
          /\ \A d \in Coroutines : d # c => loc'[d] = loc[d]
          /\ sinceRefill' = age[c]
      BY <1>2 DEF Stamp
    <2>2. \A d \in Coroutines : loc[d] = "stamp" => d = c
      BY <2>1 DEF Serialized, Running, RunLocs
    <2>3. Unpaid = age[c]
      BY <2>1, <2>2, UnpaidIs, UnpaidByStamper
    <2>4. Unpaid' = sinceRefill'
      BY <2>1, <2>2, UnpaidIs, UnpaidByNobody
    <2> QED BY <1>1, <2>1, <2>3, <2>4, StutterIsAStep
  <1>3. CASE Sample(c)
    <2>1. /\ loc[c] = "sample" /\ loc'[c] = "load"
          /\ \A d \in Coroutines : d # c => loc'[d] = loc[d]
          /\ sinceRefill' = sinceRefill
      BY <1>3 DEF Sample
    <2> QED BY <1>1, <2>1, UnpaidWhileRunning, StutterIsAStep DEF RunLocs
  <1>4. CASE ~(Stamp(c) \/ Sample(c))
    <2>1. /\ \A d \in Coroutines : loc[d] = "stamp" <=> loc'[d] = "stamp"
          /\ age' = age /\ sinceRefill' = sinceRefill
      BY <1>4 DEF Dispatch, EnterStrand, LoadTokens, Check, TakeLoad, Suspend,
                  Resume
    <2>2. Unpaid' = Unpaid
      BY <2>1, UnpaidWhoever
    <2> QED BY <1>1, <2>2, StutterIsAStep
  <1> QED BY <1>2, <1>3, <1>4

\* As long as the strand serialises it, RateLimiter::acquire() is a token
\* bucket: elapsed time is paid in at most once and at most at max_rate_, a
\* coroutine gets exactly one whole token, and a pass that is suspended, or
\* between the stores of tokens_ and last_refill_, shows a client nothing.
THEOREM LimiterRefinesBucket == Spec => IsTokenBucket
  <1>1. Init => Bucket!Init
    <2> SUFFICES ASSUME Init PROVE Bucket!Init
      OBVIOUS
    <2>1. \A c \in Coroutines : loc[c] # "stamp" /\ loc[c] # "done"
      BY DEF Init
    <2>2. Unpaid = 0 /\ Granted = {}
      BY <2>1, UnpaidIs, UnpaidByNobody DEF Init, Granted
    <2> QED BY <2>2 DEF Init, Bucket!Init
  <1>2. Basis /\ BucketInv /\ [Next]_vars =>
            (Serial => [Bucket!Next]_(Bucket!bucketVars))
    <2> SUFFICES ASSUME Basis, BucketInv, [Next]_vars, Serial
                 PROVE  BucketStep
      BY DEF BucketStep
    <2>1. TypeOK /\ Serialized /\ HandsInv
      BY DEF Basis, SerializedBudget, BucketInv
    <2>2. CASE Tick
      BY <2>1, <2>2, TickElapses
    <2>3. CASE ChangeRate \/ UNCHANGED vars
      <3>1. tokens' = tokens /\ Granted' = Granted /\ Unpaid' = Unpaid
        BY <2>3 DEF ChangeRate, vars, locals, Granted, Unpaid
      <3> QED BY <3>1, StutterIsAStep
    <2>4. ASSUME NEW c \in Coroutines, Step(c) PROVE BucketStep
      BY <2>1, <2>4, StoreCredits, TakeGrants, OthersStutter DEF Step
    <2> QED BY <2>2, <2>3, <2>4 DEF Next
  <1>3. [](Basis /\ BucketInv) /\ [][Next]_vars =>
            [][Serial => [Bucket!Next]_(Bucket!bucketVars)]_vars
    BY <1>2, PTL
  <1> QED BY <1>1, <1>3, BasisHolds, HandsKept, PTL DEF Spec, IsTokenBucket
===============================================================================
