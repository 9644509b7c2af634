------------------------------ MODULE RateLimiter ------------------------------
(*****************************************************************************)
(* sps::net::RateLimiter (src/src/net/rate_limiter.{hpp,cpp}): the token     *)
(* bucket every scan coroutine passes before it opens a connection.          *)
(*                                                                           *)
(* The coroutines run on the worker threads of the AsyncPool.   acquire()    *)
(* hops onto the limiter's strand once, with dispatch(bind_executor(...)),   *)
(* and loops there: refill the bucket, take a token if there is one, else    *)
(* wait on a timer of its own.  The wait is co_awaited with a bare           *)
(* use_awaitable, whose handler is bound to the executor of co_spawn: the    *)
(* pool and not the strand.  So the first pass of a coroutine is serialised  *)
(* by the strand and every later pass runs on whichever worker is idle.      *)
(* tokens_ and last_refill_ are plain members: every load and every store    *)
(* of them is a step of its own, so that passes of two workers interleave    *)
(* the way a data race lets them.                                            *)
(*                                                                           *)
(* Amounts are in quanta: a token is TokenQ of them, a rate is a number of   *)
(* quanta per tick.  Ages ("ticks since") replace absolute times; they stop  *)
(* growing at Horizon, after which the bucket is full whatever the rate.     *)
(*****************************************************************************)
EXTENDS Integers, Sequences, FiniteSets

CONSTANTS
    Coroutines,   \* the scan_one coroutines, one acquire() each
    ThreadCounts, \* numbers of worker threads the pool may be built with
    TokenQ,       \* quanta in one token
    CapQ,         \* capacity_, in quanta
    Rates,        \* values rate_ takes, in quanta per tick
    MaxRate,      \* a bound on Rates: max_rate_
    Horizon       \* bound of the ages and of the clock

ASSUME CoroutinesAssumption == IsFiniteSet(Coroutines)
\* resolve_thread_count() never returns zero
ASSUME ThreadsAssumption == ThreadCounts \subseteq Nat \ {0}
ASSUME TokenAssumption == TokenQ \in Nat \ {0}
\* capacity_ = max(1.0, bucket_capacity)
ASSUME CapAssumption == CapQ \in Nat /\ CapQ >= TokenQ
ASSUME MaxRateAssumption == MaxRate \in Nat \ {0}
\* rate_ = max(0.1, tokens_per_second): never zero
ASSUME RatesAssumption == Rates \subseteq 1..MaxRate /\ Rates # {}
\* At Horizon the time elapsed fills the bucket at any rate.
ASSUME HorizonAssumption ==
    Horizon \in Nat \ {0} /\ \A r \in Rates : Horizon * r >= CapQ

VARIABLES
    threads,      \* worker threads of this pool
    loc,          \* where each coroutine is in acquire()
    offStrand,    \* the coroutine was resumed by its timer, on the pool
    strandQ,      \* handlers waiting for the strand, in dispatch order
    tokens,       \* tokens_
    sinceRefill,  \* ticks since last_refill_
    rate,         \* rate_
    age,          \* ticks since the coroutine's `now`
    dt,           \* the coroutine's `dt`
    seen,         \* the coroutine's value on its way to tokens_
    timer,        \* ticks until the coroutine's timer t expires
    clock         \* ticks since the limiter was built

vars == <<threads, loc, offStrand, strandQ, tokens, sinceRefill, rate,
          age, dt, seen, timer, clock>>
locals == <<age, dt, seen, timer>>
bucket == <<tokens, sinceRefill, rate>>

\* The program points at which a coroutine holds a worker thread.
RunLocs == {"sample", "load", "store", "stamp", "check", "suspend",
            "take_load", "take_store"}
\* Those between the reading of the clock and the store of last_refill_.
Refilling == {"load", "store", "stamp"}
Locs == {"start", "queued", "waiting", "done"} \union RunLocs

Running == {c \in Coroutines : loc[c] \in RunLocs}
WorkerIdle == Cardinality(Running) < threads
StrandFree == \A c \in Running : offStrand[c]
Granted == {c \in Coroutines : loc[c] = "done"}

AtMost(bound, x) == IF x <= bound THEN x ELSE bound
NonNegative(x) == IF x >= 0 THEN x ELSE 0

Init ==
    /\ threads \in ThreadCounts
    /\ loc = [c \in Coroutines |-> "start"]
    /\ offStrand = [c \in Coroutines |-> FALSE]
    /\ strandQ = <<>>
    /\ tokens = CapQ
    /\ sinceRefill = 0
    /\ rate \in Rates
    /\ age = [c \in Coroutines |-> 0]
    /\ dt = [c \in Coroutines |-> 0]
    /\ seen = [c \in Coroutines |-> 0]
    /\ timer = [c \in Coroutines |-> 0]
    /\ clock = 0

Goto(c, from, to) == loc[c] = from /\ loc' = [loc EXCEPT ![c] = to]

-------------------------------------------------------------------------------
(* acquire(), one action per suspension point or access to shared state.     *)

\* co_await dispatch(bind_executor(strand_, use_awaitable))
Dispatch(c) ==
    /\ WorkerIdle
    /\ Goto(c, "start", "queued")
    /\ strandQ' = Append(strandQ, c)
    /\ UNCHANGED <<threads, offStrand, bucket, locals, clock>>

\* The strand runs its handlers one at a time, in order.
EnterStrand(c) ==
    /\ WorkerIdle /\ StrandFree
    /\ strandQ # <<>> /\ c = Head(strandQ)
    /\ Goto(c, "queued", "sample")
    /\ strandQ' = Tail(strandQ)
    /\ UNCHANGED <<threads, offStrand, bucket, locals, clock>>

\* now = steady_clock::now(); dt = now - last_refill_
Sample(c) ==
    /\ Goto(c, "sample", "load")
    /\ age' = [age EXCEPT ![c] = 0]
    /\ dt' = [dt EXCEPT ![c] = sinceRefill]
    /\ UNCHANGED <<threads, offStrand, strandQ, bucket, seen, timer, clock>>

\* Mutant: the refill is not cut off at capacity_.
LoadTokensUncapped(c) ==
    /\ Goto(c, "load", "store")
    /\ seen' = [seen EXCEPT ![c] = tokens + dt[c] * rate]
    /\ dt' = [dt EXCEPT ![c] = 0]
    /\ UNCHANGED <<threads, offStrand, strandQ, bucket, age, timer, clock>>

\* min(capacity_, tokens_ + dt * rate_)
LoadTokens(c) ==
    /\ Goto(c, "load", "store")
    /\ seen' = [seen EXCEPT ![c] = AtMost(CapQ, tokens + dt[c] * rate)]
    /\ dt' = [dt EXCEPT ![c] = 0]
    /\ UNCHANGED <<threads, offStrand, strandQ, bucket, age, timer, clock>>

StoreTokens(c) ==
    /\ Goto(c, "store", "stamp")
    /\ tokens' = seen[c]
    /\ seen' = [seen EXCEPT ![c] = 0]
    /\ UNCHANGED <<threads, offStrand, strandQ, sinceRefill, rate, age, dt,
                   timer, clock>>

\* Mutant: the refill does not move last_refill_.
StampForgotten(c) ==
    /\ Goto(c, "stamp", "check")
    /\ age' = [age EXCEPT ![c] = 0]
    /\ UNCHANGED <<threads, offStrand, strandQ, bucket, dt, seen, timer, clock>>

\* last_refill_ = now
Stamp(c) ==
    /\ Goto(c, "stamp", "check")
    /\ sinceRefill' = age[c]
    /\ age' = [age EXCEPT ![c] = 0]
    /\ UNCHANGED <<threads, offStrand, strandQ, tokens, rate, dt, seen, timer,
                   clock>>

\* Mutant: any fraction of a token is taken for a token.
CheckFraction(c) ==
    /\ Goto(c, "check", IF tokens > 0 THEN "take_load" ELSE "suspend")
    /\ UNCHANGED <<threads, offStrand, strandQ, bucket, locals, clock>>

\* if (tokens_ >= 1.0)
Check(c) ==
    /\ Goto(c, "check", IF tokens >= TokenQ THEN "take_load" ELSE "suspend")
    /\ UNCHANGED <<threads, offStrand, strandQ, bucket, locals, clock>>

\* tokens_ -= 1.0; co_return
TakeLoad(c) ==
    /\ Goto(c, "take_load", "take_store")
    /\ seen' = [seen EXCEPT ![c] = tokens - TokenQ]
    /\ UNCHANGED <<threads, offStrand, strandQ, bucket, age, dt, timer, clock>>

TakeStore(c) ==
    /\ Goto(c, "take_store", "done")
    /\ tokens' = seen[c]
    /\ seen' = [seen EXCEPT ![c] = 0]
    /\ UNCHANGED <<threads, offStrand, strandQ, sinceRefill, rate, age, dt,
                   timer, clock>>

\* t.expires_after((1 - tokens_) / rate_), truncated to the clock's unit
Suspend(c) ==
    /\ Goto(c, "suspend", "waiting")
    /\ timer' = [timer EXCEPT ![c] = NonNegative(TokenQ - tokens) \div rate]
    /\ UNCHANGED <<threads, offStrand, strandQ, bucket, age, dt, seen, clock>>

\* Mutant: the coroutine looks for a token again without a refill.
ResumeUnrefilled(c) ==
    /\ WorkerIdle
    /\ timer[c] = 0
    /\ Goto(c, "waiting", "check")
    /\ offStrand' = [offStrand EXCEPT ![c] = TRUE]
    /\ UNCHANGED <<threads, strandQ, bucket, locals, clock>>

\* The timer's handler is bound to the pool: no strand is needed or taken.
Resume(c) ==
    /\ WorkerIdle
    /\ timer[c] = 0
    /\ Goto(c, "waiting", "sample")
    /\ offStrand' = [offStrand EXCEPT ![c] = TRUE]
    /\ UNCHANGED <<threads, strandQ, bucket, locals, clock>>

-------------------------------------------------------------------------------
(* The environment.                                                          *)

Older(a) == AtMost(Horizon, a + 1)

\* Time passes; a coroutine can be preempted between any two of its steps.
Tick ==
    /\ clock' = Older(clock)
    /\ sinceRefill' = Older(sinceRefill)
    /\ age' = [c \in Coroutines |-> IF loc[c] \in Refilling
                                    THEN Older(age[c]) ELSE age[c]]
    /\ timer' = [c \in Coroutines |-> NonNegative(timer[c] - 1)]
    /\ UNCHANGED <<threads, loc, offStrand, strandQ, tokens, rate, dt, seen>>

\* Mutant: a rate of zero is stored.
ChangeRateUnclamped ==
    /\ rate' \in (Rates \union {0}) \ {rate}
    /\ UNCHANGED <<threads, loc, offStrand, strandQ, tokens, sinceRefill,
                   locals, clock>>

\* set_rate() and on_response() store a new rate_ at any time.
ChangeRate ==
    /\ rate' \in Rates \ {rate}
    /\ UNCHANGED <<threads, loc, offStrand, strandQ, tokens, sinceRefill,
                   locals, clock>>

Step(c) ==
    \/ Dispatch(c) \/ EnterStrand(c) \/ Sample(c) \/ LoadTokens(c)
    \/ StoreTokens(c) \/ Stamp(c) \/ Check(c) \/ TakeLoad(c) \/ TakeStore(c)
    \/ Suspend(c) \/ Resume(c)

Next == Tick \/ ChangeRate \/ \E c \in Coroutines : Step(c)

Spec == Init /\ [][Next]_vars

\* Time advances and the scheduler runs every runnable coroutine.
FairSpec == Spec /\ WF_vars(Tick) /\ \A c \in Coroutines : WF_vars(Step(c))

-------------------------------------------------------------------------------
(* Properties.                                                               *)

TypeOK ==
    /\ threads \in ThreadCounts
    /\ loc \in [Coroutines -> Locs]
    /\ offStrand \in [Coroutines -> BOOLEAN]
    /\ strandQ \in Seq(Coroutines)
    /\ tokens \in Int
    /\ sinceRefill \in 0..Horizon
    /\ rate \in Rates
    /\ age \in [Coroutines -> 0..Horizon]
    /\ dt \in [Coroutines -> 0..Horizon]
    /\ seen \in [Coroutines -> Int]
    /\ timer \in [Coroutines -> Nat]
    /\ clock \in 0..Horizon

\* No two coroutines are inside the loop of acquire() at once: what the strand
\* is there for (rate_limiter.hpp:15).
Serialized == \A c, d \in Running : c = d

\* The tokens handed out and the tokens left never exceed the capacity plus
\* what the elapsed time has earned at the highest rate: no tick of time is
\* credited twice and no token is granted twice.
Earned(ticks) == MaxRate * ticks
Spent == Cardinality(Granted) * TokenQ
Allowance == CapQ + Earned(clock) - Spent
WithinBudget == clock < Horizon => tokens <= Allowance

\* With one worker, and with any number as long as no coroutine has had to
\* wait for a token, the strand serialises acquire() ...
Serial == threads = 1 \/ \A c \in Coroutines : ~offStrand[c]

\* ... and the budget is kept (the limit a scan is given with --rate).
SerializedBudget == Serial => Serialized /\ WithinBudget

\* Why: the time last_refill_ still owes is covered at every point of
\* refill_locked(), from the reading of the clock to the store of it.
TimeCoveredAt(c) ==
    /\ loc[c] = "load" => tokens + Earned(dt[c]) + Earned(age[c]) <= Allowance
    /\ loc[c] = "store" => seen[c] + Earned(age[c]) <= Allowance
    /\ loc[c] = "stamp" => tokens + Earned(age[c]) <= Allowance
    /\ loc[c] = "take_store" => seen[c] = tokens - TokenQ
TimeCovered ==
    /\ (\A c \in Coroutines : loc[c] \notin Refilling) =>
           tokens + Earned(sinceRefill) <= Allowance
    /\ \A c \in Coroutines : TimeCoveredAt(c)
BudgetInv ==
    Serial => /\ Serialized
              /\ clock < Horizon => tokens <= Allowance /\ TimeCovered

\* The bucket never holds more than its capacity, however passes of different
\* workers interleave between the min() and the store.
NeverOverfull == tokens <= CapQ

\* With one worker every acquire() returns: a wait that is truncated, overtaken
\* by another coroutine or computed from a stale rate is retried, never lost.
\* (With two, unlucky preemptions can undo each refill for ever.)
EveryAcquireReturns ==
    \A c \in Coroutines : threads = 1 ~> loc[c] = "done"
===============================================================================
