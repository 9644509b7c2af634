----------------------------- MODULE AdaptiveRate -----------------------------
(*****************************************************************************)
(* The adaptive half of sps::net::RateLimiter: on_response(), called by the  *)
(* scan coroutines from any worker thread, without a lock or the strand.     *)
(* Every load, store and fetch_add of an atomic member is a step of its own. *)
(*                                                                           *)
(* Round-trip times are whole milliseconds and their averages are rounded    *)
(* down; rates are in units of which One is 1.0 packet a second.  The loss   *)
(* thresholds are 1/HighDen and 1/LowDen (1/20 and 1/100 in the code).       *)
(*****************************************************************************)
EXTENDS Integers, FiniteSets

CONSTANTS
    Responders,   \* coroutines that may be inside on_response() at once
    Rtts,         \* round-trip times, a negative one included
    AdjustEvery,  \* kAdjustEvery
    WindowReset,  \* kWindowReset
    HighDen,      \* 1 / kLossHigh
    LowDen,       \* 1 / kLossLow
    Floor,        \* 0.1, the least rate the constructor and set_rate() store
    One,          \* 1.0, the least rate a slow-down stores
    StartRate,    \* rate_ after construction
    MaxRate,      \* max_rate_
    SetRates,     \* arguments of set_rate()
    MaxCalls      \* bound: calls of on_response() and of set_rate()

ASSUME RespondersAssumption == IsFiniteSet(Responders) /\ Responders # {}
ASSUME RttsAssumption == Rtts \subseteq Int /\ Rtts # {}
ASSUME PeriodAssumption ==
    /\ AdjustEvery \in Nat \ {0} /\ WindowReset \in Nat \ {0}
    /\ HighDen \in Nat \ {0} /\ LowDen \in Nat \ {0}
\* rate_ = max(0.1, tokens_per_second) and max_rate_ is max_rate or
\* tokens_per_second, whichever is greater: of a rate below 0.1, which the
\* window loads from its settings unchecked, max_rate_ may be below rate_, and
\* below 0.1 or 1.0 too.
ASSUME RateAssumption ==
    /\ Floor \in Nat \ {0} /\ One \in Nat /\ Floor <= One
    /\ MaxRate \in Nat \ {0} /\ StartRate \in Nat /\ Floor <= StartRate
    /\ StartRate <= Floor \/ StartRate <= MaxRate
ASSUME SetRatesAssumption == SetRates \subseteq Int
ASSUME MaxCallsAssumption == MaxCalls \in Nat

VARIABLES
    rate,         \* rate_
    srtt,         \* srtt_ms_, -1 before the first sample
    rttvar,       \* rttvar_ms_
    samples,      \* sample_count_
    losses,       \* loss_count_
    pc,           \* where each responder is in on_response()
    call,         \* its arguments
    n,            \* its `samples`
    old,          \* what it read from srtt_ms_ or from loss_count_
    new,          \* what it is about to store to rttvar_ms_ or rate_
    calls,        \* calls made so far
    adjustments,  \* times the rate has been looked at for adjustment
    asked         \* the greatest rate a caller has asked for

vars == <<rate, srtt, rttvar, samples, losses, pc, call, n, old, new, calls,
          adjustments, asked>>
rtt == <<srtt, rttvar>>
window == <<samples, losses>>
ghosts == <<calls, adjustments, asked>>

Locs == {"idle", "load_srtt", "first_srtt", "first_var", "load_var",
         "store_srtt", "store_var", "count", "loss", "load_losses", "adjust",
         "store_rate", "reset_samples", "reset_losses"}
Call == [rtt : Rtts, loss : BOOLEAN]
NoCall == CHOOSE c \in Call : c.loss

AtLeast(bound, x) == IF x >= bound THEN x ELSE bound
AtMost(bound, x) == IF x <= bound THEN x ELSE bound
Distance(x, y) == IF x >= y THEN x - y ELSE y - x

Init ==
    /\ rate = StartRate
    /\ srtt = -1 /\ rttvar = 0 /\ samples = 0 /\ losses = 0
    /\ pc = [r \in Responders |-> "idle"]
    /\ call = [r \in Responders |-> NoCall]
    /\ n = [r \in Responders |-> 0]
    /\ old = [r \in Responders |-> 0]
    /\ new = [r \in Responders |-> 0]
    /\ calls = 0 /\ adjustments = 0 /\ asked = StartRate

\* A responder goes on, and forgets its call when it returns.
Goto(r, from, to) ==
    /\ pc[r] = from
    /\ pc' = [pc EXCEPT ![r] = to]
    /\ IF to = "idle"
       THEN call' = [call EXCEPT ![r] = NoCall] /\ n' = [n EXCEPT ![r] = 0]
       ELSE UNCHANGED <<call, n>>

-------------------------------------------------------------------------------
(* on_response(rtt, was_loss)                                                *)

\* A call that is neither lost nor negative goes through the averages.
Begin(r, c) ==
    /\ calls < MaxCalls
    /\ pc[r] = "idle"
    /\ pc' = [pc EXCEPT ![r] = IF ~c.loss /\ c.rtt >= 0 THEN "load_srtt"
                               ELSE "count"]
    /\ call' = [call EXCEPT ![r] = c]
    /\ calls' = calls + 1
    /\ UNCHANGED <<rate, rtt, window, n, old, new, adjustments, asked>>

LoadSrtt(r) ==
    /\ Goto(r, "load_srtt", IF srtt < 0 THEN "first_srtt" ELSE "load_var")
    /\ old' = [old EXCEPT ![r] = srtt]
    /\ UNCHANGED <<rate, rtt, window, new, ghosts>>

FirstSrtt(r) ==
    /\ Goto(r, "first_srtt", "first_var")
    /\ srtt' = call[r].rtt
    /\ UNCHANGED <<rate, rttvar, window, old, new, ghosts>>

FirstVar(r) ==
    /\ Goto(r, "first_var", "count")
    /\ rttvar' = call[r].rtt \div 2
    /\ UNCHANGED <<rate, srtt, window, old, new, ghosts>>

LoadVar(r) ==
    /\ Goto(r, "load_var", "store_srtt")
    /\ new' = [new EXCEPT
                 ![r] = (3 * rttvar + Distance(old[r], call[r].rtt)) \div 4]
    /\ UNCHANGED <<rate, rtt, window, old, ghosts>>

\* Mutant: the average is stored without its division.
StoreSrttUndivided(r) ==
    /\ Goto(r, "store_srtt", "store_var")
    /\ srtt' = (7 * old[r] + call[r].rtt) \div 7
    /\ UNCHANGED <<rate, rttvar, window, old, new, ghosts>>

\* srtt = 7/8 srtt + 1/8 rtt
StoreSrtt(r) ==
    /\ Goto(r, "store_srtt", "store_var")
    /\ srtt' = (7 * old[r] + call[r].rtt) \div 8
    /\ UNCHANGED <<rate, rttvar, window, old, new, ghosts>>

StoreVar(r) ==
    /\ Goto(r, "store_var", "count")
    /\ rttvar' = new[r]
    /\ old' = [old EXCEPT ![r] = 0] /\ new' = [new EXCEPT ![r] = 0]
    /\ UNCHANGED <<rate, srtt, window, ghosts>>

\* Every AdjustEvery-th sample adjusts the rate; for the others on_response()
\* is over.  A loss is counted first.
AfterCount(k) == IF k % AdjustEvery = 0 THEN "load_losses" ELSE "idle"

CountedAs(r, k) ==
    /\ pc[r] = "count"
    /\ IF call[r].loss \/ AfterCount(k) # "idle"
       THEN /\ pc' = [pc EXCEPT ![r] = IF call[r].loss THEN "loss"
                                       ELSE AfterCount(k)]
            /\ n' = [n EXCEPT ![r] = k]
            /\ UNCHANGED call
       ELSE Goto(r, "count", "idle")
    /\ UNCHANGED <<rate, rtt, losses, old, new, ghosts>>

\* Mutant: fetch_add without the + 1.
CountBefore(r) == samples' = samples + 1 /\ CountedAs(r, samples)

\* samples = sample_count_.fetch_add(1) + 1
Count(r) == samples' = samples + 1 /\ CountedAs(r, samples + 1)

\* if (was_loss) loss_count_.fetch_add(1)
CountLoss(r) ==
    /\ Goto(r, "loss", AfterCount(n[r]))
    /\ losses' = losses + 1
    /\ UNCHANGED <<rate, rtt, samples, old, new, ghosts>>

LoadLosses(r) ==
    /\ Goto(r, "load_losses", "adjust")
    /\ old' = [old EXCEPT ![r] = losses]
    /\ adjustments' = adjustments + 1
    /\ UNCHANGED <<rate, rtt, window, new, calls, asked>>

\* Mutant: a speed-up is not capped at max_rate_.
NextRateUncapped(lost, of, cur) ==
    IF lost * HighDen > of THEN AtLeast(One, (cur * 7) \div 10)
    ELSE IF lost * LowDen < of THEN (cur * 105) \div 100
    ELSE cur

\* More than 5% lost slows down by 0.7 to 1.0 at least, less than 1% speeds up
\* by 1.05 to max_rate_ at most.
NextRate(lost, of, cur) ==
    IF lost * HighDen > of THEN AtLeast(One, (cur * 7) \div 10)
    ELSE IF lost * LowDen < of THEN AtMost(MaxRate, (cur * 105) \div 100)
    ELSE cur

AfterAdjust(r) == IF n[r] >= WindowReset THEN "reset_samples" ELSE "idle"

Adjust(r) ==
    LET next == NextRate(old[r], n[r], rate)
    IN  /\ Goto(r, "adjust",
                IF next # rate THEN "store_rate" ELSE AfterAdjust(r))
        /\ new' = [new EXCEPT ![r] = IF next # rate THEN next ELSE 0]
        /\ old' = [old EXCEPT ![r] = 0]
        /\ UNCHANGED <<rate, rtt, window, ghosts>>

StoreRate(r) ==
    /\ Goto(r, "store_rate", AfterAdjust(r))
    /\ rate' = new[r]
    /\ new' = [new EXCEPT ![r] = 0]
    /\ UNCHANGED <<rtt, window, old, ghosts>>

ResetSamples(r) ==
    /\ Goto(r, "reset_samples", "reset_losses")
    /\ samples' = 0
    /\ UNCHANGED <<rate, rtt, losses, old, new, ghosts>>

\* Mutant: only the samples start a new window.
ResetLossesForgotten(r) ==
    /\ Goto(r, "reset_losses", "idle")
    /\ UNCHANGED <<rate, rtt, window, old, new, ghosts>>

ResetLosses(r) ==
    /\ Goto(r, "reset_losses", "idle")
    /\ losses' = 0
    /\ UNCHANGED <<rate, rtt, samples, old, new, ghosts>>

-------------------------------------------------------------------------------
(* set_rate(): a store of its own, at any time.  It has no upper bound; a   *)
(* rate below 0.1 is stored as 0.1; rate_limiter.hpp:43 has it ignored.      *)

SetRate(v) ==
    /\ calls < MaxCalls
    /\ rate' = AtLeast(Floor, v)
    /\ asked' = AtLeast(asked, v)
    /\ calls' = calls + 1
    /\ UNCHANGED <<rtt, window, pc, call, n, old, new, adjustments>>

OnResponse(r) ==
    \/ \E c \in Call : (c.loss => c = NoCall) /\ Begin(r, c)
    \/ LoadSrtt(r) \/ FirstSrtt(r) \/ FirstVar(r) \/ LoadVar(r) \/ StoreSrtt(r)
    \/ StoreVar(r) \/ Count(r) \/ CountLoss(r) \/ LoadLosses(r) \/ Adjust(r)
    \/ StoreRate(r) \/ ResetSamples(r) \/ ResetLosses(r)

Next ==
    \/ \E r \in Responders : OnResponse(r)
    \/ \E v \in SetRates : SetRate(v)

Spec == Init /\ [][Next]_vars

-------------------------------------------------------------------------------
(* Properties.                                                               *)

TypeOK ==
    /\ rate \in Nat /\ srtt \in Int /\ rttvar \in Int
    /\ samples \in Nat /\ losses \in Nat
    /\ pc \in [Responders -> Locs]
    /\ call \in [Responders -> Call]
    /\ n \in [Responders -> Nat]
    /\ old \in [Responders -> Int]
    /\ new \in [Responders -> Int]
    /\ calls \in Nat /\ adjustments \in Nat /\ asked \in Nat

\* The least and the greatest rate: max_rate_ may be below 0.1, a slow-down
\* stores 1.0 at least, and set_rate() stores what it is asked for.
LeastRate == AtMost(Floor, MaxRate)
MostRate == AtLeast(AtLeast(One, MaxRate), asked)

\* However adjustments and set_rate() overwrite each other, the rate is never
\* zero, on which the waits of acquire() divide, and it is never above all of
\* max_rate_, 1.0 and the rates a caller asked for: a lost update can cost a
\* step, and an adjustment cannot climb from a rate set meanwhile.
RateInRange == LeastRate <= rate /\ rate <= MostRate

\* The smoothed round-trip time is one the samples can account for: two first
\* samples, or two averages from the same old value, cannot push it outside.
SrttWithinSamples ==
    srtt # -1 =>
        \E low, high \in {t \in Rtts : t >= 0} : low <= srtt /\ srtt <= high

\* Away from a reset in progress the losses exceed the samples of their window
\* by the calls that straddled the reset at most, one a responder: the counters
\* of the two resets never drift apart from window to window.
LossesAccounted ==
    (\A r \in Responders : pc[r] # "reset_losses") =>
        losses < samples + Cardinality(Responders)

\* Every AdjustEvery samples are looked at once: no two responders adjust the
\* rate for the same batch, and no batch is shorter after a reset.
AdjustmentsSpaced == adjustments * AdjustEvery <= calls
===============================================================================
