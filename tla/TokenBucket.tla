------------------------------ MODULE TokenBucket ------------------------------
(*****************************************************************************)
(* What a rate limiter promises, without coroutines, strands or timers: a    *)
(* bucket that starts full; elapsed time pays credit into it, each tick at   *)
(* most once and at most MaxRate quanta; a grant takes exactly one token.    *)
(*****************************************************************************)
EXTENDS Integers

CONSTANTS Clients, TokenQ, CapQ, MaxRate, Horizon

VARIABLES
    level,      \* quanta in the bucket
    unpaid,     \* ticks of elapsed time not yet turned into credit
    granted     \* clients that hold a token

bucketVars == <<level, unpaid, granted>>

Init == level = CapQ /\ unpaid = 0 /\ granted = {}

Grant(c) ==
    /\ c \notin granted
    /\ level >= TokenQ
    /\ level' = level - TokenQ
    /\ granted' = granted \union {c}
    /\ UNCHANGED unpaid

\* Some of the unpaid time is turned into credit; what is paid is gone.  At
\* Horizon the age has stopped counting and stands for any longer time.
Credit ==
    /\ \E left \in 0..unpaid, quanta \in 0..CapQ :
          /\ quanta <= MaxRate * (unpaid - left) \/ unpaid = Horizon
          /\ level + quanta <= CapQ
          /\ level' = level + quanta
          /\ unpaid' = left
    /\ UNCHANGED granted

Elapse ==
    /\ unpaid < Horizon
    /\ unpaid' = unpaid + 1
    /\ UNCHANGED <<level, granted>>

Next == Credit \/ Elapse \/ \E c \in Clients : Grant(c)

Spec == Init /\ [][Next]_bucketVars
===============================================================================
