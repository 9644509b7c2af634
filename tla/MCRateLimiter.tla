----------------------------- MODULE MCRateLimiter -----------------------------
(*****************************************************************************)
(* RateLimiter for TLC, and the mapping of its state to a TokenBucket.       *)
(*****************************************************************************)
EXTENDS RateLimiter

\* Between the store of tokens_ and the store of last_refill_ the time just
\* credited is still on the books of last_refill_: what is unpaid then is the
\* age of the coroutine's own clock reading.
Unpaid ==
    IF \E c \in Coroutines : loc[c] = "stamp"
    THEN age[CHOOSE c \in Coroutines : loc[c] = "stamp"]
    ELSE sinceRefill

Bucket == INSTANCE TokenBucket
    WITH Clients <- Coroutines, level <- tokens, unpaid <- Unpaid,
         granted <- Granted

\* As long as the strand serialises it, the limiter is a token bucket: a step
\* of acquire() pays each tick of elapsed time into the bucket at most once,
\* grants exactly one whole token, or changes nothing a client can see.
IsTokenBucket ==
    /\ Bucket!Init
    /\ [][Serial => [Bucket!Next]_(Bucket!bucketVars)]_vars
===============================================================================
