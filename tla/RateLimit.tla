------------------------------ MODULE RateLimit ------------------------------
(***************************************************************************)
(* The rate limiter in front of the rendezvous handlers (rate_take and     *)
(* rv_handle in src/lobby/rendezvous.c): token buckets refilled lazily     *)
(* from a 32-bit millisecond clock that wraps.                             *)
(*                                                                         *)
(* Beside the code's two words per bucket the module keeps what they are   *)
(* judged against and the code does not have: the budget each address      *)
(* would have if its own bucket were refilled at every instant (budget),   *)
(* and how long a bucket has gone without a packet (idle): one that once   *)
(* went a whole round of the clock without stays marked.                   *)
(***************************************************************************)
EXTENDS Integers

CONSTANTS
    Ip,          \* source addresses, numbers
    NumBuckets,  \* RV_RATE_BUCKETS
    Cap,         \* a full bucket, in milli-tokens: RV_RATE_BURST * 1000
    Cost,        \* a packet, in milli-tokens: 1000
    Rate,        \* milli-tokens per millisecond: RV_RATE_PER_SEC
    Word         \* 2^32, the range of the clock and of the counters

ASSUME RateAssumption ==
    /\ Ip \subseteq Nat
    /\ {NumBuckets, Cap, Cost, Rate, Word} \subseteq Nat \ {0}
    /\ Cost <= Cap /\ 2 * Cap < Word

VARIABLES
    now,     \* the millisecond clock, modulo Word
    tokens,  \* tokens_milli of each bucket
    last,    \* last_ms of each bucket
    budget,  \* what each address has left of the promised rate
    idle     \* time since each bucket's last packet; Word once it was that long

vars == <<now, tokens, last, budget, idle>>

Bucket == 0 .. NumBuckets - 1

\* The table has no tags: addresses alike modulo its size share a bucket.
BucketOf(ip) == ip % NumBuckets

Least(a, b) == IF a < b THEN a ELSE b

Lapped(b) == idle[b] = Word

Init ==
    /\ now \in 0 .. Word - 1
    /\ tokens = [b \in Bucket |-> Cap]
    /\ last = [b \in Bucket |-> now]
    /\ budget = [ip \in Ip |-> Cap]
    /\ idle = [b \in Bucket |-> 0]

-----------------------------------------------------------------------------
(* rate_take                                                               *)

Elapsed(b) == (now - last[b]) % Word

\* Mutant of Refilled: a long idle time is multiplied out, and overflows.
RefilledUnclamped(b) ==
    Least((tokens[b] + Elapsed(b) * Rate) % Word, Cap)

\* Mutant of Refilled: saved-up tokens have no limit.
RefilledUncapped(b) ==
    IF Elapsed(b) > Cap \div Rate
    THEN Cap
    ELSE (tokens[b] + Elapsed(b) * Rate) % Word

Refilled(b) ==
    IF Elapsed(b) > Cap \div Rate
    THEN Cap
    ELSE Least((tokens[b] + Elapsed(b) * Rate) % Word, Cap)

\* The packet is let through when the refilled bucket holds its price.
Passes(ip) == Refilled(BucketOf(ip)) >= Cost

\* Mutant of Refuse: the refilled tokens are stored, the time is not.
RefuseKeepsTime(ip) ==
    LET b == BucketOf(ip) IN
    /\ ~ Passes(ip)
    /\ tokens' = [tokens EXCEPT ![b] = Refilled(b)]
    /\ idle' = [idle EXCEPT ![b] = IF Lapped(b) THEN @ ELSE 0]
    /\ UNCHANGED <<now, last, budget>>

Refuse(ip) ==
    LET b == BucketOf(ip) IN
    /\ ~ Passes(ip)
    /\ tokens' = [tokens EXCEPT ![b] = Refilled(b)]
    /\ last' = [last EXCEPT ![b] = now]
    /\ idle' = [idle EXCEPT ![b] = IF Lapped(b) THEN @ ELSE 0]
    /\ UNCHANGED <<now, budget>>

Take(ip) ==
    LET b == BucketOf(ip) IN
    /\ Passes(ip)
    /\ tokens' = [tokens EXCEPT ![b] = Refilled(b) - Cost]
    /\ last' = [last EXCEPT ![b] = now]
    /\ budget' = [budget EXCEPT ![ip] = @ - Cost]
    /\ idle' = [idle EXCEPT ![b] = IF Lapped(b) THEN @ ELSE 0]
    /\ UNCHANGED now

\* rv_handle: a control packet is charged; RELAY never is, and leaves no trace
\* here.
Handle(ip) == Take(ip) \/ Refuse(ip)

Millisecond ==
    /\ now' = (now + 1) % Word
    /\ budget' = [ip \in Ip |-> Least(budget[ip] + Rate, Cap)]
    /\ idle' = [b \in Bucket |-> Least(idle[b] + 1, Word)]
    /\ UNCHANGED <<tokens, last>>

Next == Millisecond \/ \E ip \in Ip : Handle(ip)

Spec == Init /\ [][Next]_vars

-----------------------------------------------------------------------------
(* Properties.                                                             *)

TypeOK ==
    /\ now \in 0 .. Word - 1
    /\ tokens \in [Bucket -> 0 .. Cap]
    /\ last \in [Bucket -> 0 .. Word - 1]
    /\ idle \in [Bucket -> 0 .. Word]
    /\ budget \in [Ip -> Int]

\* No address is ever let through faster than promised: in any span of time,
\* wraps of the clock included, at most the burst and what the rate allows.
\* (The budget, refilled continuously and charged for each packet let
\* through, is never overdrawn.)
RateHonoured == \A ip \in Ip : budget[ip] >= 0

\* The lazily refilled bucket never holds more than the budgets of those who
\* share it, and it holds all of the budget of an address that has the bucket
\* to itself, unless it ever went a whole round of the clock without a packet.
Alone(ip) == \A other \in Ip \ {ip} : BucketOf(other) # BucketOf(ip)

LazyRefillExact ==
    \A ip \in Ip :
        /\ Refilled(BucketOf(ip)) <= budget[ip]
        /\ Alone(ip) /\ ~ Lapped(BucketOf(ip)) =>
               Refilled(BucketOf(ip)) = budget[ip]
=============================================================================

