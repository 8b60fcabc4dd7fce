----------------------------- MODULE RateProofs -----------------------------
(***************************************************************************)
(* Theorems about RateLimit, for every set of addresses, number of         *)
(* buckets, burst, price, rate and width of the words.                     *)
(*                                                                         *)
(* The inductive invariant compares a bucket as it would be if refilled    *)
(* now with the budgets of those who share it.  The clock makes both grow  *)
(* alike, except that the bucket forgets the elapsed time when it wraps;   *)
(* idle, as long as it has not gone a whole round, is the elapsed time.    *)
(***************************************************************************)
EXTENDS RateLimit, TLAPS

USE RateAssumption

\* Only a bucket that once went a whole round without a packet has an elapsed
\* time that is not the true one.
IdleTold(b) == ~ Lapped(b) => idle[b] = Elapsed(b)

NeverMore(ip) == Refilled(BucketOf(ip)) <= budget[ip]

AllOfIt(ip) ==
    Alone(ip) /\ ~ Lapped(BucketOf(ip)) => Refilled(BucketOf(ip)) = budget[ip]

IInv ==
    /\ TypeOK
    /\ \A b \in Bucket : IdleTold(b)
    /\ \A ip \in Ip : NeverMore(ip) /\ AllOfIt(ip)

-----------------------------------------------------------------------------
(* Arithmetic.                                                             *)

\* The difference of two readings of the clock.
LEMMA Difference ==
  ASSUME NEW a \in 0 .. Word - 1, NEW b \in 0 .. Word - 1
  PROVE  (a - b) % Word = IF b <= a THEN a - b ELSE a - b + Word
<1>1. CASE b <= a
  BY <1>1
<1>2. CASE ~ (b <= a)
  <2>1. a - b = (-1) * Word + (a - b + Word) /\ a - b + Word \in 0 .. Word - 1
    BY <1>2
  <2>2. QED
    BY <1>2, <2>1
<1>3. QED
  BY <1>1, <1>2

LEMMA BucketRange ==
  ASSUME NEW ip \in Ip
  PROVE  BucketOf(ip) \in Bucket
BY DEF BucketOf, Bucket

\* What a refill gives, without the clamp and the words of the code.
LEMMA RefillIs ==
  ASSUME NEW t \in 0 .. Cap, NEW e \in Nat
  PROVE  (IF e > Cap \div Rate THEN Cap ELSE Least((t + e * Rate) % Word, Cap))
             = Least(t + e * Rate, Cap)
<1> DEFINE d == Cap \div Rate
<1>1. d \in Nat /\ d * Rate <= Cap /\ Cap < (d + 1) * Rate
  OBVIOUS
<1>2. CASE e > d
  <2>1. e >= d + 1
    BY <1>1, <1>2
  <2>2. e * Rate >= (d + 1) * Rate
    BY <2>1, <1>1
  <2>3. e * Rate \in Nat /\ (d + 1) * Rate \in Nat
    BY <1>1
  <2>4. QED
    BY <1>1, <1>2, <2>2, <2>3 DEF Least
<1>3. CASE ~ (e > d)
  <2>1. e * Rate <= d * Rate
    BY <1>1, <1>3
  <2>2. e * Rate \in Nat /\ d * Rate \in Nat
    BY <1>1
  <2>3. t + e * Rate \in 0 .. Word - 1
    BY <1>1, <2>1, <2>2
  <2>4. (t + e * Rate) % Word = t + e * Rate
    BY <2>3
  <2>5. QED
    BY <1>3, <2>4
<1>4. QED
  BY <1>2, <1>3

\* The bucket b, refilled now.
LEMMA RefilledIs ==
  ASSUME TypeOK, NEW b \in Bucket
  PROVE  /\ Elapsed(b) \in 0 .. Word - 1
         /\ Refilled(b) = Least(tokens[b] + Elapsed(b) * Rate, Cap)
         /\ Refilled(b) \in 0 .. Cap
<1>1. now - last[b] \in Int /\ tokens[b] \in 0 .. Cap
  BY DEF TypeOK
<1>2. Elapsed(b) \in 0 .. Word - 1
  BY <1>1 DEF Elapsed
<1>3. Refilled(b) = Least(tokens[b] + Elapsed(b) * Rate, Cap)
  BY <1>1, <1>2, RefillIs DEF Refilled
<1>4. PICK x \in Nat : x = Elapsed(b) * Rate
  BY <1>2
<1>5. QED
  BY <1>1, <1>2, <1>3, <1>4 DEF Least

\* A packet, let through or not, leaves the tokens of the refilled bucket, less
\* its price, and the present as the time of the refill.
LEMMA HandledBucket ==
  ASSUME TypeOK, NEW c \in Bucket, NEW x \in 0 .. Cap, now' = now,
         tokens' = [tokens EXCEPT ![c] = x], last' = [last EXCEPT ![c] = now],
         idle' = [idle EXCEPT ![c] = IF Lapped(c) THEN @ ELSE 0],
         \A b \in Bucket : IdleTold(b)
  PROVE  /\ tokens' \in [Bucket -> 0 .. Cap] /\ last' \in [Bucket -> 0 .. Word - 1]
         /\ idle' \in [Bucket -> 0 .. Word]
         /\ Refilled(c)' = x
         /\ \A b \in Bucket \ {c} : Refilled(b)' = Refilled(b)
         /\ \A b \in Bucket : IdleTold(b)' /\ (Lapped(b)' <=> Lapped(b))
<1>1. /\ tokens' \in [Bucket -> 0 .. Cap] /\ last' \in [Bucket -> 0 .. Word - 1]
      /\ idle' \in [Bucket -> 0 .. Word]
  BY DEF TypeOK, Lapped
<1>2. tokens'[c] = x /\ last'[c] = now /\ now \in Int
  BY DEF TypeOK
<1>3. Elapsed(c)' = 0
  BY <1>2, Difference DEF Elapsed, TypeOK
<1>4. Refilled(c)' = x
  <2>1. (IF Elapsed(c)' > Cap \div Rate THEN Cap
         ELSE Least((x + Elapsed(c)' * Rate) % Word, Cap)) = Least(x + Elapsed(c)' * Rate, Cap)
    BY <1>3, RefillIs
  <2>2. QED
    BY <1>2, <1>3, <2>1 DEF Refilled, Least
<1>5. \A b \in Bucket \ {c} :
        /\ tokens'[b] = tokens[b] /\ last'[b] = last[b] /\ idle'[b] = idle[b]
  BY DEF TypeOK
<1>6. \A b \in Bucket \ {c} : Elapsed(b)' = Elapsed(b) /\ Refilled(b)' = Refilled(b)
  BY <1>5 DEF Elapsed, Refilled
<1>7. idle'[c] = IF Lapped(c) THEN idle[c] ELSE 0
  BY DEF TypeOK
<1>8. IdleTold(c)' /\ (Lapped(c)' <=> Lapped(c))
  BY <1>3, <1>7 DEF IdleTold, Lapped
<1>9. \A b \in Bucket \ {c} : IdleTold(b)' /\ (Lapped(b)' <=> Lapped(b))
  BY <1>5, <1>6 DEF IdleTold, Lapped
<1>10. QED
  BY <1>1, <1>4, <1>6, <1>8, <1>9

-----------------------------------------------------------------------------
(* The steps.                                                              *)

LEMMA InitOK == Init => IInv
<1> SUFFICES ASSUME Init PROVE IInv
  OBVIOUS
<1>1. TypeOK
  BY DEF Init, TypeOK
<1>2. \A b \in Bucket : Elapsed(b) = 0
  BY Difference DEF Init, Elapsed
<1>3. \A b \in Bucket : Refilled(b) = Cap
  BY <1>1, <1>2, RefilledIs DEF Init, Least
<1>4. \A ip \in Ip : budget[ip] = Cap /\ Refilled(BucketOf(ip)) = Cap
  BY <1>3, BucketRange DEF Init
<1>5. \A b \in Bucket : IdleTold(b)
  BY <1>2 DEF IdleTold, Init
<1>6. ASSUME NEW ip \in Ip PROVE NeverMore(ip) /\ AllOfIt(ip)
  <2>1. Cap \in Int
    OBVIOUS
  <2>2. QED
    BY <1>4, <2>1 DEF NeverMore, AllOfIt
<1>7. QED
  BY <1>1, <1>5, <1>6 DEF IInv

LEMMA HandleOK ==
  ASSUME IInv, NEW ip \in Ip, Handle(ip)
  PROVE  IInv'
<1> DEFINE c == BucketOf(ip)
<1>1. c \in Bucket /\ TypeOK
  BY BucketRange DEF IInv
<1>2. PICK x \in 0 .. Cap, cost \in {0, Cost} :
        /\ x = Refilled(c) - cost
        /\ tokens' = [tokens EXCEPT ![c] = x]
        /\ last' = [last EXCEPT ![c] = now]
        /\ idle' = [idle EXCEPT ![c] = IF Lapped(c) THEN @ ELSE 0]
        /\ budget' = [budget EXCEPT ![ip] = @ - cost]
        /\ now' = now
  <2>1. Refilled(c) \in 0 .. Cap
    BY <1>1, RefilledIs
  <2>2. CASE Take(ip)
    <3>1. Refilled(c) - Cost \in 0 .. Cap
      BY <2>1, <2>2 DEF Take, Passes
    <3>2. QED
      BY <2>2, <3>1 DEF Take
  <2>3. CASE Refuse(ip)
    <3>1. budget \in [Ip -> Int]
      BY <1>1 DEF TypeOK
    <3>2. budget = [budget EXCEPT ![ip] = @ - 0]
      BY <3>1
    <3>3. Refilled(c) = Refilled(c) - 0
      BY <2>1
    <3>4. /\ tokens' = [tokens EXCEPT ![c] = Refilled(c)]
          /\ last' = [last EXCEPT ![c] = now]
          /\ idle' = [idle EXCEPT ![c] = IF Lapped(c) THEN @ ELSE 0]
          /\ now' = now /\ budget' = budget
      BY <2>3 DEF Refuse
    <3>5. QED
      BY <2>1, <3>2, <3>3, <3>4
  <2>4. QED
    BY <2>2, <2>3 DEF Handle
<1> HIDE DEF c
<1>3. /\ tokens' \in [Bucket -> 0 .. Cap] /\ last' \in [Bucket -> 0 .. Word - 1]
      /\ idle' \in [Bucket -> 0 .. Word]
      /\ Refilled(c)' = x
      /\ \A b \in Bucket \ {c} : Refilled(b)' = Refilled(b)
      /\ \A b \in Bucket : IdleTold(b)' /\ (Lapped(b)' <=> Lapped(b))
  BY <1>1, <1>2, HandledBucket DEF IInv
<1>4. TypeOK'
  BY <1>1, <1>2, <1>3 DEF TypeOK
<1>5. ASSUME NEW i \in Ip PROVE NeverMore(i)' /\ AllOfIt(i)'
  <2>1. /\ BucketOf(i) \in Bucket /\ NeverMore(i) /\ AllOfIt(i)
        /\ budget[i] \in Int /\ budget'[i] = IF i = ip THEN budget[i] - cost ELSE budget[i]
        /\ cost \in Nat /\ Refilled(c) \in 0 .. Cap
    BY <1>1, <1>2, BucketRange, RefilledIs DEF IInv, TypeOK
  <2>2. CASE BucketOf(i) # c
    <3>1. i # ip
      BY <2>2 DEF c
    <3>2. QED
      BY <1>3, <2>1, <2>2, <3>1 DEF NeverMore, AllOfIt, BucketOf, Alone
  <2>3. CASE BucketOf(i) = c /\ i = ip
    BY <1>2, <1>3, <2>1, <2>3 DEF NeverMore, AllOfIt, BucketOf, Alone
  <2>4. CASE BucketOf(i) = c /\ i # ip
    <3>1. ~ Alone(i)
      BY <2>4 DEF Alone, c
    <3>2. ~ Alone(i)'
      BY <3>1 DEF Alone, BucketOf
    <3>3. QED
      BY <1>2, <1>3, <2>1, <2>4, <3>2 DEF NeverMore, AllOfIt, BucketOf
  <2>5. QED
    BY <2>2, <2>3, <2>4
<1>6. QED
  BY <1>3, <1>4, <1>5 DEF IInv

\* A millisecond: the elapsed time of a bucket grows with it, or is forgotten.
LEMMA MillisecondOK ==
  ASSUME IInv, Millisecond
  PROVE  IInv'
<1>1. TypeOK
  BY DEF IInv
<1>2. now' \in 0 .. Word - 1 /\ now \in 0 .. Word - 1
  BY <1>1 DEF Millisecond, TypeOK
<1>3. TypeOK'
  <2>1. budget' \in [Ip -> Int]
    BY <1>1 DEF Millisecond, TypeOK, Least
  <2>2. idle' \in [Bucket -> 0 .. Word]
    BY <1>1 DEF Millisecond, TypeOK, Least
  <2>3. QED
    BY <1>1, <1>2, <2>1, <2>2 DEF Millisecond, TypeOK
<1>4. now' = IF now = Word - 1 THEN 0 ELSE now + 1
  BY <1>2 DEF Millisecond
<1>5. ASSUME NEW b \in Bucket
      PROVE  Elapsed(b)' = IF Elapsed(b) = Word - 1 THEN 0 ELSE Elapsed(b) + 1
  <2>1. last[b] \in 0 .. Word - 1 /\ last'[b] = last[b]
    BY <1>1 DEF TypeOK, Millisecond
  <2>2. /\ Elapsed(b) = IF last[b] <= now THEN now - last[b] ELSE now - last[b] + Word
        /\ Elapsed(b)' = IF last[b] <= now' THEN now' - last[b] ELSE now' - last[b] + Word
    BY <1>2, <2>1, Difference DEF Elapsed
  <2>3. QED
    BY <1>2, <1>4, <2>1, <2>2
<1>6. ASSUME NEW b \in Bucket
      PROVE  IdleTold(b)' /\ (~ Lapped(b)' => ~ Lapped(b) /\ Elapsed(b)' = Elapsed(b) + 1)
  <2>1. idle[b] \in 0 .. Word /\ idle'[b] = Least(idle[b] + 1, Word)
    BY <1>1 DEF TypeOK, Millisecond
  <2>2. Elapsed(b) \in 0 .. Word - 1 /\ IdleTold(b)
    BY <1>1, RefilledIs DEF IInv
  <2>3. QED
    BY <1>5, <2>1, <2>2 DEF IdleTold, Lapped, Least
<1>7. ASSUME NEW b \in Bucket
      PROVE  /\ Refilled(b)' <= Least(Refilled(b) + Rate, Cap)
             /\ Elapsed(b)' = Elapsed(b) + 1 =>
                    Refilled(b)' = Least(Refilled(b) + Rate, Cap)
  <2>1. PICK e \in Nat, f \in Nat, t \in 0 .. Cap :
          e = Elapsed(b) /\ f = Elapsed(b)' /\ t = tokens[b] /\ t = tokens'[b]
    <3>1. Elapsed(b) \in Nat /\ Elapsed(b)' \in Nat
      BY <1>1, <1>5, RefilledIs
    <3>2. tokens[b] \in 0 .. Cap /\ tokens'[b] = tokens[b]
      BY <1>1 DEF TypeOK, Millisecond
    <3>3. QED
      BY <3>1, <3>2
  <2>2. /\ Refilled(b) = Least(t + e * Rate, Cap)
        /\ Refilled(b)' = Least(t + f * Rate, Cap)
    <3>1. Refilled(b) = Least(t + e * Rate, Cap)
      BY <1>1, <2>1, RefilledIs
    <3>2. Refilled(b)' = IF f > Cap \div Rate THEN Cap
                         ELSE Least((t + f * Rate) % Word, Cap)
      BY <2>1 DEF Refilled
    <3>3. QED
      BY <3>1, <3>2, RefillIs
  <2>3. PICK x \in Nat, y \in Nat : x = e * Rate /\ y = f * Rate
    OBVIOUS
  <2>4. CASE f = e + 1
    <3>1. y = x + Rate
      BY <2>3, <2>4
    <3>2. QED
      BY <2>2, <2>3, <3>1 DEF Least
  <2>5. CASE f = 0 /\ f # e + 1
    <3>1. y = 0
      BY <2>3, <2>5
    <3>2. QED
      BY <2>1, <2>2, <2>3, <2>5, <3>1 DEF Least
  <2>6. QED
    BY <1>5, <2>1, <2>4, <2>5
<1>8. ASSUME NEW ip \in Ip PROVE NeverMore(ip)' /\ AllOfIt(ip)'
  <2>1. /\ budget[ip] \in Int /\ budget'[ip] = Least(budget[ip] + Rate, Cap)
        /\ NeverMore(ip) /\ AllOfIt(ip)
    BY <1>1 DEF IInv, TypeOK, Millisecond
  <2>2. PICK b \in Bucket : b = BucketOf(ip)
    BY BucketRange
  <2>3. Refilled(b) \in Int /\ Refilled(b)' \in Int
    <3>1. Refilled(b) \in Int
      BY <1>1, RefilledIs
    <3>2. tokens'[b] \in Int /\ Elapsed(b)' \in Int
      BY <1>1, <1>5, RefilledIs DEF TypeOK, Millisecond
    <3>3. QED
      BY <3>1, <3>2 DEF Refilled, Least
  <2>4. NeverMore(ip)'
    BY <1>7, <2>1, <2>2, <2>3 DEF NeverMore, Least
  <2>5. AllOfIt(ip)'
    BY <1>6, <1>7, <2>1, <2>2, <2>3 DEF AllOfIt, Alone, Least
  <2>6. QED
    BY <2>4, <2>5
<1>9. QED
  BY <1>3, <1>6, <1>8 DEF IInv

LEMMA StutterOK ==
  ASSUME IInv, UNCHANGED vars
  PROVE  IInv'
BY DEF IInv, vars, TypeOK, IdleTold, NeverMore, AllOfIt, Alone, Lapped, Elapsed, Refilled

\* Every bucket is worth at most the budget of each who shares it
\* (src/lobby/rendezvous.c, rate_take).
THEOREM Invariance == Spec => []IInv
<1>1. Init => IInv
  BY InitOK
<1>2. IInv /\ [Next]_vars => IInv'
  BY HandleOK, MillisecondOK, StutterOK DEF Next
<1>3. QED
  BY <1>1, <1>2, PTL DEF Spec

\* No count of tokens, clock or idle time leaves its range.
THEOREM TypeCorrect == Spec => []TypeOK
<1>1. IInv => TypeOK
  BY DEF IInv
<1>2. QED
  BY <1>1, Invariance, PTL

\* The lazily refilled bucket is worth what the continuously refilled one is,
\* where the address has it to itself and the clock has not lapped it.
THEOREM LazyRefillIsExact == Spec => []LazyRefillExact
<1>1. IInv => LazyRefillExact
  BY DEF IInv, NeverMore, AllOfIt, LazyRefillExact
<1>2. QED
  BY <1>1, Invariance, PTL

\* No address is ever let through faster than promised, wraps of the clock and
\* addresses that collide included.
THEOREM RateIsHonoured == Spec => []RateHonoured
<1>1. ASSUME IInv PROVE RateHonoured
  <2> SUFFICES ASSUME NEW ip \in Ip PROVE budget[ip] >= 0
    BY DEF RateHonoured
  <2>1. Refilled(BucketOf(ip)) \in 0 .. Cap
    BY <1>1, BucketRange, RefilledIs DEF IInv
  <2>2. Refilled(BucketOf(ip)) <= budget[ip] /\ budget[ip] \in Int
    BY <1>1 DEF IInv, NeverMore, TypeOK
  <2>3. QED
    BY <2>1, <2>2
<1>2. QED
  BY <1>1, Invariance, PTL

=============================================================================
