------------------------- MODULE RateLimiterProofs -------------------------
(***************************************************************************)
(* RateIsBounded of module RateLimiter for any clients, handlers, Cost and *)
(* Burst, and for any bound on the clock.                                  *)
(*                                                                         *)
(* What is inductive is one credit line for each request let through: the  *)
(* requests since then, itself included, and the tokens still in the       *)
(* bucket were paid by one full bucket and the time since.  The cap at     *)
(* Burst is what opens the line of a new request; the order of the clock   *)
(* readings under the bucket's lock keeps the lines of the earlier ones.   *)
(***************************************************************************)
EXTENDS RateLimiter, TLAPS

TypeOK ==
  /\ now \in Nat
  /\ inAllow \in [Handler -> Client \union {None}]
  /\ buckets \in [Client -> Bucket \union {None}]
  /\ allowed \in [Client -> Seq(Nat)]

\* A handler in Allow has its client's bucket, and there is no request let
\* through without a bucket.
BucketsExist ==
  /\ \A h \in Handler : inAllow[h] # None => buckets[inAllow[h]] # None
  /\ \A c \in Client : allowed[c] # <<>> => buckets[c] # None

\* No bucket was filled in the future, nor beyond Burst.
BucketsOK ==
  \A c \in Client : buckets[c] # None =>
    buckets[c].lastFill <= now /\ buckets[c].tokens <= full

\* The credit line of each request let through.
Credit ==
  \A c \in Client : \A i \in 1..Len(allowed[c]) :
    price(i, Len(allowed[c])) + buckets[c].tokens
      <= full + (buckets[c].lastFill - allowed[c][i])

IInv == TypeOK /\ BucketsExist /\ BucketsOK /\ Credit /\ RateIsBounded

LEMMA FullBucket == full \in Nat
  BY RateLimiterAssumption DEF full

\* No request is in a bucket's history when it is created, and finding it
\* changes nothing.
LEMMA AllowKeepsInv ==
  ASSUME IInv, NEW h \in Handler, NEW key \in Client, Allow(h, key)
  PROVE  IInv'
<1> USE RateLimiterAssumption
<1>1. TypeOK'
  <2>1. [tokens |-> full, lastFill |-> now] \in Bucket
    BY FullBucket DEF IInv, TypeOK, Bucket
  <2> QED BY <2>1 DEF IInv, TypeOK, Allow
<1>2. BucketsExist'
  <2>1. [tokens |-> full, lastFill |-> now] # None
    BY FullBucket DEF IInv, TypeOK, Bucket
  <2> QED BY <2>1 DEF IInv, TypeOK, BucketsExist, Allow
<1>3. BucketsOK'
  BY FullBucket DEF IInv, TypeOK, BucketsOK, Allow, Bucket
<1>4. Credit' /\ RateIsBounded'
  <2>1. allowed' = allowed
    BY DEF Allow
  <2>2. \A c \in Client : allowed[c] # <<>> => buckets'[c] = buckets[c]
    BY DEF IInv, TypeOK, BucketsExist, Allow
  <2>3. \A c \in Client : Len(allowed[c]) # 0 => buckets'[c] = buckets[c]
    BY <2>2 DEF IInv, TypeOK
  <2>4. Credit'
    <3> SUFFICES ASSUME NEW c \in Client, NEW i \in 1..Len(allowed[c])
                 PROVE  price(i, Len(allowed[c])) + buckets'[c].tokens
                          <= full + (buckets'[c].lastFill - allowed[c][i])
      BY <2>1 DEF Credit
    <3>1. Len(allowed[c]) # 0
      BY DEF IInv, TypeOK
    <3> QED BY <3>1, <2>3 DEF IInv, Credit
  <2> QED BY <2>1, <2>4 DEF IInv, RateIsBounded
<1> QED BY <1>1, <1>2, <1>3, <1>4 DEF IInv

LEMMA Price ==
  ASSUME NEW i \in Int, NEW j \in Int
  PROVE  price(i, j) \in Int /\ price(i, j + 1) = price(i, j) + Cost /\ price(i, i) = Cost
  <1>1. (j - i + 1) * Cost \in Int /\ (j - i + 1 + 1) * Cost = (j - i + 1) * Cost + Cost
    BY RateLimiterAssumption
  <1>2. j + 1 - i + 1 = j - i + 1 + 1 /\ i - i + 1 = 1 /\ 1 * Cost = Cost
    BY RateLimiterAssumption
  <1> QED BY <1>1, <1>2 DEF price

\* A bucket is filled to at most Burst, and by at most the time since.
LEMMA Filled ==
  ASSUME now \in Nat, NEW b \in Bucket, b.lastFill <= now
  PROVE  /\ filled(b) \in Nat
         /\ filled(b) <= full
         /\ filled(b) <= b.tokens + (now - b.lastFill)
  BY FullBucket DEF filled, Bucket

\* A request that is judged: turned away it leaves every credit line as it
\* was, or shorter; let through it is paid by the token it took.
LEMMA JudgeKeepsInv ==
  ASSUME IInv, NEW h \in Handler, judge(h)
  PROVE  IInv'
<1> USE RateLimiterAssumption
<1> DEFINE c == inAllow[h]
           b == buckets[c]
           t == filled(b)
           n == Len(allowed[c])
<1>1. c \in Client /\ b \in Bucket /\ b.lastFill <= now /\ b.tokens <= full
  BY DEF IInv, TypeOK, BucketsExist, BucketsOK, judge
<1>2. t \in Nat /\ t <= full /\ t <= b.tokens + (now - b.lastFill)
  BY <1>1, Filled DEF IInv, TypeOK
<1>3. b.tokens \in Nat /\ b.lastFill \in Nat /\ now \in Nat /\ n \in Nat /\ Cost \in Nat
      /\ full \in Nat /\ allowed[c] \in Seq(Nat)
  BY <1>1, FullBucket DEF IInv, TypeOK, Bucket
<1>4. now' = now /\ inAllow' = [inAllow EXCEPT ![h] = None]
  BY DEF judge
<1>5. \A i \in 1..n : price(i, n) + b.tokens <= full + (b.lastFill - allowed[c][i])
  BY <1>1 DEF IInv, Credit
<1> HIDE DEF c, b, t, n
<1>6. CASE t < Cost
  <2>1. allowed' = allowed /\ buckets' = [buckets EXCEPT ![c] = [tokens |-> t, lastFill |-> now]]
    BY <1>6 DEF judge, c, b, t
  <2>2. [tokens |-> t, lastFill |-> now] \in Bucket
    BY <1>2, <1>3 DEF Bucket
  <2>3. TypeOK' /\ BucketsExist'
    BY <1>1, <1>4, <2>1, <2>2 DEF IInv, TypeOK, BucketsExist
  <2>4. BucketsOK'
    BY <1>1, <1>2, <1>3, <1>4, <2>1 DEF IInv, TypeOK, BucketsOK
  <2>5. \A i \in 1..n : price(i, n) + t <= full + (now - allowed[c][i])
    <3> SUFFICES ASSUME NEW i \in 1..n
                 PROVE  price(i, n) + t <= full + (now - allowed[c][i])
      OBVIOUS
    <3>1. allowed[c][i] \in Nat /\ i \in Int /\ n \in Int
      BY <1>3 DEF n
    <3>2. price(i, n) \in Int
      BY <3>1, Price
    <3>3. price(i, n) + b.tokens <= full + (b.lastFill - allowed[c][i])
      BY <1>5
    <3> DEFINE a == allowed[c][i]
               x == price(i, n)
    <3>4. a \in Int /\ x \in Int /\ x + b.tokens <= full + (b.lastFill - a)
      BY <3>1, <3>2, <3>3
    <3> HIDE DEF a, x
    <3>5. x + t <= full + (now - a)
      BY <3>4, <1>2, <1>3
    <3> QED BY <3>5 DEF a, x
  <2>6. Credit'
    BY <1>1, <2>1, <2>5 DEF IInv, TypeOK, Credit, n
  <2> QED BY <2>1, <2>3, <2>4, <2>6 DEF IInv, RateIsBounded
<1>7. CASE ~(t < Cost)
  <2>1. /\ allowed' = [allowed EXCEPT ![c] = Append(@, now)]
        /\ buckets' = [buckets EXCEPT ![c] = [tokens |-> t - Cost, lastFill |-> now]]
    BY <1>7 DEF judge, c, b, t
  <2>2. t - Cost \in Nat
    BY <1>2, <1>3, <1>7
  <2>3. [tokens |-> t - Cost, lastFill |-> now] \in Bucket
    BY <2>2, <1>3 DEF Bucket
  <2>4. TypeOK' /\ BucketsExist'
    BY <1>1, <1>3, <1>4, <2>1, <2>3 DEF IInv, TypeOK, BucketsExist
  <2>5. BucketsOK'
    BY <1>1, <1>2, <1>3, <1>4, <2>1, <2>2 DEF IInv, TypeOK, BucketsOK
  <2>6. /\ Len(allowed'[c]) = n + 1
        /\ allowed'[c][n + 1] = now
        /\ \A i \in 1..n : allowed'[c][i] = allowed[c][i]
        /\ DOMAIN allowed'[c] = 1..(n + 1)
        /\ \A d \in Client \ {c} : allowed'[d] = allowed[d] /\ buckets'[d] = buckets[d]
        /\ buckets'[c].tokens = t - Cost /\ buckets'[c].lastFill = now
    BY <1>1, <1>3, <2>1 DEF IInv, TypeOK, n
  <2>7. \A i \in 1..(n + 1) :
          price(i, n + 1) + (t - Cost) <= full + (now - allowed'[c][i])
    <3> SUFFICES ASSUME NEW i \in 1..(n + 1)
                 PROVE  price(i, n + 1) + (t - Cost) <= full + (now - allowed'[c][i])
      OBVIOUS
    <3>1. CASE i = n + 1
      BY <3>1, <1>2, <1>3, <2>6, Price
    <3>2. CASE i \in 1..n
      <4>1. allowed[c][i] \in Nat /\ allowed'[c][i] = allowed[c][i] /\ i \in Int /\ n \in Int
        BY <3>2, <1>3, <2>6 DEF n
      <4>2. price(i, n) \in Int /\ price(i, n + 1) = price(i, n) + Cost
        BY <4>1, Price
      <4>3. price(i, n) + b.tokens <= full + (b.lastFill - allowed[c][i])
        BY <3>2, <1>5
      <4> DEFINE a == allowed[c][i]
                 x == price(i, n)
                 y == price(i, n + 1)
      <4>4. a \in Int /\ x \in Int /\ y = x + Cost /\ x + b.tokens <= full + (b.lastFill - a)
        BY <4>1, <4>2, <4>3
      <4> HIDE DEF a, x, y
      <4>5. y + (t - Cost) <= full + (now - a)
        BY <4>4, <1>2, <1>3
      <4> QED BY <4>1, <4>5 DEF a, y
    <3> QED BY <3>1, <3>2, <1>3
  <2>8. Credit'
    <3> SUFFICES ASSUME NEW d \in Client, NEW i \in 1..Len(allowed'[d])
                 PROVE  price(i, Len(allowed'[d])) + buckets'[d].tokens
                          <= full + (buckets'[d].lastFill - allowed'[d][i])
      BY DEF Credit
    <3>1. CASE d = c
      BY <3>1, <2>6, <2>7
    <3>2. CASE d # c
      BY <3>2, <2>6 DEF IInv, Credit
    <3> QED BY <3>1, <3>2
  <2>9. RateIsBounded'
    <3> SUFFICES ASSUME NEW d \in Client, NEW i \in DOMAIN allowed'[d], NEW j \in DOMAIN allowed'[d],
                        i <= j
                 PROVE  price(i, j) <= full + (allowed'[d][j] - allowed'[d][i])
      BY DEF RateIsBounded
    <3>1. CASE d # c
      BY <3>1, <2>6 DEF IInv, RateIsBounded
    <3>2. CASE d = c /\ j = n + 1
      <4>1. price(i, n + 1) + (t - Cost) <= full + (now - allowed'[c][i])
        BY <3>2, <2>6, <2>7
      <4>2. i \in Int /\ n + 1 \in Int /\ allowed'[c][i] \in Nat
        BY <3>2, <1>1, <1>3, <2>4, <2>6 DEF TypeOK
      <4>3. price(i, n + 1) \in Int
        BY <4>2, Price
      <4> QED BY <3>2, <4>1, <4>2, <4>3, <1>3, <2>2, <2>6
    <3>3. CASE d = c /\ j # n + 1
      <4>1. i \in 1..n /\ j \in 1..n
        BY <3>3, <1>3, <2>6
      <4>2. DOMAIN allowed[c] = 1..n
        BY <1>3 DEF n
      <4> QED BY <3>3, <4>1, <4>2, <1>1, <2>6 DEF IInv, RateIsBounded
    <3> QED BY <3>1, <3>2, <3>3
  <2> QED BY <2>4, <2>5, <2>8, <2>9 DEF IInv
<1> QED BY <1>6, <1>7

\* However the requests of however many clients interleave, no client gets
\* more through the rate limiter in any stretch of time than Burst and the
\* tokens filled in that time.
THEOREM RateBounded == Spec => []RateIsBounded
<1>1. Init => IInv
  BY RateLimiterAssumption
  DEF Init, IInv, TypeOK, BucketsExist, BucketsOK, Credit, RateIsBounded
<1>2. IInv /\ [Next]_vars => IInv'
  <2> SUFFICES ASSUME IInv, [Next]_vars PROVE IInv'
    OBVIOUS
  <2>1. CASE Tick
    BY <2>1 DEF IInv, Tick, TypeOK, Bucket, BucketsExist, BucketsOK, Credit, RateIsBounded
  <2>2. CASE UNCHANGED vars
    BY <2>2 DEF vars, IInv, TypeOK, BucketsExist, BucketsOK, Credit, RateIsBounded
  <2> QED BY <2>1, <2>2, AllowKeepsInv, JudgeKeepsInv DEF Next
<1>3. IInv => RateIsBounded
  BY DEF IInv
<1> QED BY <1>1, <1>2, <1>3, PTL DEF Spec

=============================================================================
