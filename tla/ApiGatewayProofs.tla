-------------------------- MODULE ApiGatewayProofs --------------------------
(***************************************************************************)
(* The gateway, for any number of clients, requests, nonces and bids, any  *)
(* limits, windows and ages: the limiters keep their budgets although they *)
(* share a bucket, Retry-After is enough, no bid is refused that the       *)
(* contract would take, and a nonce counts once although the replay cache  *)
(* forgets it.                                                             *)
(***************************************************************************)
EXTENDS ApiGateway, FiniteSetTheorems, SequenceTheorems, Induction

(* The filter of a bucket is a recursive function; that there is one, and what it returns,
   is shown for the least number of places where it would fail. *)

(* One unfolding of the filter over the first n places. *)
Unfolded(kept, bucket, window, at, n) ==
  [i \in 0 .. n |->
     IF i = 0 THEN <<>>
     ELSE IF at - bucket[i] < window THEN Append(kept[i - 1], bucket[i])
     ELSE kept[i - 1]]

LEMMA KeptExists ==
  ASSUME NEW bucket, NEW window, NEW at, NEW n \in Nat
  PROVE  \E kept : kept = Unfolded(kept, bucket, window, at, n)
<1>. DEFINE Step(g, i) == IF i = 0 THEN <<>>
                          ELSE IF at - bucket[i] < window THEN Append(g[i - 1], bucket[i])
                          ELSE g[i - 1]
            Has(m) == \E g : g = [i \in 0 .. m |-> Step(g, i)]
            T == {m \in Nat : ~Has(m)}
<1>1. SUFFICES T = {}
  BY DEF Unfolded
<1>2. SUFFICES ASSUME T # {} PROVE FALSE
  OBVIOUS
<1>3. PICK m \in T : \A y \in T : m <= y
  BY <1>2, LeastNumber
<1>4. CASE m = 0
  <2>. DEFINE g == [i \in 0 .. 0 |-> <<>>]
  <2>1. g = [i \in 0 .. 0 |-> Step(g, i)]
    OBVIOUS
  <2>. QED
    BY <1>4, <2>1
<1>5. CASE m # 0
  <2>1. m - 1 \in Nat /\ m - 1 \notin T
    <3>. HIDE DEF Has
    <3>1. m \in Nat
      OBVIOUS
    <3>. HIDE DEF T
    <3>. QED
      BY <3>1, <1>3, <1>5
  <2>2. PICK g : g = [i \in 0 .. m - 1 |-> Step(g, i)]
    BY <2>1
  <2>. DEFINE h == [i \in 0 .. m |-> IF i = m THEN Step(g, m) ELSE g[i]]
  <2>3. ASSUME NEW i \in 0 .. m PROVE h[i] = Step(h, i)
    <3>1. CASE i = m
      BY <3>1, <1>5
    <3>2. CASE i # m
      <4>1. i \in 0 .. m - 1
        BY <3>2
      <4>2. g[i] = Step(g, i)
        BY <2>2, <4>1
      <4>3. h[i] = g[i]
            /\ (i # 0 => i - 1 \in 0 .. m - 1 /\ i - 1 \in 0 .. m /\ h[i - 1] = g[i - 1])
        BY <4>1
      <4>. QED
        BY <4>2, <4>3
    <3>. QED
      BY <3>1, <3>2
  <2>4. h = [i \in 0 .. m |-> Step(h, i)]
    BY <2>3
  <2>. QED
    BY <2>4, <1>3
<1>. QED
  BY <1>4, <1>5

LEMMA KeptValue ==
  ASSUME NEW bucket \in Seq(Nat), NEW window, NEW at
  PROVE  LET kept == Kept(bucket, window, at)
         IN /\ kept[0] = <<>>
            /\ \A i \in 1 .. Len(bucket) :
                 kept[i] = IF at - bucket[i] < window THEN Append(kept[i - 1], bucket[i])
                           ELSE kept[i - 1]
<1>. DEFINE kept == Kept(bucket, window, at)
<1>1. kept = Unfolded(kept, bucket, window, at, Len(bucket))
  <2>1. \E g : g = Unfolded(g, bucket, window, at, Len(bucket))
    <3>1. Len(bucket) \in Nat
      OBVIOUS
    <3>. QED
      BY <3>1, KeptExists, Zenon
  <2>2. kept = CHOOSE g : g = Unfolded(g, bucket, window, at, Len(bucket))
    BY DEF Kept, Unfolded
  <2>. QED
    BY <2>1, <2>2, Zenon
<1>2. Len(bucket) \in Nat
  OBVIOUS
<1>. HIDE DEF kept
<1>3. kept[0] = <<>>
  BY <1>1, <1>2 DEF Unfolded
<1>4. ASSUME NEW i \in 1 .. Len(bucket)
      PROVE  kept[i] = IF at - bucket[i] < window THEN Append(kept[i - 1], bucket[i])
                       ELSE kept[i - 1]
  <2>1. i \in 0 .. Len(bucket) /\ i # 0
    BY <1>2
  <2>. QED
    BY <1>1, <2>1, Zenon DEF Unfolded
<1>. QED
  BY <1>3, <1>4 DEF kept

(* How many of the first n places of a bucket hold a time from u on. *)
Places(s, n, u) == {i \in 1 .. n : s[i] >= u}
Placed(s, u) == Cardinality(Places(s, Len(s), u))

LEMMA PlacesAreFinite ==
  ASSUME NEW s, NEW n \in Nat, NEW u
  PROVE  /\ IsFiniteSet(Places(s, n, u))
         /\ Cardinality(Places(s, n, u)) \in Nat
         /\ Cardinality(Places(s, n, u)) <= n
<1>1. IsFiniteSet(1 .. n) /\ Cardinality(1 .. n) = n
  <2>1. Cardinality(1 .. n) = IF 1 > n THEN 0 ELSE n - 1 + 1
    BY FS_Interval
  <2>. QED
    BY <2>1, FS_Interval
<1>2. Places(s, n, u) \subseteq 1 .. n
  BY DEF Places
<1>. QED
  BY <1>1, <1>2, FS_Subset, FS_CardinalityType

LEMMA OnePlaceMore ==
  ASSUME NEW s, NEW n \in Nat, NEW u
  PROVE  Cardinality(Places(s, n + 1, u)) =
           IF s[n + 1] >= u THEN Cardinality(Places(s, n, u)) + 1
           ELSE Cardinality(Places(s, n, u))
<1>1. IsFiniteSet(Places(s, n, u)) /\ n + 1 \notin Places(s, n, u)
  <2>1. IsFiniteSet(Places(s, n, u))
    BY PlacesAreFinite
  <2>2. n + 1 \notin Places(s, n, u)
    BY DEF Places
  <2>. QED
    BY <2>1, <2>2
<1>2. CASE s[n + 1] >= u
  <2>1. Places(s, n + 1, u) = Places(s, n, u) \union {n + 1}
    BY <1>2 DEF Places
  <2>. QED
    BY <1>1, <1>2, <2>1, FS_AddElement
<1>3. CASE ~(s[n + 1] >= u)
  <2>1. Places(s, n + 1, u) = Places(s, n, u)
    BY <1>3 DEF Places
  <2>. QED
    BY <1>3, <2>1
<1>. QED
  BY <1>2, <1>3

LEMMA PlacedAppend ==
  ASSUME NEW s \in Seq(Nat), NEW x \in Nat, NEW u \in Int
  PROVE  Placed(Append(s, x), u) = IF x >= u THEN Placed(s, u) + 1 ELSE Placed(s, u)
<1>. DEFINE t == Append(s, x)
<1>1. Len(s) \in Nat /\ Len(t) = Len(s) + 1 /\ t[Len(s) + 1] = x
      /\ \A i \in 1 .. Len(s) : t[i] = s[i]
  OBVIOUS
<1>. HIDE DEF t
<1>2. Places(t, Len(s), u) = Places(s, Len(s), u)
  BY <1>1 DEF Places
<1>. QED
  BY <1>1, <1>2, OnePlaceMore DEF Placed, t

(* What the filter returns. *)
LEMMA FreshAtIs ==
  ASSUME NEW S \in SUBSET Nat, NEW bucket \in Seq(S), NEW window \in Int, NEW at \in Int
  PROVE  /\ FreshAt(bucket, window, at) \in Seq(S)
         /\ Len(FreshAt(bucket, window, at)) <= Len(bucket)
         /\ (\E i \in 1 .. Len(bucket) : ~(at - bucket[i] < window)) =>
              Len(FreshAt(bucket, window, at)) < Len(bucket)
         /\ \A u \in Int : u > at - window =>
              Placed(FreshAt(bucket, window, at), u) = Placed(bucket, u)
<1>. DEFINE kept == Kept(bucket, window, at)
            Stale(i) == ~(at - bucket[i] < window)
            Good(n) ==
              /\ kept[n] \in Seq(S)
              /\ Len(kept[n]) <= n
              /\ (\E i \in 1 .. n : Stale(i)) => Len(kept[n]) < n
              /\ \A u \in Int : u > at - window =>
                   Placed(kept[n], u) = Cardinality(Places(bucket, n, u))
            T == {n \in Nat : n <= Len(bucket) /\ ~Good(n)}
<1>0. bucket \in Seq(Nat) /\ Len(bucket) \in Nat /\ \A i \in 1 .. Len(bucket) : bucket[i] \in S
  <2>1. S \subseteq Nat
    OBVIOUS
  <2>2. bucket \in Seq(Nat)
    BY <2>1, SeqMonotonic, Zenon
  <2>. QED
    BY <2>2, LenProperties, ElementOfSeq
<1>1. /\ kept[0] = <<>>
      /\ \A i \in 1 .. Len(bucket) :
           kept[i] = IF Stale(i) THEN kept[i - 1] ELSE Append(kept[i - 1], bucket[i])
  BY <1>0, KeptValue
<1>. HIDE DEF kept
<1>2. Good(0)
  <2>1. kept[0] \in Seq(S) /\ Len(kept[0]) = 0
    BY <1>1
  <2>2. \A u : Places(kept[0], 0, u) = {} /\ Places(bucket, 0, u) = {}
    BY DEF Places
  <2>3. \A u : Placed(kept[0], u) = Cardinality(Places(bucket, 0, u))
    BY <2>1, <2>2 DEF Placed
  <2>4. ~\E i \in 1 .. 0 : Stale(i)
    OBVIOUS
  <2>. HIDE DEF Stale
  <2>. QED
    BY <2>1, <2>3, <2>4
<1>3. ASSUME NEW n \in Nat, n + 1 <= Len(bucket), Good(n)
      PROVE  Good(n + 1)
  <2>0. n + 1 \in 1 .. Len(bucket) /\ n + 1 - 1 = n
    BY <1>0, <1>3
  <2>1. bucket[n + 1] \in S /\ bucket[n + 1] \in Nat
    BY <1>0, <2>0
  <2>2. kept[n] \in Seq(S) /\ kept[n] \in Seq(Nat) /\ Len(kept[n]) \in Nat
    <3>1. S \subseteq Nat /\ kept[n] \in Seq(S)
      BY <1>3
    <3>2. kept[n] \in Seq(Nat)
      BY <3>1, SeqMonotonic, Zenon
    <3>. QED
      BY <3>1, <3>2, LenProperties
  <2>3. CASE Stale(n + 1)
    <3>1. kept[n + 1] = kept[n]
      BY <1>1, <2>0, <2>3
    <3>2. Len(kept[n + 1]) < n + 1
      BY <1>3, <2>2, <3>1
    <3>3. ASSUME NEW u \in Int, u > at - window
          PROVE  Placed(kept[n + 1], u) = Cardinality(Places(bucket, n + 1, u))
      <4>1. ~(bucket[n + 1] >= u)
        BY <2>1, <2>3, <3>3
      <4>. QED
        BY <1>3, <3>1, <3>3, <4>1, OnePlaceMore
    <3>. QED
      BY <2>2, <3>1, <3>2, <3>3
  <2>4. CASE ~Stale(n + 1)
    <3>1. kept[n + 1] = Append(kept[n], bucket[n + 1])
      <4>1. kept[n + 1] = IF Stale(n + 1) THEN kept[n + 1 - 1]
                          ELSE Append(kept[n + 1 - 1], bucket[n + 1])
        BY <1>1, <2>0
      <4>. QED
        BY <2>0, <2>4, <4>1
    <3>2. kept[n + 1] \in Seq(S) /\ Len(kept[n + 1]) = Len(kept[n]) + 1
      BY <2>1, <2>2, <3>1
    <3>3. ASSUME NEW u \in Int, u > at - window
          PROVE  Placed(kept[n + 1], u) = Cardinality(Places(bucket, n + 1, u))
      <4>1. Placed(kept[n + 1], u) =
              IF bucket[n + 1] >= u THEN Placed(kept[n], u) + 1 ELSE Placed(kept[n], u)
        BY <2>1, <2>2, <3>1, PlacedAppend
      <4>. QED
        BY <1>3, <3>3, <4>1, OnePlaceMore
    <3>4. (\E i \in 1 .. n + 1 : Stale(i)) => Len(kept[n + 1]) < n + 1
      <4>1. ASSUME NEW i \in 1 .. n + 1, Stale(i) PROVE \E j \in 1 .. n : Stale(j)
        <5>1. i # n + 1
          BY <2>4, <4>1
        <5>2. i \in 1 .. n
          BY <5>1
        <5>. QED
          BY <4>1, <5>2
      <4>. QED
        BY <1>3, <2>2, <3>2, <4>1
    <3>. QED
      BY <1>3, <2>2, <3>2, <3>3, <3>4
  <2>. QED
    BY <2>3, <2>4
<1>. HIDE DEF Good
<1>4. T = {}
  <2>. SUFFICES ASSUME T # {} PROVE FALSE
    OBVIOUS
  <2>1. PICK n \in T : \A y \in T : n <= y
    BY LeastNumber
  <2>2. n # 0
    BY <1>2, <2>1
  <2>3. n - 1 \in Nat /\ n - 1 <= Len(bucket) /\ n - 1 \notin T
    BY <1>0, <2>1, <2>2
  <2>4. Good(n - 1)
    BY <2>3
  <2>. QED
    BY <1>3, <2>1, <2>3, <2>4
<1>5. Good(Len(bucket))
  BY <1>0, <1>4
<1>. QED
  BY <1>5 DEF Good, FreshAt, Placed, kept

-----------------------------------------------------------------------------
(* Types, and what the counts of the history say. *)

(* Requests are numbered: an admission, or a request auth let through, is one more. *)
Numbered(set) ==
  /\ IsFiniteSet(set)
  /\ \A r \in set : r.n <= Cardinality(set)

TypeInv ==
  /\ TypeOK
  /\ Numbered(admitted) /\ Numbered(accepted)
  /\ Cardinality(accepted) <= Cardinality(admitted)
  /\ \A r \in admitted : r.at <= now
  /\ \A c \in Clients : store[c] \in Seq(0 .. now)

LEMMA NumberedNext ==
  ASSUME NEW set, Numbered(set), \A r \in set : r.n \in Nat,
         NEW new, new.n = Cardinality(set) + 1
  PROVE  /\ Numbered(set \union {new})
         /\ new \notin set
         /\ Cardinality(set) \in Nat
         /\ Cardinality(set \union {new}) = Cardinality(set) + 1
<1>1. IsFiniteSet(set) /\ Cardinality(set) \in Nat
  BY FS_CardinalityType DEF Numbered
<1>2. new \notin set
  BY <1>1 DEF Numbered
<1>3. IsFiniteSet(set \union {new}) /\ Cardinality(set \union {new}) = Cardinality(set) + 1
  BY <1>1, <1>2, FS_AddElement
<1>4. \A r \in set \union {new} : r.n <= Cardinality(set \union {new})
  BY <1>1, <1>3 DEF Numbered
<1>. QED
  BY <1>1, <1>2, <1>3, <1>4 DEF Numbered

LEMMA BucketType ==
  ASSUME NEW n \in Nat, NEW b \in Seq(0 .. n)
  PROVE  b \in Seq(Nat) /\ Len(b) \in Nat /\ Append(b, n) \in Seq(0 .. n)
         /\ Len(Append(b, n)) = Len(b) + 1
<1>1. 0 .. n \subseteq Nat /\ n \in 0 .. n
  OBVIOUS
<1>2. b \in Seq(Nat)
  BY <1>1, SeqMonotonic, Zenon
<1>. QED
  BY <1>1, <1>2, AppendProperties, LenProperties

(* What the limiters make of a bucket: only stale places go, and an admission takes one
   place, or two when the strict limiter counts it again. *)
LEMMA Buckets ==
  ASSUME TypeInv, NEW c \in Clients
  PROVE  /\ Pruned(c) \in Seq(0 .. now) /\ Passed(c) \in Seq(0 .. now)
         /\ Strict(c) \in Seq(0 .. now) /\ Append(Strict(c), now) \in Seq(0 .. now)
         /\ Len(Pruned(c)) <= DEFAULT_MAX_REQUESTS
         /\ ~Limited(c) => /\ Len(Passed(c)) <= DEFAULT_MAX_REQUESTS
                          /\ Len(Strict(c)) <= DEFAULT_MAX_REQUESTS
         /\ ~StrictLimited(c) => Len(Append(Strict(c), now)) <= STRICT_MAX_REQUESTS
         /\ \A u \in Int : u > now - DEFAULT_WINDOW_MS =>
              LET one == IF now >= u THEN 1 ELSE 0 IN
              /\ Placed(Pruned(c), u) = Placed(store[c], u)
              /\ Placed(Passed(c), u) = Placed(store[c], u) + one
              /\ Placed(Strict(c), u) = Placed(store[c], u) + one
              /\ Placed(Append(Strict(c), now), u) = Placed(store[c], u) + one + one
<1>. DEFINE S == 0 .. now
            W == DEFAULT_WINDOW_MS
<1>1. /\ now \in Nat /\ S \in SUBSET Nat /\ now \in S
      /\ store[c] \in Seq(S) /\ Len(store[c]) <= DEFAULT_MAX_REQUESTS
      /\ W \in Int /\ STRICT_WINDOW_MS = W
      /\ DEFAULT_MAX_REQUESTS \in Nat /\ STRICT_MAX_REQUESTS \in Nat
  BY WindowsAssumption, LimitsAssumption DEF TypeInv, TypeOK, Times
<1>2. \A b \in Seq(S) : /\ b \in Seq(Nat) /\ Len(b) \in Nat
                        /\ Append(b, now) \in Seq(S) /\ Len(Append(b, now)) = Len(b) + 1
  BY <1>1, BucketType
<1>3. \A b \in Seq(S) :
        /\ Fresh(b, W) \in Seq(S)
        /\ Len(Fresh(b, W)) <= Len(b)
        /\ \A u \in Int : u > now - W => Placed(Fresh(b, W), u) = Placed(b, u)
  <2>1. now \in Int /\ W \in Int /\ S \in SUBSET Nat
    BY <1>1
  <2>. HIDE DEF S, W
  <2>. QED
    BY <2>1, FreshAtIs DEF Fresh
<1>4. \A b \in Seq(S) : \A u \in Int :
        Placed(Append(b, now), u) = IF now >= u THEN Placed(b, u) + 1 ELSE Placed(b, u)
  BY <1>1, <1>2, PlacedAppend
<1>5. \A b \in Seq(S) : \A u : Placed(b, u) \in Nat
  BY <1>2, PlacesAreFinite DEF Placed
<1>. HIDE DEF S, W
<1>6. /\ Pruned(c) = Fresh(store[c], W) /\ Passed(c) = Append(Pruned(c), now)
      /\ Strict(c) = Fresh(Passed(c), W)
  BY <1>1 DEF Pruned, Passed, Strict, W
<1>7. Pruned(c) \in Seq(S) /\ Passed(c) \in Seq(S) /\ Strict(c) \in Seq(S)
      /\ Append(Strict(c), now) \in Seq(S)
  BY <1>1, <1>2, <1>3, <1>6
<1>8. /\ Len(Pruned(c)) <= DEFAULT_MAX_REQUESTS
      /\ ~Limited(c) => /\ Len(Passed(c)) <= DEFAULT_MAX_REQUESTS
                       /\ Len(Strict(c)) <= DEFAULT_MAX_REQUESTS
  <2>1. Len(Pruned(c)) <= DEFAULT_MAX_REQUESTS
    BY <1>1, <1>2, <1>3, <1>6, <1>7
  <2>2. ASSUME ~Limited(c) PROVE Len(Passed(c)) <= DEFAULT_MAX_REQUESTS
    BY <1>1, <1>2, <1>6, <1>7, <2>2 DEF Limited, HasRoom
  <2>3. Len(Strict(c)) <= Len(Passed(c))
    BY <1>3, <1>6, <1>7
  <2>. QED
    BY <1>1, <1>2, <1>7, <2>1, <2>2, <2>3
<1>9. ~StrictLimited(c) => Len(Append(Strict(c), now)) <= STRICT_MAX_REQUESTS
  BY <1>1, <1>2, <1>7 DEF StrictLimited, HasRoom
<1>10. ASSUME NEW u \in Int, u > now - W
       PROVE  LET one == IF now >= u THEN 1 ELSE 0 IN
              /\ Placed(Pruned(c), u) = Placed(store[c], u)
              /\ Placed(Passed(c), u) = Placed(store[c], u) + one
              /\ Placed(Strict(c), u) = Placed(store[c], u) + one
              /\ Placed(Append(Strict(c), now), u) = Placed(store[c], u) + one + one
  <2>1. Placed(Pruned(c), u) = Placed(store[c], u) /\ Placed(store[c], u) \in Nat
    BY <1>1, <1>3, <1>5, <1>6, <1>10
  <2>2. Placed(Passed(c), u) = IF now >= u THEN Placed(Pruned(c), u) + 1 ELSE Placed(Pruned(c), u)
    BY <1>4, <1>6, <1>7
  <2>3. Placed(Strict(c), u) = Placed(Passed(c), u)
    BY <1>3, <1>6, <1>7, <1>10
  <2>4. Placed(Append(Strict(c), now), u) =
          IF now >= u THEN Placed(Strict(c), u) + 1 ELSE Placed(Strict(c), u)
    BY <1>4, <1>7
  <2>. QED
    BY <2>1, <2>2, <2>3, <2>4
<1>. QED
  BY <1>7, <1>8, <1>9, <1>10 DEF S, W

(* A request, whichever limiters it meets: the bucket b it leaves, and whether it got
   through. *)
Passage(c, b, places) ==
  \A u \in Int : u > now - DEFAULT_WINDOW_MS =>
    Placed(b, u) = Placed(store[c], u) + (IF now >= u THEN places ELSE 0)

Meets(c, b) ==
  /\ b \in Seq(0 .. now) /\ Len(b) <= DEFAULT_MAX_REQUESTS
  /\ store' = [store EXCEPT ![c] = b]
  /\ \/ admitted' = admitted /\ Passage(c, b, 0)
     \/ /\ admitted' = admitted \union {Admission(c, "default")}
        /\ Passage(c, b, 1)
     \/ /\ admitted' = admitted \union {Admission(c, "strict")}
        /\ Passage(c, b, 2)
        /\ Len(b) <= STRICT_MAX_REQUESTS

LEMMA Limiters ==
  ASSUME TypeInv, NEW c \in Clients, DefaultLimiter(c) \/ BothLimiters(c)
  PROVE  /\ \E b : Meets(c, b)
         /\ BothLimiters(c) /\ ~StrictLimited(c) =>
              admitted' = admitted \union {Admission(c, "strict")}
<1>. DEFINE B == Append(Strict(c), now)
<1>0. /\ \A s : Placed(store[c], s) \in Nat
      /\ LimitsAssumption
  <2>1. store[c] \in Seq(0 .. now) /\ Len(store[c]) \in Nat
    BY BucketType DEF TypeInv, TypeOK, Times
  <2>. QED
    BY <2>1, PlacesAreFinite, LimitsAssumption DEF Placed
<1>1. Passage(c, Pruned(c), 0) /\ Passage(c, Passed(c), 1)
      /\ Passage(c, Strict(c), 1) /\ Passage(c, B, 2)
  BY <1>0, Buckets DEF Passage
<1>2. /\ Pruned(c) \in Seq(0 .. now) /\ Passed(c) \in Seq(0 .. now)
      /\ Strict(c) \in Seq(0 .. now) /\ B \in Seq(0 .. now)
  BY Buckets
<1>3. /\ Len(Pruned(c)) <= DEFAULT_MAX_REQUESTS
      /\ ~Limited(c) => /\ Len(Passed(c)) <= DEFAULT_MAX_REQUESTS
                       /\ Len(Strict(c)) <= DEFAULT_MAX_REQUESTS
      /\ ~StrictLimited(c) => Len(B) <= STRICT_MAX_REQUESTS
  BY Buckets
<1>4. ~StrictLimited(c) => Len(B) <= DEFAULT_MAX_REQUESTS
  <2>1. now \in Nat /\ Len(B) \in Nat
    BY <1>2, LenProperties DEF TypeInv, TypeOK, Times
  <2>. QED
    BY <1>0, <1>3, <2>1 DEF LimitsAssumption
<1>. HIDE DEF B
<1>5. ASSUME DefaultLimiter(c) PROVE \E b : Meets(c, b)
  <2>1. CASE Limited(c)
    BY <1>1, <1>2, <1>3, <1>5, <2>1 DEF DefaultLimiter, Meets
  <2>2. CASE ~Limited(c)
    BY <1>1, <1>2, <1>3, <1>5, <2>2 DEF DefaultLimiter, Meets
  <2>. QED
    BY <2>1, <2>2
<1>6. ASSUME BothLimiters(c) PROVE \E b : Meets(c, b)
  <2>1. CASE Limited(c)
    BY <1>1, <1>2, <1>3, <1>6, <2>1 DEF BothLimiters, Meets
  <2>2. CASE ~Limited(c) /\ StrictLimited(c)
    BY <1>1, <1>2, <1>3, <1>6, <2>2 DEF BothLimiters, Meets
  <2>3. CASE ~StrictLimited(c)
    BY <1>1, <1>2, <1>3, <1>4, <1>6, <2>3 DEF BothLimiters, Meets, B, StrictLimited
  <2>. QED
    BY <2>1, <2>2, <2>3
<1>. QED
  BY <1>5, <1>6 DEF BothLimiters, StrictLimited

Answers == [status : Statuses, amount : Amounts \union {None}] \union {None}

LEMMA TypeInit == Init => TypeInv
<1>. SUFFICES ASSUME Init PROVE TypeInv
  OBVIOUS
<1>1. \A S : <<>> \in Seq(S) /\ Len(<<>>) = 0
  BY EmptySeq
<1>2. IsFiniteSet({}) /\ Cardinality({}) = 0
  BY FS_EmptySet
<1>3. 0 \in Times
  BY TimeAssumption DEF Times
<1>4. \A c \in Clients : store[c] = <<>>
  BY DEF Init
<1>. QED
  BY <1>1, <1>2, <1>3, <1>4, LimitsAssumption DEF Init, TypeInv, TypeOK, Numbered

(* Whatever was accepted is as typed: one more, at the present time. *)
LEMMA TypeAccepted ==
  ASSUME TypeInv, Request,
         \/ UNCHANGED <<seenNonces, accepted>>
         \/ /\ Cardinality(admitted') = Cardinality(admitted) + 1
            /\ \E nonce \in Nonces : Accept(nonce),
         Cardinality(admitted') \in Nat, Cardinality(admitted') >= Cardinality(admitted)
  PROVE  /\ seenNonces' \subseteq [nonce : Nonces, at : Times]
         /\ accepted' \subseteq [n : 1 .. MaxRequests, nonce : Nonces, at : Times]
         /\ Numbered(accepted')
         /\ Cardinality(accepted') <= Cardinality(admitted')
<1>0. /\ Cardinality(admitted) \in Nat /\ Cardinality(accepted) \in Nat
      /\ Cardinality(accepted) <= Cardinality(admitted)
      /\ now \in Times /\ MaxRequests \in Nat
      /\ Cardinality(admitted) < MaxRequests
  BY FS_CardinalityType, TimeAssumption DEF TypeInv, TypeOK, Numbered, Request
<1>1. CASE UNCHANGED <<seenNonces, accepted>>
  BY <1>0, <1>1 DEF TypeInv, TypeOK
<1>2. ASSUME NEW nonce \in Nonces, Accept(nonce),
             Cardinality(admitted') = Cardinality(admitted) + 1
      PROVE  /\ seenNonces' \subseteq [nonce : Nonces, at : Times]
             /\ accepted' \subseteq [n : 1 .. MaxRequests, nonce : Nonces, at : Times]
             /\ Numbered(accepted')
             /\ Cardinality(accepted') <= Cardinality(admitted')
  <2>. DEFINE new == [n |-> Cardinality(accepted) + 1, nonce |-> nonce, at |-> now]
  <2>1. accepted' = accepted \union {new} /\ new.n = Cardinality(accepted) + 1
        /\ seenNonces' = seenNonces \union {[nonce |-> nonce, at |-> now]}
    BY <1>2 DEF Accept
  <2>2. new \in [n : 1 .. MaxRequests, nonce : Nonces, at : Times]
    BY <1>0
  <2>3. Numbered(accepted) /\ \A r \in accepted : r.n \in Nat
    BY DEF TypeInv, TypeOK
  <2>. HIDE DEF new
  <2>4. Numbered(accepted') /\ Cardinality(accepted') = Cardinality(accepted) + 1
    BY <2>1, <2>3, NumberedNext
  <2>5. accepted' \subseteq [n : 1 .. MaxRequests, nonce : Nonces, at : Times]
    BY <2>1, <2>2 DEF TypeInv, TypeOK
  <2>6. seenNonces' \subseteq [nonce : Nonces, at : Times]
    BY <1>0, <2>1 DEF TypeInv, TypeOK
  <2>. QED
    BY <1>0, <1>2, <2>4, <2>5, <2>6
<1>. QED
  BY <1>1, <1>2

LEMMA TypeRequest ==
  ASSUME TypeInv, Request, NEW c \in Clients, NEW b, Meets(c, b), answer' \in Answers,
         \/ UNCHANGED <<seenNonces, accepted>>
         \/ /\ admitted' = admitted \union {Admission(c, "strict")}
            /\ \E nonce \in Nonces : Accept(nonce)
  PROVE  TypeInv'
<1>0. /\ Cardinality(admitted) \in Nat /\ now \in Times /\ now \in Nat
      /\ MaxRequests \in Nat /\ Cardinality(admitted) < MaxRequests
      /\ Numbered(admitted) /\ \A r \in admitted : r.n \in Nat
      /\ UNCHANGED <<now, contract, told, row>>
  BY FS_CardinalityType, TimeAssumption DEF TypeInv, TypeOK, Numbered, Request, auction, Times
<1>1. ASSUME NEW by \in {"default", "strict"}
      PROVE  /\ Admission(c, by) \in [n : 1 .. MaxRequests, client : Clients, at : Times,
                                       by : {"default", "strict"}]
             /\ Admission(c, by).n = Cardinality(admitted) + 1
             /\ Admission(c, by).at = now
  BY <1>0 DEF Admission
<1>2. \/ admitted' = admitted
      \/ \E by \in {"default", "strict"} :
           admitted' = admitted \union {Admission(c, by)}
  BY DEF Meets
<1>3. ASSUME NEW by \in {"default", "strict"},
             admitted' = admitted \union {Admission(c, by)}
      PROVE  Numbered(admitted') /\ Cardinality(admitted') = Cardinality(admitted) + 1
  BY <1>0, <1>1, <1>3, NumberedNext
<1>4. /\ admitted' \subseteq [n : 1 .. MaxRequests, client : Clients, at : Times,
                              by : {"default", "strict"}]
      /\ Numbered(admitted') /\ \A r \in admitted' : r.at <= now
      /\ Cardinality(admitted') \in Nat /\ Cardinality(admitted') >= Cardinality(admitted)
  <2>1. CASE admitted' = admitted
    BY <1>0, <2>1 DEF TypeInv, TypeOK
  <2>2. ASSUME NEW by \in {"default", "strict"},
               admitted' = admitted \union {Admission(c, by)}
        PROVE  <1>4!:
    BY <1>0, <1>1, <1>3, <2>2 DEF TypeInv, TypeOK
  <2>. QED
    BY <1>2, <2>1, <2>2
<1>5. /\ seenNonces' \subseteq [nonce : Nonces, at : Times]
      /\ accepted' \subseteq [n : 1 .. MaxRequests, nonce : Nonces, at : Times]
      /\ Numbered(accepted')
      /\ Cardinality(accepted') <= Cardinality(admitted')
  BY <1>3, <1>4, TypeAccepted
<1>6. /\ store' \in [Clients -> Seq(Times)]
      /\ \A d \in Clients : store'[d] \in Seq(0 .. now) /\ Len(store'[d]) <= DEFAULT_MAX_REQUESTS
  <2>1. 0 .. now \subseteq Times
    BY <1>0, TimeAssumption DEF Times
  <2>2. b \in Seq(Times)
    <3>1. b \in Seq(0 .. now)
      BY DEF Meets
    <3>. QED
      BY <2>1, <3>1, SeqMonotonic, Zenon
  <2>. QED
    BY <2>2 DEF Meets, TypeInv, TypeOK
<1>. QED
  BY <1>0, <1>4, <1>5, <1>6 DEF TypeInv, TypeOK, Answers

LEMMA RepliesTyped ==
  ASSUME NEW status \in Statuses
  PROVE  /\ Reply(status) => answer' \in Answers
         /\ \A amount \in Amounts : ReplyTo(amount, status) => answer' \in Answers
BY DEF Reply, ReplyTo, Answers

LEMMA TypeRead ==
  ASSUME TypeInv, NEW c \in Clients, NEW id \in Ids, NEW valid \in BOOLEAN, Read(c, id, valid)
  PROVE  TypeInv'
<1>1. PICK b : Meets(c, b)
  BY Limiters DEF Read
<1>2. \E status \in Statuses : Reply(status)
  BY DEF Read, Statuses
<1>. QED
  BY <1>1, <1>2, RepliesTyped, TypeRequest DEF Read

LEMMA TypeSimulateBid ==
  ASSUME TypeInv, NEW c \in Clients, NEW id \in Ids, NEW amount \in Amounts,
         SimulateBid(c, id, amount)
  PROVE  TypeInv'
<1>1. PICK b : Meets(c, b)
  BY Limiters DEF SimulateBid
<1>2. \E status \in Statuses : Reply(status) \/ ReplyTo(amount, status)
  BY DEF SimulateBid, Statuses
<1>. QED
  BY <1>1, <1>2, RepliesTyped, TypeRequest DEF SimulateBid

LEMMA TypeSignedPost ==
  ASSUME TypeInv, NEW c \in Clients, NEW id \in Ids, NEW nonce \in Nonces,
         NEW valid \in BOOLEAN, NEW signed \in BOOLEAN, SignedPost(c, id, nonce, valid, signed)
  PROVE  TypeInv'
<1>1. PICK b : Meets(c, b)
  BY Limiters DEF SignedPost
<1>2. \E status \in Statuses : Reply(status)
  BY DEF SignedPost, Statuses
<1>3. \/ UNCHANGED <<seenNonces, accepted>>
      \/ ~StrictLimited(c) /\ Accept(nonce)
  BY DEF SignedPost
<1>4. ~StrictLimited(c) => admitted' = admitted \union {Admission(c, "strict")}
  BY Limiters DEF SignedPost
<1>5. Request
  BY DEF SignedPost
<1>. QED
  BY <1>1, <1>2, <1>3, <1>4, <1>5, RepliesTyped, TypeRequest

LEMMA TypeCleanBuckets ==
  ASSUME TypeInv, CleanBuckets
  PROVE  TypeInv'
<1>1. /\ store' = [c \in Clients |-> Pruned(c)]
      /\ UNCHANGED <<now, seenNonces, contract, told, row, answer, admitted, accepted>>
  BY DEF CleanBuckets, Pruned, auction
<1>2. \A c \in Clients : Pruned(c) \in Seq(0 .. now) /\ Len(Pruned(c)) <= DEFAULT_MAX_REQUESTS
  BY Buckets
<1>3. 0 .. now \subseteq Times
  BY TimeAssumption DEF TypeInv, TypeOK, Times
<1>4. \A c \in Clients : Pruned(c) \in Seq(Times)
  BY <1>2, <1>3, SeqMonotonic, Zenon
<1>. QED
  BY <1>1, <1>2, <1>4 DEF TypeInv, TypeOK

LEMMA TypeTick ==
  ASSUME TypeInv, Tick
  PROVE  TypeInv'
<1>1. /\ now < MaxTime /\ now' = now + 1 /\ now \in Nat /\ now' \in Times
      /\ UNCHANGED <<store, seenNonces, contract, told, row, answer, admitted, accepted>>
  BY TimeAssumption DEF Tick, auction, TypeInv, TypeOK, Times
<1>2. 0 .. now \subseteq 0 .. now'
  BY <1>1
<1>3. \A c \in Clients : store[c] \in Seq(0 .. now')
  <2>1. \A c \in Clients : store[c] \in Seq(0 .. now)
    BY DEF TypeInv
  <2>. QED
    BY <1>2, <2>1, SeqMonotonic, Zenon
<1>4. \A r \in admitted : r.at <= now'
  BY <1>1 DEF TypeInv, TypeOK, Times
<1>. QED
  BY <1>1, <1>3, <1>4 DEF TypeInv, TypeOK

(* A call of the contract, or a write of the indexer. *)
ChainStep ==
  \/ \E item \in Items : Create(item)
  \/ \E amount \in Amounts : PlaceBid(amount)
  \/ ActivateAuction \/ AttestPhysicalItem \/ EndTime
  \/ CancelAuction \/ CloseAuction \/ SettleAuction
IndexStep ==
  \E status \in RowStatuses, highest \in {0} \union Amounts : Index(status, highest)

(* What the calls make of the auction: the same item, a status and what it tells. *)
LEMMA CallIs ==
  ASSUME TypeInv, ChainStep
  PROVE  /\ UNCHANGED <<now, store, seenNonces, row, admitted, accepted>>
         /\ answer' = None
         /\ contract' \in Auctions
         /\ told \subseteq told' /\ told' \subseteq RowStatuses
<1>. USE DEF Auctions, RowStatuses
<1>0. contract \in Auctions \union {None} /\ told \subseteq RowStatuses
  BY DEF TypeInv, TypeOK
<1>. SUFFICES \E new \in Auctions, t \in SUBSET RowStatuses : Call(new, t)
  BY <1>0 DEF Call
<1>1. ASSUME NEW item \in Items, Create(item)
      PROVE  \E new \in Auctions, t \in SUBSET RowStatuses : Call(new, t)
  <2>1. [status |-> "Created", item |-> item, over |-> FALSE, bids |-> {}] \in Auctions
    OBVIOUS
  <2>2. {"created"} \in SUBSET RowStatuses
    OBVIOUS
  <2>. QED
    BY <1>1, <2>1, <2>2 DEF Create
<1>2. ASSUME NEW amount \in Amounts, PlaceBid(amount)
      PROVE  \E new \in Auctions, t \in SUBSET RowStatuses : Call(new, t)
  <2>1. [contract EXCEPT !.bids = @ \union {amount}] \in Auctions
    BY <1>0, <1>2 DEF PlaceBid, Acceptable, Is
  <2>2. {"active"} \in SUBSET RowStatuses
    OBVIOUS
  <2>. QED
    BY <1>2, <2>1, <2>2 DEF PlaceBid
<1>3. ASSUME contract # None
      PROVE  /\ \A st \in {"Active", "Ended", "Settled", "Cancelled"} :
                  [contract EXCEPT !.status = st] \in Auctions
             /\ [contract EXCEPT !.over = TRUE] \in Auctions
  BY <1>0, <1>3
<1>4. /\ {} \in SUBSET RowStatuses /\ {"closed"} \in SUBSET RowStatuses
      /\ {"settled"} \in SUBSET RowStatuses /\ {"cancelled"} \in SUBSET RowStatuses
  OBVIOUS
<1>. HIDE DEF Auctions, RowStatuses
<1>5. CASE ActivateAuction
  BY <1>3, <1>4, <1>5 DEF ActivateAuction, Is
<1>6. CASE AttestPhysicalItem
  BY <1>3, <1>4, <1>6 DEF AttestPhysicalItem
<1>7. CASE EndTime
  BY <1>3, <1>4, <1>7 DEF EndTime
<1>8. CASE CancelAuction
  BY <1>3, <1>4, <1>8 DEF CancelAuction, Is
<1>9. CASE CloseAuction
  BY <1>3, <1>4, <1>9 DEF CloseAuction, Is
<1>10. CASE SettleAuction
  BY <1>3, <1>4, <1>10 DEF SettleAuction, Is
<1>. QED
  BY <1>1, <1>2, <1>5, <1>6, <1>7, <1>8, <1>9, <1>10 DEF ChainStep

LEMMA TypeStep == TypeInv /\ [Next]_vars => TypeInv'
<1>. SUFFICES ASSUME TypeInv, [Next]_vars PROVE TypeInv'
  OBVIOUS
<1>1. CASE \E c \in Clients :
             \/ \E id \in Ids, valid \in BOOLEAN : Read(c, id, valid)
             \/ \E id \in Ids, amount \in Amounts : SimulateBid(c, id, amount)
             \/ \E id \in Ids, nonce \in Nonces, valid, signed \in BOOLEAN :
                  SignedPost(c, id, nonce, valid, signed)
  BY <1>1, TypeRead, TypeSimulateBid, TypeSignedPost
<1>2. CASE CleanBuckets
  BY <1>2, TypeCleanBuckets
<1>3. CASE CleanNonces
  BY <1>3 DEF CleanNonces, auction, TypeInv, TypeOK
<1>4. CASE Tick
  BY <1>4, TypeTick
<1>5. CASE Restart
  <2>1. \A S : <<>> \in Seq(S) /\ Len(<<>>) = 0
    BY EmptySeq
  <2>2. IsFiniteSet({}) /\ Cardinality({}) = 0
    BY FS_EmptySet
  <2>. QED
    BY <1>5, <2>1, <2>2, LimitsAssumption DEF Restart, auction, TypeInv, TypeOK, Numbered
<1>6. CASE ChainStep
  BY <1>6, CallIs DEF TypeInv, TypeOK
<1>8. CASE IndexStep
  BY <1>8 DEF IndexStep, Index, auction, TypeInv, TypeOK
<1>9. CASE UNCHANGED vars
  BY <1>9 DEF vars, auction, TypeInv, TypeOK
<1>. QED
  BY <1>1, <1>2, <1>3, <1>4, <1>5, <1>6, <1>8, <1>9 DEF Next, ChainStep, IndexStep

-----------------------------------------------------------------------------
(* The budget.  What a client got through in a window is no more than the places its
   bucket holds from the window's beginning on, a strict request counting twice. *)
InWindow(set, c, t) ==
  {r \in set : r.client = c /\ t - DEFAULT_WINDOW_MS < r.at /\ r.at <= t}
SinceOf(set, c, u) == {r \in set : r.client = c /\ r.at >= u}
StrictOf(set) == {r \in set : r.by = "strict"}

Backed(c) ==
  \A u \in Int : u > now - DEFAULT_WINDOW_MS =>
    Cardinality(SinceOf(admitted, c, u)) + Cardinality(StrictOf(SinceOf(admitted, c, u)))
      <= Placed(store[c], u)

WithinBudget(set, c, t) ==
  /\ Cardinality(InWindow(set, c, t)) <= DEFAULT_MAX_REQUESTS
  /\ 2 * Cardinality(StrictOf(InWindow(set, c, t))) <= STRICT_MAX_REQUESTS

BudgetInv ==
  /\ \A c \in Clients : Backed(c)
  /\ \A c \in Clients, t \in Times : WithinBudget(admitted, c, t)

LEMMA BudgetInvGives == BudgetInv => BudgetHeld
BY DEF BudgetInv, WithinBudget, InWindow, StrictOf, BudgetHeld

LEMMA SinceFinite ==
  ASSUME NEW set, IsFiniteSet(set), NEW c, NEW u
  PROVE  /\ IsFiniteSet(SinceOf(set, c, u)) /\ IsFiniteSet(StrictOf(SinceOf(set, c, u)))
         /\ Cardinality(SinceOf(set, c, u)) \in Nat
         /\ Cardinality(StrictOf(SinceOf(set, c, u))) \in Nat
<1>1. SinceOf(set, c, u) \subseteq set /\ StrictOf(SinceOf(set, c, u)) \subseteq set
  BY DEF SinceOf, StrictOf
<1>. QED
  BY <1>1, FS_Subset, FS_CardinalityType

(* One admission more, since any time up to now. *)
LEMMA SinceNext ==
  ASSUME NEW set, IsFiniteSet(set), NEW c, NEW u, NEW new, new \notin set, new.client = c
  PROVE  /\ Cardinality(SinceOf(set \union {new}, c, u)) =
              IF new.at >= u THEN Cardinality(SinceOf(set, c, u)) + 1
              ELSE Cardinality(SinceOf(set, c, u))
         /\ Cardinality(StrictOf(SinceOf(set \union {new}, c, u))) =
              IF new.at >= u /\ new.by = "strict"
              THEN Cardinality(StrictOf(SinceOf(set, c, u))) + 1
              ELSE Cardinality(StrictOf(SinceOf(set, c, u)))
<1>. DEFINE since == SinceOf(set, c, u)
            after == SinceOf(set \union {new}, c, u)
<1>1. after = IF new.at >= u THEN since \union {new} ELSE since
  BY DEF SinceOf
<1>2. StrictOf(after) = IF new.at >= u /\ new.by = "strict" THEN StrictOf(since) \union {new}
                        ELSE StrictOf(since)
  BY <1>1 DEF StrictOf
<1>3. new \notin since /\ new \notin StrictOf(since)
  BY DEF SinceOf, StrictOf
<1>4. IsFiniteSet(since) /\ IsFiniteSet(StrictOf(since))
  BY SinceFinite
<1>5. /\ Cardinality(since \union {new}) = Cardinality(since) + 1
      /\ Cardinality(StrictOf(since) \union {new}) = Cardinality(StrictOf(since)) + 1
  BY <1>3, <1>4, FS_AddElement
<1>. HIDE DEF since, after
<1>6. /\ Cardinality(after) = IF new.at >= u THEN Cardinality(since) + 1 ELSE Cardinality(since)
      /\ Cardinality(StrictOf(after)) =
           IF new.at >= u /\ new.by = "strict" THEN Cardinality(StrictOf(since)) + 1
           ELSE Cardinality(StrictOf(since))
  BY <1>1, <1>2, <1>5
<1>. QED
  BY <1>6 DEF since, after

(* A window that reaches the present holds no more than came since its beginning. *)
LEMMA WindowWithinSince ==
  ASSUME NEW set, IsFiniteSet(set), NEW c, NEW t \in Int, NEW u \in Int,
         u <= t - DEFAULT_WINDOW_MS + 1, \A r \in set : r.at \in Int
  PROVE  /\ Cardinality(InWindow(set, c, t)) <= Cardinality(SinceOf(set, c, u))
         /\ Cardinality(StrictOf(InWindow(set, c, t))) <=
              Cardinality(StrictOf(SinceOf(set, c, u)))
         /\ Cardinality(StrictOf(SinceOf(set, c, u))) <= Cardinality(SinceOf(set, c, u))
         /\ Cardinality(InWindow(set, c, t)) \in Nat
         /\ Cardinality(StrictOf(InWindow(set, c, t))) \in Nat
<1>1. DEFAULT_WINDOW_MS \in Int
  BY WindowsAssumption
<1>2. /\ InWindow(set, c, t) \subseteq SinceOf(set, c, u)
      /\ StrictOf(InWindow(set, c, t)) \subseteq StrictOf(SinceOf(set, c, u))
      /\ StrictOf(SinceOf(set, c, u)) \subseteq SinceOf(set, c, u)
  BY <1>1 DEF InWindow, SinceOf, StrictOf
<1>. QED
  BY <1>2, SinceFinite, FS_Subset, FS_CardinalityType

LEMMA BudgetRequest ==
  ASSUME TypeInv, TypeInv', BudgetInv, now' = now, NEW c \in Clients, NEW b, Meets(c, b)
  PROVE  BudgetInv'
<1>. DEFINE W == DEFAULT_WINDOW_MS
<1>0. /\ now \in Nat /\ W \in Int
      /\ DEFAULT_MAX_REQUESTS \in Nat /\ STRICT_MAX_REQUESTS \in Nat
      /\ IsFiniteSet(admitted) /\ IsFiniteSet(admitted')
      /\ \A r \in admitted : r.at \in Nat /\ r.n \in Nat /\ r.at <= now
      /\ \A r \in admitted' : r.at \in Nat
      /\ Numbered(admitted)
  BY WindowsAssumption, LimitsAssumption DEF TypeInv, TypeOK, Times, Numbered
<1>1. /\ b \in Seq(0 .. now) /\ Len(b) <= DEFAULT_MAX_REQUESTS
      /\ store' = [store EXCEPT ![c] = b] /\ store \in [Clients -> Seq(Times)]
      /\ store'[c] = b /\ \A d \in Clients \ {c} : store'[d] = store[d]
  BY DEF Meets, TypeInv, TypeOK
<1>2. ASSUME NEW by \in {"default", "strict"}
      PROVE  LET new == Admission(c, by)
             IN new.client = c /\ new.at = now /\ new.by = by /\ new \notin admitted
  BY <1>0, NumberedNext DEF Admission
<1>3. \A u \in Int, d \in Clients :
        /\ Placed(store[d], u) \in Nat /\ Placed(b, u) \in Nat /\ Placed(b, u) <= Len(b)
  <2>1. Len(b) \in Nat /\ \A d \in Clients : Len(store[d]) \in Nat
    BY <1>0, <1>1, LenProperties
  <2>. QED
    BY <2>1, PlacesAreFinite DEF Placed
<1>4. \A d \in Clients, u \in Int :
        /\ Cardinality(SinceOf(admitted, d, u)) \in Nat
        /\ Cardinality(StrictOf(SinceOf(admitted, d, u))) \in Nat
  BY <1>0, SinceFinite
<1>5. ASSUME NEW u \in Int, u > now - W
      PROVE  Cardinality(SinceOf(admitted', c, u)) + Cardinality(StrictOf(SinceOf(admitted', c, u)))
               <= Placed(b, u)
  <2>1. Cardinality(SinceOf(admitted, c, u)) + Cardinality(StrictOf(SinceOf(admitted, c, u)))
          <= Placed(store[c], u)
    BY <1>5 DEF BudgetInv, Backed
  <2>2. CASE admitted' = admitted /\ Passage(c, b, 0)
    BY <1>3, <1>5, <2>1, <2>2 DEF Passage
  <2>3. CASE admitted' = admitted \union {Admission(c, "default")} /\ Passage(c, b, 1)
    <3>. DEFINE new == Admission(c, "default")
    <3>1. new.client = c /\ new.at = now /\ new.by = "default" /\ new \notin admitted
      BY <1>2
    <3>. HIDE DEF new
    <3>2. /\ Cardinality(SinceOf(admitted \union {new}, c, u)) =
               Cardinality(SinceOf(admitted, c, u)) + (IF now >= u THEN 1 ELSE 0)
          /\ Cardinality(StrictOf(SinceOf(admitted \union {new}, c, u))) =
               Cardinality(StrictOf(SinceOf(admitted, c, u))) + 0
      <4>1. /\ Cardinality(SinceOf(admitted \union {new}, c, u)) =
                 IF new.at >= u THEN Cardinality(SinceOf(admitted, c, u)) + 1
                 ELSE Cardinality(SinceOf(admitted, c, u))
            /\ Cardinality(StrictOf(SinceOf(admitted \union {new}, c, u))) =
                 IF new.at >= u /\ new.by = "strict"
                 THEN Cardinality(StrictOf(SinceOf(admitted, c, u))) + 1
                 ELSE Cardinality(StrictOf(SinceOf(admitted, c, u)))
        <5>1. IsFiniteSet(admitted)
          BY <1>0
        <5>. QED
          BY <3>1, <5>1, SinceNext
      <4>. QED
        BY <1>4, <3>1, <4>1
    <3>3. admitted' = admitted \union {new}
      BY <2>3 DEF new
    <3>4. Placed(b, u) = Placed(store[c], u) + (IF now >= u THEN 1 ELSE 0)
      BY <1>5, <2>3 DEF Passage
    <3>5. Placed(store[c], u) \in Nat /\ Placed(b, u) \in Nat
      BY <1>3
    <3>. QED
      BY <1>4, <2>1, <3>2, <3>3, <3>4, <3>5
  <2>4. CASE admitted' = admitted \union {Admission(c, "strict")} /\ Passage(c, b, 2)
    <3>. DEFINE new == Admission(c, "strict")
    <3>1. new.client = c /\ new.at = now /\ new.by = "strict" /\ new \notin admitted
      BY <1>2
    <3>. HIDE DEF new
    <3>2. /\ Cardinality(SinceOf(admitted \union {new}, c, u)) =
               Cardinality(SinceOf(admitted, c, u)) + (IF now >= u THEN 1 ELSE 0)
          /\ Cardinality(StrictOf(SinceOf(admitted \union {new}, c, u))) =
               Cardinality(StrictOf(SinceOf(admitted, c, u))) + (IF now >= u THEN 1 ELSE 0)
      <4>1. /\ Cardinality(SinceOf(admitted \union {new}, c, u)) =
                 IF new.at >= u THEN Cardinality(SinceOf(admitted, c, u)) + 1
                 ELSE Cardinality(SinceOf(admitted, c, u))
            /\ Cardinality(StrictOf(SinceOf(admitted \union {new}, c, u))) =
                 IF new.at >= u /\ new.by = "strict"
                 THEN Cardinality(StrictOf(SinceOf(admitted, c, u))) + 1
                 ELSE Cardinality(StrictOf(SinceOf(admitted, c, u)))
        <5>1. IsFiniteSet(admitted)
          BY <1>0
        <5>. QED
          BY <3>1, <5>1, SinceNext
      <4>. QED
        BY <1>4, <3>1, <4>1
    <3>3. admitted' = admitted \union {new}
      BY <2>4 DEF new
    <3>4. Placed(b, u) = Placed(store[c], u) + (IF now >= u THEN 2 ELSE 0)
      BY <1>5, <2>4 DEF Passage
    <3>5. Placed(store[c], u) \in Nat /\ Placed(b, u) \in Nat
      BY <1>3
    <3>. QED
      BY <1>4, <2>1, <3>2, <3>3, <3>4, <3>5
  <2>. QED
    BY <2>2, <2>3, <2>4 DEF Meets
<1>6. ASSUME NEW d \in Clients PROVE Backed(d)'
  <2>1. CASE d = c
    BY <1>1, <1>5, <2>1 DEF Backed
  <2>2. CASE d # c
    <3>1. \A u : SinceOf(admitted', d, u) = SinceOf(admitted, d, u)
      BY <1>2, <2>2 DEF Meets, SinceOf
    <3>2. Backed(d) /\ store'[d] = store[d]
      BY <1>1, <2>2 DEF BudgetInv
    <3>. QED
      BY <3>1, <3>2 DEF Backed
  <2>. QED
    BY <2>1, <2>2
<1>7. ASSUME NEW d \in Clients, NEW t \in Times PROVE WithinBudget(admitted', d, t)
  <2>0. t \in Nat /\ WithinBudget(admitted, d, t)
    BY DEF BudgetInv, Times
  <2>1. CASE d # c \/ t < now \/ admitted' = admitted
    <3>1. InWindow(admitted', d, t) = InWindow(admitted, d, t)
      BY <1>0, <1>2, <2>0, <2>1 DEF Meets, InWindow
    <3>. QED
      BY <2>0, <3>1 DEF WithinBudget
  <2>2. CASE d = c /\ t >= now /\ admitted' # admitted
    <3>. DEFINE u == now - W + 1
                since == SinceOf(admitted', c, u)
    <3>1. u \in Int /\ u > now - W /\ u <= t - W + 1
      BY <1>0, <2>0, <2>2
    <3>. HIDE DEF u
    <3>2. Cardinality(since) + Cardinality(StrictOf(since)) <= Placed(b, u)
      BY <1>5, <3>1
    <3>3. /\ Cardinality(since) \in Nat /\ Cardinality(StrictOf(since)) \in Nat
          /\ Cardinality(StrictOf(since)) <= Cardinality(since)
          /\ Cardinality(InWindow(admitted', c, t)) \in Nat
          /\ Cardinality(StrictOf(InWindow(admitted', c, t))) \in Nat
          /\ Cardinality(InWindow(admitted', c, t)) <= Cardinality(since)
          /\ Cardinality(StrictOf(InWindow(admitted', c, t))) <= Cardinality(StrictOf(since))
      BY <1>0, <2>0, <3>1, SinceFinite, WindowWithinSince
    <3>4. Placed(b, u) \in Nat /\ Placed(b, u) <= Len(b) /\ Len(b) \in Nat
      BY <1>1, <1>3, <3>1, LenProperties
    <3>5. Cardinality(InWindow(admitted', c, t)) <= DEFAULT_MAX_REQUESTS
      BY <1>0, <1>1, <3>2, <3>3, <3>4
    <3>6. 2 * Cardinality(StrictOf(InWindow(admitted', c, t))) <= STRICT_MAX_REQUESTS
      <4>1. CASE admitted' = admitted \union {Admission(c, "default")}
        <5>1. StrictOf(InWindow(admitted', c, t)) = StrictOf(InWindow(admitted, c, t))
          <6>1. Admission(c, "default").by # "strict"
            BY <1>2
          <6>. QED
            BY <4>1, <6>1 DEF StrictOf, InWindow
        <5>. QED
          BY <2>0, <2>2, <5>1 DEF WithinBudget
      <4>2. CASE Len(b) <= STRICT_MAX_REQUESTS
        BY <1>0, <3>2, <3>3, <3>4, <4>2
      <4>. QED
        BY <2>2, <4>1, <4>2 DEF Meets
    <3>. QED
      BY <2>2, <3>5, <3>6 DEF WithinBudget
  <2>. QED
    BY <1>0, <2>0, <2>1, <2>2
<1>. QED
  BY <1>6, <1>7 DEF BudgetInv

LEMMA BudgetFrame ==
  ASSUME BudgetInv, UNCHANGED <<now, store, admitted>>
  PROVE  BudgetInv'
BY DEF BudgetInv, Backed, WithinBudget

LEMMA BudgetCleanBuckets ==
  ASSUME TypeInv, BudgetInv, CleanBuckets
  PROVE  BudgetInv'
<1>1. store' = [c \in Clients |-> Pruned(c)] /\ UNCHANGED <<now, admitted>>
  BY DEF CleanBuckets, Pruned
<1>2. \A c \in Clients : \A u \in Int : u > now - DEFAULT_WINDOW_MS =>
        Placed(Pruned(c), u) = Placed(store[c], u)
  BY Buckets
<1>. QED
  BY <1>1, <1>2 DEF BudgetInv, Backed, WithinBudget

LEMMA BudgetTick ==
  ASSUME TypeInv, BudgetInv, Tick
  PROVE  BudgetInv'
<1>1. now' = now + 1 /\ now \in Nat /\ UNCHANGED <<store, admitted>>
  BY DEF Tick, TypeInv, TypeOK, Times
<1>2. \A u \in Int : u > now' - DEFAULT_WINDOW_MS => u > now - DEFAULT_WINDOW_MS
  BY <1>1, WindowsAssumption
<1>. QED
  BY <1>1, <1>2 DEF BudgetInv, Backed, WithinBudget

LEMMA BudgetEmpty ==
  ASSUME store = [c \in Clients |-> <<>>], admitted = {}
  PROVE  BudgetInv
<1>1. Cardinality({}) = 0
  BY FS_EmptySet
<1>2. ASSUME NEW c \in Clients, NEW u
      PROVE  SinceOf(admitted, c, u) = {} /\ StrictOf({}) = {} /\ Placed(store[c], u) = 0
  <2>1. store[c] = <<>> /\ Len(<<>>) = 0
    OBVIOUS
  <2>2. Places(store[c], 0, u) = {}
    BY DEF Places
  <2>. QED
    BY <1>1, <2>1, <2>2 DEF SinceOf, StrictOf, Placed
<1>3. ASSUME NEW c \in Clients, NEW t \in Times PROVE InWindow(admitted, c, t) = {}
  BY DEF InWindow
<1>4. ASSUME NEW c \in Clients PROVE Backed(c)
  <2>. SUFFICES ASSUME NEW u \in Int
                PROVE  Cardinality(SinceOf(admitted, c, u))
                         + Cardinality(StrictOf(SinceOf(admitted, c, u))) <= Placed(store[c], u)
    BY DEF Backed
  <2>1. SinceOf(admitted, c, u) = {} /\ Placed(store[c], u) = 0
    BY <1>2
  <2>2. StrictOf(SinceOf(admitted, c, u)) = {}
    BY <2>1 DEF StrictOf
  <2>3. /\ Cardinality(SinceOf(admitted, c, u)) = 0
        /\ Cardinality(StrictOf(SinceOf(admitted, c, u))) = 0
    BY <1>1, <2>1, <2>2
  <2>. QED
    BY <2>1, <2>3
<1>5. ASSUME NEW c \in Clients, NEW t \in Times PROVE WithinBudget(admitted, c, t)
  <2>1. InWindow(admitted, c, t) = {}
    BY <1>3
  <2>2. StrictOf(InWindow(admitted, c, t)) = {}
    BY <2>1 DEF StrictOf
  <2>3. /\ Cardinality(InWindow(admitted, c, t)) = 0
        /\ Cardinality(StrictOf(InWindow(admitted, c, t))) = 0
    BY <1>1, <2>1, <2>2
  <2>. QED
    BY <2>3, LimitsAssumption DEF WithinBudget
<1>. QED
  BY <1>4, <1>5 DEF BudgetInv

LEMMA BudgetStep == TypeInv /\ TypeInv' /\ BudgetInv /\ [Next]_vars => BudgetInv'
<1>. SUFFICES ASSUME TypeInv, TypeInv', BudgetInv, [Next]_vars PROVE BudgetInv'
  OBVIOUS
<1>1. ASSUME NEW c \in Clients, Request, DefaultLimiter(c) \/ BothLimiters(c)
      PROVE  BudgetInv'
  <2>1. PICK b : Meets(c, b)
    BY <1>1, Limiters
  <2>. QED
    BY <1>1, <2>1, BudgetRequest DEF Request
<1>2. CASE \E c \in Clients :
             \/ \E id \in Ids, valid \in BOOLEAN : Read(c, id, valid)
             \/ \E id \in Ids, amount \in Amounts : SimulateBid(c, id, amount)
             \/ \E id \in Ids, nonce \in Nonces, valid, signed \in BOOLEAN :
                  SignedPost(c, id, nonce, valid, signed)
  BY <1>1, <1>2 DEF Read, SimulateBid, SignedPost
<1>3. CASE CleanBuckets
  BY <1>3, BudgetCleanBuckets
<1>4. CASE Tick
  BY <1>4, BudgetTick
<1>5. CASE Restart
  <2>1. store' = [c \in Clients |-> <<>>] /\ admitted' = {} /\ now' = now
    BY <1>5 DEF Restart
  <2>2. (store = [c \in Clients |-> <<>>] /\ admitted = {} => BudgetInv)'
    BY BudgetEmpty, PTL
  <2>. QED
    BY <2>1, <2>2
<1>6. CASE CleanNonces \/ UNCHANGED vars
  BY <1>6, BudgetFrame DEF CleanNonces, vars
<1>7. CASE ChainStep
  BY <1>7, CallIs, BudgetFrame
<1>8. CASE IndexStep
  BY <1>8, BudgetFrame DEF IndexStep, Index
<1>. QED
  BY <1>2, <1>3, <1>4, <1>5, <1>6, <1>7, <1>8 DEF Next, ChainStep, IndexStep

(* The oldest place of a full bucket is gone when Retry-After has passed. *)
LEMMA RetryAfterGives == TypeInv => RetryAfterSuffices
<1>. SUFFICES ASSUME TypeInv, NEW c \in Clients, Limited(c)
              PROVE  Len(FreshAt(Pruned(c), DEFAULT_WINDOW_MS,
                         Head(Pruned(c)) + DEFAULT_WINDOW_MS)) < DEFAULT_MAX_REQUESTS
  BY DEF RetryAfterSuffices
<1>. DEFINE p == Pruned(c)
            at == Head(p) + DEFAULT_WINDOW_MS
<1>1. p \in Seq(0 .. now) /\ Len(p) <= DEFAULT_MAX_REQUESTS /\ now \in Nat
  BY Buckets DEF TypeInv, TypeOK, Times
<1>2. p \in Seq(Nat) /\ Len(p) \in Nat
  BY <1>1, BucketType
<1>3. Len(p) >= DEFAULT_MAX_REQUESTS /\ DEFAULT_MAX_REQUESTS \in Nat \ {0}
      /\ DEFAULT_WINDOW_MS \in Nat
  BY <1>2, LimitsAssumption, WindowsAssumption DEF Limited, HasRoom
<1>. HIDE DEF p
<1>4. 1 \in 1 .. Len(p) /\ Head(p) = p[1] /\ p[1] \in Nat
  BY <1>1, <1>2, <1>3
<1>5. at \in Int /\ ~(at - p[1] < DEFAULT_WINDOW_MS)
  BY <1>3, <1>4
<1>. HIDE DEF at
<1>6. Len(FreshAt(p, DEFAULT_WINDOW_MS, at)) < Len(p)
  <2>1. Nat \in SUBSET Nat /\ DEFAULT_WINDOW_MS \in Int
    BY <1>3
  <2>. QED
    BY <1>2, <1>4, <1>5, <2>1, FreshAtIs
<1>7. FreshAt(p, DEFAULT_WINDOW_MS, at) \in Seq(Nat)
  <2>1. Nat \in SUBSET Nat /\ DEFAULT_WINDOW_MS \in Int
    BY <1>3
  <2>. QED
    BY <1>2, <1>5, <2>1, FreshAtIs
<1>8. Len(FreshAt(p, DEFAULT_WINDOW_MS, at)) < DEFAULT_MAX_REQUESTS
  BY <1>1, <1>2, <1>3, <1>6, <1>7, LenProperties
<1>. QED
  BY <1>8 DEF p, at

-----------------------------------------------------------------------------
(* The bids the contract has accepted have a highest one; the row is one the auction had;
   what told the row that the auction is over still holds, but for a cancelled auction
   whose item is attested; and what was refused at the time is not acceptable later. *)
HighestExists ==
  contract # None =>
    \E m \in {0} \union contract.bids : \A x \in {0} \union contract.bids : m >= x
OverStands ==
  contract # None =>
    /\ contract.status = "Ended" \/ told \intersect {"closed", "settled"} # {} => contract.over
    /\ "cancelled" \in told /\ contract.item = "digital" => contract.status = "Cancelled"
RowWasTold ==
  /\ row # None => /\ contract # None
                   /\ row.highest \in {0} \union contract.bids
                   /\ row.status \in told
  /\ contract = None => told = {}

RefusalInv == HighestExists /\ OverStands /\ RowWasTold /\ NoFalseRefusal

LEMMA HighestBidIs ==
  ASSUME RefusalInv, contract # None
  PROVE  /\ HighestBid \in {0} \union contract.bids
         /\ \A x \in {0} \union contract.bids : HighestBid >= x
BY DEF RefusalInv, HighestExists, HighestBid, Max

LEMMA RefusalInit == Init => RefusalInv
BY DEF Init, RefusalInv, HighestExists, OverStands, RowWasTold, NoFalseRefusal

LEMMA RefusalFrame ==
  ASSUME RefusalInv, UNCHANGED <<auction, row>>,
         \/ answer' = answer
         \/ \E status \in Statuses \ {"too low", "not accepted"} : Reply(status)
         \/ answer' = None
  PROVE  RefusalInv'
<1>1. /\ \A x : Acceptable(x)' <=> Acceptable(x)
      /\ (HighestExists /\ OverStands /\ RowWasTold)'
  BY DEF auction, Acceptable, HighestBid, Is, RefusalInv, HighestExists, OverStands, RowWasTold
<1>2. CASE answer' = answer
  <2>1. NoFalseRefusal'
    BY <1>2 DEF auction, RefusalInv, NoFalseRefusal, Acceptable, HighestBid, Is
  <2>. QED
    BY <1>1, <2>1 DEF RefusalInv
<1>3. ASSUME NEW status \in Statuses \ {"too low", "not accepted"}, Reply(status)
      PROVE  RefusalInv'
  <2>1. answer'.status \notin {"too low", "not accepted"}
    BY <1>3 DEF Reply
  <2>. QED
    BY <1>1, <2>1 DEF RefusalInv, NoFalseRefusal
<1>4. CASE answer' = None
  BY <1>1, <1>4 DEF RefusalInv, NoFalseRefusal
<1>. QED
  BY <1>2, <1>3, <1>4

(* What the route refuses, the contract refuses, for the row it reads. *)
LEMMA RefusalIsRight ==
  ASSUME TypeInv, RefusalInv, NEW amount \in Amounts, row # None, Acceptable(amount)
  PROVE  /\ amount >= MinRequired(row)
         /\ row.status \notin {"active", "created"} =>
              row.status = "cancelled" /\ contract.item = "physical"
<1>1. /\ contract \in Auctions /\ row.highest \in {0} \union contract.bids
      /\ row.status \in told /\ row.status \in RowStatuses
  BY DEF TypeInv, TypeOK, RefusalInv, RowWasTold
<1>2. /\ HighestBid >= row.highest
      /\ HighestBid \in {0} \union contract.bids
      /\ contract.bids \subseteq Amounts /\ contract.item \in {"digital", "physical"}
  <2>1. contract # None
    BY <1>1, NoneAssumption
  <2>2. /\ HighestBid \in {0} \union contract.bids
        /\ \A x \in {0} \union contract.bids : HighestBid >= x
    BY <2>1, HighestBidIs
  <2>3. contract.bids \subseteq Amounts /\ contract.item \in {"digital", "physical"}
    BY <1>1, AuctionAssumption DEF Auctions
  <2>. QED
    BY <1>1, <2>2, <2>3
<1>3. /\ amount \in Nat /\ Reserve \in Nat /\ MinIncrement \in Nat
      /\ HighestBid \in Nat /\ row.highest \in Nat
  <2>1. amount \in Nat /\ Reserve \in Nat /\ MinIncrement \in Nat /\ Amounts \subseteq Nat
    BY AuctionAssumption
  <2>2. contract.bids \subseteq Nat
    BY <1>2, <2>1, Zenon
  <2>. QED
    BY <1>1, <1>2, <2>1, <2>2
<1>4. amount >= MinRequired(row)
  BY <1>2, <1>3 DEF Acceptable, MinRequired
<1>5. ASSUME row.status \notin {"active", "created"}
      PROVE  row.status = "cancelled" /\ contract.item = "physical"
  <2>1. contract # None /\ contract.status = "Active" /\ ~contract.over
    BY DEF Acceptable, Is
  <2>. QED
    BY <1>1, <1>2, <1>5, <2>1 DEF RefusalInv, OverStands, RowStatuses
<1>. QED
  BY <1>4, <1>5

LEMMA RefusalSimulateBid ==
  ASSUME TypeInv, RefusalInv, NEW c \in Clients, NEW id \in Ids, NEW amount \in Amounts,
         SimulateBid(c, id, amount)
  PROVE  RefusalInv'
<1>0. /\ UNCHANGED <<auction, row>>
      /\ (HighestExists /\ OverStands /\ RowWasTold)'
      /\ \A x : Acceptable(x)' <=> Acceptable(x)
  <2>1. UNCHANGED <<auction, row>>
    BY DEF SimulateBid, Request
  <2>. QED
    BY <2>1 DEF auction, Acceptable, HighestBid, Is, RefusalInv, HighestExists, OverStands,
                RowWasTold
<1>1. CASE \E status \in {"429", "400", "500", "404"} : Reply(status)
  BY <1>0, <1>1, RefusalFrame DEF Statuses
<1>2. CASE ReplyTo(amount, "valid")
  BY <1>0, <1>2 DEF RefusalInv, NoFalseRefusal, ReplyTo
<1>3. CASE /\ row # None
           /\ \/ row.status \notin {"active", "created"} /\ ReplyTo(amount, "not accepted")
              \/ amount < MinRequired(row) /\ ReplyTo(amount, "too low")
  <2>0. row' = row /\ contract' = contract
    BY <1>0 DEF auction
  <2>1. /\ answer'.amount = amount
        /\ \/ row.status \notin {"active", "created"} /\ answer'.status = "not accepted"
           \/ amount < MinRequired(row) /\ answer'.status = "too low"
    <3>1. ASSUME NEW status, ReplyTo(amount, status)
          PROVE  answer'.amount = amount /\ answer'.status = status
      BY <3>1 DEF ReplyTo
    <3>. QED
      BY <1>3, <3>1
  <2>2. Acceptable(answer.amount)' => Acceptable(amount)
    BY <2>0, <2>1 DEF Acceptable, HighestBid, Is
  <2>3. ASSUME Acceptable(amount)
        PROVE  /\ ~(amount < MinRequired(row))
               /\ row.status \notin {"active", "created"} =>
                    row.status = "cancelled" /\ contract.item = "physical"
    <3>1. /\ amount >= MinRequired(row)
          /\ row.status \notin {"active", "created"} =>
               row.status = "cancelled" /\ contract.item = "physical"
      BY <1>3, <2>3, RefusalIsRight
    <3>2. Amounts \subseteq Nat /\ Reserve \in Nat /\ MinIncrement \in Nat
      BY AuctionAssumption
    <3>3. row.highest \in Nat
      <4>1. row \in [status : RowStatuses, highest : {0} \union Amounts]
        BY <1>3 DEF TypeInv, TypeOK
      <4>2. row.highest \in {0} \union Amounts
        BY <4>1
      <4>3. {0} \union Amounts \subseteq Nat
        BY <3>2
      <4>. QED
        BY <4>2, <4>3, Zenon
    <3>4. MinRequired(row) \in Nat /\ amount \in Nat
      BY <3>2, <3>3 DEF MinRequired
    <3>. QED
      BY <3>1, <3>4
  <2>4. NoFalseRefusal'
    BY <2>0, <2>1, <2>2, <2>3 DEF NoFalseRefusal
  <2>. QED
    BY <1>0, <2>4 DEF RefusalInv
<1>4. \/ \E status \in {"429", "400", "500", "404"} : Reply(status)
      \/ ReplyTo(amount, "valid")
      \/ /\ row # None
         /\ \/ row.status \notin {"active", "created"} /\ ReplyTo(amount, "not accepted")
            \/ amount < MinRequired(row) /\ ReplyTo(amount, "too low")
  <2>1. CASE Limited(c)
    BY <2>1 DEF SimulateBid
  <2>2. CASE ~Limited(c) /\ ~ValidId(id)
    BY <2>2 DEF SimulateBid
  <2>3. CASE ~Limited(c) /\ ValidId(id)
    <3>1. \/ Reply("500") \/ Reply("404")
          \/ /\ Row(id) # None
             /\ ReplyTo(amount,
                  IF row.status \notin {"active", "created"} THEN "not accepted"
                  ELSE IF amount < MinRequired(row) THEN "too low"
                  ELSE "valid")
      BY <2>3 DEF SimulateBid
    <3>2. Row(id) # None => row # None
      BY DEF Row
    <3>. QED
      BY <3>1, <3>2
  <2>. QED
    BY <2>1, <2>2, <2>3
<1>. QED
  BY <1>1, <1>2, <1>3, <1>4

(* A call of the contract keeps the highest bid highest, and an auction that is over
   stays over. *)
LEMMA RefusalChain ==
  ASSUME TypeInv, RefusalInv, ChainStep
  PROVE  RefusalInv'
<1>0. /\ contract \in Auctions \union {None} /\ contract' \in Auctions
      /\ answer' = None /\ row' = row /\ told \subseteq told' /\ contract' # None
  BY CallIs, NoneAssumption DEF TypeInv, TypeOK
<1>. SUFFICES HighestExists' /\ OverStands' /\ RowWasTold'
  BY <1>0 DEF RefusalInv, NoFalseRefusal
<1>1. ASSUME NEW item \in Items, Create(item)
      PROVE  HighestExists' /\ OverStands' /\ RowWasTold'
  <2>1. /\ contract' = [status |-> "Created", item |-> item, over |-> FALSE, bids |-> {}]
        /\ told' = {"created"} /\ row' = None
    BY <1>0, <1>1 DEF Create, Call, RefusalInv, RowWasTold
  <2>2. HighestExists'
    <3>1. contract'.bids = {} /\ 0 >= 0
      BY <2>1
    <3>. QED
      BY <3>1 DEF HighestExists
  <2>3. OverStands'
    BY <2>1 DEF OverStands
  <2>4. RowWasTold'
    BY <1>0, <2>1 DEF RowWasTold
  <2>. QED
    BY <2>2, <2>3, <2>4
<1>2. ASSUME NEW amount \in Amounts, PlaceBid(amount)
      PROVE  HighestExists' /\ OverStands' /\ RowWasTold'
  <2>1. /\ contract \in Auctions /\ contract # None
        /\ contract'.bids = contract.bids \union {amount}
        /\ contract'.over = contract.over /\ contract'.status = contract.status
        /\ contract'.item = contract.item
        /\ told' = told \union {"active"} /\ amount >= HighestBid + MinIncrement
    BY <1>0, <1>2 DEF PlaceBid, Acceptable, Is, Call, Auctions
  <2>2. amount \in Nat /\ MinIncrement \in Nat /\ contract.bids \subseteq Nat
    <3>1. Amounts \subseteq Nat /\ MinIncrement \in Nat
      BY AuctionAssumption
    <3>. QED
      BY <2>1, <3>1 DEF Auctions
  <2>3. /\ HighestBid \in Nat
        /\ \A x \in {0} \union contract.bids : HighestBid >= x /\ x \in Nat
    BY <2>1, <2>2, HighestBidIs
  <2>4. \A x \in {0} \union contract'.bids : amount >= x
    BY <2>1, <2>2, <2>3
  <2>5. HighestExists'
    BY <2>1, <2>4 DEF HighestExists
  <2>. QED
    BY <1>0, <2>1, <2>5 DEF RefusalInv, OverStands, RowWasTold
<1>3. ASSUME contract \in Auctions, contract # None,
             contract'.bids = contract.bids, contract'.item = contract.item
      PROVE  HighestExists' /\ RowWasTold'
  BY <1>0, <1>3 DEF RefusalInv, HighestExists, RowWasTold
<1>4. CASE ActivateAuction
  <2>1. /\ contract \in Auctions /\ contract # None /\ contract.status = "Created"
        /\ contract' = [contract EXCEPT !.status = "Active"] /\ told' = told
    BY <1>0, <1>4 DEF ActivateAuction, Is, Call
  <2>2. OverStands'
    BY <2>1 DEF RefusalInv, OverStands, Auctions
  <2>. QED
    BY <1>3, <2>1, <2>2 DEF Auctions
<1>5. CASE AttestPhysicalItem
  <2>1. /\ contract \in Auctions /\ contract # None /\ contract.item = "physical"
        /\ contract' = [contract EXCEPT !.status = "Active"] /\ told' = told
    BY <1>0, <1>5 DEF AttestPhysicalItem, Call
  <2>2. OverStands'
    BY <2>1 DEF RefusalInv, OverStands, Auctions
  <2>. QED
    BY <1>3, <2>1, <2>2 DEF Auctions
<1>6. CASE EndTime
  <2>1. /\ contract \in Auctions /\ contract # None
        /\ contract' = [contract EXCEPT !.over = TRUE] /\ told' = told
    BY <1>0, <1>6 DEF EndTime, Call
  <2>2. OverStands'
    BY <2>1 DEF RefusalInv, OverStands, Auctions
  <2>. QED
    BY <1>3, <2>1, <2>2 DEF Auctions
<1>7. ASSUME CancelAuction \/ (CloseAuction /\ contract.bids = {})
      PROVE  HighestExists' /\ OverStands' /\ RowWasTold'
  <2>1. /\ contract \in Auctions /\ contract # None
        /\ contract' = [contract EXCEPT !.status = "Cancelled"]
        /\ told' = told \union {"cancelled"}
    BY <1>0, <1>7 DEF CancelAuction, CloseAuction, Is, Call
  <2>2. OverStands'
    BY <2>1 DEF RefusalInv, OverStands, Auctions
  <2>. QED
    BY <1>3, <2>1, <2>2 DEF Auctions
<1>8. ASSUME CloseAuction, contract.bids # {}
      PROVE  HighestExists' /\ OverStands' /\ RowWasTold'
  <2>1. /\ contract \in Auctions /\ contract # None /\ contract.over
        /\ contract.status \in {"Created", "Active"}
        /\ contract' = [contract EXCEPT !.status = "Ended"]
        /\ told' = told \union {"closed"}
    BY <1>0, <1>8 DEF CloseAuction, Is, Call
  <2>2. OverStands'
    BY <2>1 DEF RefusalInv, OverStands, Auctions
  <2>. QED
    BY <1>3, <2>1, <2>2 DEF Auctions
<1>9. CASE SettleAuction
  <2>1. /\ contract \in Auctions /\ contract # None /\ contract.status = "Ended"
        /\ contract' = [contract EXCEPT !.status = "Settled"]
        /\ told' = told \union {"settled"}
    BY <1>0, <1>9 DEF SettleAuction, Is, Call
  <2>2. OverStands'
    BY <2>1 DEF RefusalInv, OverStands, Auctions
  <2>. QED
    BY <1>3, <2>1, <2>2 DEF Auctions
<1>. QED
  BY <1>1, <1>2, <1>4, <1>5, <1>6, <1>7, <1>8, <1>9 DEF ChainStep

LEMMA RefusalStep == TypeInv /\ RefusalInv /\ [Next]_vars => RefusalInv'
<1>. SUFFICES ASSUME TypeInv, RefusalInv, [Next]_vars PROVE RefusalInv'
  OBVIOUS
<1>1. ASSUME NEW c \in Clients, NEW id \in Ids, NEW valid \in BOOLEAN, Read(c, id, valid)
      PROVE  RefusalInv'
  <2>1. \E status \in Statuses \ {"too low", "not accepted"} : Reply(status)
    BY <1>1 DEF Read, Statuses
  <2>. QED
    BY <1>1, <2>1, RefusalFrame DEF Read, Request
<1>2. ASSUME NEW c \in Clients, NEW id \in Ids, NEW nonce \in Nonces,
             NEW valid \in BOOLEAN, NEW signed \in BOOLEAN,
             SignedPost(c, id, nonce, valid, signed)
      PROVE  RefusalInv'
  <2>1. \E status \in Statuses \ {"too low", "not accepted"} : Reply(status)
    BY <1>2 DEF SignedPost, Statuses
  <2>. QED
    BY <1>2, <2>1, RefusalFrame DEF SignedPost, Request
<1>3. CASE \E c \in Clients, id \in Ids, amount \in Amounts : SimulateBid(c, id, amount)
  BY <1>3, RefusalSimulateBid
<1>4. CASE CleanBuckets \/ CleanNonces \/ Tick \/ Restart \/ UNCHANGED vars
  BY <1>4, RefusalFrame DEF CleanBuckets, CleanNonces, Tick, Restart, vars
<1>5. CASE ChainStep
  BY <1>5, RefusalChain
<1>6. CASE IndexStep
  <2>1. PICK status \in RowStatuses, highest \in {0} \union Amounts : Index(status, highest)
    BY <1>6 DEF IndexStep
  <2>2. /\ row'.status = status /\ row'.highest = highest /\ status \in told
        /\ highest \in {0} \union contract.bids /\ contract # None
        /\ contract' = contract /\ told' = told /\ answer' = None
    BY <2>1 DEF Index, auction
  <2>. QED
    BY <2>2 DEF RefusalInv, HighestExists, OverStands, RowWasTold, NoFalseRefusal
<1>. QED
  BY <1>1, <1>2, <1>3, <1>4, <1>5, <1>6 DEF Next, ChainStep, IndexStep

LEMMA GatewayAlways == Spec => [](TypeInv /\ BudgetInv /\ RefusalInv)
<1>1. Init => TypeInv /\ BudgetInv /\ RefusalInv
  BY TypeInit, BudgetEmpty, RefusalInit DEF Init
<1>. QED
  BY <1>1, TypeStep, BudgetStep, RefusalStep, PTL DEF Spec

(* The tables keep their shape, and no bucket outgrows the default limiter's maximum,
   whichever limiter filled it. *)
THEOREM GatewayTypes == Spec => []TypeOK
<1>1. TypeInv => TypeOK
  BY DEF TypeInv
<1>. QED
  BY <1>1, GatewayAlways, PTL

(* No window sees more requests of a client let through than the limiters allow. *)
THEOREM BudgetHeldHolds == Spec => []BudgetHeld
BY GatewayAlways, BudgetInvGives, PTL

(* A client the default limiter refused is let in by it once it has waited for as long
   as its Retry-After says. *)
THEOREM RetryAfterHolds == Spec => []RetryAfterSuffices
BY GatewayAlways, RetryAfterGives, PTL

(* simulate-bid refuses nothing the contract would accept, but for a physical auction
   that was cancelled and then attested. *)
THEOREM NoFalseRefusalHolds == Spec => []NoFalseRefusal
<1>1. RefusalInv => NoFalseRefusal
  BY DEF RefusalInv
<1>. QED
  BY <1>1, GatewayAlways, PTL

-----------------------------------------------------------------------------
(* The replay cache. *)

(* A request that was let through is still in the cache, or it is so long ago that
   its nonce, which was no younger, has expired as well. *)
Remembered(r, cache, t) ==
  \/ [nonce |-> r.nonce, at |-> r.at] \in cache
  \/ t - r.at > AUTH_NONCE_MAX_AGE_MS

NonceInv ==
  /\ now \in Nat
  /\ \A s \in seenNonces : s.at \in Nat
  /\ \A r \in accepted :
       /\ r.nonce \in Nonces /\ r.at \in Nat /\ r.at <= now
       /\ Remembered(r, seenNonces, now)
  /\ NonceOnce

LEMMA NonceInit == Init => NonceInv
BY DEF Init, NonceInv, NonceOnce

(* Two requests, the limiters, the routes and the tables leave the cache alone. *)
LEMMA NonceFrame ==
  ASSUME NonceInv, UNCHANGED <<now, seenNonces, accepted>>
  PROVE  NonceInv'
BY DEF NonceInv, NonceOnce, Remembered

(* The heart of it: what is accepted now was not accepted before.  An earlier request
   with this nonce is not in the cache, or this one would be refused; so it is older than
   the maximum age, and the nonce, stamped before it, is no longer fresh. *)
LEMMA NonceAccepted ==
  ASSUME NonceInv, NEW nonce \in Nonces, NEW signed \in BOOLEAN,
         Authenticates(nonce, signed), Accept(nonce), now' = now
  PROVE  NonceInv'
<1>. DEFINE new == [n |-> Cardinality(accepted) + 1, nonce |-> nonce, at |-> now]
<1>1. /\ seenNonces' = seenNonces \union {[nonce |-> nonce, at |-> now]}
      /\ accepted' = accepted \union {new}
      /\ new.nonce = nonce /\ new.at = now
  BY DEF Accept
<1>2. /\ now - nonce.stamp <= AUTH_NONCE_MAX_AGE_MS
      /\ ~Replayed(nonce)
  BY DEF Authenticates, FreshNonce
<1>3. now \in Nat /\ nonce.stamp \in Nat /\ AUTH_NONCE_MAX_AGE_MS \in Nat
  BY NoncesAssumption DEF NonceInv, Nonces, Times
<1>4. ASSUME NEW r \in accepted, r.nonce = nonce
      PROVE  r.nonce.stamp > r.at
  <2>1. r.at \in Nat /\ r.at <= now /\ Remembered(r, seenNonces, now)
    BY DEF NonceInv
  <2>2. [nonce |-> r.nonce, at |-> r.at] \notin seenNonces
    BY <1>2, <1>4 DEF Replayed
  <2>3. now - r.at > AUTH_NONCE_MAX_AGE_MS
    BY <2>1, <2>2 DEF Remembered
  <2>. QED
    BY <1>2, <1>3, <1>4, <2>1, <2>3
<1>5. NonceOnce'
  <2>. SUFFICES ASSUME NEW r \in accepted', NEW s \in accepted',
                       r.nonce = s.nonce, r.nonce.stamp <= r.at, s.nonce.stamp <= s.at
                PROVE  r = s
    BY DEF NonceOnce
  <2>0. \A q \in accepted : q.at \in Nat /\ q.nonce.stamp \in Nat
    BY DEF NonceInv, Nonces, Times
  <2>1. CASE r \in accepted /\ s \in accepted
    BY <2>1 DEF NonceInv, NonceOnce
  <2>2. CASE r \in accepted /\ s = new
    BY <1>1, <1>4, <2>0, <2>2
  <2>3. CASE r = new /\ s \in accepted
    BY <1>1, <1>4, <2>0, <2>3
  <2>. QED
    BY <1>1, <2>1, <2>2, <2>3
<1>6. \A s \in seenNonces' : s.at \in Nat
  BY <1>1, <1>3 DEF NonceInv
<1>7. \A r \in accepted' : /\ r.nonce \in Nonces /\ r.at \in Nat /\ r.at <= now
                           /\ Remembered(r, seenNonces', now')
  <2>1. Remembered(new, seenNonces', now')
    BY <1>1 DEF Remembered
  <2>2. \A r \in accepted : Remembered(r, seenNonces', now')
    BY <1>1 DEF NonceInv, Remembered
  <2>3. new.nonce \in Nonces /\ new.at \in Nat /\ new.at <= now
    BY <1>1, <1>3
  <2>4. \A r \in accepted : r.nonce \in Nonces /\ r.at \in Nat /\ r.at <= now
    BY DEF NonceInv
  <2>. HIDE DEF new
  <2>. QED
    BY <1>1, <2>1, <2>2, <2>3, <2>4
<1>. QED
  BY <1>3, <1>5, <1>6, <1>7 DEF NonceInv

LEMMA NonceTick ==
  ASSUME NonceInv, Tick
  PROVE  NonceInv'
<1>1. now' = now + 1 /\ UNCHANGED <<seenNonces, accepted>>
  BY DEF Tick
<1>2. ASSUME NEW r \in accepted PROVE Remembered(r, seenNonces', now')
  <2>1. Remembered(r, seenNonces, now) /\ r.at \in Nat /\ now \in Nat
    BY DEF NonceInv
  <2>2. now - r.at > AUTH_NONCE_MAX_AGE_MS => now + 1 - r.at > AUTH_NONCE_MAX_AGE_MS
    BY <2>1, NoncesAssumption
  <2>. QED
    BY <1>1, <2>1, <2>2 DEF Remembered
<1>. QED
  BY <1>1, <1>2 DEF NonceInv, NonceOnce

(* The timer drops only what the age of the nonce refuses anyway. *)
LEMMA NonceClean ==
  ASSUME NonceInv, CleanNonces
  PROVE  NonceInv'
<1>1. /\ seenNonces' = {s \in seenNonces : ~Expired(s)}
      /\ UNCHANGED <<now, accepted>>
  BY DEF CleanNonces
<1>2. ASSUME NEW r \in accepted PROVE Remembered(r, seenNonces', now')
  <2>. DEFINE s == [nonce |-> r.nonce, at |-> r.at]
  <2>1. Remembered(r, seenNonces, now) /\ s.at = r.at
    BY DEF NonceInv
  <2>2. CASE s \in seenNonces /\ ~Expired(s)
    BY <1>1, <2>2 DEF Remembered
  <2>3. CASE s \in seenNonces /\ Expired(s)
    BY <1>1, <2>1, <2>3 DEF Remembered, Expired
  <2>4. CASE s \notin seenNonces
    BY <1>1, <2>1, <2>4 DEF Remembered
  <2>. QED
    BY <2>2, <2>3, <2>4
<1>. QED
  BY <1>1, <1>2 DEF NonceInv, NonceOnce

LEMMA NonceNext == NonceInv /\ [Next]_vars => NonceInv'
<1>. SUFFICES ASSUME NonceInv, [Next]_vars PROVE NonceInv'
  OBVIOUS
<1>1. CASE \E c \in Clients, id \in Ids, valid \in BOOLEAN : Read(c, id, valid)
  BY <1>1, NonceFrame DEF Read, Request
<1>2. CASE \E c \in Clients, id \in Ids, amount \in Amounts : SimulateBid(c, id, amount)
  BY <1>2, NonceFrame DEF SimulateBid, Request
<1>3. ASSUME NEW c \in Clients, NEW id \in Ids, NEW nonce \in Nonces,
             NEW valid \in BOOLEAN, NEW signed \in BOOLEAN,
             SignedPost(c, id, nonce, valid, signed)
      PROVE  NonceInv'
  <2>1. now' = now
    BY <1>3 DEF SignedPost, Request
  <2>2. \/ Authenticates(nonce, signed) /\ Accept(nonce)
        \/ UNCHANGED <<seenNonces, accepted>>
    BY <1>3 DEF SignedPost
  <2>. QED
    BY <2>1, <2>2, NonceAccepted, NonceFrame
<1>4. CASE Tick
  BY <1>4, NonceTick
<1>5. CASE CleanNonces
  BY <1>5, NonceClean
<1>6. CASE Restart
  BY <1>6 DEF Restart, NonceInv, NonceOnce
<1>7. CASE CleanBuckets
  BY <1>7, NonceFrame DEF CleanBuckets
<1>8. CASE ChainStep
  <2>1. UNCHANGED <<now, seenNonces, accepted>>
    BY <1>8 DEF ChainStep, Create, PlaceBid, ActivateAuction, AttestPhysicalItem, EndTime,
                CancelAuction, CloseAuction, SettleAuction, Call
  <2>. QED
    BY <2>1, NonceFrame
<1>9. CASE IndexStep
  BY <1>9, NonceFrame DEF IndexStep, Index
<1>10. CASE UNCHANGED vars
  BY <1>10, NonceFrame DEF vars
<1>. QED
  BY <1>1, <1>2, <1>3, <1>4, <1>5, <1>6, <1>7, <1>8, <1>9, <1>10
     DEF Next, ChainStep, IndexStep

(* A signed request cannot be sent again to a running server, although its replay cache
   is emptied of old entries, unless its nonce was stamped ahead of the server's clock. *)
THEOREM NoReplay == Spec => []NonceOnce
<1>1. NonceInv => NonceOnce
  BY DEF NonceInv
<1>. QED
  BY <1>1, NonceInit, NonceNext, PTL DEF Spec
=============================================================================
