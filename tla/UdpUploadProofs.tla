--------------------------- MODULE UdpUploadProofs ---------------------------
(***************************************************************************)
(* What comes out of an upload, for any files, any number of blocks, any   *)
(* network and any width of an index: the numbers of the blocks survive    *)
(* the bytes they travel in, the blocks are written in their order, and    *)
(* the client reads the answers to its own requests.                       *)
(***************************************************************************)
EXTENDS UdpUpload, FiniteSetTheorems, WellFoundedInduction, TLAPS

-----------------------------------------------------------------------------
(* Induction and recursion on the natural numbers *)

LEMMA Least ==
  ASSUME NEW S \in SUBSET Nat, S # {}
  PROVE  \E n \in S : \A m \in S : n <= m
<1> DEFINE Less == OpToRel(<, Nat)
<1>1. IsWellFoundedOn(Less, Nat)
  BY NatLessThanWellFounded
<1>2. \A x, y \in Nat : <<x, y>> \in Less <=> x < y
  BY DEF OpToRel
<1> HIDE DEF Less
<1>3. PICK n \in S : \A m \in S : <<m, n>> \notin Less
  BY <1>1, WFMin
<1>4. \A m \in S : m \in Nat /\ n \in Nat /\ ~(m < n)
  BY <1>2, <1>3
<1> QED BY <1>4

\* A set of numbers with zero and every successor has them all.
LEMMA SetInduction ==
  ASSUME NEW S, 0 \in S, \A n \in Nat : n \in S => n + 1 \in S
  PROVE  \A n \in Nat : n \in S
<1> SUFFICES ASSUME NEW n \in Nat, n \notin S PROVE FALSE
  OBVIOUS
<1>1. PICK m \in Nat \ S : \A k \in Nat \ S : m <= k
  BY Least
<1>2. m # 0 /\ m - 1 \in Nat
  BY <1>1
<1>3. m - 1 \in S
  BY <1>1, <1>2
<1> QED BY <1>1, <1>2, <1>3

\* The functions on 0 .. m that follow a recursion.
Follows(m, D, a, h) ==
  {g \in [0 .. m -> D] : g[0] = a /\ \A k \in 0 .. m - 1 : g[k + 1] = h[k][g[k]]}

LEMMA FollowsExists ==
  ASSUME NEW D, NEW a \in D, NEW h \in [Nat -> [D -> D]], NEW m \in Nat
  PROVE  Follows(m, D, a, h) # {}
<1> DEFINE S == {i \in Nat : Follows(i, D, a, h) # {}}
<1>1. 0 \in S
  <2>1. [k \in 0 .. 0 |-> a] \in Follows(0, D, a, h)
    BY DEF Follows
  <2> QED BY <2>1
<1>2. ASSUME NEW i \in Nat, i \in S PROVE i + 1 \in S
  <2>1. PICK g : g \in Follows(i, D, a, h)
    BY <1>2
  <2> DEFINE f == [k \in 0 .. i + 1 |-> IF k <= i THEN g[k] ELSE h[i][g[i]]]
  <2>2. g \in [0 .. i -> D] /\ g[0] = a /\ \A k \in 0 .. i - 1 : g[k + 1] = h[k][g[k]]
    BY <2>1 DEF Follows
  <2>3. h[i][g[i]] \in D
    BY <2>2
  <2>4. f \in [0 .. i + 1 -> D] /\ f[0] = a
    BY <2>2, <2>3
  <2>5. ASSUME NEW k \in 0 .. i PROVE f[k + 1] = h[k][f[k]]
    <3>1. CASE k = i
      BY <3>1
    <3>2. CASE k # i
      BY <2>2, <3>2
    <3> QED BY <3>1, <3>2
  <2> HIDE DEF f
  <2>6. f \in Follows(i + 1, D, a, h)
    BY <2>4, <2>5 DEF Follows
  <2> QED BY <2>6
<1> HIDE DEF S
<1>3. m \in S
  BY <1>1, <1>2, SetInduction
<1> QED BY <1>3 DEF S

LEMMA FollowsAgree ==
  ASSUME NEW D, NEW a \in D, NEW h \in [Nat -> [D -> D]],
         NEW m \in Nat, NEW n \in Nat, m <= n,
         NEW f \in Follows(m, D, a, h), NEW g \in Follows(n, D, a, h)
  PROVE  \A k \in 0 .. m : f[k] = g[k]
<1> DEFINE S == {i \in Nat : i <= m => f[i] = g[i]}
<1>1. 0 \in S
  BY DEF Follows
<1>2. ASSUME NEW i \in Nat, i \in S PROVE i + 1 \in S
  <2> SUFFICES ASSUME i + 1 <= m PROVE f[i + 1] = g[i + 1]
    OBVIOUS
  <2>1. i \in 0 .. m - 1 /\ i \in 0 .. n - 1 /\ f[i] = g[i]
    BY <1>2
  <2>2. f[i + 1] = h[i][f[i]] /\ g[i + 1] = h[i][g[i]]
    BY <2>1 DEF Follows
  <2> QED BY <2>1, <2>2
<1> HIDE DEF S
<1>3. \A i \in Nat : i \in S
  BY <1>1, <1>2, SetInduction
<1> QED BY <1>3 DEF S

\* The functions on all numbers that follow it.
Recursive(D, a, h) ==
  {f \in [Nat -> D] : f[0] = a /\ \A n \in Nat : f[n + 1] = h[n][f[n]]}

LEMMA Recursion ==
  ASSUME NEW D, NEW a \in D, NEW h \in [Nat -> [D -> D]]
  PROVE  Recursive(D, a, h) # {}
<1> DEFINE G(n) == CHOOSE g : g \in Follows(n, D, a, h)
           f == [n \in Nat |-> G(n)[n]]
<1>1. ASSUME NEW n \in Nat PROVE G(n) \in Follows(n, D, a, h)
  BY FollowsExists
<1>2. ASSUME NEW n \in Nat
      PROVE  /\ G(n) \in [0 .. n -> D] /\ G(n)[0] = a
             /\ G(n + 1)[n + 1] = h[n][G(n + 1)[n]]
             /\ G(n)[n] = G(n + 1)[n]
  <2>1. G(n) \in Follows(n, D, a, h) /\ G(n + 1) \in Follows(n + 1, D, a, h)
    BY <1>1
  <2> HIDE DEF G
  <2>2. n \in 0 .. (n + 1) - 1 /\ n \in 0 .. n /\ n <= n + 1 /\ n + 1 \in Nat
    OBVIOUS
  <2>3. \A k \in 0 .. n : G(n)[k] = G(n + 1)[k]
    <3> DEFINE p == G(n)
               q == G(n + 1)
    <3>1. p \in Follows(n, D, a, h) /\ q \in Follows(n + 1, D, a, h)
      BY <2>1
    <3> HIDE DEF p, q
    <3>2. \A k \in 0 .. n : p[k] = q[k]
      BY <2>2, <3>1, FollowsAgree
    <3> QED BY <3>2 DEF p, q
  <2> QED BY <2>1, <2>2, <2>3 DEF Follows
<1> HIDE DEF G
<1>3. f \in [Nat -> D] /\ f[0] = a
  BY <1>2
<1>4. ASSUME NEW n \in Nat PROVE f[n + 1] = h[n][f[n]]
  <2>1. f[n] = G(n)[n] /\ f[n + 1] = G(n + 1)[n + 1]
    OBVIOUS
  <2> QED BY <1>2, <2>1
<1> HIDE DEF f
<1>5. f \in Recursive(D, a, h)
  BY <1>3, <1>4 DEF Recursive
<1> QED BY <1>5

-----------------------------------------------------------------------------
(* Division, and the powers of Byte *)

LEMMA Quotient ==
  ASSUME NEW v \in Nat, NEW p \in Nat \ {0}
  PROVE  /\ v = (v \div p) * p + (v % p)
         /\ v \div p \in Nat /\ v % p \in Nat /\ v % p < p
  OBVIOUS

LEMMA QuotientUnique ==
  ASSUME NEW q \in Nat, NEW r \in Nat, NEW p \in Nat \ {0}, r < p
  PROVE  (q * p + r) \div p = q /\ (q * p + r) % p = r
  OBVIOUS

LEMMA QuotientTwice ==
  ASSUME NEW v \in Nat, NEW p \in Nat \ {0}, NEW b \in Nat \ {0}
  PROVE  v \div (b * p) = (v \div p) \div b
  OBVIOUS

\* The remainder by a product, one digit at a time.
LEMMA RemainderByDigits ==
  ASSUME NEW w \in Nat, NEW p \in Nat \ {0}, NEW b \in Nat \ {0}
  PROVE  (((w \div b) % p) * b) + (w % b) = w % (b * p)
<1> DEFINE q == w \div b
           d == w % b
           e == q \div p
           r == q % p
<1>1. w = q * b + d /\ q \in Nat /\ d \in Nat /\ d < b
  BY Quotient
<1>2. q = e * p + r /\ e \in Nat /\ r \in Nat /\ r < p
  BY <1>1, Quotient
<1> HIDE DEF q, d, e, r
<1>3. w = e * (b * p) + (r * b + d)
  BY <1>1, <1>2
<1>4. r * b + d < b * p /\ r * b + d \in Nat /\ b * p \in Nat \ {0}
  BY <1>1, <1>2
<1>5. w % (b * p) = r * b + d
  BY <1>2, <1>3, <1>4, QuotientUnique
<1> QED BY <1>5 DEF q, d, e, r

LEMMA ProductGrows ==
  ASSUME NEW x \in Nat, NEW b \in Nat, b >= 2
  PROVE  b * x \in Nat /\ b * x >= 2 * x
  OBVIOUS

LEMMA ByteIsEven ==
  Byte \in Nat \ {0} /\ Byte >= 2 /\ \E h \in Nat \ {0} : Byte = 2 * h
<1>1. Byte = 2 * (Byte \div 2) + (Byte % 2) /\ Byte \div 2 \in Nat
  BY UdpAssumption
<1> QED BY <1>1, UdpAssumption

LEMMA PowerDef ==
  /\ Power \in [Nat -> Nat \ {0}]
  /\ Power[0] = 1
  /\ \A n \in Nat : Power[n + 1] = Byte * Power[n]
<1> DEFINE D == Nat \ {0}
           h == [n \in Nat |-> [x \in D |-> Byte * x]]
           e(g) == [n \in Nat |-> IF n = 0 THEN 1 ELSE Byte * g[n - 1]]
<1>1. h \in [Nat -> [D -> D]]
  BY ByteIsEven
<1>2. 1 \in D
  OBVIOUS
<1> HIDE DEF D, h
<1>3. PICK f : f \in Recursive(D, 1, h)
  BY <1>1, <1>2, Recursion
<1>4. f \in [Nat -> D] /\ f[0] = 1 /\ \A n \in Nat : f[n + 1] = h[n][f[n]]
  BY <1>3 DEF Recursive
<1> USE DEF D, h
<1>5. ASSUME NEW n \in Nat PROVE f[n] = e(f)[n]
  <2>1. CASE n = 0
    BY <1>4, <2>1
  <2>2. CASE n # 0
    <3>1. n - 1 \in Nat /\ (n - 1) + 1 = n
      BY <2>2
    <3>2. f[n] = h[n - 1][f[n - 1]] /\ f[n - 1] \in D
      BY <1>4, <3>1
    <3> QED BY <3>1, <3>2, <2>2
  <2> QED BY <2>1, <2>2
<1>6. f = e(f)
  BY <1>4, <1>5
<1>7. Power = CHOOSE g : g = e(g)
  BY DEF Power
<1> HIDE DEF e
<1>8. Power = e(Power)
  BY <1>6, <1>7
<1> USE DEF e
<1>9. Power[0] = 1 /\ \A n \in Nat : Power[n + 1] = Byte * Power[n]
  <2>1. Power = [n \in Nat |-> IF n = 0 THEN 1 ELSE Byte * Power[n - 1]]
    BY <1>8
  <2>2. Power[0] = 1
    BY <2>1
  <2>3. ASSUME NEW n \in Nat PROVE Power[n + 1] = Byte * Power[n]
    <3>1. n + 1 \in Nat /\ n + 1 # 0 /\ (n + 1) - 1 = n
      OBVIOUS
    <3>2. Power[n + 1] = Byte * Power[(n + 1) - 1]
      BY <2>1, <3>1
    <3> QED BY <3>1, <3>2
  <2> QED BY <2>2, <2>3
<1>10. ASSUME NEW n \in Nat PROVE Power[n] \in Nat \ {0}
  <2> DEFINE S == {k \in Nat : Power[k] \in Nat \ {0}}
  <2>1. 0 \in S
    BY <1>9
  <2>2. ASSUME NEW k \in Nat, k \in S PROVE k + 1 \in S
    BY <1>9, <2>2, ByteIsEven
  <2> HIDE DEF S
  <2>3. n \in S
    BY <2>1, <2>2, SetInduction
  <2> QED BY <2>3 DEF S
<1>11. Power \in [Nat -> Nat \ {0}]
  BY <1>8, <1>10
<1> QED BY <1>9, <1>11

LEMMA PowerGrows ==
  /\ \A n \in Nat : 2 * n < Power[n + 1]
  /\ \A m, n \in Nat : m <= n => Power[m] <= Power[n]
  /\ \A n \in Nat \ {0} : Power[n] % 2 = 0
<1> USE PowerDef, ByteIsEven
<1>1. ASSUME NEW n \in Nat PROVE 2 * n < Power[n + 1]
  <2> DEFINE S == {k \in Nat : 2 * k < Power[k + 1]}
  <2>1. 0 \in S
    OBVIOUS
  <2>2. ASSUME NEW k \in Nat, k \in S PROVE k + 1 \in S
    <3>1. Power[(k + 1) + 1] = Byte * Power[k + 1] /\ Power[k + 1] \in Nat /\ 2 * k < Power[k + 1]
      BY <2>2
    <3>2. Byte * Power[k + 1] >= 2 * Power[k + 1]
      BY <3>1, ProductGrows
    <3>3. Power[k] \in Nat /\ Power[k] >= 1 /\ Power[k + 1] = Byte * Power[k]
      BY <2>2
    <3>4. Byte * Power[k] >= 2 * Power[k]
      BY <3>3, ProductGrows
    <3> QED BY <3>1, <3>2, <3>3, <3>4
  <2> HIDE DEF S
  <2>3. n \in S
    BY <2>1, <2>2, SetInduction
  <2> QED BY <2>3 DEF S
<1>2. ASSUME NEW m \in Nat, NEW n \in Nat, m <= n PROVE Power[m] <= Power[n]
  <2> DEFINE S == {k \in Nat : Power[m] <= Power[m + k]}
  <2>1. 0 \in S
    OBVIOUS
  <2>2. ASSUME NEW k \in Nat, k \in S PROVE k + 1 \in S
    <3>1. Power[m + (k + 1)] = Byte * Power[m + k] /\ Power[m + k] \in Nat /\ Power[m] \in Nat
          /\ Power[m] <= Power[m + k]
      BY <2>2
    <3>2. Byte * Power[m + k] >= 2 * Power[m + k]
      BY <3>1, ProductGrows
    <3> QED BY <3>1, <3>2
  <2> HIDE DEF S
  <2>3. n - m \in S
    BY <1>2, <2>1, <2>2, SetInduction
  <2> QED BY <2>3, <1>2 DEF S
<1>3. ASSUME NEW n \in Nat \ {0} PROVE Power[n] % 2 = 0
  <2>1. n - 1 \in Nat /\ Power[(n - 1) + 1] = Byte * Power[n - 1] /\ Power[n - 1] \in Nat
    OBVIOUS
  <2>2. PICK h \in Nat : Byte = 2 * h
    OBVIOUS
  <2>3. Power[n] = 2 * (h * Power[n - 1]) /\ h * Power[n - 1] \in Nat
    BY <2>1, <2>2
  <2> QED BY <2>3
<1> QED BY <1>1, <1>2, <1>3

-----------------------------------------------------------------------------
(* Bytes and the numbers they stand for *)

LEMMA ValueUpto ==
  ASSUME NEW bytes \in Seq(Nat)
  PROVE  \E u : /\ u[0] = 0
                /\ \A k \in 1 .. Len(bytes) : u[k] = u[k - 1] * Byte + bytes[k]
                /\ Value(bytes) = u[Len(bytes)]
<1> DEFINE n == Len(bytes)
           D == Nat
           h == [k \in Nat |-> [x \in D |-> IF k < n THEN x * Byte + bytes[k + 1] ELSE 0]]
           e(g) == [k \in 0 .. n |-> IF k = 0 THEN 0 ELSE g[k - 1] * Byte + bytes[k]]
<1>1. n \in Nat /\ \A k \in 1 .. n : bytes[k] \in Nat
  OBVIOUS
<1> HIDE DEF n
<1>2. h \in [Nat -> [D -> D]]
  <2>1. ASSUME NEW k \in Nat, NEW x \in D
        PROVE  (IF k < n THEN x * Byte + bytes[k + 1] ELSE 0) \in D
    <3>1. CASE k < n
      <4>1. bytes[k + 1] \in Nat
        BY <1>1, <3>1
      <4> QED BY <3>1, <4>1, ByteIsEven
    <3> QED BY <3>1
  <2> QED BY <2>1
<1>3. 0 \in D
  OBVIOUS
<1> HIDE DEF D, h
<1>4. PICK f : f \in Recursive(D, 0, h)
  BY <1>2, <1>3, Recursion
<1>5. f \in [Nat -> D] /\ f[0] = 0 /\ \A k \in Nat : f[k + 1] = h[k][f[k]]
  BY <1>4 DEF Recursive
<1> DEFINE g == [k \in 0 .. n |-> f[k]]
<1>6. ASSUME NEW k \in 0 .. n PROVE g[k] = e(g)[k]
  <2>1. CASE k = 0
    BY <1>1, <1>5, <2>1
  <2>2. CASE k # 0
    <3>1. k - 1 \in Nat /\ (k - 1) + 1 = k /\ k - 1 < n /\ k - 1 \in 0 .. n
      BY <1>1, <2>2
    <3>2. f[k] = h[k - 1][f[k - 1]] /\ f[k - 1] \in D
      BY <1>5, <3>1
    <3>3. h[k - 1][f[k - 1]] = f[k - 1] * Byte + bytes[k]
      BY <3>1, <3>2 DEF h
    <3> QED BY <2>2, <3>1, <3>2, <3>3
  <2> QED BY <2>1, <2>2
<1>7. g = e(g)
  BY <1>6
<1> HIDE DEF g
<1> DEFINE u == CHOOSE x : x = e(x)
<1> HIDE DEF e
<1>8. u = e(u)
  BY <1>7
<1>9. Value(bytes) = u[n]
  BY DEF Value, u, e, n
<1>10. u = [k \in 0 .. n |-> IF k = 0 THEN 0 ELSE u[k - 1] * Byte + bytes[k]]
  BY <1>8 DEF e
<1> HIDE DEF u
<1>11. u[0] = 0
  BY <1>1, <1>10
<1>12. \A k \in 1 .. n : u[k] = u[k - 1] * Byte + bytes[k]
  BY <1>1, <1>10
<1> QED BY <1>9, <1>11, <1>12 DEF n

\* The digits of v, as many as there are, are v up to the power they reach.
LEMMA ValueOfDigits ==
  ASSUME NEW v \in Nat, NEW bytes \in Seq(Nat),
         \A k \in 1 .. Len(bytes) :
           bytes[k] = (v \div Power[Len(bytes) - k]) % Byte
  PROVE  Value(bytes) = v % Power[Len(bytes)]
<1> DEFINE n == Len(bytes)
<1>1. n \in Nat
  OBVIOUS
<1>2. PICK u : /\ u[0] = 0
               /\ \A k \in 1 .. n : u[k] = u[k - 1] * Byte + bytes[k]
               /\ Value(bytes) = u[n]
  BY ValueUpto
<1> HIDE DEF n
<1> DEFINE S == {k \in Nat : k <= n => u[k] = (v \div Power[n - k]) % Power[k]}
<1>3. 0 \in S
  <2>0. n - 0 \in Nat
    BY <1>1
  <2>1. Power[0] = 1 /\ Power[n - 0] \in Nat \ {0}
    BY <2>0, PowerDef
  <2>2. v \div Power[n - 0] \in Nat
    BY <2>1, Quotient
  <2> QED BY <1>2, <2>1, <2>2
<1>4. ASSUME NEW k \in Nat, k \in S PROVE k + 1 \in S
  <2> SUFFICES ASSUME k + 1 <= n
               PROVE  u[k + 1] = (v \div Power[n - (k + 1)]) % Power[k + 1]
    OBVIOUS
  <2> DEFINE m == n - (k + 1)
             w == v \div Power[m]
  <2>1. m \in Nat /\ n - k = m + 1 /\ k + 1 \in 1 .. n /\ (k + 1) - 1 = k /\ k <= n
    BY <1>1
  <2>2. /\ Power[m] \in Nat \ {0} /\ Power[k] \in Nat \ {0}
        /\ Power[n - k] = Byte * Power[m] /\ Power[k + 1] = Byte * Power[k]
    BY <2>1, PowerDef
  <2> HIDE DEF m
  <2>3. w \in Nat /\ v \div Power[n - k] = w \div Byte
    <3>1. v \div Power[n - k] = v \div (Byte * Power[m])
      BY <2>2
    <3>2. v \div (Byte * Power[m]) = (v \div Power[m]) \div Byte
      BY <2>2, QuotientTwice, ByteIsEven
    <3>3. w \in Nat
      BY <2>2, Quotient
    <3> QED BY <3>1, <3>2, <3>3
  <2>4. u[k] = (w \div Byte) % Power[k]
    BY <1>4, <2>1, <2>3
  <2>5. bytes[k + 1] = w % Byte
    BY <2>1 DEF n, m
  <2>6. u[k + 1] = u[k] * Byte + bytes[k + 1]
    BY <1>2, <2>1
  <2> HIDE DEF w
  <2>7. u[k + 1] = ((w \div Byte) % Power[k]) * Byte + (w % Byte)
    BY <2>4, <2>5, <2>6
  <2>8. u[k + 1] = w % (Byte * Power[k])
    BY <2>2, <2>3, <2>7, RemainderByDigits, ByteIsEven
  <2> QED BY <2>2, <2>8 DEF w, m
<1> HIDE DEF S
<1>5. n \in S
  BY <1>1, <1>3, <1>4, SetInduction
<1>6. u[n] = (v \div Power[n - n]) % Power[n]
  BY <1>1, <1>5 DEF S
<1>7. Power[n - n] = 1 /\ v \div 1 = v
  BY <1>1, PowerDef
<1> QED BY <1>2, <1>6, <1>7 DEF n

LEMMA AppendFacts ==
  ASSUME NEW S, NEW q \in Seq(S), NEW e \in S
  PROVE  /\ Append(q, e) \in Seq(S)
         /\ Len(q) \in Nat
         /\ Len(Append(q, e)) = Len(q) + 1
         /\ Append(q, e)[Len(q) + 1] = e
         /\ DOMAIN q = 1 .. Len(q)
         /\ DOMAIN Append(q, e) = 1 .. Len(q) + 1
         /\ \A k \in 1 .. Len(q) : Append(q, e)[k] = q[k]
  OBVIOUS

\* The bytes that v takes with its sign, most significant first.
Width(v) ==
  CHOOSE n \in 1 .. v + 1 : 2 * v < Power[n] /\ (n > 1 => 2 * v >= Power[n - 1])

Digits(v) == [k \in 1 .. Width(v) |-> (v \div Power[Width(v) - k]) % Byte]

LEMMA WidthFits ==
  ASSUME NEW v \in Nat
  PROVE  /\ Width(v) \in 1 .. v + 1
         /\ 2 * v < Power[Width(v)]
         /\ Width(v) > 1 => 2 * v >= Power[Width(v) - 1]
<1> DEFINE S == {n \in Nat : n >= 1 /\ 2 * v < Power[n]}
<1>1. v + 1 \in S
  BY PowerGrows
<1>2. PICK n \in S : \A m \in S : n <= m
  BY <1>1, Least
<1>3. n \in 1 .. v + 1 /\ 2 * v < Power[n]
  BY <1>1, <1>2
<1>4. ASSUME n > 1 PROVE 2 * v >= Power[n - 1]
  <2>1. n - 1 \in Nat /\ n - 1 >= 1 /\ n - 1 \notin S
    BY <1>2, <1>4
  <2>2. Power[n - 1] \in Nat
    BY <2>1, PowerDef
  <2> QED BY <2>1, <2>2
<1> QED BY <1>3, <1>4 DEF Width

LEMMA WidthUnique ==
  ASSUME NEW v \in Nat, NEW n \in Nat \ {0}, 2 * v < Power[n],
         n > 1 => 2 * v >= Power[n - 1]
  PROVE  Width(v) = n
<1> DEFINE w == Width(v)
<1>1. w \in Nat /\ w >= 1 /\ 2 * v < Power[w] /\ (w > 1 => 2 * v >= Power[w - 1])
  BY WidthFits
<1> HIDE DEF w
<1>2. ~(w < n)
  <2> SUFFICES ASSUME w < n PROVE FALSE
    OBVIOUS
  <2>1. w \in Nat /\ n - 1 \in Nat /\ w <= n - 1 /\ n > 1
    BY <1>1
  <2>2. Power[w] <= Power[n - 1] /\ Power[w] \in Nat /\ Power[n - 1] \in Nat
    BY <2>1, PowerGrows, PowerDef
  <2> QED BY <1>1, <2>1, <2>2
<1>3. ~(w > n)
  <2> SUFFICES ASSUME w > n PROVE FALSE
    OBVIOUS
  <2>1. w - 1 \in Nat /\ n \in Nat /\ n <= w - 1 /\ w > 1
    BY <1>1
  <2>2. Power[n] <= Power[w - 1] /\ Power[n] \in Nat /\ Power[w - 1] \in Nat
    BY <2>1, PowerGrows, PowerDef
  <2> QED BY <1>1, <2>1, <2>2
<1> QED BY <1>1, <1>2, <1>3 DEF w

\* A number that does not fit in one byte takes one more than its quotient.
LEMMA WidthOfQuotient ==
  ASSUME NEW v \in Nat, 2 * v >= Byte
  PROVE  Width(v) = Width(v \div Byte) + 1
<1> DEFINE q == v \div Byte
           r == v % Byte
           m == Width(q)
<1>1. v = q * Byte + r /\ q \in Nat /\ r \in Nat /\ r < Byte
  BY Quotient, ByteIsEven
<1>2. /\ m \in Nat \ {0} /\ 2 * q < Power[m]
      /\ m > 1 => 2 * q >= Power[m - 1]
  BY <1>1, WidthFits
<1> HIDE DEF q, r, m
<1>3. /\ m + 1 \in Nat \ {0} /\ Power[m] \in Nat /\ Power[m] % 2 = 0
      /\ Power[m + 1] = Byte * Power[m] /\ Byte \in Nat
  BY <1>2, PowerDef, PowerGrows, ByteIsEven
<1>4. 2 * v < Power[m + 1]
  <2> DEFINE h == Power[m] \div 2
  <2>1. Power[m] = 2 * h /\ h \in Nat
    BY <1>3
  <2> HIDE DEF h
  <2>2. q + 1 <= h
    BY <1>1, <1>2, <2>1
  <2>3. (q + 1) * Byte <= h * Byte
    BY <1>1, <1>3, <2>1, <2>2
  <2>4. (q + 1) * Byte = q * Byte + Byte /\ Power[m + 1] = 2 * (h * Byte)
    BY <1>1, <1>3, <2>1
  <2> QED BY <1>1, <1>3, <2>1, <2>3, <2>4
<1>5. 2 * v >= Power[m]
  <2>1. CASE m = 1
    <3>1. Power[0 + 1] = Byte * Power[0] /\ Power[0] = 1
      BY PowerDef
    <3> QED BY <1>3, <2>1, <3>1
  <2>2. CASE m > 1
    <3>1. m - 1 \in Nat /\ (m - 1) + 1 = m
      BY <1>2
    <3>2. Power[m] = Byte * Power[m - 1] /\ Power[m - 1] \in Nat
      BY <3>1, PowerDef
    <3>3. (2 * q) * Byte >= Byte * Power[m - 1]
      BY <1>1, <1>2, <1>3, <2>2, <3>2
    <3>4. 2 * v >= (2 * q) * Byte
      BY <1>1, <1>3
    <3> QED BY <1>1, <1>3, <3>2, <3>3, <3>4
  <2> QED BY <1>2, <2>1, <2>2
<1>6. (m + 1) - 1 = m
  BY <1>2
<1>7. Width(v) = m + 1
  <2> DEFINE n == m + 1
  <2>1. n \in Nat \ {0} /\ 2 * v < Power[n] /\ 2 * v >= Power[n - 1]
    BY <1>3, <1>4, <1>5, <1>6
  <2> HIDE DEF n
  <2>2. Width(v) = n
    BY <2>1, WidthUnique
  <2> QED BY <2>2 DEF n
<1> QED BY <1>7 DEF q, m

LEMMA DigitsByDivision ==
  ASSUME NEW v \in Nat
  PROVE  Digits(v) = IF 2 * v < Byte THEN <<v>> ELSE Append(Digits(v \div Byte), v % Byte)
<1>0. Power[0] = 1 /\ Power[1] = Byte /\ Byte \in Nat \ {0}
  <2>1. Power[0 + 1] = Byte * Power[0]
    BY PowerDef
  <2> QED BY <2>1, PowerDef, ByteIsEven
<1>1. CASE 2 * v < Byte
  <2>1. Width(v) = 1
    <3>1. 1 \in Nat \ {0} /\ 2 * v < Power[1]
      BY <1>0, <1>1
    <3> QED BY <3>1, WidthUnique
  <2>2. (v \div 1) % Byte = v
    <3>1. v \div 1 = v /\ v < Byte
      BY <1>0, <1>1
    <3>2. v % Byte = v
      BY <1>0, <3>1
    <3> QED BY <3>1, <3>2
  <2>3. Digits(v) = [k \in 1 .. 1 |-> v]
    <3>1. \A k \in 1 .. 1 : (v \div Power[1 - k]) % Byte = v
      BY <1>0, <2>2
    <3> QED BY <2>1, <3>1 DEF Digits
  <2>4. <<v>> = [k \in 1 .. 1 |-> v]
    OBVIOUS
  <2> QED BY <1>1, <2>3, <2>4
<1>2. CASE ~(2 * v < Byte)
  <2> DEFINE q == v \div Byte
             m == Width(q)
             d == v % Byte
             D == Digits(q)
             A == Append(D, d)
  <2>1. Width(v) = m + 1
    BY <1>0, <1>2, WidthOfQuotient
  <2>2. q \in Nat /\ d \in Nat
    BY <1>0, Quotient
  <2>3. m \in Nat
    BY <2>2, WidthFits
  <2> HIDE DEF q, m
  <2>4. ASSUME NEW k \in 1 .. m
        PROVE  /\ (q \div Power[m - k]) % Byte \in Nat
               /\ (q \div Power[m - k]) % Byte = (v \div Power[(m + 1) - k]) % Byte
    <3> DEFINE P == Power[m - k]
    <3>1. m - k \in Nat /\ (m - k) + 1 = (m + 1) - k
      BY <2>3
    <3>2. P \in Nat \ {0} /\ Power[(m + 1) - k] = Byte * P
      BY <3>1, PowerDef
    <3> HIDE DEF P
    <3>3. v \div (P * Byte) = q \div P
      BY <1>0, <3>2, QuotientTwice DEF q
    <3>4. P * Byte = Byte * P
      BY <1>0, <3>2
    <3>5. q \div P \in Nat
      BY <2>2, <3>2, Quotient
    <3>6. (q \div P) % Byte \in Nat
      BY <1>0, <3>5, Quotient
    <3> QED BY <3>2, <3>3, <3>4, <3>6 DEF P
  <2>5. D = [k \in 1 .. m |-> (q \div Power[m - k]) % Byte]
    BY DEF Digits, m
  <2>6. D \in Seq(Nat) /\ Len(D) = m
    BY <2>3, <2>4, <2>5
  <2> HIDE DEF D, d
  <2>7. /\ DOMAIN A = 1 .. m + 1 /\ A[m + 1] = d
        /\ \A k \in 1 .. m : A[k] = D[k]
    BY <2>2, <2>3, <2>6, AppendFacts
  <2>8. A = [k \in 1 .. m + 1 |-> A[k]]
    <3>1. A \in Seq(Nat)
      BY <2>2, <2>6, AppendFacts
    <3> HIDE DEF A
    <3> QED BY <2>7, <3>1
  <2>9. Digits(v) = [k \in 1 .. m + 1 |-> (v \div Power[(m + 1) - k]) % Byte]
    BY <2>1 DEF Digits
  <2> HIDE DEF A
  <2>10. ASSUME NEW k \in 1 .. m + 1
         PROVE  A[k] = (v \div Power[(m + 1) - k]) % Byte
    <3>1. CASE k = m + 1
      <4>1. (m + 1) - k = 0 /\ v \div 1 = v
        BY <2>3, <3>1
      <4> QED BY <1>0, <2>7, <3>1, <4>1 DEF d
    <3>2. CASE k # m + 1
      <4>1. k \in 1 .. m
        BY <2>3, <3>2
      <4> QED BY <2>4, <2>5, <2>7, <4>1
    <3> QED BY <3>1, <3>2
  <2>11. Digits(v) = A
    BY <2>8, <2>9, <2>10
  <2> QED BY <1>2, <2>11 DEF A, D, d, q
<1> QED BY <1>1, <1>2

\* What toByteArray computes by dividing are those bytes.
LEMMA ToByteArrayDigits ==
  ASSUME NEW v \in Nat
  PROVE  ToByteArray(v) = Digits(v)
<1> DEFINE e(f) == [u \in Nat |-> IF 2 * u < Byte THEN <<u>>
                                  ELSE Append(f[u \div Byte], u % Byte)]
           g == [u \in Nat |-> Digits(u)]
           F == CHOOSE f : f = e(f)
<1>1. ASSUME NEW u \in Nat PROVE u \div Byte \in Nat
  BY <1>1, Quotient, ByteIsEven
<1>2. g = e(g)
  <2>1. \A u \in Nat :
          Digits(u) = IF 2 * u < Byte THEN <<u>> ELSE Append(g[u \div Byte], u % Byte)
    BY <1>1, DigitsByDivision
  <2> QED BY <2>1
<1>3. ToByteArray(v) = F[v]
  BY DEF ToByteArray
<1> HIDE DEF e, g
<1>4. F = e(F)
  BY <1>2
<1> HIDE DEF F
<1>5. \A u \in Nat : F[u] = IF 2 * u < Byte THEN <<u>> ELSE Append(F[u \div Byte], u % Byte)
  BY <1>4 DEF e
<1> DEFINE S == {u \in Nat : F[u] # Digits(u)}
<1>6. S = {}
  <2> SUFFICES ASSUME S # {} PROVE FALSE
    OBVIOUS
  <2>1. PICK u \in S : \A w \in S : u <= w
    BY Least
  <2>2. u \in Nat /\ F[u] # Digits(u)
    BY <2>1
  <2>3. ~(2 * u < Byte)
    BY <1>5, <2>2, DigitsByDivision
  <2> DEFINE q == u \div Byte
  <2>4. q < u /\ q \in Nat
    <3>1. u = q * Byte + (u % Byte) /\ q \in Nat /\ u % Byte \in Nat
      BY <2>2, Quotient, ByteIsEven
    <3>2. Byte * q >= 2 * q /\ Byte * q = q * Byte /\ Byte * q \in Nat
      BY <3>1, ProductGrows, ByteIsEven
    <3> HIDE DEF q
    <3> QED BY <2>2, <2>3, <3>1, <3>2, ByteIsEven
  <2> HIDE DEF q
  <2>5. F[q] = Digits(q)
    BY <2>1, <2>2, <2>4
  <2> QED BY <1>5, <2>2, <2>3, <2>5, DigitsByDivision DEF q
<1> QED BY <1>3, <1>6

LEMMA ToByteArrayBytes ==
  ASSUME NEW v \in Nat
  PROVE  /\ ToByteArray(v) \in Seq(Nat)
         /\ Len(ToByteArray(v)) = Width(v)
         /\ \A k \in 1 .. Width(v) :
              ToByteArray(v)[k] = (v \div Power[Width(v) - k]) % Byte
<1> DEFINE n == Width(v)
<1>1. n \in Nat
  BY WidthFits
<1> HIDE DEF n
<1>2. ASSUME NEW k \in 1 .. n PROVE (v \div Power[n - k]) % Byte \in Nat
  <2>1. n - k \in Nat
    BY <1>1
  <2>2. Power[n - k] \in Nat \ {0}
    BY <2>1, PowerDef
  <2> QED BY <2>2, Quotient, ByteIsEven
<1>3. ToByteArray(v) = [k \in 1 .. n |-> (v \div Power[n - k]) % Byte]
  BY ToByteArrayDigits DEF Digits, n
<1>4. ToByteArray(v) \in Seq(Nat) /\ Len(ToByteArray(v)) = n
  BY <1>1, <1>2, <1>3
<1> QED BY <1>3, <1>4 DEF n

\* The number of blocks comes back as it was sent.
LEMMA NumberComesBack ==
  ASSUME NEW v \in Nat
  PROVE  FromBytes(ToByteArray(v)) = v
<1> DEFINE b == ToByteArray(v)
           n == Width(v)
<1>1. /\ b \in Seq(Nat) /\ Len(b) = n /\ n \in Nat
      /\ \A k \in 1 .. n : b[k] = (v \div Power[n - k]) % Byte
      /\ 2 * v < Power[n]
  BY ToByteArrayBytes, WidthFits
<1> HIDE DEF b, n
<1>2. Value(b) = v % Power[n]
  BY <1>1, ValueOfDigits
<1>3. Power[n] \in Nat \ {0}
  BY <1>1, PowerDef
<1>4. v % Power[n] = v
  <2>1. v = 0 * Power[n] + v /\ v < Power[n]
    BY <1>1, <1>3
  <2> QED BY <1>3, <2>1, QuotientUnique
<1>5. FromBytes(b) = v
  BY <1>1, <1>2, <1>4 DEF FromBytes
<1> QED BY <1>5 DEF b

\* The bytes of an index, the least significant first, with zeros after the last.
LEMMA IndexDataBytes ==
  ASSUME NEW i \in Nat
  PROVE  /\ IndexData(i) \in Seq(Nat)
         /\ Len(IndexData(i)) = IF Width(i) < IndexBytes THEN IndexBytes ELSE Width(i)
         /\ \A j \in 1 .. IndexBytes : IndexData(i)[j] = (i \div Power[j - 1]) % Byte
<1> DEFINE b == ToByteArray(i)
           n == Width(i)
           front == [k \in 1 .. n |-> b[n + 1 - k]]
           back == FillUp(b)
<1>1. /\ b \in Seq(Nat) /\ Len(b) = n /\ n \in Nat \ {0}
      /\ \A k \in 1 .. n : b[k] = (i \div Power[n - k]) % Byte
      /\ 2 * i < Power[n]
  BY ToByteArrayBytes, WidthFits
<1>2. IndexData(i) = front \o back
  BY <1>1 DEF IndexData
<1> HIDE DEF b, n
<1>3. \A k \in 1 .. n : n + 1 - k \in 1 .. n /\ b[n + 1 - k] \in Nat
  BY <1>1
<1>4. front \in Seq(Nat) /\ Len(front) = n
  BY <1>1, <1>3
<1>5. /\ back \in Seq(Nat)
      /\ Len(back) = IF n < IndexBytes THEN IndexBytes - n ELSE 0
      /\ \A k \in 1 .. Len(back) : back[k] = 0
  <2>1. CASE n < IndexBytes
    <3>1. back = [k \in 1 .. IndexBytes - n |-> 0] /\ IndexBytes - n \in Nat
      BY <1>1, <2>1, UdpAssumption DEF FillUp
    <3> QED BY <2>1, <3>1
  <2>2. CASE ~(n < IndexBytes)
    BY <1>1, <2>2 DEF FillUp
  <2> QED BY <2>1, <2>2
<1>6. ASSUME NEW j \in 1 .. IndexBytes PROVE (front \o back)[j] = (i \div Power[j - 1]) % Byte
  <2>1. CASE j <= n
    <3>1. (front \o back)[j] = b[n + 1 - j]
      BY <1>1, <1>4, <1>5, <2>1, UdpAssumption
    <3>2. n + 1 - j \in 1 .. n /\ n - (n + 1 - j) = j - 1
      BY <1>1, <2>1, UdpAssumption
    <3>3. b[n + 1 - j] = (i \div Power[n - (n + 1 - j)]) % Byte
      BY <1>1, <3>2
    <3> QED BY <3>1, <3>2, <3>3
  <2>2. CASE ~(j <= n)
    <3>1. j - n \in 1 .. Len(back) /\ j \in Nat /\ j - 1 \in Nat /\ n <= j - 1
      BY <1>1, <1>5, <2>2, UdpAssumption
    <3>2. (front \o back)[j] = 0
      <4>1. (front \o back)[j] = back[j - n]
        BY <1>1, <1>4, <1>5, <2>2, <3>1
      <4> QED BY <1>5, <3>1, <4>1
    <3>3. i < Power[j - 1] /\ Power[j - 1] \in Nat \ {0}
      <4>1. Power[n] <= Power[j - 1] /\ Power[n] \in Nat /\ Power[j - 1] \in Nat \ {0}
        BY <1>1, <3>1, PowerGrows, PowerDef
      <4> QED BY <1>1, <4>1
    <3>4. i \div Power[j - 1] = 0 /\ 0 % Byte = 0
      BY <3>3, ByteIsEven
    <3> QED BY <3>2, <3>4
  <2> QED BY <2>1, <2>2
<1> HIDE DEF front, back
<1>7. IndexData(i) \in Seq(Nat) /\ Len(IndexData(i)) = Len(front) + Len(back)
  <2>1. front \in Seq(Nat) /\ back \in Seq(Nat)
    BY <1>4, <1>5
  <2>2. front \o back \in Seq(Nat) /\ Len(front \o back) = Len(front) + Len(back)
    BY <2>1
  <2> QED BY <1>2, <2>2
<1>8. Len(IndexData(i)) = IF n < IndexBytes THEN IndexBytes ELSE n
  BY <1>1, <1>4, <1>5, <1>7, UdpAssumption
<1> QED BY <1>2, <1>6, <1>7, <1>8 DEF n

\* What the server makes of an index, whatever it is: it counts in two's complement.
LEMMA IndexComesBack ==
  ASSUME NEW i \in Nat
  PROVE  LET Half == Power[IndexBytes] \div 2 IN
         /\ ByteIndex(IndexData(i)) = ((i + Half) % (2 * Half)) - Half
         /\ i < Half <=> Len(IndexData(i)) = IndexBytes
         /\ i < Half => ByteIndex(IndexData(i)) = i
<1> DEFINE Half == Power[IndexBytes] \div 2
           n == IndexBytes
           d == IndexData(i)
           b == [k \in 1 .. n |-> d[n + 1 - k]]
           w == i % Power[n]
           q == i \div Power[n]
<1>1. /\ d \in Seq(Nat) /\ n \in Nat \ {0}
      /\ Len(d) = IF Width(i) < n THEN n ELSE Width(i)
      /\ \A j \in 1 .. n : d[j] = (i \div Power[j - 1]) % Byte
      /\ Width(i) \in Nat
  <2>1. /\ IndexData(i) \in Seq(Nat)
        /\ Len(IndexData(i)) = IF Width(i) < IndexBytes THEN IndexBytes ELSE Width(i)
        /\ \A j \in 1 .. IndexBytes : IndexData(i)[j] = (i \div Power[j - 1]) % Byte
    BY IndexDataBytes
  <2>2. Width(i) \in Nat
    BY WidthFits
  <2>3. IndexBytes \in Nat \ {0}
    BY UdpAssumption
  <2> QED BY <2>1, <2>2, <2>3
<1>2. Power[n] = 2 * Half /\ Half \in Nat \ {0}
  <2>1. Power[n] \in Nat \ {0} /\ Power[n] % 2 = 0
    BY <1>1, PowerDef, PowerGrows
  <2> QED BY <2>1
<1> HIDE DEF Half, n, d
<1>3. i < Half => Len(d) = n
  <2> SUFFICES ASSUME i < Half, Width(i) > n PROVE FALSE
    BY <1>1
  <2>0. Width(i) - 1 \in Nat /\ n <= Width(i) - 1 /\ Width(i) > 1
    BY <1>1
  <2>1. Width(i) - 1 \in Nat /\ n <= Width(i) - 1 /\ 2 * i >= Power[Width(i) - 1]
    BY <2>0, WidthFits
  <2>2. Power[n] <= Power[Width(i) - 1] /\ Power[n] \in Nat /\ Power[Width(i) - 1] \in Nat
    BY <1>1, <2>1, PowerGrows, PowerDef
  <2> QED BY <1>2, <2>1, <2>2
<1>4. Len(d) = n => i < Half
  <2> SUFFICES ASSUME Width(i) <= n PROVE i < Half
    BY <1>1
  <2>1. 2 * i < Power[Width(i)]
    BY WidthFits
  <2>2. Power[Width(i)] <= Power[n] /\ Power[n] \in Nat /\ Power[Width(i)] \in Nat
    BY <1>1, PowerGrows, PowerDef
  <2> QED BY <1>2, <2>1, <2>2
<1>5. ASSUME NEW k \in 1 .. n PROVE b[k] = (i \div Power[n - k]) % Byte /\ b[k] \in Nat
  <2>1. n + 1 - k \in 1 .. n /\ (n + 1 - k) - 1 = n - k
    BY <1>1
  <2>2. d[n + 1 - k] = (i \div Power[(n + 1 - k) - 1]) % Byte
    BY <1>1, <2>1
  <2>3. d[n + 1 - k] \in Nat
    BY <1>1, <2>1
  <2> QED BY <2>1, <2>2, <2>3
<1>6. b \in Seq(Nat) /\ Len(b) = n
  BY <1>1, <1>5
<1>7. Power[n] \in Nat \ {0}
  BY <1>1, PowerDef
<1>8. ByteIndex(d) = FromBytes(b)
  BY DEF ByteIndex, n
<1> HIDE DEF b
<1>9. Value(b) = w
  BY <1>1, <1>5, <1>6, ValueOfDigits
<1>10. i = q * Power[n] + w /\ q \in Nat /\ w \in Nat /\ w < Power[n]
  BY <1>7, Quotient
<1> HIDE DEF q, w
<1>11. ByteIndex(d) = IF 2 * w < Power[n] THEN w ELSE w - Power[n]
  BY <1>6, <1>8, <1>9 DEF FromBytes
<1>12. ByteIndex(d) = ((i + Half) % (2 * Half)) - Half
  <2>1. CASE 2 * w < Power[n]
    <3>1. i + Half = q * Power[n] + (w + Half) /\ w + Half < Power[n] /\ w + Half \in Nat
      BY <1>2, <1>10, <2>1
    <3>2. (i + Half) % Power[n] = w + Half
      BY <1>7, <1>10, <3>1, QuotientUnique
    <3> QED BY <1>2, <1>10, <1>11, <2>1, <3>2
  <2>2. CASE ~(2 * w < Power[n])
    <3>1. i + Half = (q + 1) * Power[n] + (w - Half) /\ w - Half < Power[n] /\ w - Half \in Nat
      BY <1>2, <1>10, <2>2
    <3>2. (i + Half) % Power[n] = w - Half
      <4>1. q + 1 \in Nat
        BY <1>10
      <4> QED BY <1>7, <3>1, <4>1, QuotientUnique
    <3> QED BY <1>2, <1>10, <1>11, <2>2, <3>2
  <2> QED BY <2>1, <2>2
<1>13. i < Half => ByteIndex(d) = i
  <2> SUFFICES ASSUME i < Half PROVE ByteIndex(d) = i
    OBVIOUS
  <2>1. (i + Half) % (2 * Half) = i + Half
    BY <1>2
  <2> QED BY <1>2, <1>12, <2>1
<1> QED BY <1>3, <1>12, <1>13, <1>4 DEF Half, n, d

-----------------------------------------------------------------------------
(* The blocks that are written *)

LEMMA WrittenUpto ==
  ASSUME NEW V, NEW packets, \A k \in DOMAIN packets : packets[k] \in V,
         NEW m \in Nat
  PROVE  \E u : /\ u[0] = <<>>
                /\ \A k \in 0 .. m - 1 :
                     u[k + 1] = IF k \in DOMAIN packets THEN Append(u[k], packets[k])
                                ELSE u[k]
                /\ Written(packets, m) = u[m]
<1> DEFINE D == Seq(V)
           h == [k \in Nat |-> [x \in D |->
                  IF k \in DOMAIN packets THEN Append(x, packets[k]) ELSE x]]
           e(g) == [k \in 0 .. m |->
                     IF k = 0 THEN <<>>
                     ELSE IF k - 1 \in DOMAIN packets THEN Append(g[k - 1], packets[k - 1])
                     ELSE g[k - 1]]
<1>1. h \in [Nat -> [D -> D]]
  <2>1. ASSUME NEW k \in Nat, NEW x \in D
        PROVE  (IF k \in DOMAIN packets THEN Append(x, packets[k]) ELSE x) \in D
    BY AppendFacts
  <2> QED BY <2>1
<1>2. <<>> \in D
  OBVIOUS
<1> HIDE DEF D, h
<1>3. PICK f : f \in Recursive(D, <<>>, h)
  BY <1>1, <1>2, Recursion
<1>4. f \in [Nat -> D] /\ f[0] = <<>> /\ \A k \in Nat : f[k + 1] = h[k][f[k]]
  BY <1>3 DEF Recursive
<1> DEFINE g == [k \in 0 .. m |-> f[k]]
<1>5. ASSUME NEW k \in 0 .. m PROVE g[k] = e(g)[k]
  <2>1. CASE k = 0
    BY <1>4, <2>1
  <2>2. CASE k # 0
    <3>1. k - 1 \in Nat /\ (k - 1) + 1 = k /\ k - 1 \in 0 .. m
      BY <2>2
    <3>2. f[k] = h[k - 1][f[k - 1]] /\ f[k - 1] \in D
      BY <1>4, <3>1
    <3>3. h[k - 1][f[k - 1]] =
            IF k - 1 \in DOMAIN packets THEN Append(f[k - 1], packets[k - 1]) ELSE f[k - 1]
      BY <3>1, <3>2 DEF h
    <3> QED BY <2>2, <3>1, <3>2, <3>3
  <2> QED BY <2>1, <2>2
<1>6. g = e(g)
  BY <1>5
<1> HIDE DEF g
<1> DEFINE u == CHOOSE x : x = e(x)
<1> HIDE DEF e
<1>7. u = e(u)
  BY <1>6
<1>8. Written(packets, m) = u[m]
  BY DEF Written, u, e
<1> HIDE DEF u
<1>9. u = [k \in 0 .. m |->
            IF k = 0 THEN <<>>
            ELSE IF k - 1 \in DOMAIN packets THEN Append(u[k - 1], packets[k - 1])
            ELSE u[k - 1]]
  BY <1>7 DEF e
<1>10. u[0] = <<>>
  BY <1>9
<1>11. ASSUME NEW k \in 0 .. m - 1
       PROVE  u[k + 1] = IF k \in DOMAIN packets THEN Append(u[k], packets[k]) ELSE u[k]
  <2>1. k + 1 \in 0 .. m /\ k + 1 # 0 /\ (k + 1) - 1 = k
    OBVIOUS
  <2>2. u[k + 1] = IF (k + 1) - 1 \in DOMAIN packets
                     THEN Append(u[(k + 1) - 1], packets[(k + 1) - 1]) ELSE u[(k + 1) - 1]
    BY <1>9, <2>1
  <2> QED BY <2>1, <2>2
<1> QED BY <1>8, <1>10, <1>11

\* When no block is missing, they are all written.
LEMMA WrittenAll ==
  ASSUME NEW packets, NEW m \in Nat, \A k \in 0 .. m - 1 : k \in DOMAIN packets
  PROVE  Written(packets, m) = [k \in 1 .. m |-> packets[k - 1]]
<1> DEFINE V == {packets[k] : k \in DOMAIN packets}
<1>1. \A k \in DOMAIN packets : packets[k] \in V
  OBVIOUS
<1>2. PICK u : /\ u[0] = <<>>
               /\ \A k \in 0 .. m - 1 :
                    u[k + 1] = IF k \in DOMAIN packets THEN Append(u[k], packets[k])
                               ELSE u[k]
               /\ Written(packets, m) = u[m]
  <2> HIDE DEF V
  <2> QED BY <1>1, WrittenUpto
<1> DEFINE first(k) == [j \in 1 .. k |-> packets[j - 1]]
           S == {k \in Nat : k <= m => u[k] = first(k)}
<1>3. 0 \in S
  BY <1>2
<1>4. ASSUME NEW k \in Nat, k \in S PROVE k + 1 \in S
  <2> SUFFICES ASSUME k + 1 <= m PROVE u[k + 1] = first(k + 1)
    OBVIOUS
  <2>1. k \in 0 .. m - 1 /\ k \in DOMAIN packets /\ u[k] = first(k)
    BY <1>4
  <2>2. u[k + 1] = Append(first(k), packets[k])
    BY <1>2, <2>1
  <2>3. first(k) \in Seq(V) /\ Len(first(k)) = k /\ packets[k] \in V
    BY <2>1
  <2>4. Append(first(k), packets[k]) = first(k + 1)
    <3> DEFINE s == Append(first(k), packets[k])
    <3>1. /\ s \in Seq(V) /\ Len(s) = k + 1
          /\ s[k + 1] = packets[k]
          /\ \A j \in 1 .. k : s[j] = first(k)[j]
      <4> DEFINE r == first(k)
      <4>1. r \in Seq(V) /\ Len(r) = k /\ packets[k] \in V
        BY <2>3
      <4> HIDE DEF r, V
      <4> QED BY <4>1, AppendFacts DEF r
    <3> HIDE DEF s
    <3>2. \A j \in 1 .. k + 1 : s[j] = packets[j - 1]
      <4>1. ASSUME NEW j \in 1 .. k PROVE s[j] = packets[j - 1]
        BY <3>1
      <4>2. s[k + 1] = packets[(k + 1) - 1]
        BY <3>1
      <4> QED BY <4>1, <4>2
    <3>3. s = [j \in 1 .. k + 1 |-> packets[j - 1]]
      BY <3>1, <3>2
    <3> QED BY <3>3 DEF s
  <2> QED BY <2>2, <2>4
<1> HIDE DEF S
<1>5. m \in S
  BY <1>3, <1>4, SetInduction
<1> QED BY <1>2, <1>5 DEF S

\* Whatever is missing, the others are written in their order.
LEMMA WrittenInOrder ==
  ASSUME NEW f \in Files, NEW packets, NEW m \in Nat,
         \A k \in DOMAIN packets : k \in Nat /\ packets[k] \in {Zero, Data(f, k)}
  PROVE  /\ IsAscending(Written(packets, m))
         /\ \A k \in DOMAIN Written(packets, m) :
              Written(packets, m)[k] = Zero \/ Written(packets, m)[k].of = f
<1> DEFINE V == {Zero} \cup {Data(f, k) : k \in Nat}
<1>1. \A k \in DOMAIN packets : packets[k] \in V
  OBVIOUS
<1>2. PICK u : /\ u[0] = <<>>
               /\ \A k \in 0 .. m - 1 :
                    u[k + 1] = IF k \in DOMAIN packets THEN Append(u[k], packets[k])
                               ELSE u[k]
               /\ Written(packets, m) = u[m]
  <2> HIDE DEF V
  <2> QED BY <1>1, WrittenUpto
<1> DEFINE Below(s, k) ==
             \A j \in DOMAIN s :
               s[j] = Zero \/ (s[j].of = f /\ s[j].i \in Nat /\ s[j].i < k)
           S == {k \in Nat : k <= m =>
                   u[k] \in Seq(V) /\ Below(u[k], k) /\ IsAscending(u[k])}
<1>3. 0 \in S
  <2>1. u[0] \in Seq(V) /\ DOMAIN u[0] = {}
    <3>1. <<>> \in Seq(V) /\ DOMAIN <<>> = {}
      OBVIOUS
    <3> QED BY <1>2, <3>1
  <2>2. Below(u[0], 0) /\ IsAscending(u[0])
    BY <2>1 DEF IsAscending
  <2> QED BY <2>1, <2>2
<1>4. ASSUME NEW k \in Nat, k \in S PROVE k + 1 \in S
  <2> SUFFICES ASSUME k + 1 <= m
               PROVE  u[k + 1] \in Seq(V) /\ Below(u[k + 1], k + 1) /\ IsAscending(u[k + 1])
    OBVIOUS
  <2>1. k \in 0 .. m - 1 /\ u[k] \in Seq(V) /\ Below(u[k], k) /\ IsAscending(u[k])
    BY <1>4
  <2>2. CASE k \notin DOMAIN packets
    <3>1. u[k + 1] = u[k]
      BY <1>2, <2>1, <2>2
    <3> QED BY <2>1, <3>1
  <2>3. CASE k \in DOMAIN packets
    <3> DEFINE q == u[k]
               e == packets[k]
               s == Append(q, e)
               n == Len(q)
    <3>1. u[k + 1] = s
      BY <1>2, <2>1, <2>3
    <3>2. q \in Seq(V) /\ e \in V /\ (e = Zero \/ (e.of = f /\ e.i = k))
      BY <1>1, <2>1, <2>3 DEF Data
    <3>3. Below(q, k) /\ IsAscending(q)
      BY <2>1
    <3> HIDE DEF q, e, V
    <3>4. /\ s \in Seq(V) /\ n \in Nat
          /\ s[n + 1] = e
          /\ DOMAIN q = 1 .. n /\ DOMAIN s = 1 .. n + 1
          /\ \A j \in 1 .. n : s[j] = q[j]
      BY <3>2, AppendFacts
    <3> HIDE DEF s, n
    <3>5. Below(s, k + 1)
      <4>1. ASSUME NEW j \in DOMAIN s
            PROVE  s[j] = Zero \/ (s[j].of = f /\ s[j].i \in Nat /\ s[j].i < k + 1)
        <5>1. CASE j = n + 1
          BY <3>2, <3>4, <5>1
        <5>2. CASE j # n + 1
          <6>1. j \in DOMAIN q /\ s[j] = q[j]
            BY <3>4, <5>2
          <6> QED BY <3>3, <6>1
        <5> QED BY <5>1, <5>2
      <4> QED BY <4>1
    <3>6. IsAscending(s)
      <4> SUFFICES ASSUME NEW j \in DOMAIN s, NEW l \in DOMAIN s, j < l,
                          Zero \notin {s[j], s[l]}
                   PROVE  s[j].i < s[l].i
        BY DEF IsAscending
      <4>1. j \in DOMAIN q /\ s[j] = q[j]
        BY <3>4
      <4>2. CASE l = n + 1
        <5>1. s[l] = e /\ e.i = k
          BY <3>2, <3>4, <4>2
        <5>2. q[j].i < k
          BY <3>3, <4>1
        <5> QED BY <4>1, <5>1, <5>2
      <4>3. CASE l # n + 1
        <5>1. l \in DOMAIN q /\ s[l] = q[l]
          BY <3>4, <4>3
        <5> QED BY <3>3, <4>1, <5>1 DEF IsAscending
      <4> QED BY <4>2, <4>3
    <3> QED BY <3>1, <3>4, <3>5, <3>6
  <2> QED BY <2>2, <2>3
<1> HIDE DEF S
<1>5. m \in S
  BY <1>3, <1>4, SetInduction
<1>6. Below(u[m], m) /\ IsAscending(u[m])
  BY <1>5 DEF S
<1> QED BY <1>2, <1>6

-----------------------------------------------------------------------------
(* The inductive invariant *)

Calm == Harmless({"gap", "lost", "short"})

Numbered(f) == 2 * Size[f] <= Power[IndexBytes]

OfUpload(d) == d.kind \in {"block", "last"}

\* The shape of everything that TypeOK leaves open.
Shapes ==
  /\ TypeOK
  /\ server = [pc |-> server.pc, file |-> server.file,
               packets |-> server.packets,
               unreadable |-> server.unreadable, quiet |-> server.quiet]
  /\ client.pc # "user" => client.n >= 1
  /\ client.pc # "sending" => client.counter = 0
  /\ client.pc = "sending" => client.counter <= Size[client.file]
  /\ \A d \in toServer :
       /\ d.n \in 1 .. client.n
       /\ d.kind \in {"ASK", "EXIT", "PREPARE", "block", "last"}
       /\ d.kind = "PREPARE" => d.file \in Files
  /\ \A a \in toClient : a.n \in 1 .. client.n /\ a.what \in {"line", "ready"}
                         /\ a = Answer(a.n, a.what)

\* One request at a time: it is under way, or answered, while the client waits.
Turn ==
  /\ \A d \in toServer :
       /\ d.kind \in {"ASK", "PREPARE"} =>
            /\ client.pc = (IF d.kind = "ASK" THEN "answer" ELSE "ready")
            /\ d = [Datagram(d.kind, client.n) EXCEPT !.file = client.file]
            /\ toClient = {}
       /\ d.kind = "EXIT" => client.pc = "closed"
       /\ (OfUpload(d) /\ client.pc \in {"answer", "ready"}) => d.n < client.n
  /\ \A a \in toClient :
       /\ client.pc \in {"answer", "ready"}
       /\ a = Answer(client.n, IF client.pc = "answer" THEN "line" ELSE "ready")
  /\ client.pc \in {"user", "sending"} => client.read.n \in {0, client.n}
  /\ client.pc = "sending" => client.read = Answer(client.n, "ready")

\* A client that sends, or that may, feeds the upload the server is in, and nothing
\* else is under way to that upload.
Feed ==
  /\ (client.pc = "sending" \/ (client.pc = "ready" /\ toClient # {})) =>
       server.pc = "upload" /\ server.file = client.file
  /\ (client.pc = "ready" /\ toClient # {}) => toServer = {}
  /\ client.pc = "sending" => \A d \in toServer : d.kind = "block" /\ d.n = client.n
  /\ server.pc = "upload" =>
       /\ \A d, e \in toServer : (OfUpload(d) /\ OfUpload(e)) => d.n = e.n
       /\ \A d \in toServer : d.kind = "block" =>
            \E i \in 0 .. Size[server.file] - 1 : d = Block(server.file, i, d.n)
       /\ \A d \in toServer : d.kind = "last" =>
            d.index = ToByteArray(Size[server.file])

\* What the server has collected is in its place; only a gap can have cost block 0.
Collected ==
  (Calm /\ server.pc = "upload" /\ Numbered(server.file)) =>
    \A k \in DOMAIN server.packets :
      /\ k \in Nat
      /\ \/ server.packets[k] = Data(server.file, k)
         \/ k = 0 /\ server.packets[k] = Zero /\ "gap" \in damage

\* As long as nothing is lost, a block that has been sent is under way or collected.
Here(i, n) == i \in DOMAIN server.packets \/ Block(server.file, i, n) \in toServer

Complete ==
  (Harmless({"gap"}) /\ server.pc = "upload" /\ Numbered(server.file)) =>
    /\ client.pc = "sending" => \A i \in 0 .. client.counter - 1 : Here(i, client.n)
    /\ \A d \in toServer : d.kind = "last" =>
         \A i \in 0 .. Size[server.file] - 1 : Here(i, d.n)

UploadInv ==
  /\ Shapes
  /\ DOMAIN files = Files
  /\ Calm => Turn /\ Feed
  /\ Collected
  /\ Complete
  /\ WrittenIsSource

-----------------------------------------------------------------------------
(* What the steps do to the parts of the state *)

LEMMA ReceivesFacts ==
  ASSUME TypeOK, NEW d \in toServer, Receives(d)
  PROVE  /\ toServer' \subseteq toServer /\ toServer \ {d} \subseteq toServer'
         /\ faults' \in 0 .. MaxFaults
         /\ damage \subseteq damage'
         /\ damage' \subseteq damage \cup {"dup", "overtaken", "short", "stray", "stored"}
         /\ ("dup" \notin damage' /\ d.kind # "block") => toServer' = toServer \ {d}
         /\ "overtaken" \notin damage' => ~Overtakes(d)
         /\ "short" \notin damage' => ~CutsShort(d)
         /\ "stray" \notin damage' => ~(server.pc = "loop" /\ OfUpload(d))
         /\ "stored" \notin damage' => (server.pc = "upload" => OfUpload(d))
<1>1. PICK kept \in {{}, {d}} :
        /\ toServer' = (toServer \ {d}) \cup kept
        /\ kept # {} => faults < MaxFaults
        /\ faults' = faults + Cardinality(kept)
        /\ damage' = damage
             \cup (IF kept # {} /\ d.kind # "block" THEN {"dup"} ELSE {})
             \cup (IF Overtakes(d) THEN {"overtaken"} ELSE {})
             \cup (IF CutsShort(d) THEN {"short"} ELSE {})
             \cup (IF server.pc = "loop" /\ d.kind \in {"block", "last"} THEN {"stray"} ELSE {})
             \cup (IF server.pc = "upload" /\ d.kind \notin {"block", "last"}
                     THEN {"stored"} ELSE {})
  BY DEF Receives
<1>2. faults' \in 0 .. MaxFaults
  <2>1. CASE kept = {}
    BY <1>1, <2>1, FS_EmptySet, UdpAssumption DEF TypeOK
  <2>2. CASE kept # {}
    <3>1. kept = {d} /\ Cardinality(kept) = 1
      BY <2>2, FS_Singleton
    <3> QED BY <1>1, <2>2, <3>1, UdpAssumption DEF TypeOK
  <2> QED BY <2>1, <2>2
<1> QED BY <1>1, <1>2 DEF OfUpload

\* The only damage of a calm network does not touch the requests.
LEMMA CalmReceives ==
  ASSUME TypeOK, NEW d \in toServer, Receives(d), Calm'
  PROVE  /\ Calm /\ ~Overtakes(d)
         /\ ~(server.pc = "loop" /\ OfUpload(d))
         /\ server.pc = "upload" => OfUpload(d)
         /\ d.kind # "block" => toServer' = toServer \ {d}
         /\ toServer' \subseteq toServer /\ toServer \ {d} \subseteq toServer'
         /\ Harmless({"gap"})' => Harmless({"gap"}) /\ ~CutsShort(d)
         /\ Harmless({})' => Harmless({})
  BY ReceivesFacts DEF Calm, Harmless

ClientSet ==
  [pc : {"user", "answer", "ready", "sending", "closed"},
   n : 0 .. MaxCommands, file : Files \cup {"none"}, counter : Nat,
   read : [n : 0 .. MaxCommands, what : {"line", "ready"}]]

LEMMA BackFacts ==
  ASSUME TypeOK
  PROVE  /\ Back.pc = "user" /\ Back.file = "none" /\ Back.counter = 0
         /\ Back.n = client.n /\ Back.read = client.read
         /\ Back \in ClientSet
  BY DEF TypeOK, Back, ClientSet

\* A request of the user, whichever it is.
LEMMA RequestFacts ==
  ASSUME TypeOK, NEW kind, NEW pc \in {"answer", "ready", "closed"},
         NEW f \in Files \cup {"none"}, pc = "ready" => f \in Files,
         Request(kind, pc, f)
  PROVE  /\ client.pc = "user" /\ client'.pc = pc /\ client'.n = client.n + 1
         /\ client.n < MaxCommands /\ client.n \in Nat
         /\ client'.file = f /\ client'.counter = client.counter
         /\ client'.read = client.read
         /\ client' \in ClientSet
         /\ toServer' = toServer \cup
              {[Datagram(kind, client.n + 1) EXCEPT !.file = f]}
         /\ UNCHANGED <<server, files, toClient, damage, faults>>
<1>1. client \in ClientSet
  BY DEF TypeOK, ClientSet
<1>2. /\ client.pc = "user" /\ client.n < MaxCommands
      /\ client' = [client EXCEPT !.pc = pc, !.n = @ + 1, !.file = f]
      /\ toServer' = toServer \cup
           {[Datagram(kind, client.n + 1) EXCEPT !.file = f]}
      /\ UNCHANGED <<server, files, toClient, damage, faults>>
  BY DEF Request
<1>3. client.n \in 0 .. MaxCommands /\ client.n + 1 \in 0 .. MaxCommands /\ client.n \in Nat
  BY <1>1, <1>2, UdpAssumption DEF ClientSet
<1>4. client' = [pc |-> pc, n |-> client.n + 1, file |-> f, counter |-> client.counter,
                 read |-> client.read]
  BY <1>1, <1>2 DEF ClientSet
<1> QED BY <1>1, <1>2, <1>3, <1>4 DEF ClientSet

LEMMA DatagramFacts ==
  ASSUME NEW kind, NEW n, NEW f
  PROVE  LET d == [Datagram(kind, n) EXCEPT !.file = f] IN
         d.kind = kind /\ d.n = n /\ d.file = f
  BY DEF Datagram

LEMMA ReadsFacts ==
  ASSUME Shapes, ClientReads
  PROVE  \E a \in toClient :
         /\ client.pc \in {"answer", "ready"}
         /\ toClient' = toClient \ {a}
         /\ client'.read = a /\ client'.n = client.n
         /\ client'.counter = 0
         /\ IF client.pc = "ready" /\ a.what = "ready"
              THEN client'.pc = "sending" /\ client'.file = client.file
              ELSE client'.pc = "user" /\ client'.file = "none"
         /\ client' \in ClientSet
         /\ UNCHANGED <<server, files, toServer, damage, faults>>
<1>1. PICK a \in toClient :
        /\ toClient' = toClient \ {a}
        /\ client' = [IF client.pc = "ready" /\ a.what = "ready"
                        THEN [client EXCEPT !.pc = "sending"] ELSE Back
                        EXCEPT !.read = a]
  BY DEF ClientReads
<1>2. client.pc \in {"answer", "ready"} /\ UNCHANGED <<server, files, toServer, damage, faults>>
  BY DEF ClientReads
<1>3. a \in [n : 0 .. MaxCommands, what : {"line", "ready"}]
  <2>1. a = Answer(a.n, a.what) /\ a.n \in 1 .. client.n /\ a.what \in {"line", "ready"}
    BY DEF Shapes
  <2>2. client.n \in 0 .. MaxCommands
    BY DEF Shapes, TypeOK
  <2>3. a.n \in 0 .. MaxCommands
    BY <2>1, <2>2, UdpAssumption
  <2> QED BY <2>1, <2>3 DEF Answer
<1>4. CASE client.pc = "ready" /\ a.what = "ready"
  <2>1. client' = [client EXCEPT !.pc = "sending", !.read = a] /\ client.counter = 0
    BY <1>1, <1>4 DEF Shapes
  <2> QED BY <1>1, <1>2, <1>3, <1>4, <2>1 DEF Shapes, TypeOK, ClientSet
<1>5. CASE ~(client.pc = "ready" /\ a.what = "ready")
  <2>1. client' = [Back EXCEPT !.read = a]
    BY <1>1, <1>5
  <2>2. /\ Back.pc = "user" /\ Back.file = "none" /\ Back.counter = 0 /\ Back.n = client.n
        /\ Back \in ClientSet
    BY BackFacts DEF Shapes
  <2>3. /\ client'.pc = "user" /\ client'.file = "none" /\ client'.counter = 0
        /\ client'.n = client.n /\ client'.read = a
        /\ client' \in ClientSet
    BY <1>3, <2>1, <2>2 DEF ClientSet
  <2> QED BY <1>1, <1>2, <1>5, <2>3
<1> QED BY <1>4, <1>5

LEMMA SendBlockFacts ==
  ASSUME Shapes, SendBlock
  PROVE  /\ client.pc = "sending" /\ client'.pc = "sending" /\ client.file \in Files
         /\ client.counter \in 0 .. Size[client.file] - 1
         /\ client'.counter = client.counter + 1
         /\ client'.n = client.n /\ client'.file = client.file /\ client'.read = client.read
         /\ client' \in ClientSet
         /\ toServer' = toServer \cup {Block(client.file, client.counter, client.n)}
         /\ UNCHANGED <<server, files, toClient, damage, faults>>
  BY UdpAssumption DEF Shapes, TypeOK, SendBlock, ClientSet

LEMMA BlockFacts ==
  ASSUME NEW f, NEW i, NEW n
  PROVE  /\ Block(f, i, n).kind = "block" /\ Block(f, i, n).n = n /\ Block(f, i, n).file = f
         /\ Block(f, i, n).index = IndexData(i) /\ Block(f, i, n).data = Data(f, i)
  BY DEF Block

LEMMA SendLastFacts ==
  ASSUME Shapes, SendLast
  PROVE  /\ client.pc = "sending" /\ client.file \in Files
         /\ client.counter = Size[client.file]
         /\ client'.pc = "user" /\ client'.counter = 0
         /\ client'.n = client.n /\ client'.read = client.read
         /\ client' \in ClientSet
         /\ \E d : /\ toServer' = toServer \cup {d}
                   /\ d.kind = "last" /\ d.n = client.n
                   /\ d.index = ToByteArray(client.counter)
         /\ UNCHANGED <<server, files, toClient, damage, faults>>
<1> DEFINE d == [Datagram("last", client.n) EXCEPT !.index = ToByteArray(client.counter)]
<1>1. d.kind = "last" /\ d.n = client.n /\ d.index = ToByteArray(client.counter)
  BY DEF Datagram
<1>2. toServer' = toServer \cup {d} /\ client' = Back
      /\ client.pc = "sending" /\ client.counter = Size[client.file]
      /\ UNCHANGED <<server, files, toClient, damage, faults>>
  BY DEF SendLast
<1>3. client.file \in Files
  BY <1>2 DEF Shapes, TypeOK
<1>4. /\ Back.pc = "user" /\ Back.counter = 0
      /\ Back.n = client.n /\ Back.read = client.read
      /\ Back \in ClientSet
  BY BackFacts DEF Shapes
<1> HIDE DEF d
<1> QED BY <1>1, <1>2, <1>3, <1>4

-----------------------------------------------------------------------------
(* The shapes are kept *)

\* What dictionary.put does to the record of the server.
LEMMA PutFacts ==
  ASSUME server = [pc |-> server.pc, file |-> server.file,
                   packets |-> server.packets,
                   unreadable |-> server.unreadable, quiet |-> server.quiet],
         NEW key, NEW value
  PROVE  /\ Put(key, value) = [pc |-> server.pc, file |-> server.file,
                               packets |-> Put(key, value).packets,
                               unreadable |-> server.unreadable, quiet |-> 0]
         /\ DOMAIN Put(key, value).packets = DOMAIN server.packets \cup {key}
         /\ \A k \in DOMAIN server.packets \cup {key} :
              Put(key, value).packets[k] = IF k = key THEN value ELSE server.packets[k]
<1> DEFINE P == [k \in {key} \cup DOMAIN server.packets |->
                  IF k = key THEN value ELSE server.packets[k]]
<1>1. Put(key, value) = [server EXCEPT !.packets = P, !.quiet = 0]
  BY DEF Put
<1>2. /\ DOMAIN P = DOMAIN server.packets \cup {key}
      /\ \A k \in DOMAIN server.packets \cup {key} :
           P[k] = IF k = key THEN value ELSE server.packets[k]
  OBVIOUS
<1> HIDE DEF P
<1>3. Put(key, value) = [pc |-> server.pc, file |-> server.file, packets |-> P,
                         unreadable |-> server.unreadable, quiet |-> 0]
  BY <1>1
<1> QED BY <1>2, <1>3

LEMMA InitUploadInv == Init => UploadInv
<1> SUFFICES ASSUME Init PROVE UploadInv
  OBVIOUS
<1>1. Shapes
  BY UdpAssumption DEF Init, Shapes, TypeOK, SoTimeout
<1>2. Turn /\ Feed /\ Collected /\ Complete
  BY DEF Init, Turn, Feed, Collected, Complete
<1>3. WrittenIsSource /\ DOMAIN files = Files
  BY DEF Init, WrittenIsSource
<1> QED BY <1>1, <1>2, <1>3 DEF UploadInv

LEMMA RequestKeepsShapes ==
  ASSUME Shapes, NEW kind \in {"ASK", "EXIT", "PREPARE"},
         NEW pc \in {"answer", "ready", "closed"},
         NEW f \in Files \cup {"none"}, pc = "ready" => f \in Files,
         kind = "PREPARE" => f \in Files,
         Request(kind, pc, f)
  PROVE  Shapes'
<1> DEFINE d == [Datagram(kind, client.n + 1) EXCEPT !.file = f]
<1>1. /\ client.pc = "user" /\ client'.pc = pc /\ client'.n = client.n + 1
      /\ client.n < MaxCommands /\ client.n \in Nat
      /\ client'.file = f /\ client'.counter = client.counter
      /\ client' \in ClientSet
      /\ toServer' = toServer \cup {d}
      /\ UNCHANGED <<server, files, toClient, damage, faults>>
  BY RequestFacts DEF Shapes
<1>2. d.kind = kind /\ d.n = client.n + 1 /\ d.file = f
  BY DatagramFacts
<1> HIDE DEF d
<1>3. TypeOK'
  BY <1>1 DEF Shapes, TypeOK, ClientSet
<1>4. /\ server' = [pc |-> server'.pc, file |-> server'.file,
                    packets |-> server'.packets,
                    unreadable |-> server'.unreadable, quiet |-> server'.quiet]
      /\ client'.counter = 0 /\ client'.pc # "sending" /\ client'.n >= 1
  BY <1>1 DEF Shapes
<1>5. ASSUME NEW e \in toServer'
      PROVE  /\ e.n \in 1 .. client'.n
             /\ e.kind \in {"ASK", "EXIT", "PREPARE", "block", "last"}
             /\ e.kind = "PREPARE" => e.file \in Files
  <2>1. CASE e = d
    BY <1>1, <1>2, <2>1
  <2>2. CASE e # d
    BY <1>1, <2>2 DEF Shapes
  <2> QED BY <2>1, <2>2
<1>6. ASSUME NEW a \in toClient'
      PROVE  a.n \in 1 .. client'.n /\ a.what \in {"line", "ready"} /\ a = Answer(a.n, a.what)
  BY <1>1 DEF Shapes
<1> QED BY <1>3, <1>4, <1>5, <1>6 DEF Shapes

\* A step of the network or the server that sends no datagram and keeps the client.
LEMMA ServerKeepsShapes ==
  ASSUME Shapes, client' = client, toServer' \subseteq toServer,
         server' = [pc |-> server'.pc, file |-> server'.file,
                    packets |-> server'.packets,
                    unreadable |-> server'.unreadable, quiet |-> server'.quiet],
         server'.pc \in {"loop", "upload", "stopped"},
         server'.pc = "upload" => server'.file \in Files,
         server'.unreadable \in BOOLEAN, server'.quiet \in 0 .. SoTimeout,
         damage' \subseteq {"lost", "late", "dup", "overtaken", "short", "stray", "gap", "failed",
                      "stored"},
         faults' \in 0 .. MaxFaults,
         \A a \in toClient' : a \in toClient \/ \E n \in 1 .. client.n, what \in {"line", "ready"} :
                                                  a = Answer(n, what)
  PROVE  Shapes'
<1>1. TypeOK'
  BY DEF Shapes, TypeOK
<1>2. ASSUME NEW a \in toClient'
      PROVE  a.n \in 1 .. client'.n /\ a.what \in {"line", "ready"} /\ a = Answer(a.n, a.what)
  BY DEF Shapes, Answer
<1>3. /\ client'.pc # "sending" => client'.counter = 0
      /\ client'.pc = "sending" => client'.counter <= Size[client'.file]
      /\ \A d \in toServer' :
           /\ d.n \in 1 .. client'.n
           /\ d.kind \in {"ASK", "EXIT", "PREPARE", "block", "last"}
           /\ d.kind = "PREPARE" => d.file \in Files
  BY DEF Shapes
<1> QED BY <1>1, <1>2, <1>3 DEF Shapes

LEMMA NextShapes == Shapes /\ [Next]_vars => Shapes'
<1> SUFFICES ASSUME Shapes, [Next]_vars PROVE Shapes'
  OBVIOUS
<1>0. TypeOK /\ server = [pc |-> server.pc, file |-> server.file,
                          packets |-> server.packets,
                          unreadable |-> server.unreadable, quiet |-> server.quiet]
      /\ server.unreadable \in BOOLEAN
      /\ server.quiet \in 0 .. SoTimeout /\ faults \in 0 .. MaxFaults
      /\ client.n \in 0 .. MaxCommands
  BY DEF Shapes, TypeOK
<1>1. CASE Ask
  BY <1>1, RequestKeepsShapes DEF Ask
<1>2. CASE Exit
  BY <1>2, RequestKeepsShapes DEF Exit
<1>3. ASSUME NEW f \in Files, Upload(f) PROVE Shapes'
  BY <1>3, RequestKeepsShapes DEF Upload
<1>4. CASE ClientReads
  <2>1. /\ client' \in ClientSet /\ client'.n = client.n /\ client'.counter = 0
        /\ client'.pc \in {"user", "sending"}
        /\ client'.pc = "sending" => client'.file = client.file /\ client.pc = "ready"
        /\ toClient' \subseteq toClient
        /\ UNCHANGED <<server, files, toServer, damage, faults>>
    BY <1>4, ReadsFacts
  <2>2. client'.pc = "sending" => client'.file \in Files
    BY <2>1 DEF Shapes, TypeOK
  <2>3. TypeOK'
    BY <2>1, <2>2 DEF Shapes, TypeOK, ClientSet
  <2>4. client'.pc = "sending" => client'.counter <= Size[client'.file]
    BY <2>1, <2>2, UdpAssumption
  <2> QED BY <2>1, <2>3, <2>4 DEF Shapes
<1>5. CASE ClientTimesOut
  <2>1. client' = Back /\ damage' = damage \cup {"late"}
        /\ UNCHANGED <<server, files, toServer, toClient, faults>>
    BY <1>5 DEF ClientTimesOut
  <2>2. Back.pc = "user" /\ Back.counter = 0 /\ Back.n = client.n /\ Back \in ClientSet
    BY <1>0, BackFacts
  <2>3. TypeOK'
    BY <2>1, <2>2 DEF Shapes, TypeOK, ClientSet
  <2> QED BY <2>1, <2>2, <2>3 DEF Shapes
<1>6. CASE SendBlock
  <2> DEFINE d == Block(client.file, client.counter, client.n)
  <2>1. /\ client.pc = "sending" /\ client'.pc = "sending" /\ client.file \in Files
        /\ client.counter \in 0 .. Size[client.file] - 1
        /\ client'.counter = client.counter + 1
        /\ client'.n = client.n /\ client'.file = client.file
        /\ client' \in ClientSet
        /\ toServer' = toServer \cup {d}
        /\ UNCHANGED <<server, files, toClient, damage, faults>>
    BY <1>6, SendBlockFacts
  <2>2. d.kind = "block" /\ d.n = client.n
    BY BlockFacts
  <2> HIDE DEF d
  <2>3. TypeOK'
    BY <2>1 DEF Shapes, TypeOK, ClientSet
  <2>4. client.n \in 1 .. client.n
    BY <1>0, <2>1, UdpAssumption DEF Shapes
  <2>5. client'.counter <= Size[client'.file]
    BY <2>1, UdpAssumption
  <2> QED BY <2>1, <2>2, <2>3, <2>4, <2>5 DEF Shapes
<1>7. CASE SendLast
  <2>1. /\ client.pc = "sending" /\ client'.pc = "user" /\ client'.counter = 0
        /\ client'.n = client.n /\ client' \in ClientSet
        /\ UNCHANGED <<server, files, toClient, damage, faults>>
    BY <1>7, SendLastFacts
  <2>2. PICK d : toServer' = toServer \cup {d} /\ d.kind = "last" /\ d.n = client.n
    BY <1>7, SendLastFacts
  <2>3. TypeOK'
    BY <2>1 DEF Shapes, TypeOK, ClientSet
  <2>4. client.n \in 1 .. client.n
    BY <1>0, <2>1, UdpAssumption DEF Shapes
  <2> QED BY <2>1, <2>2, <2>3, <2>4 DEF Shapes
<1>8. ASSUME NEW d \in toServer, Receives(d)
      PROVE  /\ toServer' \subseteq toServer /\ faults' \in 0 .. MaxFaults
             /\ damage' \subseteq {"lost", "late", "dup", "overtaken", "short", "stray",
                                   "gap", "failed", "stored"}
             /\ d.n \in 1 .. client.n
             /\ d.kind = "PREPARE" => d.file \in Files
  <2>1. /\ toServer' \subseteq toServer /\ faults' \in 0 .. MaxFaults
        /\ damage' \subseteq damage \cup {"dup", "overtaken", "short", "stray", "stored"}
    BY <1>0, <1>8, ReceivesFacts
  <2> QED BY <2>1 DEF Shapes, TypeOK
<1>9. CASE ServerAnswers
  <2>1. PICK d \in toServer : Receives(d) /\ toClient' = toClient \cup {Answer(d.n, "line")}
    BY <1>9 DEF ServerAnswers
  <2>2. UNCHANGED <<client, server, files>>
    BY <1>9 DEF ServerAnswers
  <2> QED BY <1>0, <1>8, <2>1, <2>2, ServerKeepsShapes DEF Shapes, TypeOK
<1>10. CASE ServerExits
  <2>1. PICK d \in toServer : Receives(d)
    BY <1>10 DEF ServerExits
  <2>2. server' = [server EXCEPT !.pc = "stopped"] /\ UNCHANGED <<client, files, toClient>>
    BY <1>10 DEF ServerExits
  <2> QED BY <1>0, <1>8, <2>1, <2>2, ServerKeepsShapes DEF Shapes, TypeOK
<1>11. CASE ServerPrepares
  <2>1. PICK d \in toServer :
          /\ d.kind = "PREPARE" /\ Receives(d)
          /\ toClient' = toClient \cup {Answer(d.n, "ready")}
          /\ server' = [pc |-> "upload", file |-> d.file, packets |-> <<>>,
                        unreadable |-> FALSE, quiet |-> 0]
    BY <1>11 DEF ServerPrepares
  <2>2. UNCHANGED <<client, files>>
    BY <1>11 DEF ServerPrepares
  <2> QED BY <1>8, <2>1, <2>2, ServerKeepsShapes DEF Shapes, TypeOK, SoTimeout
<1>12. ASSUME NEW key, NEW value
       PROVE  /\ Put(key, value) = [pc |-> server.pc, file |-> server.file,
                                    packets |-> Put(key, value).packets,
                                    unreadable |-> server.unreadable, quiet |-> 0]
              /\ 0 \in 0 .. SoTimeout
  BY <1>0, PutFacts DEF SoTimeout
<1>13. CASE ServerCollects
  <2>1. PICK d \in toServer : Receives(d) /\ Collects(d)
    BY <1>13 DEF ServerCollects
  <2>2. server.pc = "upload" /\ UNCHANGED <<client, files, toClient>>
    BY <1>13 DEF ServerCollects
  <2>3. /\ server' = [pc |-> server'.pc, file |-> server'.file,
                      packets |-> server'.packets,
                      unreadable |-> server'.unreadable, quiet |-> server'.quiet]
        /\ server'.pc = "upload" /\ server'.file = server.file
        /\ server'.unreadable \in BOOLEAN /\ server'.quiet \in 0 .. SoTimeout
    <3>1. ASSUME NEW key, NEW value, server' = Put(key, value)
          PROVE  /\ server' = [pc |-> server'.pc, file |-> server'.file,
                              packets |-> server'.packets,
                              unreadable |-> server'.unreadable, quiet |-> server'.quiet]
                 /\ server'.pc = "upload" /\ server'.file = server.file
                 /\ server'.unreadable \in BOOLEAN /\ server'.quiet \in 0 .. SoTimeout
      BY <1>0, <1>12, <2>2, <3>1
    <3>2. CASE server' = [server EXCEPT !.unreadable = TRUE, !.quiet = 0]
      <4>1. server' = [pc |-> "upload", file |-> server.file, packets |-> server.packets,
                       unreadable |-> TRUE, quiet |-> 0]
        BY <1>0, <2>2, <3>2
      <4> QED BY <4>1 DEF SoTimeout
    <3>3. \/ \E key, value : server' = Put(key, value)
          \/ server' = [server EXCEPT !.unreadable = TRUE, !.quiet = 0]
      BY <2>1 DEF Collects
    <3> QED BY <3>1, <3>2, <3>3
  <2>4. server.file \in Files
    BY <2>2 DEF Shapes, TypeOK
  <2> QED BY <1>8, <2>1, <2>2, <2>3, <2>4, ServerKeepsShapes
<1>14. CASE Second
  <2>1. /\ server.pc = "upload" /\ server.quiet < SoTimeout
        /\ server' = [server EXCEPT !.quiet = @ + 1]
        /\ UNCHANGED <<client, files, toServer, toClient, damage, faults>>
    BY <1>14 DEF Second
  <2>2. server' = [pc |-> server.pc, file |-> server.file, packets |-> server.packets,
                   unreadable |-> server.unreadable, quiet |-> server.quiet + 1]
    BY <1>0, <2>1
  <2>3. server.quiet + 1 \in 0 .. SoTimeout
    BY <1>0, <2>1 DEF SoTimeout
  <2> QED BY <1>0, <2>1, <2>2, <2>3, ServerKeepsShapes DEF Shapes, TypeOK
<1>15. CASE Placeholder
  <2>1. /\ server.pc = "upload" /\ server' = Put(0, Zero)
        /\ damage' = damage \cup {"gap"}
        /\ UNCHANGED <<client, files, toServer, toClient, faults>>
    BY <1>15 DEF Placeholder
  <2>2. /\ server' = [pc |-> server'.pc, file |-> server'.file,
                      packets |-> server'.packets,
                      unreadable |-> server'.unreadable, quiet |-> server'.quiet]
        /\ server'.pc = "upload" /\ server'.file = server.file
        /\ server'.unreadable \in BOOLEAN /\ server'.quiet \in 0 .. SoTimeout
    BY <1>0, <1>12, <2>1
  <2> QED BY <1>0, <2>1, <2>2, ServerKeepsShapes DEF Shapes, TypeOK
<1>16. CASE ServerWrites
  <2>1. PICK d \in toServer : Receives(d)
    BY <1>16 DEF ServerWrites
  <2>2. /\ server' = [pc |-> "loop", file |-> "none", packets |-> <<>>,
                      unreadable |-> FALSE, quiet |-> 0]
        /\ UNCHANGED <<client, toClient>>
    BY <1>16 DEF ServerWrites
  <2> QED BY <1>8, <2>1, <2>2, ServerKeepsShapes DEF SoTimeout
<1>17. CASE ServerBreaks
  <2>1. PICK d \in toServer : Receives(d)
    BY <1>17 DEF ServerBreaks
  <2>2. server' = [server EXCEPT !.pc = "stopped"] /\ UNCHANGED <<client, files, toClient>>
    BY <1>17 DEF ServerBreaks
  <2> QED BY <1>0, <1>8, <2>1, <2>2, ServerKeepsShapes DEF Shapes, TypeOK
<1>18. CASE ServerFails
  <2>1. /\ faults < MaxFaults /\ toServer' \subseteq toServer
        /\ faults' = faults + 1 /\ damage' = damage \cup {"failed"}
        /\ server' = [server EXCEPT !.pc = "stopped"]
        /\ UNCHANGED <<client, files, toClient>>
    BY <1>18 DEF ServerFails
  <2>2. faults' \in 0 .. MaxFaults
    BY <1>0, <2>1, UdpAssumption
  <2> QED BY <1>0, <2>1, <2>2, ServerKeepsShapes DEF Shapes, TypeOK
<1>19. CASE Lose
  <2>1. /\ faults < MaxFaults /\ faults' = faults + 1 /\ damage' = damage \cup {"lost"}
        /\ toServer' \subseteq toServer /\ toClient' \subseteq toClient
        /\ UNCHANGED <<client, server, files>>
    BY <1>19 DEF Lose
  <2>2. faults' \in 0 .. MaxFaults
    BY <1>0, <2>1, UdpAssumption
  <2> QED BY <1>0, <2>1, <2>2, ServerKeepsShapes DEF Shapes, TypeOK
<1>20. CASE UNCHANGED vars
  BY <1>20 DEF vars, Shapes, TypeOK
<1> QED
  BY <1>1, <1>2, <1>3, <1>4, <1>5, <1>6, <1>7, <1>9, <1>10, <1>11, <1>13, <1>14, <1>15,
     <1>16, <1>17, <1>18, <1>19, <1>20 DEF Next

-----------------------------------------------------------------------------
(* One request at a time *)

LEMMA DamageGrows ==
  ASSUME TypeOK, [Next]_vars
  PROVE  damage \subseteq damage'
<1>1. ASSUME NEW d \in toServer, Receives(d) PROVE damage \subseteq damage'
  BY <1>1, ReceivesFacts
<1>2. CASE ServerReceives
  BY <1>1, <1>2 DEF ServerReceives, ServerAnswers, ServerExits, ServerPrepares,
                    ServerCollects, ServerWrites, ServerBreaks
<1>3. CASE Ask \/ Exit \/ \E f \in Files : Upload(f)
  BY <1>3 DEF Ask, Exit, Upload, Request
<1>4. CASE ClientReads \/ ClientTimesOut \/ SendBlock \/ SendLast
  BY <1>4 DEF ClientReads, ClientTimesOut, SendBlock, SendLast
<1>5. CASE Second \/ Placeholder \/ ServerFails \/ Lose \/ UNCHANGED vars
  BY <1>5 DEF Second, Placeholder, ServerFails, Lose, vars
<1> QED BY <1>2, <1>3, <1>4, <1>5 DEF Next, ServerReceives

\* In a calm network nothing but blocks is collected.
LEMMA CalmCollects ==
  ASSUME TypeOK, ServerCollects, Calm'
  PROVE  \E d \in toServer :
           /\ d.kind = "block" /\ Receives(d)
           /\ server' = Put(ByteIndex(d.index), FileData(d))
<1>1. PICK d \in toServer : d.kind # "last" /\ Receives(d) /\ Collects(d)
  BY DEF ServerCollects
<1>2. d.kind = "block"
  BY <1>1, CalmReceives DEF ServerCollects, OfUpload
<1> QED BY <1>1, <1>2 DEF Collects

LEMMA FewerKeepTurn ==
  ASSUME Turn, client' = client, toServer' \subseteq toServer, toClient' \subseteq toClient
  PROVE  Turn'
  BY DEF Turn

LEMMA RequestKeepsTurn ==
  ASSUME Shapes, Turn, NEW kind \in {"ASK", "EXIT", "PREPARE"},
         NEW pc \in {"answer", "ready", "closed"},
         NEW f \in Files \cup {"none"}, pc = "ready" => f \in Files,
         pc = (CASE kind = "ASK" -> "answer" [] kind = "PREPARE" -> "ready"
                 [] kind = "EXIT" -> "closed"),
         Request(kind, pc, f)
  PROVE  Turn'
<1> DEFINE d == [Datagram(kind, client.n + 1) EXCEPT !.file = f]
<1>1. /\ client.pc = "user" /\ client'.pc = pc /\ client'.n = client.n + 1
      /\ client.n \in Nat /\ client'.file = f
      /\ toServer' = toServer \cup {d} /\ toClient' = toClient
  BY RequestFacts DEF Shapes
<1>2. d.kind = kind /\ d = [Datagram(kind, client'.n) EXCEPT !.file = client'.file]
  BY <1>1, DatagramFacts
<1> HIDE DEF d
<1>3. toClient = {}
  BY <1>1 DEF Turn
<1>4. ASSUME NEW e \in toServer
      PROVE  OfUpload(e) /\ e.n < client'.n /\ e.kind \notin {"ASK", "PREPARE", "EXIT"}
  BY <1>1 DEF Turn, Shapes, OfUpload
<1>5. ASSUME NEW e \in toServer'
      PROVE  /\ e.kind \in {"ASK", "PREPARE"} =>
                  /\ client'.pc = (IF e.kind = "ASK" THEN "answer" ELSE "ready")
                  /\ e = [Datagram(e.kind, client'.n) EXCEPT !.file = client'.file]
                  /\ toClient' = {}
             /\ e.kind = "EXIT" => client'.pc = "closed"
             /\ (OfUpload(e) /\ client'.pc \in {"answer", "ready"}) => e.n < client'.n
  <2>1. CASE e = d
    BY <1>1, <1>2, <1>3, <2>1 DEF OfUpload
  <2>2. CASE e # d
    BY <1>1, <1>4, <2>2
  <2> QED BY <2>1, <2>2
<1> QED BY <1>1, <1>3, <1>5 DEF Turn

\* The server answers the request of the client that waits for it.
LEMMA AnswerKeepsTurn ==
  ASSUME Turn, NEW d \in toServer, d.kind \in {"ASK", "PREPARE"},
         toServer' = toServer \ {d}, client' = client,
         toClient' = toClient \cup {Answer(d.n, IF d.kind = "ASK" THEN "line" ELSE "ready")}
  PROVE  Turn' /\ toClient = {} /\ client.pc = (IF d.kind = "ASK" THEN "answer" ELSE "ready")
<1>1. /\ client.pc = (IF d.kind = "ASK" THEN "answer" ELSE "ready")
      /\ d = [Datagram(d.kind, client.n) EXCEPT !.file = client.file]
      /\ toClient = {}
  BY DEF Turn
<1>2. d.n = client.n
  <2> DEFINE k == d.kind
             e == [Datagram(k, client.n) EXCEPT !.file = client.file]
  <2>1. e.n = client.n
    BY DatagramFacts
  <2>2. d = e
    BY <1>1
  <2> QED BY <2>1, <2>2
<1>3. ASSUME NEW e \in toServer' PROVE e.kind \notin {"ASK", "PREPARE"}
  <2> SUFFICES ASSUME e.kind \in {"ASK", "PREPARE"} PROVE e = d
    OBVIOUS
  <2>1. client.pc = (IF e.kind = "ASK" THEN "answer" ELSE "ready")
        /\ e = [Datagram(e.kind, client.n) EXCEPT !.file = client.file]
    BY DEF Turn
  <2>2. e.kind = d.kind
    BY <1>1, <2>1
  <2> QED BY <1>1, <2>1, <2>2
<1>4. \A a \in toClient' :
        /\ client'.pc \in {"answer", "ready"}
        /\ a = Answer(client'.n, IF client'.pc = "answer" THEN "line" ELSE "ready")
  BY <1>1, <1>2
<1> QED BY <1>1, <1>3, <1>4 DEF Turn

LEMMA NextTurn ==
  ASSUME Shapes, Calm => Turn, [Next]_vars, Calm'
  PROVE  Calm /\ Turn /\ Turn'
<1>1. Calm /\ Turn /\ TypeOK
  BY DamageGrows DEF Calm, Harmless, Shapes
<1>2. ASSUME NEW d \in toServer, Receives(d)
      PROVE  /\ ~(server.pc = "loop" /\ OfUpload(d))
             /\ d.kind # "block" => toServer' = toServer \ {d}
             /\ toServer' \subseteq toServer
  BY <1>1, <1>2, CalmReceives
<1>3. CASE Ask
  BY <1>1, <1>3, RequestKeepsTurn DEF Ask
<1>4. CASE Exit
  BY <1>1, <1>4, RequestKeepsTurn DEF Exit
<1>5. ASSUME NEW f \in Files, Upload(f) PROVE Turn'
  BY <1>1, <1>5, RequestKeepsTurn DEF Upload
<1>6. CASE ClientReads
  <2>1. PICK a \in toClient :
         /\ client.pc \in {"answer", "ready"}
         /\ toClient' = toClient \ {a}
         /\ client'.read = a /\ client'.n = client.n
         /\ IF client.pc = "ready" /\ a.what = "ready"
              THEN client'.pc = "sending" /\ client'.file = client.file
              ELSE client'.pc = "user" /\ client'.file = "none"
         /\ UNCHANGED <<server, files, toServer, damage, faults>>
    BY <1>6, ReadsFacts
  <2>2. \A e \in toServer : e.kind \notin {"ASK", "PREPARE", "EXIT"}
    BY <1>1, <2>1 DEF Turn
  <2>3. \A b \in toClient : b = Answer(client.n, IF client.pc = "answer" THEN "line" ELSE "ready")
    BY <1>1 DEF Turn
  <2>4. toClient' = {}
    BY <2>1, <2>3
  <2>5. a.n = client.n /\ a.what = (IF client.pc = "answer" THEN "line" ELSE "ready")
    BY <2>3 DEF Answer
  <2>6. client'.read.n = client'.n
    BY <2>1, <2>5
  <2>7. client'.pc = "sending" => client'.read = Answer(client'.n, "ready")
    BY <2>1, <2>3, <2>5
  <2> QED BY <1>1, <2>1, <2>2, <2>4, <2>6, <2>7 DEF Turn
<1>7. ~ClientTimesOut
  BY DEF ClientTimesOut, Calm, Harmless
<1>8. CASE SendBlock
  <2>1. /\ client.pc = "sending" /\ client'.pc = "sending"
        /\ client'.n = client.n /\ client'.read = client.read
        /\ toServer' = toServer \cup {Block(client.file, client.counter, client.n)}
        /\ toClient' = toClient
    BY <1>8, SendBlockFacts
  <2>2. Block(client.file, client.counter, client.n).kind = "block"
    BY BlockFacts
  <2> QED BY <1>1, <2>1, <2>2 DEF Turn
<1>9. CASE SendLast
  <2>1. /\ client.pc = "sending" /\ client'.pc = "user"
        /\ client'.n = client.n /\ client'.read = client.read
        /\ toClient' = toClient
    BY <1>9, SendLastFacts
  <2>2. PICK d : toServer' = toServer \cup {d} /\ d.kind = "last"
    BY <1>9, SendLastFacts
  <2>3. client.read.n = client.n
    BY <1>1, <2>1 DEF Turn, Answer
  <2> QED BY <1>1, <2>1, <2>2, <2>3 DEF Turn
<1>10. CASE ServerAnswers
  <2>1. PICK d \in toServer : /\ d.kind \in {"ASK", "block", "last"} /\ Receives(d)
                              /\ toClient' = toClient \cup {Answer(d.n, "line")}
    BY <1>10 DEF ServerAnswers
  <2>2. server.pc = "loop" /\ client' = client
    BY <1>10 DEF ServerAnswers
  <2>3. d.kind = "ASK"
    BY <1>2, <2>1, <2>2 DEF OfUpload
  <2> QED BY <1>1, <1>2, <2>1, <2>2, <2>3, AnswerKeepsTurn
<1>11. CASE ServerPrepares
  <2>1. PICK d \in toServer : /\ d.kind = "PREPARE" /\ Receives(d)
                              /\ toClient' = toClient \cup {Answer(d.n, "ready")}
    BY <1>11 DEF ServerPrepares
  <2>2. client' = client
    BY <1>11 DEF ServerPrepares
  <2> QED BY <1>1, <1>2, <2>1, <2>2, AnswerKeepsTurn
<1>12. CASE ServerExits \/ ServerCollects \/ ServerWrites \/ ServerBreaks
  <2>1. client' = client /\ toClient' = toClient /\ toServer' \subseteq toServer
    BY <1>2, <1>12 DEF ServerExits, ServerCollects, ServerWrites, ServerBreaks
  <2> QED BY <1>1, <2>1, FewerKeepTurn
<1>13. CASE Second \/ Placeholder \/ ServerFails \/ Lose \/ UNCHANGED vars
  <2>1. client' = client /\ toClient' \subseteq toClient /\ toServer' \subseteq toServer
    BY <1>13 DEF Second, Placeholder, ServerFails, Lose, vars
  <2> QED BY <1>1, <2>1, FewerKeepTurn
<1>14. Turn'
  BY <1>3, <1>4, <1>5, <1>6, <1>7, <1>8, <1>9, <1>10, <1>11, <1>12, <1>13 DEF Next
<1> QED BY <1>1, <1>14

-----------------------------------------------------------------------------
(* One upload at a time *)

LEMMA FewerKeepFeed ==
  ASSUME Feed, client' = client, toServer' \subseteq toServer, toClient' \subseteq toClient,
         server'.pc = server.pc, server'.file = server.file
  PROVE  Feed'
<1>1. /\ (client'.pc = "sending" \/ (client'.pc = "ready" /\ toClient' # {})) =>
           server'.pc = "upload" /\ server'.file = client'.file
      /\ (client'.pc = "ready" /\ toClient' # {}) => toServer' = {}
      /\ client'.pc = "sending" => \A d \in toServer' : d.kind = "block" /\ d.n = client'.n
  BY DEF Feed
<1>2. ASSUME server'.pc = "upload"
      PROVE  /\ \A d, e \in toServer' : (OfUpload(d) /\ OfUpload(e)) => d.n = e.n
             /\ \A d \in toServer' : d.kind = "block" =>
                  \E i \in 0 .. Size[server'.file] - 1 : d = Block(server'.file, i, d.n)
             /\ \A d \in toServer' : d.kind = "last" =>
                  d.index = ToByteArray(Size[server'.file])
  BY <1>2 DEF Feed
<1> QED BY <1>1, <1>2 DEF Feed

LEMMA RequestKeepsFeed ==
  ASSUME Shapes, Turn, Feed, NEW kind \in {"ASK", "EXIT", "PREPARE"},
         NEW pc \in {"answer", "ready", "closed"},
         NEW f \in Files \cup {"none"}, pc = "ready" => f \in Files,
         Request(kind, pc, f)
  PROVE  Feed'
<1> DEFINE d == [Datagram(kind, client.n + 1) EXCEPT !.file = f]
<1>1. /\ client.pc = "user" /\ client'.pc = pc
      /\ toServer' = toServer \cup {d}
      /\ UNCHANGED <<server, toClient>>
  BY RequestFacts DEF Shapes
<1>2. d.kind = kind
  BY DatagramFacts
<1> HIDE DEF d
<1>3. toClient' = {} /\ client'.pc # "sending"
  BY <1>1 DEF Turn
<1>4. \A e \in toServer' : OfUpload(e) => e \in toServer
  BY <1>1, <1>2 DEF OfUpload
<1>5. ASSUME server'.pc = "upload"
      PROVE  /\ \A e1, e2 \in toServer' : (OfUpload(e1) /\ OfUpload(e2)) => e1.n = e2.n
             /\ \A e \in toServer' : e.kind = "block" =>
                  \E i \in 0 .. Size[server'.file] - 1 : e = Block(server'.file, i, e.n)
             /\ \A e \in toServer' : e.kind = "last" =>
                  e.index = ToByteArray(Size[server'.file])
  <2>1. \A e \in toServer' : e.kind \in {"block", "last"} => e \in toServer
    BY <1>4 DEF OfUpload
  <2> QED BY <1>1, <1>4, <1>5, <2>1 DEF Feed
<1> QED BY <1>3, <1>5 DEF Feed

LEMMA NextFeed ==
  ASSUME Shapes, Calm, Turn, Feed, [Next]_vars, Calm', Turn'
  PROVE  Feed'
<1>0. TypeOK
  BY DEF Shapes
<1>1. CASE Ask
  BY <1>1, RequestKeepsFeed DEF Ask
<1>2. CASE Exit
  BY <1>2, RequestKeepsFeed DEF Exit
<1>3. ASSUME NEW f \in Files, Upload(f) PROVE Feed'
  BY <1>3, RequestKeepsFeed DEF Upload
<1>4. CASE ClientReads
  <2>1. PICK a \in toClient :
         /\ client.pc \in {"answer", "ready"}
         /\ client'.n = client.n
         /\ IF client.pc = "ready" /\ a.what = "ready"
              THEN client'.pc = "sending" /\ client'.file = client.file
              ELSE client'.pc = "user" /\ client'.file = "none"
         /\ UNCHANGED <<server, toServer>>
    BY <1>4, ReadsFacts
  <2>2. CASE client.pc = "ready" /\ a.what = "ready"
    BY <2>1, <2>2 DEF Feed
  <2>3. CASE ~(client.pc = "ready" /\ a.what = "ready")
    BY <2>1, <2>3 DEF Feed
  <2> QED BY <2>2, <2>3
<1>5. ~ClientTimesOut /\ ~ServerFails
  BY DEF ClientTimesOut, ServerFails, Calm, Harmless
<1>6. CASE SendBlock
  <2> DEFINE b == Block(client.file, client.counter, client.n)
             f == client.file
  <2>1. /\ client.pc = "sending" /\ client'.pc = "sending"
        /\ client.counter \in 0 .. Size[f] - 1
        /\ client'.n = client.n /\ client'.file = f
        /\ toServer' = toServer \cup {b}
        /\ UNCHANGED <<server, toClient>>
    BY <1>6, SendBlockFacts
  <2>2. b.kind = "block" /\ b.n = client.n /\ b = Block(f, client.counter, b.n)
    BY BlockFacts
  <2>3. server.pc = "upload" /\ server.file = f
    BY <2>1 DEF Feed
  <2> HIDE DEF b, f
  <2>4. ASSUME NEW e \in toServer'
        PROVE  /\ e.kind = "block" /\ e.n = client.n
               /\ \E i \in 0 .. Size[f] - 1 : e = Block(f, i, e.n)
    <3>1. CASE e = b
      BY <2>1, <2>2, <3>1
    <3>2. CASE e # b
      BY <2>1, <2>3, <3>2 DEF Feed
    <3> QED BY <3>1, <3>2
  <2> QED BY <2>1, <2>3, <2>4 DEF Feed
<1>7. CASE SendLast
  <2>1. /\ client.pc = "sending" /\ client'.pc = "user"
        /\ client.counter = Size[client.file] /\ client'.n = client.n
        /\ UNCHANGED <<server, toClient>>
    BY <1>7, SendLastFacts
  <2>2. PICK b : /\ toServer' = toServer \cup {b} /\ b.kind = "last" /\ b.n = client.n
                 /\ b.index = ToByteArray(client.counter)
    BY <1>7, SendLastFacts
  <2>3. server.pc = "upload" /\ server.file = client.file
    BY <2>1 DEF Feed
  <2>4. ASSUME NEW e \in toServer'
        PROVE  /\ e.n = client.n
               /\ e.kind = "block" =>
                    \E i \in 0 .. Size[server.file] - 1 : e = Block(server.file, i, e.n)
               /\ e.kind = "last" => e.index = ToByteArray(Size[server.file])
    <3>1. CASE e = b
      BY <2>1, <2>2, <2>3, <3>1
    <3>2. CASE e # b
      BY <2>1, <2>2, <2>3, <3>2 DEF Feed
    <3> QED BY <3>1, <3>2
  <2> QED BY <2>1, <2>4 DEF Feed
<1>8. ASSUME NEW d \in toServer, Receives(d)
      PROVE  /\ ~(server.pc = "loop" /\ OfUpload(d)) /\ ~Overtakes(d)
             /\ d.kind # "block" => toServer' = toServer \ {d}
             /\ toServer' \subseteq toServer
  BY <1>0, <1>8, CalmReceives
<1>9. CASE ServerAnswers
  <2>1. PICK d \in toServer : /\ d.kind \in {"ASK", "block", "last"} /\ Receives(d)
    BY <1>9 DEF ServerAnswers
  <2>2. server.pc = "loop" /\ UNCHANGED <<client, server>>
    BY <1>9 DEF ServerAnswers
  <2>3. d.kind = "ASK"
    BY <1>8, <2>1, <2>2 DEF OfUpload
  <2>4. client.pc = "answer"
    BY <2>1, <2>3 DEF Turn
  <2> QED BY <2>2, <2>4 DEF Feed
<1>10. CASE ServerExits
  <2>1. PICK d \in toServer : d.kind = "EXIT"
    BY <1>10 DEF ServerExits
  <2>2. client' = client /\ server'.pc = "stopped"
    BY <1>10 DEF ServerExits, Shapes
  <2>3. client.pc = "closed"
    BY <2>1 DEF Turn
  <2> QED BY <2>2, <2>3 DEF Feed
<1>11. CASE ServerPrepares
  <2>1. PICK d \in toServer :
          /\ d.kind = "PREPARE" /\ Receives(d)
          /\ toClient' = toClient \cup {Answer(d.n, "ready")}
          /\ server' = [pc |-> "upload", file |-> d.file, packets |-> <<>>,
                        unreadable |-> FALSE, quiet |-> 0]
    BY <1>11 DEF ServerPrepares
  <2>2. client' = client
    BY <1>11 DEF ServerPrepares
  <2>3. /\ client.pc = "ready"
        /\ d = [Datagram("PREPARE", client.n) EXCEPT !.file = client.file]
    BY <2>1 DEF Turn
  <2>4. d.n = client.n /\ d.file = client.file
    BY <2>3, DatagramFacts
  <2>5. toServer' = toServer \ {d} /\ ~Overtakes(d)
    BY <1>8, <2>1
  <2>6. ASSUME NEW e \in toServer' PROVE FALSE
    <3>1. e \in toServer /\ ~(e.n < client.n)
      BY <2>4, <2>5 DEF Overtakes
    <3>2. ~OfUpload(e) /\ e.kind # "EXIT"
      BY <2>3, <3>1 DEF Turn
    <3>3. e.kind \notin {"ASK", "PREPARE"}
      BY <2>1 DEF Turn
    <3> QED BY <3>1, <3>2, <3>3 DEF Shapes, OfUpload
  <2>7. toServer' = {}
    BY <2>6
  <2> QED BY <2>1, <2>2, <2>3, <2>4, <2>7 DEF Feed
<1>12. CASE ServerWrites \/ ServerBreaks
  <2>1. PICK d \in toServer : d.kind = "last"
    BY <1>12 DEF ServerWrites, ServerBreaks
  <2>2. client' = client /\ toClient' = toClient /\ server'.pc # "upload"
    BY <1>12 DEF ServerWrites, ServerBreaks, Shapes
  <2>3. client.pc # "sending" /\ ~(client.pc = "ready" /\ toClient # {})
    BY <2>1 DEF Feed
  <2> QED BY <2>2, <2>3 DEF Feed
<1>13. ASSUME NEW key, NEW value
       PROVE  Put(key, value).pc = server.pc /\ Put(key, value).file = server.file
  <2>1. server = [pc |-> server.pc, file |-> server.file,
                  packets |-> server.packets,
                  unreadable |-> server.unreadable, quiet |-> server.quiet]
    BY DEF Shapes
  <2> QED BY <2>1, PutFacts
<1>14. CASE ServerCollects
  <2>1. PICK d \in toServer : Receives(d) /\ server' = Put(ByteIndex(d.index), FileData(d))
    BY <1>14, CalmCollects DEF Shapes
  <2>2. client' = client /\ toClient' = toClient
    BY <1>14 DEF ServerCollects
  <2>3. server'.pc = server.pc /\ server'.file = server.file
    BY <1>13, <2>1
  <2> QED BY <1>8, <2>1, <2>2, <2>3, FewerKeepFeed
<1>15. CASE Second \/ Placeholder
  <2>1. UNCHANGED <<client, toClient, toServer>>
    BY <1>15 DEF Second, Placeholder
  <2>2. server'.pc = server.pc /\ server'.file = server.file
    BY <1>13, <1>15 DEF Second, Placeholder, Shapes
  <2> QED BY <2>1, <2>2, FewerKeepFeed
<1>16. CASE Lose \/ UNCHANGED vars
  <2>1. UNCHANGED <<client, server>> /\ toServer' \subseteq toServer /\ toClient' \subseteq toClient
    BY <1>16 DEF Lose, vars
  <2> QED BY <2>1, FewerKeepFeed
<1> QED
  BY <1>1, <1>2, <1>3, <1>4, <1>5, <1>6, <1>7, <1>9, <1>10, <1>11, <1>12, <1>14, <1>15,
     <1>16 DEF Next

-----------------------------------------------------------------------------
(* What has been collected, and what is still to come *)

\* A block whose index fits comes out as it went in.
LEMMA BlockTravels ==
  ASSUME NEW f \in Files, Numbered(f), NEW i \in 0 .. Size[f] - 1, NEW n
  PROVE  /\ ByteIndex(Block(f, i, n).index) = i
         /\ FileData(Block(f, i, n)) = Data(f, i)
<1> DEFINE Half == Power[IndexBytes] \div 2
<1>1. Size[f] \in Nat /\ IndexBytes \in Nat /\ i \in Nat
  BY UdpAssumption
<1>2. Power[IndexBytes] \in Nat
  BY <1>1, PowerDef
<1>3. i < Half
  BY <1>1, <1>2 DEF Numbered
<1>4. Len(IndexData(i)) = IndexBytes /\ ByteIndex(IndexData(i)) = i
  BY <1>1, <1>3, IndexComesBack
<1> QED BY <1>4, BlockFacts DEF FileData

LEMMA NextCollected ==
  ASSUME Shapes, Calm, Turn, Feed, Collected, [Next]_vars, Calm'
  PROVE  Collected'
<1>0. /\ TypeOK
      /\ server = [pc |-> server.pc, file |-> server.file,
                   packets |-> server.packets,
                   unreadable |-> server.unreadable, quiet |-> server.quiet]
      /\ damage \subseteq damage'
  BY DamageGrows DEF Shapes
<1> SUFFICES ASSUME server'.pc = "upload", Numbered(server'.file),
                    NEW k \in DOMAIN server'.packets
             PROVE  /\ k \in Nat
                    /\ \/ server'.packets[k] = Data(server'.file, k)
                       \/ k = 0 /\ server'.packets[k] = Zero /\ "gap" \in damage'
  BY DEF Collected
<1> DEFINE Goal == /\ k \in Nat
                   /\ \/ server'.packets[k] = Data(server'.file, k)
                      \/ k = 0 /\ server'.packets[k] = Zero /\ "gap" \in damage'
<1>1. ASSUME server.pc = "upload", server'.file = server.file,
             k \in DOMAIN server.packets, server'.packets[k] = server.packets[k]
      PROVE  Goal
  BY <1>0, <1>1 DEF Collected, Numbered
<1>2. CASE Ask \/ Exit \/ (\E f \in Files : Upload(f)) \/ Lose \/ UNCHANGED vars
  <2>1. server' = server
    BY <1>2 DEF Ask, Exit, Upload, Request, Lose, vars
  <2> QED BY <1>1, <2>1
<1>3. CASE ClientReads \/ ClientTimesOut \/ SendBlock \/ SendLast \/ ServerAnswers
  <2>1. server' = server
    BY <1>3 DEF ClientReads, ClientTimesOut, SendBlock, SendLast, ServerAnswers
  <2> QED BY <1>1, <2>1
<1>4. ~ServerExits /\ ~ServerFails /\ ~ServerWrites /\ ~ServerBreaks
  BY <1>0 DEF ServerExits, ServerFails, ServerWrites, ServerBreaks
<1>5. ~ServerPrepares
  <2> SUFFICES ASSUME ServerPrepares PROVE FALSE
    OBVIOUS
  <2>1. server'.packets = <<>>
    BY DEF ServerPrepares
  <2> QED BY <2>1
<1>6. CASE Second
  <2>1. /\ server.pc = "upload" /\ server'.file = server.file
        /\ server'.packets = server.packets
    BY <1>0, <1>6 DEF Second
  <2> QED BY <1>1, <2>1
<1>7. ASSUME NEW key, NEW value, server.pc = "upload", server' = Put(key, value), k # key
      PROVE  Goal
  <2>1. /\ server'.file = server.file
        /\ DOMAIN server'.packets = DOMAIN server.packets \cup {key}
        /\ \A x \in DOMAIN server.packets \cup {key} :
             server'.packets[x] = IF x = key THEN value ELSE server.packets[x]
    BY <1>0, <1>7, PutFacts
  <2> QED BY <1>1, <1>7, <2>1
<1>8. ASSUME NEW key, NEW value, server' = Put(key, value)
      PROVE  server'.file = server.file /\ server'.packets[key] = value
  BY <1>0, <1>8, PutFacts
<1>9. CASE ServerCollects
  <2>1. PICK d \in toServer :
          d.kind = "block" /\ server' = Put(ByteIndex(d.index), FileData(d))
    BY <1>0, <1>9, CalmCollects
  <2>2. server.pc = "upload" /\ server'.file = server.file
    BY <1>8, <1>9, <2>1 DEF ServerCollects
  <2>3. PICK i \in 0 .. Size[server.file] - 1 : d = Block(server.file, i, d.n)
    BY <2>1, <2>2 DEF Feed
  <2>4. server.file \in Files /\ Numbered(server.file)
    BY <1>0, <2>2 DEF TypeOK
  <2>5. ByteIndex(d.index) = i /\ FileData(d) = Data(server.file, i)
    <3> DEFINE n == d.n
    <3>1. d = Block(server.file, i, n)
      BY <2>3
    <3> HIDE DEF n
    <3> QED BY <2>4, <3>1, BlockTravels
  <2>6. CASE k = i
    <3>1. server'.packets[k] = Data(server'.file, k)
      BY <1>8, <2>1, <2>2, <2>5, <2>6
    <3>2. k \in Nat
      BY <2>4, <2>6, UdpAssumption
    <3> QED BY <3>1, <3>2
  <2>7. CASE k # i
    BY <1>7, <2>1, <2>2, <2>5, <2>7
  <2> QED BY <2>6, <2>7
<1>10. CASE Placeholder
  <2>1. server.pc = "upload" /\ server' = Put(0, Zero) /\ "gap" \in damage'
    BY <1>10 DEF Placeholder
  <2>2. CASE k = 0
    BY <1>8, <2>1, <2>2
  <2>3. CASE k # 0
    BY <1>7, <2>1, <2>3
  <2> QED BY <2>2, <2>3
<1> QED BY <1>2, <1>3, <1>4, <1>5, <1>6, <1>9, <1>10 DEF Next

\* What is still to come stays on its way or is collected.
LEMMA CompleteStays ==
  ASSUME Shapes, Feed, Complete, Harmless({"gap"}), server.pc = "upload",
         server'.file = server.file, DOMAIN server.packets \subseteq DOMAIN server'.packets,
         \A i \in 0 .. Size[server.file] - 1 : \A n \in Nat :
           (Numbered(server.file) /\ Block(server.file, i, n) \in toServer) =>
             i \in DOMAIN server'.packets \/ Block(server.file, i, n) \in toServer',
         client'.pc = "sending" => client' = client,
         \A d \in toServer' : d.kind = "last" => d \in toServer
  PROVE  Complete'
<1> SUFFICES ASSUME Numbered(server'.file)
             PROVE  /\ client'.pc = "sending" =>
                         \A i \in 0 .. client'.counter - 1 : Here(i, client.n)'
                    /\ \A d \in toServer' : d.kind = "last" =>
                         \A i \in 0 .. Size[server'.file] - 1 : Here(i, d.n)'
  BY DEF Complete
<1>1. Numbered(server.file)
  BY DEF Numbered
<1>2. ASSUME NEW i \in 0 .. Size[server.file] - 1, NEW n \in Nat, Here(i, n)
      PROVE  i \in DOMAIN server'.packets \/ Block(server'.file, i, n) \in toServer'
  BY <1>1, <1>2 DEF Here
<1>3. ASSUME client'.pc = "sending", NEW i \in 0 .. client'.counter - 1
      PROVE  Here(i, client.n)'
  <2>1. client.pc = "sending" /\ client'.n = client.n /\ client'.counter = client.counter
    BY <1>3
  <2>2. Here(i, client.n)
    BY <1>1, <1>3, <2>1 DEF Complete
  <2>3. /\ client.counter <= Size[client.file] /\ client.file = server.file
        /\ client.file \in Files
    BY <2>1 DEF Shapes, Feed, TypeOK
  <2>4. /\ Size[server.file] \in Nat /\ client.counter \in Nat /\ client.n \in Nat
    BY <2>3, UdpAssumption DEF Shapes, TypeOK
  <2>5. i \in 0 .. Size[server.file] - 1
    BY <1>3, <2>1, <2>3, <2>4
  <2> QED BY <1>2, <2>1, <2>2, <2>4, <2>5 DEF Here
<1>4. ASSUME NEW d \in toServer', d.kind = "last", NEW i \in 0 .. Size[server'.file] - 1
      PROVE  Here(i, d.n)'
  <2>1. d \in toServer /\ i \in 0 .. Size[server.file] - 1
    BY <1>4
  <2>2. Here(i, d.n)
    BY <1>1, <1>4, <2>1 DEF Complete
  <2>3. d.n \in Nat
    BY <2>1, UdpAssumption DEF Shapes, TypeOK
  <2> QED BY <1>2, <2>1, <2>2, <2>3 DEF Here
<1> QED BY <1>3, <1>4

LEMMA NextComplete ==
  ASSUME Shapes, Calm, Turn, Feed, Complete, [Next]_vars, Calm', Feed', Harmless({"gap"})'
  PROVE  Complete'
<1>0. /\ TypeOK
      /\ server = [pc |-> server.pc, file |-> server.file,
                   packets |-> server.packets,
                   unreadable |-> server.unreadable, quiet |-> server.quiet]
      /\ Harmless({"gap"})
  BY DamageGrows DEF Shapes, Harmless
<1> SUFFICES ASSUME server'.pc = "upload" PROVE Complete'
  BY DEF Complete
<1>1. ASSUME server' = server, toServer \subseteq toServer',
             client'.pc = "sending" => client' = client,
             \A d \in toServer' : d.kind = "last" => d \in toServer
      PROVE  Complete'
  BY <1>0, <1>1, CompleteStays
<1>2. CASE Ask \/ Exit \/ \E f \in Files : Upload(f)
  <2>1. PICK kind \in {"ASK", "EXIT", "PREPARE"}, pc \in {"answer", "ready", "closed"},
             f \in Files \cup {"none"} :
          Request(kind, pc, f) /\ (pc = "ready" => f \in Files)
    BY <1>2 DEF Ask, Exit, Upload
  <2> DEFINE d == [Datagram(kind, client.n + 1) EXCEPT !.file = f]
  <2>2. /\ client'.pc = pc /\ server' = server
        /\ toServer' = toServer \cup {d}
    BY <1>0, <2>1, RequestFacts
  <2>3. d.kind # "last"
    BY DatagramFacts
  <2> HIDE DEF d
  <2> QED BY <1>1, <2>2, <2>3
<1>3. CASE ClientReads
  <2>1. /\ client'.pc \in {"user", "sending"} /\ client'.counter = 0
        /\ client'.pc = "sending" => client.pc = "ready" /\ toClient # {}
        /\ UNCHANGED <<server, toServer>>
    BY <1>3, ReadsFacts
  <2>2. CASE client'.pc = "sending"
    <3>1. toServer' = {}
      BY <2>1, <2>2 DEF Feed
    <3> QED BY <2>1, <3>1 DEF Complete
  <2>3. CASE client'.pc # "sending"
    BY <1>1, <2>1, <2>3
  <2> QED BY <2>2, <2>3
<1>4. ~ClientTimesOut /\ ~ServerFails /\ ~Lose
  BY DEF ClientTimesOut, ServerFails, Lose, Calm, Harmless
<1>5. CASE SendBlock
  <2> DEFINE b == Block(client.file, client.counter, client.n)
  <2>1. /\ client.pc = "sending" /\ client'.pc = "sending"
        /\ client.counter \in 0 .. Size[client.file] - 1
        /\ client'.counter = client.counter + 1 /\ client'.n = client.n
        /\ toServer' = toServer \cup {b} /\ server' = server
    BY <1>5, SendBlockFacts
  <2>2. b.kind = "block"
    BY BlockFacts
  <2>3. server.file = client.file /\ \A d \in toServer : d.kind = "block"
    BY <2>1 DEF Feed
  <2>4. b = Block(server.file, client.counter, client.n)
    BY <2>3
  <2> HIDE DEF b
  <2>5. ASSUME Numbered(server.file), NEW i \in 0 .. client'.counter - 1
        PROVE  Here(i, client.n)'
    <3>1. CASE i = client.counter
      BY <2>1, <2>4, <3>1 DEF Here
    <3>2. CASE i # client.counter
      <4>1. i \in 0 .. client.counter - 1
        BY <1>0, <2>1, <2>5, <3>2 DEF TypeOK
      <4>2. Here(i, client.n)
        BY <1>0, <2>1, <2>5, <4>1 DEF Complete
      <4> QED BY <2>1, <4>2 DEF Here
    <3> QED BY <3>1, <3>2
  <2>6. \A d \in toServer' : d.kind # "last"
    BY <2>1, <2>2, <2>3
  <2>7. Numbered(server.file)' <=> Numbered(server.file)
    BY <2>1 DEF Numbered
  <2> QED BY <2>5, <2>6, <2>7 DEF Complete
<1>6. CASE SendLast
  <2>1. /\ client.pc = "sending" /\ client'.pc = "user" /\ server' = server
        /\ client.counter = Size[client.file]
    BY <1>6, SendLastFacts
  <2>2. PICK b : toServer' = toServer \cup {b} /\ b.kind = "last" /\ b.n = client.n
    BY <1>6, SendLastFacts
  <2>3. server.file = client.file /\ \A d \in toServer : d.kind = "block"
    BY <2>1 DEF Feed
  <2>4. ASSUME Numbered(server.file), NEW i \in 0 .. Size[server.file] - 1,
               NEW d \in toServer', d.kind = "last"
        PROVE  Here(i, d.n)'
    <3>1. d = b /\ i \in 0 .. client.counter - 1
      BY <2>1, <2>2, <2>3, <2>4
    <3>2. Here(i, client.n)
      BY <1>0, <2>1, <2>4, <3>1 DEF Complete
    <3> QED BY <2>1, <2>2, <3>1, <3>2 DEF Here
  <2>5. Numbered(server.file)' <=> Numbered(server.file)
    BY <2>1 DEF Numbered
  <2> QED BY <2>1, <2>4, <2>5 DEF Complete
<1>7. ~ServerAnswers /\ ~ServerExits /\ ~ServerWrites /\ ~ServerBreaks
  BY <1>0 DEF ServerAnswers, ServerExits, ServerWrites, ServerBreaks
<1>8. CASE ServerPrepares
  <2>1. PICK d \in toServer : /\ d.kind = "PREPARE"
                              /\ toClient' = toClient \cup {Answer(d.n, "ready")}
    BY <1>8 DEF ServerPrepares
  <2>2. client' = client
    BY <1>8 DEF ServerPrepares
  <2>3. client'.pc = "ready" /\ toClient' # {}
    BY <2>1, <2>2 DEF Turn
  <2>4. toServer' = {}
    BY <2>3 DEF Feed
  <2> QED BY <2>3, <2>4 DEF Complete
<1>9. CASE ServerCollects
  <2>1. PICK d \in toServer : Receives(d) /\ server' = Put(ByteIndex(d.index), FileData(d))
    BY <1>0, <1>9, CalmCollects
  <2>2. server.pc = "upload" /\ client' = client
    BY <1>9 DEF ServerCollects
  <2>3. toServer' \subseteq toServer /\ toServer \ {d} \subseteq toServer'
    BY <1>0, <2>1, CalmReceives
  <2>4. /\ server'.file = server.file /\ DOMAIN server.packets \subseteq DOMAIN server'.packets
        /\ ByteIndex(d.index) \in DOMAIN server'.packets
    BY <1>0, <2>1, PutFacts
  <2>5. server.file \in Files
    BY <1>0, <2>2 DEF TypeOK
  <2>6. ASSUME NEW i \in 0 .. Size[server.file] - 1, NEW n \in Nat,
               Numbered(server.file), Block(server.file, i, n) \in toServer
        PROVE  i \in DOMAIN server'.packets \/ Block(server.file, i, n) \in toServer'
    <3>1. CASE d = Block(server.file, i, n)
      <4>1. ByteIndex(d.index) = i
        BY <2>5, <2>6, <3>1, BlockTravels
      <4> QED BY <2>4, <4>1
    <3>2. CASE d # Block(server.file, i, n)
      BY <2>3, <2>6, <3>2
    <3> QED BY <3>1, <3>2
  <2> QED BY <1>0, <2>2, <2>3, <2>4, <2>6, CompleteStays
<1>10. CASE Second \/ Placeholder
  <2>1. /\ server.pc = "upload" /\ UNCHANGED <<client, toServer>>
    BY <1>10 DEF Second, Placeholder
  <2>2. server'.file = server.file /\ DOMAIN server.packets \subseteq DOMAIN server'.packets
    BY <1>0, <1>10, PutFacts DEF Second, Placeholder
  <2> QED BY <1>0, <2>1, <2>2, CompleteStays
<1>11. CASE UNCHANGED vars
  BY <1>1, <1>11 DEF vars
<1> QED
  BY <1>2, <1>3, <1>4, <1>5, <1>6, <1>7, <1>8, <1>9, <1>10, <1>11 DEF Next

-----------------------------------------------------------------------------
(* What is written *)

\* WrittenIsSource for one file, and for any damage.
Faithful(f, written, harm) ==
  (written # NoFile /\ Numbered(f)) =>
    /\ harm = {} => written = Source(f)
    /\ (harm \subseteq {"gap"} /\ Size[f] > 0) =>
         written \in {Source(f), [Source(f) EXCEPT ![1] = Zero]}
    /\ harm \subseteq {"gap", "lost", "short"} =>
         /\ IsAscending(written)
         /\ \A k \in DOMAIN written : written[k] = Zero \/ written[k].of = f

LEMMA FaithfulFiles ==
  /\ WrittenIsSource <=> \A f \in Files : Faithful(f, files[f], damage)
  /\ WrittenIsSource' <=> \A f \in Files : Faithful(f, files'[f], damage')
  BY DEF WrittenIsSource, Faithful, Numbered, Harmless

\* The server's writing of a file that no damage but gaps has reached.
LEMMA WholeIsWritten ==
  ASSUME NEW f \in Files, Numbered(f), NEW packets,
         \A k \in DOMAIN packets :
           packets[k] = Data(f, k) \/ (k = 0 /\ packets[k] = Zero),
         \A i \in 0 .. Size[f] - 1 : i \in DOMAIN packets
  PROVE  /\ (0 \in DOMAIN packets => packets[0] = Data(f, 0)) =>
              Written(packets, Size[f]) = Source(f)
         /\ Size[f] > 0 =>
              Written(packets, Size[f]) \in {Source(f), [Source(f) EXCEPT ![1] = Zero]}
<1> DEFINE W == Written(packets, Size[f])
<1>1. Size[f] \in Nat
  BY UdpAssumption
<1>2. W = [k \in 1 .. Size[f] |-> packets[k - 1]]
  BY <1>1, WrittenAll
<1>3. Source(f) = [k \in 1 .. Size[f] |-> Data(f, k - 1)]
  BY DEF Source
<1>4. ASSUME NEW k \in 1 .. Size[f]
      PROVE  /\ k - 1 \in DOMAIN packets /\ W[k] = packets[k - 1]
             /\ W[k] = Data(f, k - 1) \/ (k = 1 /\ W[k] = Zero)
  <2>1. k - 1 \in 0 .. Size[f] - 1 /\ W[k] = packets[k - 1]
    BY <1>1, <1>2
  <2>2. k - 1 \in DOMAIN packets
    BY <2>1
  <2>3. k - 1 = 0 => k = 1
    BY <1>1
  <2> QED BY <2>1, <2>2, <2>3
<1> HIDE DEF W
<1>5. ASSUME \A k \in 1 .. Size[f] : W[k] = Data(f, k - 1)
      PROVE  W = Source(f)
  BY <1>2, <1>3, <1>5
<1>6. ASSUME 0 \in DOMAIN packets => packets[0] = Data(f, 0)
      PROVE  W = Source(f)
  <2>1. ASSUME NEW k \in 1 .. Size[f] PROVE W[k] = Data(f, k - 1)
    <3>1. CASE k = 1
      <4>1. k - 1 = 0
        BY <3>1
      <4> QED BY <1>4, <1>6, <4>1
    <3>2. CASE k # 1
      BY <1>4, <3>2
    <3> QED BY <3>1, <3>2
  <2> QED BY <1>5, <2>1
<1>7. ASSUME Size[f] > 0, W[1] # Data(f, 0)
      PROVE  W = [Source(f) EXCEPT ![1] = Zero]
  <2> DEFINE E == [Source(f) EXCEPT ![1] = Zero]
  <2>1. W[1] = Zero
    <3>1. 1 \in 1 .. Size[f] /\ 1 - 1 = 0
      BY <1>1, <1>7
    <3> QED BY <1>4, <1>7, <3>1
  <2>2. ASSUME NEW k \in 1 .. Size[f] PROVE W[k] = E[k]
    <3>1. CASE k = 1
      BY <1>3, <2>1, <3>1
    <3>2. CASE k # 1
      BY <1>3, <1>4, <3>2
    <3> QED BY <3>1, <3>2
  <2>3. DOMAIN E = 1 .. Size[f] /\ E = [k \in 1 .. Size[f] |-> E[k]]
    BY <1>3
  <2>4. W = [k \in 1 .. Size[f] |-> W[k]]
    BY <1>2
  <2> HIDE DEF E
  <2>5. W = E
    BY <2>2, <2>3, <2>4
  <2> QED BY <2>5 DEF E
<1>8. ASSUME Size[f] > 0, W[1] = Data(f, 0) PROVE W = Source(f)
  <2>1. ASSUME NEW k \in 1 .. Size[f] PROVE W[k] = Data(f, k - 1)
    <3>1. CASE k = 1
      BY <1>8, <3>1
    <3>2. CASE k # 1
      BY <1>4, <3>2
    <3> QED BY <3>1, <3>2
  <2> QED BY <1>5, <2>1
<1>9. Size[f] > 0 => W \in {Source(f), [Source(f) EXCEPT ![1] = Zero]}
  BY <1>7, <1>8
<1> QED BY <1>6, <1>9 DEF W

LEMMA NextFiles ==
  ASSUME [Next]_vars, ~ServerWrites
  PROVE  files' = files
<1>1. CASE Ask \/ Exit \/ \E f \in Files : Upload(f)
  BY <1>1 DEF Ask, Exit, Upload, Request
<1>2. CASE ClientReads \/ ClientTimesOut \/ SendBlock \/ SendLast
  BY <1>2 DEF ClientReads, ClientTimesOut, SendBlock, SendLast
<1>3. CASE ServerAnswers \/ ServerExits \/ ServerPrepares \/ ServerCollects
  BY <1>3 DEF ServerAnswers, ServerExits, ServerPrepares, ServerCollects
<1>4. CASE Second \/ Placeholder \/ ServerBreaks \/ ServerFails \/ Lose \/ UNCHANGED vars
  BY <1>4 DEF Second, Placeholder, ServerBreaks, ServerFails, Lose, vars
<1> QED BY <1>1, <1>2, <1>3, <1>4 DEF Next

LEMMA NextWritten ==
  ASSUME UploadInv, [Next]_vars
  PROVE  DOMAIN files' = Files /\ WrittenIsSource'
<1>0. /\ TypeOK /\ Shapes /\ DOMAIN files = Files
      /\ \A f \in Files : Faithful(f, files[f], damage)
  BY FaithfulFiles DEF UploadInv, Shapes
<1>1. damage \subseteq damage'
  BY <1>0, DamageGrows
<1>2. ASSUME NEW f \in Files, files'[f] = files[f]
      PROVE  Faithful(f, files'[f], damage')
  <2>1. Faithful(f, files[f], damage)
    BY <1>0
  <2>2. /\ damage' = {} => damage = {}
        /\ damage' \subseteq {"gap"} => damage \subseteq {"gap"}
        /\ damage' \subseteq {"gap", "lost", "short"} => damage \subseteq {"gap", "lost", "short"}
    BY <1>1
  <2> QED BY <1>2, <2>1, <2>2 DEF Faithful
<1>3. CASE ~ServerWrites
  <2>1. files' = files
    BY <1>3, NextFiles
  <2>2. \A f \in Files : Faithful(f, files'[f], damage')
    BY <1>2, <2>1
  <2> QED BY <1>0, <2>1, <2>2, FaithfulFiles
<1>4. CASE ServerWrites
  <2>0. PICK g \in Files : g = server.file
    BY <1>0, <1>4 DEF ServerWrites, TypeOK
  <2>1. PICK d \in toServer :
          /\ d.kind = "last" /\ Receives(d)
          /\ files' = [files EXCEPT ![g] = Written(server.packets, FromBytes(d.index))]
    BY <1>4, <2>0 DEF ServerWrites
  <2>2. server.pc = "upload"
    BY <1>4 DEF ServerWrites
  <2>3. DOMAIN files' = Files
    BY <1>0, <2>1
  <2>4. ASSUME NEW f \in Files, f # g PROVE Faithful(f, files'[f], damage')
    BY <1>0, <1>2, <2>1, <2>4
  <2>5. Faithful(g, files'[g], damage')
    <3> SUFFICES ASSUME Calm', Numbered(g) PROVE Faithful(g, files'[g], damage')
      BY DEF Faithful, Harmless, Calm
    <3> DEFINE P == server.packets
    <3>1. /\ Calm
          /\ Harmless({"gap"})' => Harmless({"gap"}) /\ ~CutsShort(d)
          /\ Harmless({})' => Harmless({})
      BY <1>0, <2>1, CalmReceives
    <3>2. FromBytes(d.index) = Size[g]
      <4>1. d.index = ToByteArray(Size[g]) /\ Size[g] \in Nat
        BY <2>0, <2>1, <2>2, <3>1, UdpAssumption DEF UploadInv, Feed
      <4> QED BY <4>1, NumberComesBack
    <3>3. files'[g] = Written(P, Size[g])
      BY <1>0, <2>1, <3>2
    <3>4. ASSUME NEW k \in DOMAIN P
          PROVE  /\ k \in Nat
                 /\ P[k] = Data(g, k) \/ (k = 0 /\ P[k] = Zero /\ "gap" \in damage)
      BY <2>0, <2>2, <3>1 DEF UploadInv, Collected
    <3>5. /\ IsAscending(files'[g])
          /\ \A k \in DOMAIN files'[g] : files'[g][k] = Zero \/ files'[g][k].of = g
      <4> DEFINE m == Size[g]
                 W == Written(P, m)
      <4>1. m \in Nat
        BY UdpAssumption
      <4>2. \A k \in DOMAIN P : k \in Nat /\ P[k] \in {Zero, Data(g, k)}
        BY <3>4
      <4> HIDE DEF P, m
      <4>3. IsAscending(W) /\ \A k \in DOMAIN W : W[k] = Zero \/ W[k].of = g
        BY <4>1, <4>2, WrittenInOrder
      <4> QED BY <3>3, <4>3 DEF m
    <3>6. ASSUME Harmless({"gap"})', NEW i \in 0 .. Size[g] - 1
          PROVE  i \in DOMAIN P
      <4> SUFFICES ASSUME i \notin DOMAIN P PROVE FALSE
        OBVIOUS
      <4>1. Block(g, i, d.n) \in toServer
        BY <2>0, <2>1, <2>2, <3>1, <3>6 DEF UploadInv, Complete, Here
      <4> DEFINE n == d.n
                 e == Block(g, i, n)
      <4>2. e.n = n /\ e.kind = "block"
        BY BlockFacts
      <4>3. ByteIndex(e.index) = i
        <5> HIDE DEF n
        <5> QED BY <3>6, BlockTravels
      <4>4. e \in toServer
        BY <4>1
      <4> HIDE DEF e
      <4> QED BY <2>1, <3>1, <3>6, <4>2, <4>3, <4>4 DEF CutsShort
    <3>7. ASSUME Harmless({"gap"})'
          PROVE  /\ damage' = {} => files'[g] = Source(g)
                 /\ Size[g] > 0 => files'[g] \in {Source(g), [Source(g) EXCEPT ![1] = Zero]}
      <4>1. damage' = {} => "gap" \notin damage
        BY <1>1
      <4>2. /\ \A k \in DOMAIN P : P[k] = Data(g, k) \/ (k = 0 /\ P[k] = Zero)
            /\ \A i \in 0 .. Size[g] - 1 : i \in DOMAIN P
        BY <3>4, <3>6, <3>7
      <4>3. "gap" \notin damage => (0 \in DOMAIN P => P[0] = Data(g, 0))
        BY <3>4
      <4> HIDE DEF P
      <4>4. /\ (0 \in DOMAIN P => P[0] = Data(g, 0)) => Written(P, Size[g]) = Source(g)
            /\ Size[g] > 0 =>
                 Written(P, Size[g]) \in {Source(g), [Source(g) EXCEPT ![1] = Zero]}
        BY <4>2, WholeIsWritten
      <4> QED BY <3>3, <4>1, <4>3, <4>4
    <3> QED BY <3>5, <3>7 DEF Faithful, Harmless
  <2>6. \A f \in Files : Faithful(f, files'[f], damage')
    BY <2>4, <2>5
  <2> QED BY <2>3, <2>6, FaithfulFiles
<1> QED BY <1>3, <1>4

-----------------------------------------------------------------------------
(* Theorems *)

LEMMA NextUploadInv == UploadInv /\ [Next]_vars => UploadInv'
<1> SUFFICES ASSUME UploadInv, [Next]_vars PROVE UploadInv'
  OBVIOUS
<1>1. Shapes /\ Shapes'
  BY NextShapes DEF UploadInv
<1>2. DOMAIN files' = Files /\ WrittenIsSource'
  BY NextWritten
<1>3. damage \subseteq damage'
  BY <1>1, DamageGrows DEF Shapes
<1>4. Calm' => Calm
  BY <1>3 DEF Calm, Harmless
<1>5. Calm' => Turn' /\ Feed'
  BY <1>1, <1>4, NextTurn, NextFeed DEF UploadInv
<1>6. Collected'
  <2>1. CASE Calm'
    BY <1>1, <1>4, <2>1, NextCollected DEF UploadInv
  <2>2. CASE ~Calm'
    BY <2>2 DEF Collected
  <2> QED BY <2>1, <2>2
<1>7. Complete'
  <2>1. CASE Harmless({"gap"})'
    <3>1. Calm'
      BY <2>1 DEF Calm, Harmless
    <3> QED BY <1>1, <1>4, <1>5, <2>1, <3>1, NextComplete DEF UploadInv
  <2>2. CASE ~Harmless({"gap"})'
    BY <2>2 DEF Complete
  <2> QED BY <2>1, <2>2
<1> QED BY <1>1, <1>2, <1>5, <1>6, <1>7 DEF UploadInv

LEMMA UploadInvAlways == Spec => []UploadInv
  BY InitUploadInv, NextUploadInv, PTL DEF Spec

\* The client and the server keep to their states, the client uploads files that
\* exist, and getData waits two seconds at most (UDPClient.java:89-126 and
\* 146-191, UDPServer.java:73-165 and 199-222).
THEOREM UdpTypeCorrect == Spec => []TypeOK
<1>1. UploadInv => TypeOK
  BY DEF UploadInv, Shapes
<1> QED BY <1>1, UploadInvAlways, PTL

\* What createPacket and unpackDataToDictionary make of the number of a block, whatever
\* the width of an index and the values of a byte (UDPClient.java:47-61,
\* UDPServer.java:11-19): the lower half of the range comes back, the rest wraps around.
\* The number of blocks always comes back (UDPClient.java:118-122, UDPServer.java:45-62).
THEOREM IndexesWrap == Spec => []IndexWraps
<1>1. ASSUME UploadInv PROVE IndexWraps
  <2> DEFINE Half == Power[IndexBytes] \div 2
  <2> SUFFICES ASSUME client.pc = "sending", NEW i \in client.counter .. 3 * Half
               PROVE  /\ ByteIndex(IndexData(i)) = ((i + Half) % (2 * Half)) - Half
                      /\ i < Half <=>
                           FileData(Block(client.file, i, client.n)) = Data(client.file, i)
                      /\ FromBytes(ToByteArray(i)) = i
    BY DEF IndexWraps
  <2>1. client.counter \in Nat
    BY <1>1 DEF UploadInv, Shapes, TypeOK
  <2>2. i \in Nat
    BY <2>1
  <2>3. FromBytes(ToByteArray(i)) = i
    BY <2>2, NumberComesBack
  <2> DEFINE b == Block(client.file, i, client.n)
  <2>4. FileData(b) = Data(client.file, i) <=> Len(IndexData(i)) = IndexBytes
    <3>1. client.file # "shifted"
      BY <1>1, UdpAssumption DEF UploadInv, Shapes, TypeOK
    <3>2. b.index = IndexData(i) /\ b.data = Data(client.file, i)
      BY BlockFacts
    <3> HIDE DEF b
    <3> QED BY <3>1, <3>2 DEF FileData, Data
  <2> HIDE DEF b
  <2>5. /\ ByteIndex(IndexData(i)) = ((i + Half) % (2 * Half)) - Half
        /\ i < Half <=> Len(IndexData(i)) = IndexBytes
    BY <2>2, IndexComesBack
  <2> QED BY <2>3, <2>4, <2>5 DEF b
<1> QED BY <1>1, UploadInvAlways, PTL

\* What reaches the server's disk is the file of the client, in its order and whole,
\* but for block 0 after a gap; with lost or late blocks it is a part of it in order
\* (UDPServer.java:111-148, UDPClient.java:97-123).
THEOREM WrittenIsTheSource == Spec => []WrittenIsSource
<1>1. UploadInv => WrittenIsSource
  BY DEF UploadInv
<1> QED BY <1>1, UploadInvAlways, PTL

\* The answers are not numbered, and the client still reads the one to its last
\* request, unless it has timed out or the network has reordered requests
\* (UDPClient.java:22-44 and 89-95, UDPServer.java:93-113 and 149-155).
THEOREM AnswersAreOwn == Spec => []AnswersOwn
<1>1. ASSUME UploadInv PROVE AnswersOwn
  <2>1. Harmless({"gap", "lost"}) => Turn
    BY <1>1 DEF UploadInv, Calm, Harmless
  <2> QED BY <2>1 DEF AnswersOwn, Turn
<1> QED BY <1>1, UploadInvAlways, PTL
=============================================================================
