------------------------- MODULE ModularWalk_proofs -------------------------
(***************************************************************************)
(* The modular walk for every number of threads, every modulus, every size *)
(* of a block and of a stored exponent: the threads lose no block, share   *)
(* the candidates out, and stay between the floor and the ceiling of the   *)
(* exponent when the exponent fits where it is stored.                     *)
(***************************************************************************)
EXTENDS ModularWalk, FiniteSetTheorems, FunctionTheorems, WellFoundedInduction, TLAPS

-----------------------------------------------------------------------------
(* Powers of two: a set of n elements has 2^n subsets, and adding an       *)
(* element to the set adds as many subsets again.                          *)

LEMMA PowerSets ==
  ASSUME NEW n \in Nat
  PROVE  2 ^ n = Cardinality(SUBSET (1..n)) /\ 2 ^ n \in Nat /\ IsFiniteSet(SUBSET (1..n))
<1>1. IsFiniteSet(1..n) /\ Cardinality(1..n) = n
  BY FS_Interval
<1> QED
  BY <1>1, FS_SUBSET, FS_CardinalityType

LEMMA PowerOfNext ==
  ASSUME NEW n \in Nat
  PROVE  2 ^ (n + 1) = 2 * 2 ^ n
<1> DEFINE A == SUBSET (1..n)
           B == {X \cup {n + 1} : X \in A}
           f == [X \in A |-> X \cup {n + 1}]
<1>1. IsFiniteSet(A) /\ 2 ^ n = Cardinality(A) /\ 2 ^ (n + 1) = Cardinality(SUBSET (1..(n + 1))) /\ 2 ^ n \in Nat
  BY PowerSets
<1>2. n + 1 \notin 1..n /\ 1..(n + 1) = (1..n) \cup {n + 1}
  OBVIOUS
<1>3. f \in Bijection(A, B)
  <2>1. ASSUME NEW X \in A, NEW Y \in A, f[X] = f[Y]
        PROVE  X = Y
    BY <2>1, <1>2
  <2> QED
    BY <2>1, Fun_IsBij
<1>4. IsFiniteSet(B) /\ Cardinality(B) = Cardinality(A)
  BY <1>1, <1>3, FS_Bijection DEF ExistsBijection
<1>5. SUBSET (1..(n + 1)) = A \cup B
  <2>1. ASSUME NEW X \in SUBSET (1..(n + 1)), n + 1 \in X
        PROVE  X \in B
    <3>1. X \ {n + 1} \in A /\ X = (X \ {n + 1}) \cup {n + 1}
      BY <1>2, <2>1
    <3> QED
      BY <3>1
  <2>2. ASSUME NEW X \in SUBSET (1..(n + 1)), n + 1 \notin X
        PROVE  X \in A
    BY <1>2, <2>2
  <2>3. ASSUME NEW X \in A \cup B
        PROVE  X \in SUBSET (1..(n + 1))
    BY <1>2, <2>3
  <2> QED
    BY <2>1, <2>2, <2>3
<1>6. A \cap B = {}
  BY <1>2
<1> HIDE DEF A, B
<1>7. Cardinality(A \cup B) = Cardinality(A) + Cardinality(B) - 0
  BY <1>1, <1>4, <1>6, FS_Union, FS_EmptySet
<1>8. Cardinality(A \cup B) = 2 * 2 ^ n
  BY <1>1, <1>4, <1>7
<1> QED
  BY <1>1, <1>5, <1>8

\* A set of numbers has a least element.
LEMMA LeastNumber ==
  ASSUME NEW S \in SUBSET Nat, S # {}
  PROVE  \E x \in S : \A y \in S : x <= y
<1>1. PICK x \in S : \A y \in S : <<y, x>> \notin OpToRel(<, Nat)
  BY NatLessThanWellFounded, WFMin
<1>2. ASSUME NEW y \in S
      PROVE  x <= y
  <2>1. ~(y < x)
    BY <1>1 DEF OpToRel
  <2> QED
    BY <2>1
<1> QED
  BY <1>2

LEMMA PowersGrow ==
  ASSUME NEW m \in Nat, NEW n \in Nat, m <= n
  PROVE  2 ^ m \in Nat /\ 2 ^ n \in Nat /\ 2 ^ m <= 2 ^ n
<1> DEFINE Shrunk == {d \in Nat : 2 ^ (m + d) < 2 ^ m}
<1>1. ASSUME NEW d \in Nat
      PROVE  m + d \in Nat /\ 2 ^ (m + d) \in Nat
  <2>1. m + d \in Nat
    OBVIOUS
  <2> QED
    BY <2>1, PowerSets
<1>2. 2 ^ m \in Nat /\ 2 ^ n \in Nat
  BY PowerSets
<1>3. Shrunk = {}
  <2>1. SUFFICES ASSUME Shrunk # {} PROVE FALSE
    OBVIOUS
  <2>0. Shrunk \in SUBSET Nat
    OBVIOUS
  <2>2. PICK d \in Shrunk : \A c \in Shrunk : d <= c
    <3> HIDE DEF Shrunk
    <3> QED
      BY <2>0, <2>1, LeastNumber
  <2>3. CASE d = 0
    <3>1. m + d = m /\ 2 ^ (m + d) < 2 ^ m
      BY <2>3
    <3>2. 2 ^ m < 2 ^ m
      BY <3>1
    <3> HIDE DEF Shrunk
    <3> QED
      BY <1>2, <3>2
  <2>4. CASE d # 0
    <3>1. d - 1 \in Nat /\ ~(d <= d - 1) /\ m + d = (m + (d - 1)) + 1 /\ m + (d - 1) \in Nat
      BY <2>4
    <3>2. d - 1 \notin Shrunk
      BY <2>2, <3>1
    <3>3. 2 ^ (m + d) = 2 * 2 ^ (m + (d - 1))
      BY <3>1, PowerOfNext
    <3>4. 2 ^ (m + (d - 1)) \in Nat /\ ~(2 ^ (m + (d - 1)) < 2 ^ m)
      BY <1>1, <3>1, <3>2
    <3>5. 2 ^ (m + d) < 2 ^ m
      OBVIOUS
    <3> HIDE DEF Shrunk
    <3> QED
      BY <1>2, <3>3, <3>4, <3>5
  <2> QED
    BY <2>3, <2>4
<1>4. n - m \in Nat /\ m + (n - m) = n
  OBVIOUS
<1>5. ~(2 ^ n < 2 ^ m)
  BY <1>3, <1>4
<1> HIDE DEF Shrunk
<1> QED
  BY <1>2, <1>5

LEMMA Powers ==
  ASSUME NEW n \in Nat
  PROVE  2 ^ n \in Nat /\ 2 ^ n >= 1 /\ 2 ^ (n + 1) = 2 * 2 ^ n /\ (n >= 1 => 2 ^ n >= 2)
<1>1. 2 ^ n \in Nat /\ 2 ^ (n + 1) = 2 * 2 ^ n
  BY PowerSets, PowerOfNext
<1>2. PICK zero \in Nat : zero = 0 /\ zero <= n
  OBVIOUS
<1>3. 1 <= 2 ^ n
  <2>1. 2 ^ zero <= 2 ^ n
    BY <1>2, PowersGrow
  <2>2. 2 ^ zero = 1
    BY <1>2
  <2> QED
    BY <2>1, <2>2
<1>4. ASSUME n >= 1
      PROVE  2 <= 2 ^ n
  <2>1. PICK one \in Nat : one = 1 /\ one <= n
    BY <1>4
  <2>2. 2 ^ one <= 2 ^ n
    BY <2>1, PowersGrow
  <2>3. 2 ^ one = 2
    BY <2>1
  <2> QED
    BY <2>2, <2>3
<1> QED
  BY <1>1, <1>3, <1>4

-----------------------------------------------------------------------------
(* Division by a number that is not a literal.                             *)

LEMMA Division ==
  ASSUME NEW x \in Int, NEW k \in Nat \ {0}
  PROVE  /\ x % k \in 0..(k - 1) /\ x \div k \in Int
         /\ x - (x % k) = (x \div k) * k
BY Z3

LEMMA Residue ==
  ASSUME NEW k \in Nat \ {0}, NEW q \in Int
  PROVE  (k * q) % k = 0
<1>1. (k * q + 0) % k = 0
  BY Z3
<1>2. k * q + 0 = k * q
  OBVIOUS
<1> QED
  BY <1>1, <1>2

\* The remainder is zero exactly for the multiples.
LEMMA Multiple ==
  ASSUME NEW k \in Nat \ {0}, NEW x \in Int
  PROVE  x % k = 0 <=> \E q \in Int : x = q * k
<1>1. ASSUME x % k = 0
      PROVE  x \div k \in Int /\ x = (x \div k) * k
  BY <1>1, Division
<1>2. ASSUME NEW q \in Int, x = q * k
      PROVE  x % k = 0
  <2>1. x = k * q
    BY <1>2, Z3
  <2> QED
    BY <2>1, Residue
<1> QED
  BY <1>1, <1>2

\* Multiples of one number are at least that number apart.
LEMMA Apart ==
  ASSUME NEW k \in Nat \ {0}, NEW q \in Int, NEW p \in Int
  PROVE  /\ q > p => q * k >= p * k + k
         /\ q * k > p * k => q > p
         /\ q * k >= p * k => q >= p
         /\ q * k = p * k => q = p
<1>1. ASSUME NEW a \in Int, NEW b \in Int, a > b
      PROVE  a * k >= b * k + k
  <2>1. ASSUME NEW d \in Int, d >= 1
        PROVE  d * k >= k
    BY <2>1, Z3
  <2>2. a - b \in Int /\ a - b >= 1 /\ (a - b) * k >= k
    BY <1>1, <2>1
  <2>3. (a - b) * k = a * k - b * k
    BY Z3
  <2>4. a * k \in Int /\ b * k \in Int
    OBVIOUS
  <2> QED
    BY <2>2, <2>3, <2>4
<1>2. q * k \in Int /\ p * k \in Int
  OBVIOUS
<1>3. q > p => q * k >= p * k + k
  BY <1>1
<1>4. p > q => p * k >= q * k + k
  BY <1>1
<1>5. q = p => q * k = p * k
  OBVIOUS
<1> QED
  BY <1>2, <1>3, <1>4, <1>5

-----------------------------------------------------------------------------
(* What mdzip stores for a block, and where the walk of it starts.         *)

Block == 0 .. 2 ^ BlockBits - 1

LEMMA Modulus ==
  ASSUME NEW m \in Nat \ {0}
  PROVE  CalcModulusInt(m) \in Nat \ {0} /\ (m # 1 => CalcModulusInt(m) > 1)
<1>1. 2 ^ m \in Nat /\ 2 ^ m >= 2
  BY Powers
<1>2. ASSUME m # 1
      PROVE  2 ^ m > 2
  <2>1. m - 1 \in Nat /\ m - 1 >= 1 /\ (m - 1) + 1 = m
    BY <1>2
  <2>2. 2 ^ ((m - 1) + 1) = 2 * 2 ^ (m - 1) /\ 2 ^ (m - 1) >= 2 /\ 2 ^ (m - 1) \in Nat
    BY <2>1, Powers
  <2> QED
    BY <2>1, <2>2
<1> QED
  BY <1>1, <1>2 DEF CalcModulusInt

\* Some exponent bounds the block, and the least one that does is chosen.
LEMMA Exponents ==
  ASSUME NEW n \in Block
  PROVE  /\ CalcExponent(n) \in 1 .. BlockBits
         /\ n < 2 ^ (CalcExponent(n) + 1) - 1
         /\ CalcExponent(n) > 1 => n >= 2 ^ CalcExponent(n) - 1
<1> DEFINE Bounding == {e \in 1 .. BlockBits : n < 2 ^ (e + 1) - 1}
           Chosen(e) == n < 2 ^ (e + 1) - 1 /\ \A d \in 1 .. e - 1 : n >= 2 ^ (d + 1) - 1
<1>1. BlockBits \in 1 .. BlockBits /\ BlockBits \in Nat
  BY WalkAssumption
<1>2. 2 ^ BlockBits \in Nat /\ 2 ^ BlockBits >= 1 /\ 2 ^ (BlockBits + 1) = 2 * 2 ^ BlockBits
  BY <1>1, Powers
<1>3. n \in Nat /\ n < 2 ^ BlockBits
  BY <1>2 DEF Block
<1>4. n < 2 ^ (BlockBits + 1) - 1
  BY <1>2, <1>3
<1>5. PICK e \in Bounding : \A c \in Bounding : e <= c
  <2>1. Bounding \in SUBSET Nat
    BY <1>1
  <2>2. BlockBits \in Bounding
    BY <1>1, <1>4
  <2> HIDE DEF Bounding
  <2> QED
    BY <2>1, <2>2, LeastNumber
<1>6. e \in 1 .. BlockBits /\ n < 2 ^ (e + 1) - 1
  OBVIOUS
<1>7. ASSUME NEW d \in 1 .. e - 1
      PROVE  n >= 2 ^ (d + 1) - 1
  <2>1. d \in 1 .. BlockBits /\ d + 1 \in Nat /\ ~(e <= d)
    BY <1>1, <1>6
  <2>2. ~(n < 2 ^ (d + 1) - 1)
    BY <1>5, <2>1
  <2>3. 2 ^ (d + 1) \in Nat
    BY <2>1, Powers
  <2> QED
    BY <1>3, <2>2, <2>3
<1>8. CalcExponent(n) \in 1 .. BlockBits /\ Chosen(CalcExponent(n))
  BY <1>6, <1>7 DEF CalcExponent
<1>9. ASSUME CalcExponent(n) > 1
      PROVE  n >= 2 ^ CalcExponent(n) - 1
  <2> DEFINE c == CalcExponent(n)
  <2> HIDE DEF c
  <2>1. c - 1 \in 1 .. c - 1 /\ (c - 1) + 1 = c
    BY <1>1, <1>8, <1>9 DEF c
  <2>2. \A d \in 1 .. c - 1 : n >= 2 ^ (d + 1) - 1
    BY <1>8 DEF c
  <2>3. n >= 2 ^ c - 1
    BY <2>1, <2>2
  <2> QED
    BY <2>3 DEF c
<1> QED
  BY <1>8, <1>9

\* The exponent that is stored, cut to its width, is never above the chosen one.
LEMMA StoredExponent ==
  ASSUME NEW n \in Block
  PROVE  LET e == CalcExponent(n) % (2 ^ ExponentBits)
         IN  /\ e \in 0 .. 2 ^ ExponentBits - 1 /\ e \in Nat /\ e <= CalcExponent(n)
             /\ CalcExponent(n) < 2 ^ ExponentBits => e = CalcExponent(n)
             /\ CalcExponent(n) = 1 => e = 1
<1> DEFINE c == CalcExponent(n)
           k == 2 ^ ExponentBits
<1>1. c \in Nat /\ c >= 1
  BY Exponents, WalkAssumption
<1>2. k \in Nat \ {0} /\ k >= 2
  BY Powers, WalkAssumption
<1> HIDE DEF c, k
<1>3. c % k \in 0 .. k - 1 /\ c - (c % k) = (c \div k) * k /\ c \div k \in Int
  BY <1>1, <1>2, Division
<1>4. c < k => c % k = c
  BY <1>1, <1>2, Z3
<1>5. c % k <= c
  BY <1>1, <1>2, <1>3, <1>4
<1> QED
  BY <1>1, <1>2, <1>3, <1>4, <1>5 DEF c, k

\* The exponent's floor is not above the block, but for the block of zeros.
LEMMA FloorBelow ==
  ASSUME NEW n \in Block, NEW e, e = CalcExponent(n) % (2 ^ ExponentBits)
  PROVE  CalcModulusInt(e) \in Nat /\ (CalcModulusInt(e) <= n \/ (n = 0 /\ CalcModulusInt(e) = 1))
<1> DEFINE c == CalcExponent(n)
<1>1. /\ c \in Nat /\ c >= 1 /\ (c > 1 => n >= 2 ^ c - 1)
      /\ e \in Nat /\ e <= c /\ (c = 1 => e = 1)
  BY Exponents, StoredExponent, WalkAssumption
<1> HIDE DEF c
<1>2. 2 ^ e \in Nat /\ 2 ^ c \in Nat /\ 2 ^ e >= 1 /\ 2 ^ e <= 2 ^ c
  BY <1>1, Powers, PowersGrow
<1>3. n \in Nat
  BY Powers, WalkAssumption DEF Block
<1>4. CASE c > 1
  BY <1>1, <1>2, <1>3, <1>4 DEF CalcModulusInt
<1>5. CASE c = 1
  <2>1. e = 1
    BY <1>1, <1>5
  <2>2. \A k \in Nat : k = 1 => 2 ^ k = 2
    OBVIOUS
  <2>3. 2 ^ e = 2
    BY <1>1, <2>1, <2>2
  <2> QED
    BY <1>3, <2>3 DEF CalcModulusInt
<1> QED
  BY <1>1, <1>4, <1>5

\* The aligned floor: a multiple of the modulus less than one modulus below.
LEMMA Aligned ==
  ASSUME NEW floor \in Nat, NEW k \in Nat \ {0}
  PROVE  LET f == ConvertFloorBase2(floor, k)
         IN  /\ f \in Nat /\ f <= floor /\ f > floor - k
             /\ floor = 1 /\ k > 1 => f = 0
             /\ \E q \in Int : f = q * k
<1> DEFINE f == ConvertFloorBase2(floor, k)
<1>1. floor % k \in 0 .. k - 1 /\ f = (floor \div k) * k /\ floor \div k \in Int
  BY Division DEF ConvertFloorBase2
<1>2. floor < k => floor % k = floor
  BY Z3
<1>3. floor % k <= floor
  <2>1. CASE floor < k
    BY <1>2, <2>1
  <2>2. CASE floor >= k
    BY <1>1, <2>2
  <2> QED
    BY <2>1, <2>2
<1>4. f \in Nat /\ f <= floor /\ f > floor - k
  BY <1>1, <1>3 DEF ConvertFloorBase2
<1>5. floor = 1 /\ k > 1 => f = 0
  BY <1>2 DEF ConvertFloorBase2
<1> HIDE DEF f
<1> QED
  BY <1>1, <1>4, <1>5 DEF f

-----------------------------------------------------------------------------
(* The invariant.                                                          *)

Modint == CalcModulusInt(modsize)
Stride == Modint * ThreadCount
FirstCandidate == remainder + ExponentFloor(IF blk = 0 THEN Modint ELSE Stride)

\* From the first block on the objects step by the modulus times the thread count.
Configured ==
  blk > 0 \/ phase \in {"scan", "done"} =>
    modulusInt = Stride /\ modulusThreadInt = [t \in Thread |-> t * Modint]

\* What the scan of a block is given is what mdzip stored for it.
Stored ==
  phase \in {"unzip", "scan"} =>
    remainder = number % Modint /\ exponent = CalcExponent(number) % (2 ^ ExponentBits)

\* A thread's candidates are an arithmetic progression of its own.
OnWalk ==
  phase = "scan" =>
    \A t \in Thread : blockInt[t] = FirstCandidate + t * Modint + steps[t] * Stride

IInv == TypeOK /\ Configured /\ Stored /\ OnWalk /\ OriginalAhead

LEMMA Sizes ==
  ASSUME TypeOK
  PROVE  /\ Modint \in Nat \ {0} /\ Stride \in Nat \ {0} /\ (modsize # 1 => Modint > 1)
         /\ Stride = Modint * ThreadCount /\ Stride >= Modint
         /\ ThreadCount \in Nat \ {0} /\ \A t \in Thread : t \in Nat /\ t < ThreadCount
         /\ number \in Block /\ number \in Nat /\ exponent \in Nat /\ blk \in Nat
<1>1. modsize \in Nat \ {0} /\ ThreadCount \in Nat \ {0} /\ BlockCount \in Nat
  BY WalkAssumption DEF TypeOK
<1>2. Modint \in Nat \ {0} /\ (modsize # 1 => Modint > 1)
  BY <1>1, Modulus DEF Modint
<1>3. 2 ^ BlockBits \in Nat /\ 2 ^ ExponentBits \in Nat
  BY Powers, WalkAssumption
<1>4. number \in Block /\ number \in Nat /\ exponent \in Nat /\ blk \in Nat
  BY <1>1, <1>3 DEF TypeOK, Block
<1>5. Stride = ThreadCount * Modint /\ Stride = Modint * ThreadCount
  BY <1>1, <1>2, Z3 DEF Stride
<1>6. Stride \in Int /\ Stride >= Modint
  <2>1. 0 * Modint + Modint = Modint /\ 0 * Modint = 0
    BY <1>2
  <2>2. ThreadCount * Modint >= 0 * Modint + Modint
    BY <1>1, <1>2, Apart
  <2> QED
    BY <1>1, <1>2, <1>5, <2>1, <2>2
<1> QED
  BY <1>1, <1>2, <1>4, <1>5, <1>6 DEF Thread

LEMMA WalkInit == Init => IInv
<1> SUFFICES ASSUME Init PROVE IInv
  OBVIOUS
<1>1. 2 ^ BlockBits >= 1 /\ 2 ^ BlockBits \in Nat /\ 2 ^ ExponentBits >= 1 /\ 2 ^ ExponentBits \in Nat
  BY Powers, WalkAssumption
<1>2. TypeOK
  BY <1>1, WalkAssumption DEF Init, TypeOK, Phases
<1> QED
  BY <1>2 DEF Init, IInv, Configured, Stored, OnWalk, OriginalAhead

LEMMA ZipBlockStep ==
  ASSUME IInv, NEW n \in Block, ZipBlock(n)
  PROVE  IInv'
<1>1. Modint \in Nat \ {0} /\ n \in Nat
  <2>1. 2 ^ BlockBits \in Nat
    BY Powers, WalkAssumption
  <2> QED
    BY <2>1, Sizes DEF IInv, Block
<1>2. n % Modint \in Nat
  BY <1>1, Division
<1>3. CalcExponent(n) % (2 ^ ExponentBits) \in 0 .. 2 ^ ExponentBits - 1
  BY StoredExponent
<1>4. TypeOK'
  BY <1>2, <1>3 DEF IInv, TypeOK, ZipBlock, Phases, Block, Modint
<1>5. Configured' /\ Stored'
  BY DEF IInv, Configured, Stored, ZipBlock, Modint, Stride
<1>6. OnWalk' /\ OriginalAhead'
  BY DEF ZipBlock, OnWalk, OriginalAhead
<1> QED
  BY <1>4, <1>5, <1>6 DEF IInv

\* Some thread's first candidate is a whole number of strides below the block.
SomeThread(m, count, q, j, stride) ==
  \E t \in 0 .. count - 1 : \E s \in Nat : q * m = j * m + t * m + s * stride

LEMMA Owner ==
  ASSUME NEW m \in Nat \ {0}, NEW count \in Nat \ {0}, NEW q \in Int, NEW j \in Int, q >= j,
         NEW stride \in Nat, stride = m * count
  PROVE  SomeThread(m, count, q, j, stride)
<1> DEFINE d == q - j
           t == d % count
           s == d \div count
<1>1. d \in Nat /\ d \in Int /\ q = d + j
  OBVIOUS
<1> HIDE DEF d
<1>2. t \in 0 .. count - 1 /\ s \in Int /\ d - t = s * count
  BY <1>1, Division
<1> HIDE DEF t, s
<1>3. s \in Nat
  <2>1. ASSUME ~(s >= 0)
        PROVE  FALSE
    <3>1. 0 > s /\ 0 * count >= s * count + count
      BY <1>2, <2>1, Apart
    <3>2. s * count \in Int /\ 0 * count = 0
      BY <1>2
    <3> QED
      BY <1>1, <1>2, <3>1, <3>2
  <2> QED
    BY <1>2, <2>1
<1>4. q = j + t + s * count
  BY <1>1, <1>2
<1>5. s * count \in Int /\ (s * count) * m = s * (m * count)
  BY <1>2, Z3
<1>6. q * m = j * m + t * m + (s * count) * m
  <2> DEFINE c == s * count
  <2>1. c \in Int /\ q = j + t + c
    BY <1>4, <1>5
  <2> HIDE DEF c
  <2>2. (j + t + c) * m = j * m + t * m + c * m
    BY <1>2, <2>1, Z3
  <2> QED
    BY <2>1, <2>2 DEF c
<1> QED
  BY <1>2, <1>3, <1>5, <1>6 DEF SomeThread

\* The walk started from an aligned floor reaches the block, whichever of the two
\* numbers the floor is aligned to.
LEMMA Start ==
  ASSUME TypeOK, Stored, phase = "unzip",
         NEW by \in {Modint, Stride}
  PROVE  LET f == ExponentFloor(by)
         IN  /\ f \in Nat /\ remainder \in Nat
             /\ ~(number = 0 /\ by = 1) =>
                  \E t \in Thread : \E s \in Nat : number = remainder + f + t * Modint + s * Stride
<1> DEFINE e == CalcModulusInt(exponent)
           f == ExponentFloor(by)
<1>1. /\ Modint \in Nat \ {0} /\ Stride \in Nat \ {0} /\ Stride = Modint * ThreadCount
      /\ ThreadCount \in Nat \ {0} /\ number \in Nat /\ number \in Block
      /\ by \in Nat \ {0}
  BY Sizes
<1>2. e \in Nat /\ (e <= number \/ (number = 0 /\ e = 1))
  BY <1>1, FloorBelow DEF Stored
<1>3. f = ConvertFloorBase2(e, by)
  BY DEF ExponentFloor
<1> HIDE DEF e
<1>4. f \in Nat /\ f <= e /\ (e = 1 /\ by > 1 => f = 0)
  BY <1>1, <1>2, <1>3, Aligned
<1> HIDE DEF f
<1>5. \E k \in Int : f = k * by
  <2>1. \E k \in Int : ConvertFloorBase2(e, by) = k * by
    BY <1>1, <1>2, Aligned
  <2> QED
    BY <1>3, <2>1
<1>6. PICK j \in Int : f = j * Modint
  <2>1. CASE by = Modint
    BY <1>5, <2>1
  <2>2. CASE by = Stride
    <3>1. PICK k \in Int : f = k * Stride
      BY <1>5, <2>2
    <3>2. k * ThreadCount \in Int /\ k * (Modint * ThreadCount) = (k * ThreadCount) * Modint
      BY <1>1, Z3
    <3> QED
      BY <1>1, <3>1, <3>2
  <2> QED
    BY <2>1, <2>2
<1>7. remainder = number % Modint
  BY DEF Stored
<1>8. /\ remainder \in 0 .. Modint - 1 /\ remainder \in Nat
      /\ number \div Modint \in Int /\ number - remainder = (number \div Modint) * Modint
  BY <1>1, <1>7, Division
<1> DEFINE q == number \div Modint
<1> HIDE DEF q
<1>9. ASSUME ~(number = 0 /\ by = 1)
      PROVE  \E t \in Thread : \E s \in Nat : number = remainder + f + t * Modint + s * Stride
  <2>1. f <= number
    BY <1>1, <1>2, <1>4, <1>9
  <2>2. q \in Int /\ q * Modint \in Int /\ j * Modint \in Int /\ number = q * Modint + remainder
    BY <1>1, <1>8 DEF q
  <2>3. ~(j > q)
    <3>1. ASSUME j > q
          PROVE  FALSE
      <4>1. j * Modint >= q * Modint + Modint
        BY <1>1, <2>2, <3>1, Apart
      <4> QED
        BY <1>1, <1>6, <1>8, <2>1, <2>2, <4>1
    <3> QED
      BY <3>1
  <2>4. q >= j
    BY <1>6, <2>2, <2>3
  <2>7. SomeThread(Modint, ThreadCount, q, j, Stride)
    BY <1>1, <1>6, <2>2, <2>4, Owner
  <2>8. PICK t \in 0 .. ThreadCount - 1 : \E s \in Nat :
          q * Modint = j * Modint + t * Modint + s * Stride
    BY <2>7 DEF SomeThread
  <2>9. PICK s \in Nat : q * Modint = j * Modint + t * Modint + s * Stride
    BY <2>8
  <2>5. t * Modint \in Int /\ s * Stride \in Int /\ t \in Thread
    BY <1>1 DEF Thread
  <2>6. number = remainder + f + t * Modint + s * Stride
    BY <1>1, <1>6, <1>8, <2>2, <2>9, <2>5
  <2> QED
    BY <2>5, <2>6
<1> QED
  BY <1>4, <1>8, <1>9 DEF f

\* What is left of the walk below the block is a whole number of strides.
LEMMA Below ==
  ASSUME TypeOK, Stored, phase = "unzip",
         NEW by \in {Modint, Stride}, ~(number = 0 /\ by = 1)
  PROVE  \E t \in Thread :
           LET first == remainder + ExponentFloor(by) + t * Modint
           IN  first <= number /\ (number - first) % Stride = 0
<1>1. PICK t \in Thread, s \in Nat : number = remainder + ExponentFloor(by) + t * Modint + s * Stride
  BY Start
<1>2. ExponentFloor(by) \in Nat /\ remainder \in Nat
  BY Start
<1>3. Modint \in Nat \ {0} /\ Stride \in Nat \ {0} /\ t \in Nat
  BY Sizes
<1> DEFINE first == remainder + ExponentFloor(by) + t * Modint
<1>4. first \in Int
  BY <1>2, <1>3
<1>5. number = first + s * Stride
  BY <1>1
<1> HIDE DEF first
<1>6. s * Stride \in Int /\ s * Stride >= 0
  <2>1. 0 * Stride = 0 /\ s >= 0 /\ (s = 0 => s * Stride = 0) /\ s * Stride \in Int
    BY <1>3
  <2>2. s > 0 => s * Stride >= 0 * Stride + Stride
    BY <1>3, Apart
  <2> QED
    BY <1>3, <2>1, <2>2
<1>7. (s * Stride) % Stride = 0
  BY <1>3, <1>6, Multiple
<1>8. number - first = s * Stride /\ first <= number
  BY <1>4, <1>5, <1>6
<1> QED
  BY <1>7, <1>8 DEF first

-----------------------------------------------------------------------------
(* The steps.                                                              *)

\* The constants of a file and a block stay as they are after the zipper's step.
LEMMA Frame ==
  ASSUME UNCHANGED <<blk, number, modsize, exponent, remainder>>
  PROVE  UNCHANGED <<Modint, Stride, FirstCandidate, ZerosPassed>>
BY DEF Modint, Stride, FirstCandidate, ZerosPassed, ExponentFloor

LEMMA FirstCandidateType ==
  ASSUME TypeOK
  PROVE  FirstCandidate \in Nat
<1> DEFINE by == IF blk = 0 THEN Modint ELSE Stride
<1>1. by \in Nat \ {0} /\ exponent \in Nat /\ remainder \in Nat
  BY Sizes DEF TypeOK
<1>2. CalcModulusInt(exponent) \in Nat
  BY <1>1, Powers DEF CalcModulusInt
<1>3. ConvertFloorBase2(CalcModulusInt(exponent), by) \in Nat
  BY <1>1, <1>2, Aligned
<1> QED
  BY <1>1, <1>3 DEF FirstCandidate, ExponentFloor

\* Both ways of configuring the objects put the threads on the walk.
LEMMA Launched ==
  ASSUME IInv, phase = "unzip",
         UNCHANGED <<blk, number, modsize, exponent, remainder>>,
         phase' = "scan",
         modulusInt' = Stride, modulusThreadInt' = [t \in Thread |-> t * Modint],
         steps' = [t \in Thread |-> 0],
         blockInt' = [t \in Thread |-> FirstCandidate + t * Modint]
  PROVE  IInv'
<1> DEFINE by == IF blk = 0 THEN Modint ELSE Stride
<1>0. TypeOK /\ Stored /\ by \in {Modint, Stride}
  BY DEF IInv
<1>1. /\ Modint \in Nat \ {0} /\ Stride \in Nat \ {0} /\ (modsize # 1 => Modint > 1)
      /\ Stride = Modint * ThreadCount /\ Stride >= Modint /\ blk \in Nat
      /\ ThreadCount \in Nat \ {0} /\ \A t \in Thread : t \in Nat
  BY <1>0, Sizes
<1>2. FirstCandidate = remainder + ExponentFloor(by)
  BY DEF FirstCandidate
<1> HIDE DEF by
<1>3. FirstCandidate \in Nat
  BY <1>0, <1>2, Start
<1>4. TypeOK'
  <2>1. \A t \in Thread : t * Modint \in Nat /\ FirstCandidate + t * Modint \in Nat
    BY <1>1, <1>3
  <2> QED
    BY <1>0, <1>1, <2>1 DEF TypeOK, Phases
<1>5. Configured' /\ Stored'
  <2>1. Configured'
    BY Frame DEF Configured
  <2>2. Stored'
    BY Frame DEF IInv, Stored
  <2> QED
    BY <2>1, <2>2
<1>6. OnWalk'
  <2>1. ASSUME NEW t \in Thread
        PROVE  blockInt'[t] = FirstCandidate + t * Modint + steps'[t] * Stride
    <3>1. steps'[t] = 0 /\ blockInt'[t] = FirstCandidate + t * Modint /\ 0 * Stride = 0
      BY <1>1
    <3>2. t * Modint \in Int
      BY <1>1
    <3> QED
      BY <1>3, <3>1, <3>2
  <2> QED
    BY <2>1, Frame DEF OnWalk
<1>7. OriginalAhead'
  <2>1. ASSUME ~ZerosPassed
        PROVE  \E t \in Thread : blockInt'[t] <= number /\ (number - blockInt'[t]) % Stride = 0
    <3>1. ~(number = 0 /\ by = 1)
      <4>1. ASSUME number = 0, by = 1
            PROVE  FALSE
        <5>1. modsize = 1 /\ blk # 0
          BY <1>1, <2>1, <4>1 DEF ZerosPassed, by
        <5>2. Stride = 1 /\ Modint = 1
          BY <1>1, <4>1, <5>1 DEF by
        <5>3. ThreadCount = 1
          BY <1>1, <5>2
        <5> QED
          BY <2>1, <4>1, <5>1, <5>3 DEF ZerosPassed
      <4> QED
        BY <4>1
    <3>2. PICK t \in Thread :
            LET first == remainder + ExponentFloor(by) + t * Modint
            IN  first <= number /\ (number - first) % Stride = 0
      BY <1>0, <3>1, Below
    <3>3. blockInt'[t] = remainder + ExponentFloor(by) + t * Modint
      BY <1>2
    <3> QED
      BY <3>2, <3>3
  <2> QED
    BY <2>1, Frame DEF OriginalAhead
<1> QED
  BY <1>4, <1>5, <1>6, <1>7 DEF IInv

LEMMA SetModscanStep ==
  ASSUME IInv, SetModscan
  PROVE  IInv'
<1>1. FirstCandidate = remainder + ExponentFloor(Modint)
  BY DEF SetModscan, FirstCandidate
<1> QED
  BY <1>1, Launched DEF SetModscan, Modint, Stride

LEMMA ResetThreadStep ==
  ASSUME IInv, ResetThread
  PROVE  IInv'
<1>1. FirstCandidate = remainder + ExponentFloor(Stride)
  BY DEF ResetThread, FirstCandidate
<1>2. modulusInt = Stride /\ modulusThreadInt = [t \in Thread |-> t * Modint] /\ blk > 0
  BY DEF IInv, Configured, ResetThread
<1>3. blockInt' = [t \in Thread |-> FirstCandidate + t * Modint]
  BY <1>1, <1>2 DEF ResetThread
<1> QED
  BY <1>2, <1>3, Launched DEF ResetThread

LEMMA AdvanceStep ==
  ASSUME IInv, NEW t \in Thread, Advance(t)
  PROVE  IInv'
<1>1. /\ TypeOK /\ phase = "scan" /\ phase' = "scan" /\ modulusInt = Stride /\ blockInt[t] # number
      /\ blockInt' = [blockInt EXCEPT ![t] = blockInt[t] + Stride]
      /\ steps' = [steps EXCEPT ![t] = steps[t] + 1]
      /\ UNCHANGED <<phase, blk, number, modsize, exponent, remainder, modulusInt, modulusThreadInt>>
  BY DEF IInv, Configured, Advance
<1>2. Stride \in Nat \ {0} /\ Modint \in Nat \ {0} /\ number \in Nat
  BY <1>1, Sizes
<1>3. /\ blockInt \in [Thread -> Nat] /\ steps \in [Thread -> Nat]
      /\ \A u \in Thread : /\ blockInt'[u] = IF u = t THEN blockInt[u] + Stride ELSE blockInt[u]
                           /\ steps'[u] = IF u = t THEN steps[u] + 1 ELSE steps[u]
  BY <1>1 DEF TypeOK
<1>4. TypeOK'
  BY <1>1, <1>2 DEF TypeOK
<1>5. Configured' /\ Stored'
  BY <1>1, Frame DEF IInv, Configured, Stored
<1>6. OnWalk'
  <2>1. ASSUME NEW u \in Thread
        PROVE  blockInt'[u] = FirstCandidate + u * Modint + steps'[u] * Stride
    <3>1. blockInt[u] = FirstCandidate + u * Modint + steps[u] * Stride
      BY <1>1 DEF IInv, OnWalk
    <3>2. steps[u] \in Int /\ (steps[u] + 1) * Stride = steps[u] * Stride + Stride
      BY <1>2, <1>3
    <3>3. CASE u = t
      <4>1. blockInt'[u] = FirstCandidate + u * Modint + steps[u] * Stride + Stride
        BY <1>3, <3>1, <3>3
      <4>2. steps'[u] * Stride = steps[u] * Stride + Stride
        BY <1>3, <3>2, <3>3
      <4>3. FirstCandidate \in Int /\ u * Modint \in Int /\ steps[u] * Stride \in Int
        BY <1>1, <1>2, <3>2, FirstCandidateType, Sizes
      <4> QED
        BY <1>2, <4>1, <4>2, <4>3
    <3>4. CASE u # t
      BY <1>3, <3>1, <3>4
    <3> QED
      BY <3>3, <3>4
  <2> QED
    BY <1>1, <2>1, Frame DEF OnWalk
<1>7. OriginalAhead'
  <2>1. ASSUME ~ZerosPassed
        PROVE  \E u \in Thread : blockInt'[u] <= number /\ (number - blockInt'[u]) % Stride = 0
    <3>1. PICK u \in Thread : blockInt[u] <= number /\ (number - blockInt[u]) % Stride = 0
      BY <1>1, <2>1 DEF IInv, OriginalAhead
    <3>2. CASE u # t
      BY <1>3, <3>1, <3>2
    <3>3. CASE u = t
      <4>1. number - blockInt[u] \in Int /\ number - blockInt[u] > 0
        BY <1>1, <1>2, <1>3, <3>1, <3>3
      <4>2. PICK q \in Int : number - blockInt[u] = q * Stride
        BY <1>2, <3>1, <4>1, Multiple
      <4>3. q > 0 /\ q - 1 \in Int
        <5>1. 0 * Stride = 0
          BY <1>2
        <5>2. q * Stride > 0 * Stride
          BY <4>1, <4>2, <5>1
        <5> QED
          BY <1>2, <5>2, Apart
      <4>4. (q - 1) * Stride = q * Stride - Stride /\ (q - 1) * Stride \in Int
        BY <1>2, <4>3
      <4>5. (q - 1) * Stride >= 0
        <5>1. q * Stride >= 0 * Stride + Stride /\ 0 * Stride = 0
          BY <1>2, <4>3, Apart
        <5> QED
          BY <1>2, <4>4, <5>1
      <4>6. number - blockInt'[u] = (q - 1) * Stride
        BY <1>2, <1>3, <3>3, <4>2, <4>4
      <4>7. ((q - 1) * Stride) % Stride = 0
        BY <1>2, <4>3, <4>4, Multiple
      <4> QED
        BY <1>2, <1>3, <3>3, <4>4, <4>5, <4>6, <4>7
    <3> QED
      BY <3>2, <3>3
  <2> QED
    BY <1>1, <2>1, Frame DEF OriginalAhead
<1> QED
  BY <1>4, <1>5, <1>6, <1>7 DEF IInv

LEMMA MeetBlockStep ==
  ASSUME IInv, NEW t \in Thread, MeetBlock(t)
  PROVE  IInv'
<1>1. blk \in Nat /\ BlockCount \in Nat
  BY Sizes, WalkAssumption DEF IInv
<1>2. TypeOK'
  BY <1>1 DEF IInv, TypeOK, MeetBlock, Phases
<1>3. UNCHANGED <<Modint, Stride>>
  BY DEF MeetBlock, Modint, Stride
<1>4. Configured'
  BY <1>3 DEF IInv, Configured, MeetBlock
<1>5. phase' \notin {"scan", "unzip"}
  BY DEF MeetBlock
<1> QED
  BY <1>2, <1>4, <1>5 DEF IInv, Stored, OnWalk, OriginalAhead

LEMMA WalkStep == IInv /\ [Next]_vars => IInv'
<1> SUFFICES ASSUME IInv, [Next]_vars PROVE IInv'
  OBVIOUS
<1>1. ASSUME NEW n \in Block, ZipBlock(n) PROVE IInv'
  BY <1>1, ZipBlockStep
<1>2. CASE SetModscan
  BY <1>2, SetModscanStep
<1>3. CASE ResetThread
  BY <1>3, ResetThreadStep
<1>4. ASSUME NEW t \in Thread, ScanStep(t) PROVE IInv'
  BY <1>4, AdvanceStep, MeetBlockStep DEF ScanStep
<1>5. CASE UNCHANGED vars
  BY <1>5 DEF vars, IInv, TypeOK, Configured, Stored, OnWalk, OriginalAhead, FirstCandidate,
     ExponentFloor, Modint, Stride, ZerosPassed
<1> QED
  BY <1>1, <1>2, <1>3, <1>4, <1>5 DEF Next, Zip, Finished, Block

-----------------------------------------------------------------------------
(* The theorems.                                                           *)

THEOREM WalkInvariance == Spec => []IInv
<1> QED
  BY WalkInit, WalkStep, PTL DEF Spec

\* The fields of the scan objects stay numbers, the exponent in its width.
THEOREM WalkTyping == Spec => []TypeOK
<1>1. IInv => TypeOK
  BY DEF IInv
<1> QED
  BY <1>1, WalkInvariance, PTL

\* Some thread has the block ahead of it as long as the scan goes on, whatever the
\* number of threads and the modulus, for the first block, aligned by setModscan to the
\* modulus, and for the others, aligned by resetThread to a multiple of it, and also
\* when the exponent was cut to its byte: only a block of zeros is passed over.
THEOREM WalkLosesNothing == Spec => []OriginalAhead
<1>1. IInv => OriginalAhead
  BY DEF IInv
<1> QED
  BY <1>1, WalkInvariance, PTL

\* The exception is real: under --mod=1 every thread starts past a block of zeros.
THEOREM ZerosAreLost ==
  Spec => [](phase = "scan" /\ ZerosPassed => \A t \in Thread : blockInt[t] > number)
<1>1. ASSUME IInv, phase = "scan", ZerosPassed, NEW t \in Thread
      PROVE  blockInt[t] > number
  <2>1. /\ Modint \in Nat \ {0} /\ Stride \in Nat \ {0} /\ Stride = Modint * ThreadCount
        /\ number = 0 /\ number \in Block /\ t \in Nat /\ modsize = 1
    BY <1>1, Sizes DEF IInv, ZerosPassed
  <2>2. 2 ^ modsize = 2 /\ Modint = 1
    BY <2>1 DEF Modint, CalcModulusInt
  <2>3. (IF blk = 0 THEN Modint ELSE Stride) = 1
    BY <1>1, <2>1, <2>2 DEF ZerosPassed
  <2>4. exponent = 1
    <3> DEFINE c == CalcExponent(number)
    <3>1. c \in Nat /\ c >= 1 /\ (c > 1 => number >= 2 ^ c - 1)
      BY <2>1, Exponents, WalkAssumption
    <3> HIDE DEF c
    <3>2. 2 ^ c \in Nat /\ 2 ^ c >= 2
      BY <3>1, Powers
    <3>3. c = 1
      BY <2>1, <3>1, <3>2
    <3> QED
      BY <1>1, <2>1, <3>3, StoredExponent DEF IInv, Stored, c
  <2>5. ExponentFloor(1) = 1
    <3>1. 2 ^ exponent = 2
      BY <2>4
    <3>2. 1 % 1 = 0
      OBVIOUS
    <3> QED
      BY <3>1, <3>2 DEF ExponentFloor, ConvertFloorBase2, CalcModulusInt
  <2>6. FirstCandidate >= 1 /\ FirstCandidate \in Nat
    BY <1>1, <2>3, <2>5, FirstCandidateType DEF FirstCandidate, IInv, TypeOK
  <2>7. blockInt[t] = FirstCandidate + t * Modint + steps[t] * Stride /\ steps[t] \in Nat
    BY <1>1 DEF IInv, OnWalk, TypeOK
  <2>8. t * Modint \in Nat /\ steps[t] * Stride \in Nat
    BY <2>1, <2>7
  <2> QED
    BY <2>1, <2>6, <2>7, <2>8
<1>2. IInv => (phase = "scan" /\ ZerosPassed => \A t \in Thread : blockInt[t] > number)
  BY <1>1
<1> QED
  BY <1>2, WalkInvariance, PTL

\* No number is tried by two threads of a block, now or later.
THEOREM WalksShareTheWork == Spec => []WalksAreDisjoint
<1>1. ASSUME IInv, phase = "scan", NEW t \in Thread, NEW u \in Thread,
             (blockInt[t] - blockInt[u]) % modulusInt = 0
      PROVE  t = u
  <2>1. /\ Modint \in Nat \ {0} /\ Stride \in Nat \ {0} /\ Stride = Modint * ThreadCount
        /\ ThreadCount \in Nat \ {0} /\ t \in Nat /\ t < ThreadCount /\ u \in Nat /\ u < ThreadCount
        /\ modulusInt = Stride /\ FirstCandidate \in Nat
    BY <1>1, Sizes, FirstCandidateType DEF IInv, Configured
  <2>2. /\ blockInt[t] = FirstCandidate + t * Modint + steps[t] * Stride
        /\ blockInt[u] = FirstCandidate + u * Modint + steps[u] * Stride
        /\ steps[t] \in Nat /\ steps[u] \in Nat
    BY <1>1 DEF IInv, OnWalk, TypeOK
  <2>3. blockInt[t] - blockInt[u] \in Int
    BY <1>1 DEF IInv, TypeOK
  <2>4. PICK q \in Int : blockInt[t] - blockInt[u] = q * Stride
    BY <1>1, <2>1, <2>3, Multiple
  <2> DEFINE p == q - steps[t] + steps[u]
  <2>5. p \in Int /\ p * Stride = q * Stride - steps[t] * Stride + steps[u] * Stride
    BY <2>1, <2>2, Z3
  <2> HIDE DEF p
  <2>6. (t - u) * Modint = p * Stride
    <3>1. /\ t * Modint \in Int /\ u * Modint \in Int /\ q * Stride \in Int
          /\ steps[t] * Stride \in Int /\ steps[u] * Stride \in Int
      BY <2>1, <2>2
    <3>2. t * Modint - u * Modint = p * Stride
      BY <2>1, <2>2, <2>4, <2>5, <3>1
    <3>3. (t - u) * Modint = t * Modint - u * Modint
      BY <2>1, Z3
    <3> QED
      BY <3>2, <3>3
  <2>7. p * ThreadCount \in Int /\ p * Stride = (p * ThreadCount) * Modint
    BY <2>1, <2>5, Z3
  <2>8. t - u = p * ThreadCount
    BY <2>1, <2>6, <2>7, Apart
  <2>9. 0 * ThreadCount = 0
    BY <2>1
  <2>10. ~(p > 0)
    <3>1. p > 0 => p * ThreadCount >= 0 * ThreadCount + ThreadCount
      BY <2>1, <2>5, Apart
    <3> QED
      BY <2>1, <2>5, <2>7, <2>8, <2>9, <3>1
  <2>11. ~(0 > p)
    <3>1. 0 > p => 0 * ThreadCount >= p * ThreadCount + ThreadCount
      BY <2>1, <2>5, Apart
    <3> QED
      BY <2>1, <2>5, <2>7, <2>8, <2>9, <3>1
  <2>12. p = 0
    BY <2>5, <2>10, <2>11
  <2> QED
    BY <2>1, <2>8, <2>9, <2>12
<1>2. IInv => WalksAreDisjoint
  BY <1>1 DEF WalksAreDisjoint
<1> QED
  BY <1>2, WalkInvariance, PTL

\* A block whose exponent survived the byte it is stored in is below the ceiling, and
\* within reach in as many steps as there are strides between the floor and the ceiling.
ExponentFits == CalcExponent(number) < 2 ^ ExponentBits

LEMMA CeilingHolds ==
  ASSUME IInv, phase = "scan", ExponentFits
  PROVE  /\ number < 2 ^ (exponent + 1) - 1 /\ exponent \in Nat
         /\ 2 ^ (exponent + 1) = 2 * 2 ^ exponent /\ 2 ^ exponent \in Nat
<1>1. number \in Block /\ exponent \in Nat
  BY Sizes DEF IInv
<1>2. exponent = CalcExponent(number)
  BY <1>1, StoredExponent DEF IInv, Stored, ExponentFits
<1>3. number < 2 ^ (exponent + 1) - 1
  BY <1>1, <1>2, Exponents
<1> QED
  BY <1>1, <1>3, Powers

LEMMA StepsHold ==
  ASSUME IInv, phase = "scan", ExponentFits, NEW t \in Thread, blockInt[t] <= number
  PROVE  steps[t] <= 2 ^ exponent \div modulusInt + 1
<1> DEFINE by == IF blk = 0 THEN Modint ELSE Stride
           e == 2 ^ exponent
           d == e \div Stride
           s == steps[t]
<1>1. /\ Modint \in Nat \ {0} /\ Stride \in Nat \ {0} /\ Stride >= Modint
      /\ number \in Nat /\ t \in Nat /\ modulusInt = Stride
  BY Sizes DEF IInv, Configured
<1>2. number < 2 * e - 1 /\ e \in Nat /\ e >= 1
  BY CeilingHolds, Powers
<1>3. by \in Nat \ {0} /\ by <= Stride
  BY <1>1
<1>4. FirstCandidate = remainder + ConvertFloorBase2(e - 1, by) /\ remainder \in Nat
  BY DEF FirstCandidate, ExponentFloor, CalcModulusInt, IInv, TypeOK
<1> HIDE DEF by, e
<1>5. ConvertFloorBase2(e - 1, by) \in Nat /\ ConvertFloorBase2(e - 1, by) > (e - 1) - by
  <2>1. e - 1 \in Nat
    BY <1>2
  <2> QED
    BY <1>3, <2>1, Aligned
<1>6. blockInt[t] = FirstCandidate + t * Modint + s * Stride /\ s \in Nat
  BY DEF IInv, OnWalk, TypeOK
<1>7. e % Stride \in 0 .. Stride - 1 /\ d \in Int /\ e - (e % Stride) = d * Stride
  BY <1>1, <1>2, Division
<1> HIDE DEF d, s
<1>8. t * Modint \in Nat /\ s * Stride \in Nat /\ d * Stride \in Int
  BY <1>1, <1>6, <1>7
<1>9. s * Stride < e + Stride
  BY <1>1, <1>2, <1>3, <1>4, <1>5, <1>6, <1>8
<1>10. ~(s > d + 1)
  <2>1. (d + 1) * Stride = d * Stride + Stride
    BY <1>1, <1>7
  <2>2. ASSUME s > d + 1
        PROVE  FALSE
    <3>1. d + 1 \in Int /\ s \in Int
      BY <1>6, <1>7
    <3>2. s * Stride >= (d + 1) * Stride + Stride
      BY <1>1, <2>2, <3>1, Apart
    <3> QED
      BY <1>1, <1>2, <1>7, <1>8, <1>9, <2>1, <3>2
  <2> QED
    BY <2>2
<1>11. s <= d + 1
  BY <1>6, <1>7, <1>10
<1> QED
  BY <1>1, <1>11 DEF s, d, e

\* Whatever the widths, a block is found below the ceiling when its exponent fits.
THEOREM WalkOfFittingExponent == Spec => [](ExponentFits => BlockBelowCeiling /\ IterationsBounded)
<1>1. ASSUME IInv, ExponentFits, phase = "scan"
      PROVE  BlockBelowCeiling
  <2>1. number < 2 ^ (exponent + 1) - 1 /\ 2 ^ (exponent + 1) \in Nat /\ number \in Nat
    BY <1>1, CeilingHolds, Sizes DEF IInv
  <2> QED
    BY <2>1 DEF BlockBelowCeiling, ModulusExpIntCeil
<1>2. ASSUME IInv, ExponentFits, phase = "scan"
      PROVE  IterationsBounded
  BY <1>2, StepsHold DEF IterationsBounded
<1>3. IInv => (ExponentFits => BlockBelowCeiling /\ IterationsBounded)
  BY <1>1, <1>2 DEF BlockBelowCeiling, IterationsBounded
<1> QED
  BY <1>3, WalkInvariance, PTL

\* Every exponent fits when the size of a block does: up to 31 bytes, or above 32, where
\* four bytes are stored; a block of 32 bytes of ones is the one that does not.
BlocksFit == BlockBits < 2 ^ ExponentBits

LEMMA FittingBlocks ==
  ASSUME BlocksFit, TypeOK
  PROVE  ExponentFits
<1>1. CalcExponent(number) \in 1 .. BlockBits
  BY Sizes, Exponents
<1>2. 2 ^ ExponentBits \in Nat /\ BlockBits \in Nat
  BY Powers, WalkAssumption
<1> QED
  BY <1>1, <1>2 DEF BlocksFit, ExponentFits

THEOREM WalkBelowCeiling == ASSUME BlocksFit PROVE Spec => []BlockBelowCeiling
<1>1. TypeOK /\ (ExponentFits => BlockBelowCeiling /\ IterationsBounded) => BlockBelowCeiling
  BY FittingBlocks
<1> QED
  BY <1>1, WalkTyping, WalkOfFittingExponent, PTL

THEOREM WalkIsShort == ASSUME BlocksFit PROVE Spec => []IterationsBounded
<1>1. TypeOK /\ (ExponentFits => BlockBelowCeiling /\ IterationsBounded) => IterationsBounded
  BY FittingBlocks
<1> QED
  BY <1>1, WalkTyping, WalkOfFittingExponent, PTL

=============================================================================
