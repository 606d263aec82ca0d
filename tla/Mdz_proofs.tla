----------------------------- MODULE Mdz_proofs -----------------------------
(***************************************************************************)
(* The container of the C++ programs for every command line, every list of *)
(* signatures, every file, every key and every place a disk can fill up.   *)
(***************************************************************************)
EXTENDS Mdz, TLAPS, SequenceTheorems, WellFoundedInduction, FiniteSetTheorems

----------------------------------------------------------------------------
(* The packed exponents: whenever a format narrower than seven bits is      *)
(* chosen, the reader rebuilds each exponent the writer put.                *)
\* The exponents of blocks below 128 bits, as sip47's blocks of ten bytes have.
Exps == Seq(0..127)

LEMMA Powers == 2^2 = 4 /\ 2^3 = 8 /\ 2^4 = 16 /\ 2^5 = 32 /\ 2^6 = 64 /\ 2^7 = 128
BY SMT

\* An exponent below 128, and its distance from a base.
LEMMA Distance ==
  ASSUME NEW lo \in 0..255, NEW e \in 0..127, lo <= e
  PROVE  /\ lo \in 0..127 /\ e - lo \in Nat /\ (e - lo) + lo = e
         /\ \A hi \in 0..127 : e <= hi => e - lo <= hi - lo
OBVIOUS

LEMMA SevenBits ==
  ASSUME NEW e \in 0..127
  PROVE  e % 128 = e
OBVIOUS

LEMMA LeastIsLeast ==
  ASSUME NEW S \in SUBSET Nat, S # {}
  PROVE  Least(S) \in S /\ \A y \in S : Least(S) <= y
<1>1. PICK x \in S : \A y \in S : <<y, x>> \notin OpToRel(<, Nat)
  BY NatLessThanWellFounded, WFMin
<1>2. \A y \in S : x <= y
  <2>1. ASSUME NEW y \in S
        PROVE  ~(y < x)
    BY <1>1 DEF OpToRel
  <2> QED
    BY <2>1
<1> QED
  BY <1>2 DEF Least

LEMMA GreatestIsGreatest ==
  ASSUME NEW S \in SUBSET (0..127), S # {}
  PROVE  Greatest(S) \in S /\ \A y \in S : Greatest(S) >= y
<1> DEFINE D == {127 - y : y \in S}
<1>1. D \in SUBSET Nat /\ D # {}
  <2>1. \A y \in S : y \in 0..127 /\ 127 - y \in Nat
    OBVIOUS
  <2> QED
    BY <2>1
<1>2. Least(D) \in D /\ \A d \in D : Least(D) <= d
  BY <1>1, LeastIsLeast
<1>3. PICK x \in S : \A d \in D : 127 - x <= d
  BY <1>2
<1>4. \A y \in S : x >= y
  <2>1. ASSUME NEW y \in S
        PROVE  x >= y
    <3>1. 127 - y \in D
      OBVIOUS
    <3>2. 127 - x <= 127 - y
      BY <1>3, <3>1
    <3> QED
      BY <3>2
  <2> QED
    BY <2>1
<1> QED
  BY <1>4 DEF Greatest

\* The base and the greatest exponent bound those packed, and the spread of these.
LEMMA Bounds ==
  ASSUME NEW es \in Exps, Len(es) > 0
  PROVE  /\ minExponentMinusLastBlock(es) \in 0..255
         /\ Len(es) > 1 => minExponentMinusLastBlock(es) \in 0..127
         /\ \A b \in 1..(Len(es) - 1) :
              /\ minExponentMinusLastBlock(es) <= es[b]
              /\ es[b] - minExponentMinusLastBlock(es) <= diffExponent(es)
         /\ diffExponent(es) \in Int
<1>1. /\ Len(es) \in Nat /\ DOMAIN es = 1..Len(es)
      /\ \A b \in 1..Len(es) : es[b] \in 0..127
  BY LenProperties, ElementOfSeq DEF Exps
<1> DEFINE S == {255} \cup {es[b] : b \in 1..(Len(es) - 1)}
           U == {0} \cup {es[b] : b \in DOMAIN es}
           lo == Least(S)
           hi == Greatest(U)
<1>2. /\ minExponentMinusLastBlock(es) = lo /\ diffExponent(es) = hi - lo
  BY DEF minExponentMinusLastBlock, diffExponent, maxExponent
<1>3. S \in SUBSET (0..255) /\ U \in SUBSET (0..127) /\ S # {} /\ U # {}
  <2>1. (0..127) \subseteq (0..255) /\ 255 \in 0..255 /\ 0 \in 0..127
    OBVIOUS
  <2>2. \A b \in 1..(Len(es) - 1) : es[b] \in 0..127
    <3>1. \A b \in 1..(Len(es) - 1) : b \in 1..Len(es)
      BY <1>1
    <3> QED
      BY <1>1, <3>1
  <2>3. \A x \in S : x = 255 \/ x \in 0..127
    <3>1. ASSUME NEW x \in S, x # 255
          PROVE  x \in 0..127
      <4>1. PICK b \in 1..(Len(es) - 1) : x = es[b]
        BY <3>1
      <4> QED
        BY <2>2, <4>1
    <3> QED
      BY <3>1
  <2>4. \A x \in U : x = 0 \/ x \in 0..127
    <3>1. \A b \in DOMAIN es : es[b] \in 0..127
      BY <1>1
    <3> QED
      BY <3>1
  <2>5. 255 \in S /\ 0 \in U
    OBVIOUS
  <2> HIDE DEF S, U
  <2> QED
    BY <2>1, <2>3, <2>4, <2>5
<1>4. \A b \in 1..(Len(es) - 1) : es[b] \in S /\ es[b] \in U /\ es[b] \in 0..127
  BY <1>1
<1> HIDE DEF S, U
<1>5. lo \in S /\ \A y \in S : lo <= y
  <2>1. S \in SUBSET Nat
    BY <1>3
  <2> QED
    BY <1>3, <2>1, LeastIsLeast
<1>6. hi \in U /\ \A y \in U : hi >= y
  BY <1>3, GreatestIsGreatest
<1> HIDE DEF lo, hi
<1>7. lo \in 0..255 /\ hi \in 0..127
  BY <1>3, <1>5, <1>6
<1>8. \A b \in 1..(Len(es) - 1) : lo <= es[b] /\ es[b] <= hi /\ es[b] \in 0..127
  BY <1>5, <1>6, <1>4
<1>9. Len(es) > 1 => lo \in 0..127
  <2>1. Len(es) > 1 => 1 \in 1..(Len(es) - 1)
    BY <1>1
  <2>2. Len(es) > 1 => lo <= es[1] /\ es[1] \in 0..127
    BY <1>8, <2>1
  <2>3. ASSUME NEW e \in 0..127, lo <= e
        PROVE  lo \in 0..127
    BY <1>7, <2>3
  <2> QED
    BY <2>2, <2>3
<1>10. /\ hi - lo \in Int
       /\ \A b \in 1..(Len(es) - 1) : lo <= es[b] /\ es[b] - lo <= hi - lo
  <2>1. ASSUME NEW b \in 1..(Len(es) - 1)
        PROVE  lo <= es[b] /\ es[b] - lo <= hi - lo
    <3>1. lo <= es[b] /\ es[b] <= hi /\ es[b] \in 0..127
      BY <1>8
    <3> QED
      BY <1>7, <3>1, Distance
  <2> QED
    BY <1>7, <2>1, SMTT(20)
<1> QED
  BY <1>7, <1>2, <1>9, <1>10

\* A format below seven has room for every distance up to the spread it was chosen for.
LEMMA FormatHolds ==
  ASSUME NEW diff \in Int, setDiffFormat(diff) < 7
  PROVE  /\ setDiffFormat(diff) \in 2..6
         /\ setBitstreamBitSize(setDiffFormat(diff)) = setDiffFormat(diff)
         /\ \A d \in Nat : d <= diff => d % (2^setDiffFormat(diff)) = d
<1>1. CASE diff <= 3
  BY <1>1, Powers DEF setDiffFormat, setBitstreamBitSize
<1>2. CASE 3 < diff /\ diff <= 7
  BY <1>2, Powers DEF setDiffFormat, setBitstreamBitSize
<1>3. CASE 8 < diff /\ diff <= 15
  BY <1>3, Powers DEF setDiffFormat, setBitstreamBitSize
<1>4. CASE 16 < diff /\ diff <= 31
  BY <1>4, Powers DEF setDiffFormat, setBitstreamBitSize
<1>5. CASE 32 < diff /\ diff <= 63
  BY <1>5, Powers DEF setDiffFormat, setBitstreamBitSize
<1>6. diff <= 3 \/ (3 < diff /\ diff <= 7) \/ (8 < diff /\ diff <= 15) \/ (16 < diff /\ diff <= 31)
        \/ (32 < diff /\ diff <= 63)
  BY DEF setDiffFormat
<1> QED
  BY <1>1, <1>2, <1>3, <1>4, <1>5, <1>6

\* Whatever the exponents of a file, if setDiffFormat finds them a format of packed
\* distances then the exponent the unzipper takes from the stream for a block is the
\* one calcExponent gave the zipper for it, for the last, short block as for the rest.
THEOREM RoundTrip ==
  ASSUME NEW es \in Exps, Len(es) > 0, calcMinMaxExponent(es) < 7,
         NEW b \in 1..Len(es)
  PROVE  ReadExponent(Stream(es), calcMinMaxExponent(es), Len(es), b) = es[b]
<1>0. /\ Len(es) \in Nat /\ Len(es) \in 1..Len(es)
      /\ es[b] \in 0..127 /\ es[Len(es)] \in 0..127
  <2>1. es \in Seq(0..127)
    BY DEF Exps
  <2>2. Len(es) \in Nat
    BY <2>1, LenProperties
  <2>3. Len(es) \in 1..Len(es)
    BY <2>2
  <2> QED
    BY <2>1, <2>2, <2>3, ElementOfSeq
<1>1. /\ calcMinMaxExponent(es) \in 2..6
      /\ setBitstreamBitSize(calcMinMaxExponent(es)) = calcMinMaxExponent(es)
      /\ \A d \in Nat : d <= diffExponent(es) => d % (2^calcMinMaxExponent(es)) = d
  BY Bounds, FormatHolds, SMTT(20) DEF calcMinMaxExponent
<1>2. ASSUME b < Len(es)
      PROVE  /\ minExponentMinusLastBlock(es) \in 0..127
             /\ es[b] - minExponentMinusLastBlock(es) \in Nat
             /\ es[b] - minExponentMinusLastBlock(es) <= diffExponent(es)
             /\ minExponentMinusLastBlock(es) \in 0..255
             /\ minExponentMinusLastBlock(es) <= es[b]
  <2>1. b \in 1..(Len(es) - 1) /\ Len(es) > 1
    BY <1>0, <1>2
  <2>2. minExponentMinusLastBlock(es) \in 0..127
    BY <1>0, <2>1, Bounds
  <2>3. /\ minExponentMinusLastBlock(es) <= es[b]
        /\ es[b] - minExponentMinusLastBlock(es) <= diffExponent(es)
    BY <1>0, <2>1, Bounds
  <2>4. minExponentMinusLastBlock(es) \in 0..255
    BY <1>0, Bounds
  <2> QED
    BY <1>0, <2>2, <2>3, <2>4, Distance
<1> DEFINE n == Len(es)
           base == minExponentMinusLastBlock(es)
           width == calcMinMaxExponent(es)
           packed == [c \in 1..(n - 1) |-> Put(width, es[c] - base)]
           stream == <<Put(7, base)>> \o packed \o <<Put(7, es[n])>>
<1>3. Stream(es) = stream
  BY <1>1 DEF Stream, mdzipModExponentBitstream26
<1>4. /\ DOMAIN stream = 1..(n + 1)
      /\ stream[1] = Put(7, base)
      /\ \A c \in 1..(n - 1) : stream[c + 1] = Put(width, es[c] - base)
      /\ stream[n + 1] = Put(7, es[n])
  <2>1. PICK p : p = packed
    OBVIOUS
  <2>2. PICK x, y : x = Put(7, base) /\ y = Put(7, es[n])
    OBVIOUS
  <2> DEFINE T == {x, y} \cup {p[c] : c \in 1..(n - 1)}
  <2>3. p \in Seq(T) /\ Len(p) = n - 1 /\ <<x>> \in Seq(T) /\ <<y>> \in Seq(T)
    BY <1>0, <2>1
  <2> QED
    BY <1>0, <2>1, <2>2, <2>3, ConcatProperties
<1> HIDE DEF n, base, width, stream, packed
<1>5. n = Len(es) /\ base = minExponentMinusLastBlock(es) /\ width = calcMinMaxExponent(es)
  BY DEF n, base, width
<1>6. n \in Nat /\ n > 0 /\ b \in 1..n /\ es[n] \in 0..127
  BY <1>0, <1>5
<1>7. Get(stream, n + 1, 7) = es[n]
  <2>1. n + 1 \in DOMAIN stream /\ stream[n + 1] = [width |-> 7, value |-> es[n] % 128]
    BY <1>6, <1>4, Powers DEF Put
  <2>2. es[n] % 128 = es[n]
    BY <1>6, SevenBits
  <2> QED
    BY <2>1, <2>2 DEF Get
<1>8. ASSUME b < n
      PROVE  Get(stream, b + 1, width) + Get(stream, 1, 7) = es[b]
  <2>1. base \in 0..127 /\ es[b] - base \in Nat /\ (es[b] - base) % (2^width) = es[b] - base
    BY <1>1, <1>8, <1>2, <1>5
  <2>2. Get(stream, 1, 7) = base
    <3>1. 1 \in DOMAIN stream /\ stream[1] = [width |-> 7, value |-> base % 128]
      BY <1>6, <1>4, Powers DEF Put
    <3>2. base % 128 = base
      BY <2>1, SevenBits
    <3> QED
      BY <3>1, <3>2 DEF Get
  <2>3. Get(stream, b + 1, width) = es[b] - base
    <3>1. b \in 1..(n - 1) /\ b + 1 \in 1..(n + 1)
      BY <1>6, <1>8
    <3>2. stream[b + 1] = [width |-> width, value |-> es[b] - base] /\ b + 1 \in DOMAIN stream
      BY <1>4, <2>1, <3>1, SMTT(20) DEF Put
    <3> QED
      BY <3>2 DEF Get
  <2>4. (es[b] - base) + base = es[b]
    <3>1. es[b] \in 0..127 /\ base \in 0..255 /\ base <= es[b]
      BY <1>0, <1>8, <1>2, <1>5
    <3> QED
      BY <3>1, Distance
  <2> QED
    BY <2>2, <2>3, <2>4
<1> QED
  <2>1. width # 7 /\ ReadExponent(stream, width, n, b) =
          IF b < n THEN Get(stream, b + 1, width) + Get(stream, 1, 7) ELSE Get(stream, b + 1, 7)
    BY <1>1, <1>5 DEF ReadExponent
  <2>2. ~(b < n) => b = n
    BY <1>0, <1>5
  <2> QED
    BY <1>3, <1>7, <1>8, <1>5, <2>1, <2>2

----------------------------------------------------------------------------
(* Sequences, whatever their elements.                                     *)
IsList(s) == Len(s) \in Nat /\ s = [i \in 1..Len(s) |-> s[i]]

LEMMA ListIsSeq ==
  ASSUME NEW s, IsList(s)
  PROVE  DOMAIN s = 1..Len(s) /\ s \in Seq({s[i] : i \in 1..Len(s)})
BY DEF IsList

\* A function on the first n numbers.
LEMMA ListOf ==
  ASSUME NEW n \in Nat, NEW f, f = [i \in 1..n |-> f[i]]
  PROVE  IsList(f) /\ Len(f) = n
<1>1. f \in [1..n -> {f[i] : i \in 1..n}]
  BY DEF IsList
<1>2. f \in Seq({f[i] : i \in 1..n}) /\ Len(f) = n
  BY <1>1
<1> QED
  BY <1>2 DEF IsList

LEMMA SeqIsList ==
  ASSUME NEW S, NEW s \in Seq(S)
  PROVE  IsList(s) /\ \A i \in 1..Len(s) : s[i] \in S
<1>1. Len(s) \in Nat /\ DOMAIN s = 1..Len(s) /\ s \in [1..Len(s) -> S]
  BY LenProperties
<1> QED
  BY <1>1 DEF IsList

\* c is a followed by b.
Follows(c, a, b) ==
  /\ IsList(c) /\ Len(c) = Len(a) + Len(b)
  /\ \A i \in 1..Len(a) : c[i] = a[i]
  /\ \A i \in 1..Len(b) : c[Len(a) + i] = b[i]

LEMMA Joins ==
  ASSUME NEW a, NEW b, IsList(a), IsList(b)
  PROVE  Follows(a \o b, a, b)
<1> DEFINE T == {a[i] : i \in 1..Len(a)} \cup {b[i] : i \in 1..Len(b)}
<1>1. Len(a) \in Nat /\ Len(b) \in Nat
  BY DEF IsList
<1>2. a \in Seq(T) /\ b \in Seq(T)
  <2>1. \A i \in 1..Len(a) : a[i] \in T
    OBVIOUS
  <2>2. \A i \in 1..Len(b) : b[i] \in T
    OBVIOUS
  <2> HIDE DEF T
  <2>3. a \in [1..Len(a) -> T] /\ b \in [1..Len(b) -> T]
    BY <2>1, <2>2 DEF IsList
  <2> QED
    BY <1>1, <2>3
<1> HIDE DEF T
<1>3. a \o b \in Seq(T) /\ Len(a \o b) = Len(a) + Len(b)
  BY <1>2, ConcatProperties
<1>4. IsList(a \o b)
  BY <1>3, SeqIsList
<1>5. \A i \in 1..Len(a) : (a \o b)[i] = a[i]
  <2>1. ASSUME NEW i \in 1..Len(a) PROVE (a \o b)[i] = a[i]
    <3>1. i \in 1..(Len(a) + Len(b)) /\ i <= Len(a)
      BY <1>1
    <3> QED
      BY <3>1, <1>2, ConcatProperties
  <2> QED
    BY <2>1
<1>6. \A i \in 1..Len(b) : (a \o b)[Len(a) + i] = b[i]
  <2>1. ASSUME NEW i \in 1..Len(b) PROVE (a \o b)[Len(a) + i] = b[i]
    <3>1. Len(a) + i \in 1..(Len(a) + Len(b)) /\ ~(Len(a) + i <= Len(a)) /\ (Len(a) + i) - Len(a) = i
      BY <1>1
    <3> QED
      BY <3>1, <1>2, ConcatProperties
  <2> QED
    BY <2>1
<1> QED
  BY <1>3, <1>4, <1>5, <1>6 DEF Follows

LEMMA Appended ==
  ASSUME NEW s, NEW e, IsList(s)
  PROVE  /\ IsList(Append(s, e)) /\ Len(Append(s, e)) = Len(s) + 1
         /\ \A i \in 1..Len(s) : Append(s, e)[i] = s[i]
         /\ Append(s, e)[Len(s) + 1] = e
<1> DEFINE T == {s[i] : i \in 1..Len(s)} \cup {e}
<1>1. s \in Seq(T) /\ e \in T /\ Len(s) \in Nat
  <2>1. \A i \in 1..Len(s) : s[i] \in T
    OBVIOUS
  <2>2. e \in T
    OBVIOUS
  <2> HIDE DEF T
  <2>3. Len(s) \in Nat /\ s \in [1..Len(s) -> T]
    BY <2>1 DEF IsList
  <2> QED
    BY <2>2, <2>3
<1> HIDE DEF T
<1>2. Append(s, e) \in Seq(T) /\ Len(Append(s, e)) = Len(s) + 1
  BY <1>1, AppendProperties
<1>3. IsList(Append(s, e))
  BY <1>2, SeqIsList
<1>4. /\ \A i \in 1..Len(s) : Append(s, e)[i] = s[i]
      /\ Append(s, e)[Len(s) + 1] = e
  BY <1>1, AppendProperties
<1> QED
  BY <1>2, <1>3, <1>4

\* Two lists with the same elements in the same places.
LEMMA SameList ==
  ASSUME NEW a, NEW b, IsList(a), IsList(b), Len(a) = Len(b), \A i \in 1..Len(a) : a[i] = b[i]
  PROVE  a = b
BY DEF IsList

----------------------------------------------------------------------------
(* The registry: where a name stands, and which methods agree about it.    *)
Distinct(reg) == \A i, j \in DOMAIN reg : reg[i][1] = reg[j][1] => i = j
MapOf(reg, map) ==
  /\ IsList(reg)
  /\ \A i \in DOMAIN reg : reg[i][1] \in DOMAIN map /\ map[reg[i][1]] = i
  /\ \A s \in DOMAIN map : map[s] \in DOMAIN reg /\ reg[map[s]][1] = s

LEMMA NameMap ==
  ASSUME NEW reg, IsList(reg), Distinct(reg),
         NEW map, map = [s \in {reg[i][1] : i \in DOMAIN reg} |-> CHOOSE i \in DOMAIN reg : reg[i][1] = s]
  PROVE  MapOf(reg, map)
<1>1. ASSUME NEW i \in DOMAIN reg
      PROVE  reg[i][1] \in DOMAIN map /\ map[reg[i][1]] = i
  <2>1. \E k \in DOMAIN reg : reg[k][1] = reg[i][1]
    OBVIOUS
  <2>2. \A k \in DOMAIN reg : reg[k][1] = reg[i][1] => k = i
    BY DEF Distinct
  <2>3. (CHOOSE k \in DOMAIN reg : reg[k][1] = reg[i][1]) = i
    BY <2>1, <2>2
  <2>4. reg[i][1] \in {reg[k][1] : k \in DOMAIN reg}
    OBVIOUS
  <2> QED
    BY <2>3, <2>4
<1>2. ASSUME NEW s \in DOMAIN map
      PROVE  map[s] \in DOMAIN reg /\ reg[map[s]][1] = s
  <2>1. PICK i \in DOMAIN reg : s = reg[i][1]
    BY SMTT(20)
  <2> QED
    BY <2>1, <1>1
<1> QED
  BY <1>1, <1>2 DEF MapOf

LEMMA OldRegistry == IsList(Old!mdHashlist) /\ DOMAIN Old!mdHashlist = 1..46 /\ Distinct(Old!mdHashlist)
<1>1. DOMAIN Old!mdHashlist = 1..46 /\ Len(Old!mdHashlist) = 46
  BY DEF Old!mdHashlist
<1>2. IsList(Old!mdHashlist)
  BY DEF Old!mdHashlist, IsList
<1>3. ASSUME NEW i \in 1..46, NEW j \in 1..46, Old!mdHashlist[i][1] = Old!mdHashlist[j][1]
      PROVE  i = j
  BY <1>3 DEF Old!mdHashlist
<1> QED
  BY <1>1, <1>2, <1>3 DEF Distinct

LEMMA OldMap == MapOf(Old!mdHashlist, Old!hclmap)
BY OldRegistry, NameMap DEF Old!hclmap

LEMMA OldNames ==
  DOMAIN Old!hclmap =
    {"cit64", "crc32", "crc64", "edn224", "fast32", "fast64", "fnv32", "fnv32a", "fnv64", "fnv64a", "has160",
     "hw40", "hw64", "md2", "md4", "md5", "md6", "md62", "met641", "met642", "mx3", "png", "ripe128",
     "ripe160", "ripe256", "ripe320", "sea64", "sip32", "sip322", "sip40", "sip48", "sip64", "sip128",
     "sha1_64", "sha1_128", "sha1", "sha256", "sha384", "sha512", "spk32", "spk64", "tgr", "xxh32", "xxh64",
     "whp", "wy64"}
<1>1. DOMAIN Old!hclmap = {Old!mdHashlist[k][1] : k \in 1..46}
  BY OldRegistry DEF Old!hclmap
<1> QED
  BY <1>1 DEF Old!mdHashlist

LEMMA OldDigests ==
  /\ \A s \in {"crc32", "fast32", "fnv32", "fnv32a", "sip32", "sip322", "spk32", "xxh32"} :
       Old!hashblocksize[s] = 4
  /\ \A s \in {"hw40", "sip40"} : Old!hashblocksize[s] = 5
  /\ Old!hashblocksize["sip48"] = 6
  /\ \A s \in {"cit64", "crc64", "fast64", "fnv64", "fnv64a", "hw64", "met641", "met642", "mx3", "png",
               "sea64", "sip64", "sha1_64", "spk64", "xxh64", "wy64"} : Old!hashblocksize[s] = 8
  /\ \A s \in {"md2", "md4", "md5", "ripe128", "sip128", "sha1_128"} : Old!hashblocksize[s] = 16
  /\ \A s \in {"has160", "md6", "md62", "ripe160", "sha1"} : Old!hashblocksize[s] = 20
  /\ Old!hashblocksize["tgr"] = 24 /\ Old!hashblocksize["edn224"] = 28
  /\ \A s \in {"ripe256", "sha256"} : Old!hashblocksize[s] = 32
  /\ Old!hashblocksize["ripe320"] = 40 /\ Old!hashblocksize["sha384"] = 48
  /\ \A s \in {"sha512", "whp"} : Old!hashblocksize[s] = 64
<1>1. ASSUME NEW i \in 1..46
      PROVE  Old!hashblocksize[Old!mdHashlist[i][1]] = Old!mdHashlist[i][2]
  BY OldMap, OldRegistry DEF MapOf, Old!hashblocksize
<1> QED
  BY <1>1 DEF Old!mdHashlist

\* The signatures that take a key.
KeyedSignatures ==
  {"cit64", "crc32", "crc64", "fast32", "fast64", "hw40", "hw48", "hw64", "met641", "met642", "mx3", "png",
   "sea64", "sip32", "sip322", "sip40", "sip48", "sip64", "sip128", "spk32", "spk64", "xxh32", "xxh64", "wy64"}
Takes(s) == IF s \in KeyedSignatures THEN "key" ELSE "data"

\* What is written of a signature is what its registry entry says and what is read;
\* whether it takes its key, the methods that compute it and those that compare it agree;
\* no more of it is compared than is computed and written, but of MD6 over a file.
Agree(s, bytes, read, write, readKey, writeKey, block, file, compare, compareFile) ==
  /\ read = bytes /\ write = bytes /\ bytes \in 4..64
  /\ readKey = writeKey /\ readKey \in Nat /\ (s \in KeyedSignatures => readKey > 0)
  /\ block.takes = Takes(s) /\ compare.takes = Takes(s)
  /\ file.takes = Takes(s) /\ compareFile.takes = Takes(s)
  /\ block.bytes \in Nat /\ compare.bytes \in Nat /\ file.bytes \in Nat /\ compareFile.bytes \in Nat
  /\ compare.bytes <= bytes /\ bytes <= block.bytes
  /\ compareFile.bytes <= bytes /\ (s \notin {"md6", "md62"} => bytes <= file.bytes)

LEMMA OldAgree ==
  \A s \in DOMAIN Old!hclmap :
    Agree(s, Old!hashblocksize[s], Old!readBlockHashList[s], Old!writeBlockHashList[s], Old!readKeyList[s],
          Old!writeKeyList[s], Old!setByteBlockHashList[s], Old!setFileHashList[s],
          Old!compareBlockHashList[s], Old!compareFileHashList[s])
<1>1. \A s \in DOMAIN Old!hclmap :
        /\ Old!readBlockHashList[s] = Old!hashblocksize[s] /\ Old!writeBlockHashList[s] = Old!hashblocksize[s]
        /\ Old!hashblocksize[s] \in 4..64
  BY OldNames, OldDigests DEF Old!readBlockHashList, Old!writeBlockHashList
<1>2. \A s \in DOMAIN Old!hclmap :
        /\ Old!readKeyList[s] = Old!writeKeyList[s] /\ Old!readKeyList[s] \in Nat
        /\ (s \in KeyedSignatures => Old!readKeyList[s] > 0)
  BY OldNames DEF Old!readKeyList, Old!writeKeyList, KeyedSignatures
<1>3. \A s \in DOMAIN Old!hclmap : Old!setByteBlockHashList[s].takes = Takes(s)
  BY OldNames DEF Old!setByteBlockHashList, Old!Keyed, Old!Unkeyed, KeyedSignatures, Takes
<1>4. \A s \in DOMAIN Old!hclmap : Old!setFileHashList[s].takes = Takes(s)
  BY OldNames DEF Old!setFileHashList, Old!Keyed, Old!Unkeyed, KeyedSignatures, Takes
<1>5. \A s \in DOMAIN Old!hclmap : Old!compareBlockHashList[s].takes = Takes(s)
  BY OldNames DEF Old!compareBlockHashList, Old!Keyed, Old!Unkeyed, KeyedSignatures, Takes
<1>6. \A s \in DOMAIN Old!hclmap : Old!compareFileHashList[s].takes = Takes(s)
  BY OldNames DEF Old!compareFileHashList, Old!Keyed, Old!Unkeyed, KeyedSignatures, Takes
<1>7. \A s \in DOMAIN Old!hclmap :
        Old!compareBlockHashList[s].bytes \in Nat /\ Old!compareBlockHashList[s].bytes <= Old!hashblocksize[s]
  BY OldNames, OldDigests DEF Old!compareBlockHashList, Old!Keyed, Old!Unkeyed
<1>8. \A s \in DOMAIN Old!hclmap :
        Old!setByteBlockHashList[s].bytes \in Nat /\ Old!hashblocksize[s] <= Old!setByteBlockHashList[s].bytes
  BY OldNames, OldDigests DEF Old!setByteBlockHashList, Old!Keyed, Old!Unkeyed
<1>9. \A s \in DOMAIN Old!hclmap :
        Old!compareFileHashList[s].bytes \in Nat /\ Old!compareFileHashList[s].bytes <= Old!hashblocksize[s]
  BY OldNames, OldDigests DEF Old!compareFileHashList, Old!Keyed, Old!Unkeyed
<1>10. \A s \in DOMAIN Old!hclmap :
         /\ Old!setFileHashList[s].bytes \in Nat
         /\ s \notin {"md6", "md62"} => Old!hashblocksize[s] <= Old!setFileHashList[s].bytes
  BY OldNames, OldDigests DEF Old!setFileHashList, Old!Keyed, Old!Unkeyed
<1> QED
  BY <1>1, <1>2, <1>3, <1>4, <1>5, <1>6, <1>7, <1>8, <1>9, <1>10 DEF Agree

\* The later copy is the older one with hw48 in thirteenth place.
LEMMA NewOld ==
  /\ New!Old!mdHashlist = Old!mdHashlist /\ New!Old!hclmap = Old!hclmap
  /\ New!Old!hashblocksize = Old!hashblocksize
BY DEF New!Old!mdHashlist, Old!mdHashlist, New!Old!hclmap, Old!hclmap, New!Old!hashblocksize, Old!hashblocksize

LEMMA NewOldSwitches ==
  /\ New!Old!readBlockHashList = Old!readBlockHashList /\ New!Old!writeBlockHashList = Old!writeBlockHashList
  /\ New!Old!readKeyList = Old!readKeyList /\ New!Old!writeKeyList = Old!writeKeyList
  /\ New!Old!setByteBlockHashList = Old!setByteBlockHashList /\ New!Old!setFileHashList = Old!setFileHashList
  /\ New!Old!compareBlockHashList = Old!compareBlockHashList
  /\ New!Old!compareFileHashList = Old!compareFileHashList
  /\ New!Old!incrementBlockKeyList = Old!incrementBlockKeyList
<1>1. /\ New!Old!readBlockHashList = Old!readBlockHashList /\ New!Old!writeBlockHashList = Old!writeBlockHashList
      /\ New!Old!readKeyList = Old!readKeyList /\ New!Old!writeKeyList = Old!writeKeyList
      /\ New!Old!incrementBlockKeyList = Old!incrementBlockKeyList
  BY NewOld DEF New!Old!readBlockHashList, Old!readBlockHashList, New!Old!writeBlockHashList,
     Old!writeBlockHashList, New!Old!readKeyList, Old!readKeyList, New!Old!writeKeyList, Old!writeKeyList,
     New!Old!incrementBlockKeyList, Old!incrementBlockKeyList
<1>2. \A n : New!Old!Keyed(n) = Old!Keyed(n) /\ New!Old!Unkeyed(n) = Old!Unkeyed(n)
  BY DEF New!Old!Keyed, Old!Keyed, New!Old!Unkeyed, Old!Unkeyed
<1>3. New!Old!setByteBlockHashList = Old!setByteBlockHashList /\ New!Old!setFileHashList = Old!setFileHashList
  BY NewOld, <1>2 DEF New!Old!setByteBlockHashList, Old!setByteBlockHashList, New!Old!setFileHashList,
     Old!setFileHashList, New!Old!Keyed, Old!Keyed, New!Old!Unkeyed, Old!Unkeyed
<1>4. /\ New!Old!compareBlockHashList = Old!compareBlockHashList
      /\ New!Old!compareFileHashList = Old!compareFileHashList
  BY NewOld, <1>2 DEF New!Old!compareBlockHashList, Old!compareBlockHashList, New!Old!compareFileHashList,
     Old!compareFileHashList, New!Old!Keyed, Old!Keyed, New!Old!Unkeyed, Old!Unkeyed
<1> QED
  BY <1>1, <1>3, <1>4

LEMMA NewPlaces ==
  /\ IsList(New!mdHashlist) /\ DOMAIN New!mdHashlist = 1..47
  /\ \A i \in 1..12 : New!mdHashlist[i] = Old!mdHashlist[i]
  /\ New!mdHashlist[13] = <<"hw48", 6, 32>>
  /\ \A i \in 14..47 : New!mdHashlist[i] = Old!mdHashlist[i - 1]
<1> DEFINE reg == Old!mdHashlist
           front == SubSeq(reg, 1, 12)
           back == SubSeq(reg, 13, 46)
           hw48 == << <<"hw48", 6, 32>> >>
<1>1. IsList(reg) /\ Len(reg) = 46
  BY OldRegistry DEF IsList, Old!mdHashlist
<1>2. New!mdHashlist = (front \o hw48) \o back
  BY NewOld, <1>1 DEF New!mdHashlist, New!InsertAt
<1> HIDE DEF reg
<1>3. IsList(front) /\ Len(front) = 12 /\ \A i \in 1..12 : front[i] = reg[i]
  <2>1. front = [i \in 1..12 |-> reg[i]] 
    BY <1>1
  <2> HIDE DEF front
  <2> QED
    BY <2>1, ListOf
<1>4. IsList(back) /\ Len(back) = 34 /\ \A i \in 1..34 : back[i] = reg[i + 12]
  <2>1. back = [i \in 1..34 |-> reg[i + 12]]
    BY <1>1
  <2> HIDE DEF back
  <2>2. back = [i \in 1..34 |-> back[i]] /\ \A i \in 1..34 : back[i] = reg[i + 12]
    BY <2>1
  <2> QED
    BY <2>2, ListOf
<1>5. IsList(hw48) /\ Len(hw48) = 1 /\ hw48[1] = <<"hw48", 6, 32>>
  BY DEF IsList
<1> HIDE DEF front, back, hw48
<1> DEFINE most == front \o hw48
<1>6. /\ IsList(most) /\ Len(most) = 13
      /\ \A i \in 1..12 : most[i] = front[i]
      /\ most[13] = hw48[1]
  <2>1. Follows(most, front, hw48)
    BY <1>3, <1>5, Joins
  <2> HIDE DEF most
  <2> QED
    BY <2>1, <1>3, <1>5 DEF Follows
<1>7. /\ IsList(New!mdHashlist) /\ Len(New!mdHashlist) = 47
      /\ \A i \in 1..13 : New!mdHashlist[i] = most[i]
      /\ \A i \in 1..34 : New!mdHashlist[13 + i] = back[i]
  <2>1. Follows(New!mdHashlist, most, back)
    BY <1>2, <1>4, <1>6, Joins
  <2> HIDE DEF most
  <2>2. /\ Len(New!mdHashlist) = 13 + 34 /\ \A i \in 1..13 : New!mdHashlist[i] = most[i]
        /\ IsList(New!mdHashlist) /\ \A i \in 1..34 : New!mdHashlist[13 + i] = back[i]
    BY <2>1, <1>4, <1>6, Zenon DEF Follows
  <2> QED
    BY <2>2
<1> HIDE DEF most
<1>8. ASSUME NEW i \in 14..47
      PROVE  New!mdHashlist[i] = reg[i - 1]
  <2>1. i - 13 \in 1..34 /\ 13 + (i - 13) = i /\ (i - 13) + 12 = i - 1
    OBVIOUS
  <2> QED
    BY <2>1, <1>7, <1>4
<1> QED
  <2>1. DOMAIN New!mdHashlist = 1..47
    BY <1>7, ListIsSeq
  <2>2. New!mdHashlist[13] = <<"hw48", 6, 32>>
    BY <1>5, <1>6, <1>7
  <2>3. \A i \in 1..12 : New!mdHashlist[i] = reg[i]
    BY <1>3, <1>6, <1>7
  <2> QED
    BY <1>7, <1>8, <2>1, <2>2, <2>3 DEF reg

LEMMA NewRegistry ==
  /\ MapOf(New!mdHashlist, New!hclmap) /\ New!hclmap["hw48"] = 13
  /\ DOMAIN New!hclmap = DOMAIN Old!hclmap \cup {"hw48"} /\ "hw48" \notin DOMAIN Old!hclmap
<1>1. "hw48" \notin DOMAIN Old!hclmap /\ \A i \in 1..46 : Old!mdHashlist[i][1] \in DOMAIN Old!hclmap
  BY OldNames, OldMap, OldRegistry DEF MapOf
<1>2. \A i, j \in 1..46 : Old!mdHashlist[i][1] = Old!mdHashlist[j][1] => i = j
  BY OldRegistry DEF Distinct
<1>3. New!mdHashlist[13][1] = "hw48"
  BY NewPlaces
<1>4. ASSUME NEW i \in 1..47, i # 13
      PROVE  \E k \in 1..46 : New!mdHashlist[i] = Old!mdHashlist[k] /\ i = (IF k < 13 THEN k ELSE k + 1)
  <2>1. CASE i < 13
    BY <2>1, NewPlaces
  <2>2. CASE i > 13
    <3>1. i \in 14..47 /\ i - 1 \in 1..46 /\ ~(i - 1 < 13) /\ (i - 1) + 1 = i
      BY <2>2, SMTT(20)
    <3> QED
      BY <3>1, NewPlaces
  <2> QED
    BY <1>4, <2>1, <2>2
<1>5. Distinct(New!mdHashlist)
  <2>1. ASSUME NEW i \in 1..47, NEW j \in 1..47, New!mdHashlist[i][1] = New!mdHashlist[j][1]
        PROVE  i = j
    <3>1. CASE i = 13 \/ j = 13
      <4>1. \A k \in 1..47 : k # 13 => New!mdHashlist[k][1] \in DOMAIN Old!hclmap
        BY <1>1, <1>4
      <4> QED
        BY <1>1, <1>3, <2>1, <3>1, <4>1
    <3>2. CASE i # 13 /\ j # 13
      <4>1. PICK k \in 1..46 : New!mdHashlist[i] = Old!mdHashlist[k] /\ i = (IF k < 13 THEN k ELSE k + 1)
        BY <1>4, <3>2
      <4>2. PICK m \in 1..46 : New!mdHashlist[j] = Old!mdHashlist[m] /\ j = (IF m < 13 THEN m ELSE m + 1)
        BY <1>4, <3>2
      <4> QED
        BY <1>2, <2>1, <4>1, <4>2
    <3> QED
      BY <3>1, <3>2
  <2> QED
    BY <2>1, NewPlaces DEF Distinct
<1>6. MapOf(New!mdHashlist, New!hclmap)
  BY <1>5, NewPlaces, NameMap DEF New!hclmap
<1>7. New!hclmap["hw48"] = 13
  BY <1>3, <1>6, NewPlaces DEF MapOf
<1>8. ASSUME NEW s \in DOMAIN New!hclmap
      PROVE  s \in DOMAIN Old!hclmap \cup {"hw48"}
  <2>1. PICK i \in 1..47 : New!mdHashlist[i][1] = s
    BY <1>6, NewPlaces DEF MapOf
  <2>2. CASE i = 13
    BY <1>3, <2>1, <2>2
  <2>3. CASE i # 13
    <3>1. PICK k \in 1..46 : New!mdHashlist[i] = Old!mdHashlist[k]
      BY <1>4, <2>3
    <3> QED
      BY <1>1, <2>1, <3>1
  <2> QED
    BY <2>2, <2>3
<1>9. ASSUME NEW s \in DOMAIN Old!hclmap
      PROVE  s \in DOMAIN New!hclmap
  <2>1. Old!hclmap[s] \in 1..46 /\ Old!mdHashlist[Old!hclmap[s]][1] = s
    BY OldMap, OldRegistry DEF MapOf
  <2>2. PICK i \in 1..47 : New!mdHashlist[i] = Old!mdHashlist[Old!hclmap[s]]
    <3>1. CASE Old!hclmap[s] \in 1..12
      BY <3>1, NewPlaces
    <3>2. CASE Old!hclmap[s] \in 13..46
      <4>1. Old!hclmap[s] + 1 \in 14..47 /\ (Old!hclmap[s] + 1) - 1 = Old!hclmap[s]
        BY <3>2
      <4> QED
        BY <4>1, NewPlaces
    <3> QED
      BY <2>1, <3>1, <3>2
  <2> QED
    BY <2>1, <2>2, <1>6, NewPlaces DEF MapOf
<1>10. "hw48" \in DOMAIN New!hclmap
  BY <1>3, <1>6, NewPlaces DEF MapOf
<1> QED
  BY <1>1, <1>6, <1>7, <1>8, <1>9, <1>10

LEMMA NewDigests ==
  /\ New!hashblocksize["hw48"] = 6 /\ DOMAIN New!hashblocksize = DOMAIN New!hclmap
  /\ \A s \in DOMAIN Old!hclmap : New!hashblocksize[s] = Old!hashblocksize[s]
<1>1. New!hashblocksize["hw48"] = 6
  BY NewRegistry, NewPlaces DEF New!hashblocksize
<1>2. ASSUME NEW s \in DOMAIN Old!hclmap
      PROVE  New!hashblocksize[s] = Old!hashblocksize[s]
  <2>1. /\ s \in DOMAIN New!hclmap /\ New!hclmap[s] \in 1..47 /\ New!mdHashlist[New!hclmap[s]][1] = s
        /\ s # "hw48"
    BY NewRegistry, NewPlaces DEF MapOf
  <2>2. PICK k \in 1..46 : New!mdHashlist[New!hclmap[s]] = Old!mdHashlist[k]
    <3>1. New!hclmap[s] # 13
      BY <2>1, NewPlaces
    <3>2. CASE New!hclmap[s] \in 1..12
      BY <3>2, NewPlaces
    <3>3. CASE New!hclmap[s] \in 14..47
      <4>1. New!hclmap[s] - 1 \in 1..46
        BY <3>3
      <4> QED
        BY <3>3, <4>1, NewPlaces
    <3> QED
      BY <2>1, <3>1, <3>2, <3>3
  <2>3. Old!hclmap[s] = k
    BY <2>1, <2>2, OldMap, OldRegistry DEF MapOf
  <2> QED
    BY <2>1, <2>2, <2>3 DEF New!hashblocksize, Old!hashblocksize
<1> QED
  BY <1>1, <1>2 DEF New!hashblocksize

LEMMA NewAgree ==
  \A s \in DOMAIN New!hclmap :
    Agree(s, New!hashblocksize[s], New!readBlockHashList[s], New!writeBlockHashList[s], New!readKeyList[s],
          New!writeKeyList[s], New!setByteBlockHashList[s], New!setFileHashList[s],
          New!compareBlockHashList[s], New!compareFileHashList[s])
<1>1. ASSUME NEW s \in DOMAIN Old!hclmap
      PROVE  /\ s \in DOMAIN New!hclmap
             /\ New!readBlockHashList[s] = Old!readBlockHashList[s]
             /\ New!writeBlockHashList[s] = Old!writeBlockHashList[s]
             /\ New!readKeyList[s] = Old!readKeyList[s] /\ New!writeKeyList[s] = Old!writeKeyList[s]
             /\ New!setByteBlockHashList[s] = Old!setByteBlockHashList[s]
             /\ New!setFileHashList[s] = Old!setFileHashList[s]
             /\ New!compareBlockHashList[s] = Old!compareBlockHashList[s]
             /\ New!compareFileHashList[s] = Old!compareFileHashList[s]
  <2>1. s \in DOMAIN New!hclmap /\ s # "hw48"
    BY NewRegistry
  <2>2. \A outcome, switch : New!WithHw48(outcome, switch)[s] = switch[s]
    BY <2>1 DEF New!WithHw48
  <2> QED
    BY <2>1, <2>2, NewOldSwitches
       DEF New!readBlockHashList, New!writeBlockHashList, New!readKeyList, New!writeKeyList,
           New!setByteBlockHashList, New!setFileHashList, New!compareBlockHashList, New!compareFileHashList
<1>2. /\ New!readBlockHashList["hw48"] = 6 /\ New!writeBlockHashList["hw48"] = 6
      /\ New!readKeyList["hw48"] = 32 /\ New!writeKeyList["hw48"] = 32
      /\ New!setByteBlockHashList["hw48"] = Old!Keyed(8) /\ New!setFileHashList["hw48"] = Old!Keyed(8)
      /\ New!compareBlockHashList["hw48"] = Old!Keyed(6) /\ New!compareFileHashList["hw48"] = Old!Keyed(6)
  <2>1. \A outcome, switch : New!WithHw48(outcome, switch)["hw48"] = outcome
    BY NewRegistry DEF New!WithHw48
  <2>2. \A n : New!Old!Keyed(n) = Old!Keyed(n)
    BY DEF New!Old!Keyed, Old!Keyed
  <2> QED
    BY <2>1, <2>2, NewDigests
       DEF New!readBlockHashList, New!writeBlockHashList, New!readKeyList, New!writeKeyList,
           New!setByteBlockHashList, New!setFileHashList, New!compareBlockHashList, New!compareFileHashList
<1>3. /\ \A n : Old!Keyed(n).takes = "key" /\ Old!Keyed(n).bytes = n
      /\ Takes("hw48") = "key" /\ "hw48" \notin {"md6", "md62"}
  BY DEF Old!Keyed, Takes, KeyedSignatures
<1>4. Agree("hw48", New!hashblocksize["hw48"], New!readBlockHashList["hw48"], New!writeBlockHashList["hw48"],
            New!readKeyList["hw48"], New!writeKeyList["hw48"], New!setByteBlockHashList["hw48"],
            New!setFileHashList["hw48"], New!compareBlockHashList["hw48"], New!compareFileHashList["hw48"])
  BY <1>2, <1>3, NewDigests DEF Agree
<1>5. ASSUME NEW s \in DOMAIN Old!hclmap
      PROVE  Agree(s, New!hashblocksize[s], New!readBlockHashList[s], New!writeBlockHashList[s],
                   New!readKeyList[s], New!writeKeyList[s], New!setByteBlockHashList[s],
                   New!setFileHashList[s], New!compareBlockHashList[s], New!compareFileHashList[s])
  <2>1. New!hashblocksize[s] = Old!hashblocksize[s]
    BY NewDigests
  <2>2. /\ New!readBlockHashList[s] = Old!readBlockHashList[s]
        /\ New!writeBlockHashList[s] = Old!writeBlockHashList[s]
        /\ New!readKeyList[s] = Old!readKeyList[s] /\ New!writeKeyList[s] = Old!writeKeyList[s]
        /\ New!setByteBlockHashList[s] = Old!setByteBlockHashList[s]
        /\ New!setFileHashList[s] = Old!setFileHashList[s]
        /\ New!compareBlockHashList[s] = Old!compareBlockHashList[s]
        /\ New!compareFileHashList[s] = Old!compareFileHashList[s]
    BY <1>1
  <2>3. Agree(s, Old!hashblocksize[s], Old!readBlockHashList[s], Old!writeBlockHashList[s],
              Old!readKeyList[s], Old!writeKeyList[s], Old!setByteBlockHashList[s],
              Old!setFileHashList[s], Old!compareBlockHashList[s], Old!compareFileHashList[s])
    BY OldAgree
  <2> QED
    BY <2>1, <2>2, <2>3
<1> QED
  BY <1>4, <1>5, NewRegistry

----------------------------------------------------------------------------
(* The registry of the program at hand.                                    *)
Registry == IF Sip47 THEN New!mdHashlist ELSE Old!mdHashlist
NumberOf == IF Sip47 THEN New!hclmap ELSE Old!hclmap
Names == DOMAIN NumberOf
SizeOfDigest == IF Sip47 THEN New!hashblocksize ELSE Old!hashblocksize

LEMMA Registered == MapOf(Registry, NumberOf) /\ Names \subseteq DOMAIN New!hclmap
BY OldMap, NewRegistry DEF Registry, NumberOf, Names

\* The methods agree: the record of a signature is read as it was written.
LEMMA SwitchesAgree ==
  \A s \in Names :
    Agree(s, SizeOfDigest[s], ReadDigest[s], WriteDigest[s], ReadKey[s], WriteKey[s], HashBlock[s],
          HashFile[s], CompareBlock[s], CompareFile[s])
<1>1. CASE Sip47
  BY <1>1, NewAgree DEF Names, NumberOf, SizeOfDigest, ReadDigest, WriteDigest, ReadKey, WriteKey, HashBlock,
     HashFile, CompareBlock, CompareFile
<1>2. CASE ~Sip47
  BY <1>2, OldAgree DEF Names, NumberOf, SizeOfDigest, ReadDigest, WriteDigest, ReadKey, WriteKey, HashBlock,
     HashFile, CompareBlock, CompareFile
<1> QED
  BY <1>1, <1>2

LEMMA MovingKeys == Incremented = {"sip40", "sip48"}
BY NewOldSwitches DEF Incremented, New!incrementBlockKeyList, Old!incrementBlockKeyList

LEMMA NamesHaveLetters == \A s \in Names : Len(s) \in Nat /\ Len(s) >= 3
BY Registered, NamesAssumption

----------------------------------------------------------------------------
(* Parts of a list: the k-th place of a set of places, and what is left.   *)
UpTo(places, i) == {h \in places : h <= i}
Place(places, k) == CHOOSE i \in places : Cardinality(UpTo(places, i)) = k

LEMMA Counting ==
  ASSUME NEW n \in Nat, NEW places \in SUBSET (1..n)
  PROVE  /\ IsFiniteSet(places) /\ Cardinality(places) \in Nat
         /\ \A i \in 0..n : IsFiniteSet(UpTo(places, i)) /\ Cardinality(UpTo(places, i)) \in Nat
         /\ UpTo(places, 0) = {} /\ UpTo(places, n) = places
<1>1. IsFiniteSet(1..n)
  BY FS_Interval
<1>2. \A S \in SUBSET (1..n) : IsFiniteSet(S) /\ Cardinality(S) \in Nat
  BY <1>1, FS_Subset, FS_CardinalityType
<1>3. \A i : UpTo(places, i) \in SUBSET (1..n)
  BY DEF UpTo
<1>4. UpTo(places, 0) = {}
  <2>1. ASSUME NEW h \in places PROVE ~(h <= 0)
    <3>1. h \in 1..n
      OBVIOUS
    <3> QED
      BY <3>1
  <2> QED
    BY <2>1 DEF UpTo
<1>5. UpTo(places, n) = places
  <2>1. ASSUME NEW h \in places PROVE h <= n
    <3>1. h \in 1..n
      OBVIOUS
    <3> QED
      BY <3>1
  <2> QED
    BY <2>1 DEF UpTo
<1> QED
  BY <1>2, <1>3, <1>4, <1>5

LEMMA NextPlace ==
  ASSUME NEW n \in Nat, NEW places \in SUBSET (1..n), NEW i \in 1..n
  PROVE  Cardinality(UpTo(places, i)) =
           Cardinality(UpTo(places, i - 1)) + (IF i \in places THEN 1 ELSE 0)
<1>1. i - 1 \in 0..n /\ IsFiniteSet(UpTo(places, i - 1)) /\ i \notin UpTo(places, i - 1)
  BY Counting DEF UpTo
<1>0. \A h \in places : (h <= i <=> h <= i - 1 \/ h = i) /\ ~(i <= i - 1)
  <2>1. ASSUME NEW h \in places PROVE h <= i <=> h <= i - 1 \/ h = i
    <3>1. h \in 1..n
      OBVIOUS
    <3> QED
      BY <3>1
  <2> QED
    BY <2>1
<1>2. CASE i \in places
  <2>1. UpTo(places, i) = UpTo(places, i - 1) \cup {i}
    BY <1>0, <1>2, i <= i DEF UpTo
  <2>2. Cardinality(UpTo(places, i - 1) \cup {i}) = Cardinality(UpTo(places, i - 1)) + 1
    BY <1>1, FS_AddElement
  <2> QED
    BY <1>2, <2>1, <2>2
<1>3. CASE i \notin places
  <2>1. UpTo(places, i) = UpTo(places, i - 1)
    BY <1>0, <1>3 DEF UpTo
  <2>2. Cardinality(UpTo(places, i - 1)) \in Nat
    BY <1>1, Counting
  <2> QED
    BY <1>3, <2>1, <2>2
<1> QED
  BY <1>2, <1>3

\* Every number up to their count is the rank of one of the places.
LEMMA Ranks ==
  ASSUME NEW n \in Nat, NEW places \in SUBSET (1..n), NEW k \in 1..Cardinality(places)
  PROVE  Place(places, k) \in places /\ Cardinality(UpTo(places, Place(places, k))) = k
<1> DEFINE S == {i \in 0..n : Cardinality(UpTo(places, i)) >= k}
<1>1. PICK i \in S : \A j \in S : i <= j
  <2>1. n \in S
    BY Counting
  <2>2. S \in SUBSET Nat
    OBVIOUS
  <2> HIDE DEF S
  <2> QED
    BY <2>1, <2>2, LeastIsLeast
<1>2. i \in 1..n
  <2>1. Cardinality(UpTo(places, 0)) = 0
    BY Counting, FS_EmptySet
  <2> QED
    BY <2>1, <1>1
<1>3. i - 1 \in 0..n /\ i - 1 \notin S /\ Cardinality(UpTo(places, i - 1)) \in Nat
  <2>1. i - 1 \in 0..n /\ ~(i <= i - 1)
    BY <1>2
  <2> QED
    BY <1>1, <2>1, Counting
<1>4. Cardinality(UpTo(places, i)) >= k /\ ~(Cardinality(UpTo(places, i - 1)) >= k)
  BY <1>1, <1>3
<1>5. i \in places /\ Cardinality(UpTo(places, i)) = k
  BY <1>2, <1>3, <1>4, NextPlace
<1> QED
  BY <1>5 DEF Place

LEMMA SameCardinality ==
  \A S : Old!Cardinality(S) = Cardinality(S) /\ New!Old!Cardinality(S) = Cardinality(S)
BY DEF Old!Cardinality, New!Old!Cardinality, Cardinality

LEMMA SubLists ==
  ASSUME NEW list, NEW places
  PROVE  /\ Old!SubList(list, places) = [k \in 1..Cardinality(places) |-> list[Place(places, k)]]
         /\ New!Old!SubList(list, places) = Old!SubList(list, places)
<1> DEFINE place(k) == CHOOSE i \in places : Old!Cardinality({h \in places : h <= i}) = k
           newplace(k) == CHOOSE i \in places : New!Old!Cardinality({h \in places : h <= i}) = k
<1>1. \A i : /\ Old!Cardinality({h \in places : h <= i}) = Cardinality(UpTo(places, i))
             /\ New!Old!Cardinality({h \in places : h <= i}) = Cardinality(UpTo(places, i))
  BY SameCardinality DEF UpTo
<1>2. ASSUME NEW k
      PROVE  place(k) = Place(places, k)
  <2>1. \A i : i \in places /\ Old!Cardinality({h \in places : h <= i}) = k
              <=> i \in places /\ Cardinality(UpTo(places, i)) = k
    BY <1>1
  <2> QED
    BY <2>1 DEF Place
<1>3. ASSUME NEW k
      PROVE  newplace(k) = Place(places, k)
  <2>1. \A i : i \in places /\ New!Old!Cardinality({h \in places : h <= i}) = k
              <=> i \in places /\ Cardinality(UpTo(places, i)) = k
    BY <1>1
  <2> QED
    BY <2>1 DEF Place
<1>4. Old!Cardinality(places) = Cardinality(places) /\ New!Old!Cardinality(places) = Cardinality(places)
  BY SameCardinality
<1>5. Old!SubList(list, places) = [k \in 1..Old!Cardinality(places) |-> list[place(k)]]
  BY DEF Old!SubList
<1>6. New!Old!SubList(list, places) = [k \in 1..New!Old!Cardinality(places) |-> list[newplace(k)]]
  BY DEF New!Old!SubList
<1> HIDE DEF place, newplace
<1> QED
  BY <1>2, <1>3, <1>4, <1>5, <1>6

LEMMA Part ==
  ASSUME NEW list, IsList(list), NEW places \in SUBSET (1..Len(list))
  PROVE  /\ IsList(Old!SubList(list, places)) /\ Len(Old!SubList(list, places)) = Cardinality(places)
         /\ \A k \in 1..Cardinality(places) :
              Old!SubList(list, places)[k] = list[Place(places, k)]
<1>1. Old!SubList(list, places) = [k \in 1..Cardinality(places) |-> list[Place(places, k)]]
  BY SubLists
<1>2. Cardinality(places) \in Nat
  BY Counting DEF IsList
<1> DEFINE part == Old!SubList(list, places)
<1>3. part = [k \in 1..Cardinality(places) |-> part[k]]
  BY <1>1
<1> HIDE DEF part
<1>4. IsList(part) /\ Len(part) = Cardinality(places)
  BY <1>2, <1>3, ListOf
<1> QED
  BY <1>1, <1>4 DEF part

\* All the places of a list leave it as it is.
LEMMA Whole ==
  ASSUME NEW list, IsList(list)
  PROVE  Old!SubList(list, 1..Len(list)) = list
<1> DEFINE n == Len(list)
<1>1. n \in Nat /\ Cardinality(1..n) = n
  <2>1. n \in Nat
    BY DEF IsList
  <2> HIDE DEF n
  <2>2. Cardinality(1..n) = IF 1 > n THEN 0 ELSE n - 1 + 1
    BY <2>1, FS_Interval
  <2> QED
    BY <2>1, <2>2
<1>2. ASSUME NEW k \in 1..n
      PROVE  Place(1..n, k) = k
  <2>1. Place(1..n, k) \in 1..n /\ Cardinality(UpTo(1..n, Place(1..n, k))) = k
    BY <1>1, Ranks
  <2>2. UpTo(1..n, Place(1..n, k)) = 1..Place(1..n, k)
    BY <1>1, <2>1 DEF UpTo
  <2>3. Cardinality(1..Place(1..n, k)) = Place(1..n, k)
    BY <1>1, <2>1, FS_Interval
  <2> QED
    BY <2>1, <2>2, <2>3
<1>3. /\ IsList(Old!SubList(list, 1..n)) /\ Len(Old!SubList(list, 1..n)) = n
      /\ \A k \in 1..n : Old!SubList(list, 1..n)[k] = list[Place(1..n, k)]
  BY <1>1, Part
<1> QED
  BY <1>2, <1>3, SameList

----------------------------------------------------------------------------
(* The lists of a run: registered names, none of them twice.               *)
NamesOf(reg, numbers) ==
  LET registered == Old!SubList(numbers, {i \in Old!Fresh(numbers) : numbers[i] \in DOMAIN reg})
  IN  [i \in DOMAIN registered |-> reg[registered[i]][1]]
FromNamesOf(reg, map, names) ==
  LET known == Old!SubList(names, {i \in DOMAIN names : names[i] \in DOMAIN map})
  IN  NamesOf(reg, [i \in DOMAIN known |-> map[known[i]]])

NameList(map, list) ==
  /\ IsList(list) /\ \A i \in 1..Len(list) : list[i] \in DOMAIN map
  /\ \A i, j \in 1..Len(list) : list[i] = list[j] => i = j

LEMMA NumbersNamed ==
  ASSUME NEW reg, NEW map, MapOf(reg, map), NEW numbers, IsList(numbers)
  PROVE  NameList(map, NamesOf(reg, numbers))
<1> DEFINE places == {i \in Old!Fresh(numbers) : numbers[i] \in DOMAIN reg}
           part == Old!SubList(numbers, places)
           names == NamesOf(reg, numbers)
<1>1. places \in SUBSET (1..Len(numbers)) /\ Len(numbers) \in Nat
  BY ListIsSeq DEF Old!Fresh, IsList
<1>2. \A i, j \in places : numbers[i] = numbers[j] => i = j
  <2>1. ASSUME NEW i \in places, NEW j \in places, numbers[i] = numbers[j], i < j
        PROVE  FALSE
    <3>1. i \in 1..(j - 1)
      BY <1>1, <2>1
    <3>2. \A h \in 1..(j - 1) : numbers[h] # numbers[j]
      BY DEF Old!Fresh
    <3> QED
      BY <2>1, <3>1, <3>2
  <2>2. ASSUME NEW i \in places, NEW j \in places, i # j
        PROVE  i < j \/ j < i
    BY <1>1, <2>2
  <2> HIDE DEF places
  <2> QED
    BY <2>1, <2>2
<1>3. \A i \in places : numbers[i] \in DOMAIN reg
  OBVIOUS
<1> HIDE DEF places
<1>4. /\ IsList(part) /\ Len(part) = Cardinality(places)
      /\ \A k \in 1..Cardinality(places) : part[k] = numbers[Place(places, k)]
  BY <1>1, Part
<1>5. \A k \in 1..Cardinality(places) :
        Place(places, k) \in places /\ Cardinality(UpTo(places, Place(places, k))) = k
  BY <1>1, Ranks
<1>6. names = [k \in DOMAIN part |-> reg[part[k]][1]]
  BY DEF NamesOf, places
<1>7. DOMAIN part = 1..Len(part) /\ Len(part) \in Nat
  BY <1>4, ListIsSeq DEF IsList
<1> HIDE DEF part, names
<1>8. IsList(names) /\ Len(names) = Len(part) /\ \A k \in 1..Len(part) : names[k] = reg[part[k]][1]
  <2>1. names = [k \in 1..Len(part) |-> names[k]] /\ \A k \in 1..Len(part) : names[k] = reg[part[k]][1]
    BY <1>6, <1>7
  <2> QED
    BY <2>1, <1>7, ListOf
<1>9. ASSUME NEW k \in 1..Len(names)
      PROVE  /\ names[k] = reg[numbers[Place(places, k)]][1] /\ numbers[Place(places, k)] \in DOMAIN reg
             /\ Place(places, k) \in places /\ Cardinality(UpTo(places, Place(places, k))) = k
  <2>1. k \in 1..Len(part) /\ k \in 1..Cardinality(places)
    BY <1>4, <1>8
  <2> QED
    BY <2>1, <1>3, <1>4, <1>5, <1>8
<1>10. \A k \in 1..Len(names) : names[k] \in DOMAIN map
  BY <1>9 DEF MapOf
<1>11. ASSUME NEW k \in 1..Len(names), NEW m \in 1..Len(names), names[k] = names[m]
       PROVE  k = m
  <2>1. numbers[Place(places, k)] = numbers[Place(places, m)]
    BY <1>9, <1>11 DEF MapOf
  <2>2. Place(places, k) = Place(places, m)
    BY <2>1, <1>2, <1>9
  <2> QED
    BY <2>2, <1>9
<1> QED
  BY <1>8, <1>10, <1>11 DEF NameList, names

\* Of registered numbers none of which repeats none is dropped.
LEMMA FreshNumbersNamed ==
  ASSUME NEW reg, NEW numbers, IsList(numbers), \A i \in 1..Len(numbers) : numbers[i] \in DOMAIN reg,
         \A i, j \in 1..Len(numbers) : numbers[i] = numbers[j] => i = j
  PROVE  NamesOf(reg, numbers) = [i \in 1..Len(numbers) |-> reg[numbers[i]][1]]
<1>1. DOMAIN numbers = 1..Len(numbers) /\ Len(numbers) \in Nat
  BY ListIsSeq DEF IsList
<1>2. Old!Fresh(numbers) = 1..Len(numbers)
  <2>1. ASSUME NEW i \in 1..Len(numbers), NEW h \in 1..(i - 1)
        PROVE  numbers[h] # numbers[i]
    <3>1. h \in 1..Len(numbers) /\ h # i
      BY <1>1
    <3> QED
      BY <3>1
  <2> QED
    BY <2>1, <1>1 DEF Old!Fresh
<1>3. {i \in Old!Fresh(numbers) : numbers[i] \in DOMAIN reg} = 1..Len(numbers)
  BY <1>2
<1>4. Old!SubList(numbers, {i \in Old!Fresh(numbers) : numbers[i] \in DOMAIN reg}) = numbers
  BY <1>3, Whole
<1> QED
  BY <1>1, <1>4 DEF NamesOf

\* What a header says of a list is the list.
LEMMA NamesReadBack ==
  ASSUME NEW reg, NEW map, MapOf(reg, map), NEW list, NameList(map, list)
  PROVE  FromNamesOf(reg, map, list) = list
<1> DEFINE numbers == [i \in 1..Len(list) |-> map[list[i]]]
<1>1. IsList(list) /\ DOMAIN list = 1..Len(list) /\ Len(list) \in Nat
  BY ListIsSeq DEF NameList, IsList
<1>2. {i \in DOMAIN list : list[i] \in DOMAIN map} = 1..Len(list)
  BY <1>1 DEF NameList
<1>3. Old!SubList(list, {i \in DOMAIN list : list[i] \in DOMAIN map}) = list
  BY <1>1, <1>2, Whole
<1>4. FromNamesOf(reg, map, list) = NamesOf(reg, numbers)
  BY <1>1, <1>3 DEF FromNamesOf
<1>5. \A i \in 1..Len(list) :
        numbers[i] = map[list[i]] /\ numbers[i] \in DOMAIN reg /\ reg[numbers[i]][1] = list[i]
  BY DEF NameList, MapOf
<1>6. numbers = [i \in 1..Len(list) |-> numbers[i]]
  OBVIOUS
<1> HIDE DEF numbers
<1>7. IsList(numbers) /\ Len(numbers) = Len(list) /\ DOMAIN numbers = 1..Len(list)
  BY <1>1, <1>6, ListOf, ListIsSeq
<1>8. \A i, j \in 1..Len(numbers) : numbers[i] = numbers[j] => i = j
  BY <1>5, <1>7 DEF NameList
<1>9. \A i \in 1..Len(numbers) : numbers[i] \in DOMAIN reg
  BY <1>5, <1>7
<1>11. NamesOf(reg, numbers) = [i \in 1..Len(list) |-> reg[numbers[i]][1]]
  BY <1>7, <1>8, <1>9, FreshNumbersNamed
<1>12. NamesOf(reg, numbers) = [i \in 1..Len(list) |-> list[i]]
  BY <1>5, <1>11
<1> QED
  BY <1>1, <1>4, <1>12 DEF IsList

LEMMA MethodsOfLists ==
  /\ \A numbers : (IF Sip47 THEN New!setVectorHL(numbers) ELSE Old!setVectorHL(numbers)) = NamesOf(Registry, numbers)
  /\ \A names : FromNames(names) = FromNamesOf(Registry, NumberOf, names)
<1>1. \A list, places : New!Old!SubList(list, places) = Old!SubList(list, places)
  <2>1. ASSUME NEW list, NEW places
        PROVE  New!Old!SubList(list, places) = Old!SubList(list, places)
    BY SubLists
  <2> QED
    BY <2>1
<1>2. \A list : New!Old!Fresh(list) = Old!Fresh(list)
  BY DEF New!Old!Fresh, Old!Fresh
<1>3. \A numbers : New!setVectorHL(numbers) = NamesOf(New!mdHashlist, numbers)
  BY <1>1, <1>2 DEF New!setVectorHL, NamesOf
<1>4. \A numbers : Old!setVectorHL(numbers) = NamesOf(Old!mdHashlist, numbers)
  BY DEF Old!setVectorHL, NamesOf
<1>5. \A names : New!setVectorHLstring(names) = FromNamesOf(New!mdHashlist, New!hclmap, names)
  BY <1>1, <1>3 DEF New!setVectorHLstring, FromNamesOf
<1>6. \A names : Old!setVectorHLstring(names) = FromNamesOf(Old!mdHashlist, Old!hclmap, names)
  BY <1>4 DEF Old!setVectorHLstring, FromNamesOf
<1> QED
  BY <1>3, <1>4, <1>5, <1>6 DEF FromNames, Registry, NumberOf

----------------------------------------------------------------------------
(* Sums and joined lists, which the model computes step by step.           *)
\* n steps from a base can be taken.
LEMMA Steps ==
  ASSUME NEW S, NEW base \in S, NEW n \in Nat, NEW step \in [1..n -> [S -> S]]
  PROVE  \E f \in [0..n -> S] : f[0] = base /\ \A i \in 1..n : f[i] = step[i][f[i - 1]]
<1> DEFINE Taken(f, k) == f[0] = base /\ \A i \in 1..k : f[i] = step[i][f[i - 1]]
           Bad == {k \in 0..n : \A f \in [0..k -> S] : ~Taken(f, k)}
<1>1. Bad = {}
  <2>1. SUFFICES ASSUME Bad # {} PROVE FALSE
    OBVIOUS
  <2>2. Bad \in SUBSET Nat
    OBVIOUS
  <2>3. PICK k \in Bad : \A j \in Bad : k <= j
    <3> HIDE DEF Bad
    <3> QED
      BY <2>1, <2>2, LeastIsLeast
  <2>4. k # 0
    <3> DEFINE f == [i \in 0..0 |-> base]
    <3>1. f \in [0..0 -> S] /\ Taken(f, 0)
      OBVIOUS
    <3> HIDE DEF f, Taken
    <3> QED
      BY <2>3, <3>1
  <2>5. k \in 1..n /\ k - 1 \in 0..n /\ ~(k <= k - 1)
    BY <2>3, <2>4
  <2>6. PICK f \in [0..(k - 1) -> S] : Taken(f, k - 1)
    <3> HIDE DEF Taken
    <3> QED
      BY <2>3, <2>5
  <2> DEFINE h == [i \in 0..k |-> IF i = k THEN step[k][f[k - 1]] ELSE f[i]]
  <2>7. h \in [0..k -> S]
    <3>1. step[k][f[k - 1]] \in S
      BY <2>5, <2>6
    <3>2. \A i \in 0..k : i # k => i \in 0..(k - 1)
      BY <2>5
    <3> QED
      BY <3>1, <3>2, <2>6
  <2>8. Taken(h, k)
    <3>1. h[0] = base
      BY <2>5, <2>6
    <3>2. ASSUME NEW i \in 1..k PROVE h[i] = step[i][h[i - 1]]
      <4>1. h[i - 1] = f[i - 1]
        <5>1. i - 1 \in 0..k /\ i - 1 # k
          BY <2>5
        <5> QED
          BY <5>1
      <4>2. CASE i = k
        BY <4>1, <4>2, <2>5
      <4>3. CASE i # k
        <5>1. i \in 0..k /\ i \in 1..(k - 1)
          BY <4>3, <2>5
        <5> QED
          BY <4>1, <4>3, <5>1, <2>6
      <4> QED
        BY <4>2, <4>3
    <3> QED
      BY <3>1, <3>2
  <2> HIDE DEF h, Taken
  <2> QED
    BY <2>3, <2>7, <2>8
<1>2. PICK f \in [0..n -> S] : Taken(f, n)
  <2>1. n \in 0..n
    OBVIOUS
  <2> HIDE DEF Taken
  <2> QED
    BY <1>1, <2>1
<1> QED
  BY <1>2

\* A sum is reached by adding one number after another.
LEMMA Sums ==
  ASSUME NEW numbers, IsList(numbers), \A i \in 1..Len(numbers) : numbers[i] \in Nat
  PROVE  \E sum \in [0..Len(numbers) -> Nat] :
           /\ sum[0] = 0 /\ \A i \in 1..Len(numbers) : sum[i] = sum[i - 1] + numbers[i]
           /\ Old!Total(numbers) = sum[Len(numbers)]
<1>0. PICK n \in Nat : n = Len(numbers)
  BY DEF IsList
<1> DEFINE step == [i \in 1..n |-> [x \in Nat |-> x + numbers[i]]]
           Sum(f) == f = [i \in 0..n |-> IF i = 0 THEN 0 ELSE f[i - 1] + numbers[i]]
           sum == CHOOSE f : Sum(f)
<1>1. n \in Nat /\ step \in [1..n -> [Nat -> Nat]]
  BY <1>0
<1>2. \A i \in 1..n : \A x \in Nat : step[i][x] = x + numbers[i]
  OBVIOUS
<1> HIDE DEF step
<1>3. PICK N, zero : N = Nat /\ zero = 0
  OBVIOUS
<1>4. PICK f \in [0..n -> Nat] : f[0] = 0 /\ \A i \in 1..n : f[i] = step[i][f[i - 1]]
  <2>1. zero \in N /\ n \in Nat /\ step \in [1..n -> [N -> N]]
    BY <1>1, <1>3
  <2>2. \E f \in [0..n -> N] : f[0] = zero /\ \A i \in 1..n : f[i] = step[i][f[i - 1]]
    BY <2>1, Steps, SMTT(20)
  <2> QED
    BY <2>2, <1>3
<1>5. Sum(f)
  <2>1. ASSUME NEW i \in 1..n PROVE i - 1 \in 0..n /\ f[i - 1] \in Nat
    <3>1. i - 1 \in 0..n
      OBVIOUS
    <3> QED
      BY <1>4, <3>1
  <2>2. ASSUME NEW i \in 0..n PROVE f[i] = (IF i = 0 THEN 0 ELSE f[i - 1] + numbers[i])
    <3>1. CASE i = 0
      BY <1>4, <3>1
    <3>2. CASE i # 0
      <4>1. i \in 1..n
        BY <1>1, <3>2
      <4> QED
        BY <1>2, <1>4, <2>1, <3>2, <4>1
    <3> QED
      BY <3>1, <3>2
  <2> QED
    BY <1>4, <2>2
<1>6. Sum(sum)
  <2> HIDE DEF Sum
  <2> QED
    BY <1>5
<1>7. Old!Total(numbers) = sum[n]
  BY <1>0 DEF Old!Total
<1> HIDE DEF sum
<1>8. /\ sum[0] = 0 /\ \A i \in 1..n : sum[i] = sum[i - 1] + numbers[i]
      /\ sum = [i \in 0..n |-> sum[i]]
  <2>1. \A i \in 0..n : sum[i] = (IF i = 0 THEN 0 ELSE sum[i - 1] + numbers[i])
    BY <1>6
  <2>2. 0 \in 0..n /\ \A i \in 1..n : i \in 0..n /\ i # 0
    BY <1>1
  <2>3. sum = [i \in 0..n |-> sum[i]]
    BY <1>6
  <2> QED
    BY <2>1, <2>2, <2>3
<1>9. \A i \in 0..n : sum[i] \in Nat
  <2> DEFINE Out == {i \in 0..n : sum[i] \notin Nat}
  <2>1. SUFFICES ASSUME Out # {} PROVE FALSE
    OBVIOUS
  <2>2. Out \in SUBSET Nat
    OBVIOUS
  <2>3. PICK i \in Out : \A j \in Out : i <= j
    <3> HIDE DEF Out
    <3> QED
      BY <2>1, <2>2, LeastIsLeast
  <2>4. i # 0
    BY <2>3, <1>8
  <2>5. i \in 1..n /\ i - 1 \in 0..n /\ ~(i <= i - 1)
    BY <2>3, <2>4
  <2>6. sum[i - 1] \in Nat /\ numbers[i] \in Nat
    BY <1>0, <2>3, <2>5
  <2>7. sum[i] = sum[i - 1] + numbers[i]
    BY <2>5, <1>8
  <2>8. sum[i] \notin Nat
    BY <2>3
  <2> QED
    BY <2>6, <2>7, <2>8
<1> QED
  BY <1>0, <1>7, <1>8, <1>9

LEMMA TotalBounds ==
  ASSUME NEW numbers, IsList(numbers), \A i \in 1..Len(numbers) : numbers[i] \in Nat
  PROVE  /\ Old!Total(numbers) \in Nat
         /\ Len(numbers) > 0 => Old!Total(numbers) >= numbers[Len(numbers)]
<1>1. PICK sum \in [0..Len(numbers) -> Nat] :
           /\ sum[0] = 0 /\ \A i \in 1..Len(numbers) : sum[i] = sum[i - 1] + numbers[i]
           /\ Old!Total(numbers) = sum[Len(numbers)]
  BY Sums
<1>2. PICK n \in Nat : n = Len(numbers)
  BY DEF IsList
<1>3. sum[n] \in Nat
  BY <1>1, <1>2
<1>4. ASSUME n > 0 PROVE sum[n] >= numbers[n]
  <2>1. n \in 1..n /\ n - 1 \in 0..n
    BY <1>2, <1>4
  <2>2. sum[n] = sum[n - 1] + numbers[n] /\ sum[n - 1] \in Nat /\ numbers[n] \in Nat
    BY <1>1, <1>2, <2>1
  <2> QED
    BY <2>2
<1> QED
  BY <1>1, <1>2, <1>3, <1>4

LEMMA EmptyList ==
  ASSUME NEW list, IsList(list)
  PROVE  (list = <<>> <=> Len(list) = 0) /\ (list # <<>> <=> Len(list) > 0)
BY DEF IsList

\* The names of a list take bytes when there are any.
LEMMA NamesTakeBytes ==
  ASSUME NEW list, NameList(NumberOf, list)
  PROVE  NameBytes(list) \in Nat /\ (list # <<>> => NameBytes(list) >= 3)
<1> DEFINE lengths == [i \in DOMAIN list |-> Len(list[i])]
<1>1. IsList(list) /\ DOMAIN list = 1..Len(list) /\ \A i \in 1..Len(list) : list[i] \in Names
  BY ListIsSeq DEF NameList, Names
<1>2. \A i \in 1..Len(list) : Len(list[i]) \in Nat /\ Len(list[i]) >= 3
  BY <1>1, NamesHaveLetters
<1>3. PICK n \in Nat : n = Len(list)
  BY <1>1 DEF IsList
<1>4. \A i \in 1..n : lengths[i] \in Nat /\ lengths[i] >= 3
  BY <1>1, <1>2, <1>3
<1>5. lengths = [i \in 1..n |-> lengths[i]]
  BY <1>1, <1>3
<1> HIDE DEF lengths
<1>6. IsList(lengths) /\ Len(lengths) = n
  BY <1>5, ListOf
<1>7. Old!Total(lengths) \in Nat /\ (n > 0 => Old!Total(lengths) >= lengths[n])
  BY <1>4, <1>6, TotalBounds
<1>8. NameBytes(list) = Old!Total(lengths) + (IF list = <<>> THEN 0 ELSE n - 1)
  <2>1. \A numbers : New!Old!Total(numbers) = Old!Total(numbers)
    BY DEF New!Old!Total, Old!Total
  <2> QED
    BY <2>1, <1>3 DEF NameBytes, lengths, New!getHLvectorsStringNames, New!Old!getHLvectorsStringNames,
       Old!getHLvectorsStringNames
<1>9. CASE list = <<>>
  BY <1>7, <1>8, <1>9
<1>10. CASE list # <<>>
  <2>1. n > 0 /\ n \in 1..n
    BY <1>1, <1>3, <1>10, EmptyList
  <2>2. lengths[n] \in Nat /\ lengths[n] >= 3
    BY <1>4, <2>1
  <2> HIDE DEF lengths
  <2> QED
    BY <1>3, <1>7, <1>8, <1>10, <2>1, <2>2
<1> QED
  BY <1>9, <1>10

----------------------------------------------------------------------------
(* What main makes of a command line that parses.                          *)
LEMMA RangeIsList ==
  ASSUME NEW first \in Nat, NEW last \in Nat
  PROVE  Range1(first, last) \in Seq(Int)
<1>1. CASE first <= last
  BY <1>1 DEF Range1
<1>2. CASE ~(first <= last)
  BY <1>2 DEF Range1
<1> QED
  BY <1>1, <1>2

LEMMA SplitIsList ==
  ASSUME NEW tokens, SignatureOption(tokens), NEW signum
  PROVE  splitRange(tokens, signum) = Invalid \/ splitRange(tokens, signum) \in Seq(Int)
<1>0. PICK n \in Nat : n = Len(tokens) /\ \A i \in 1..n : tokens[i] \in Seq(Nat) \ {<<>>}
  BY LenProperties, ElementOfSeq DEF SignatureOption
<1> DEFINE piece(i) == Range1(tokens[i][1], tokens[i][Len(tokens[i])])
           step == [i \in 1..n |-> [x \in Seq(Int) |-> x \o piece(i)]]
           Split(f) == f = [i \in 0..n |-> IF i = 0 THEN <<>> ELSE f[i - 1] \o piece(i)]
           list == CHOOSE f : Split(f)
<1>1. \A i \in 1..n : piece(i) \in Seq(Int)
  <2>1. ASSUME NEW i \in 1..n
        PROVE  tokens[i][1] \in Nat /\ tokens[i][Len(tokens[i])] \in Nat
    <3>1. tokens[i] \in Seq(Nat) /\ Len(tokens[i]) \in Nat /\ Len(tokens[i]) # 0
      BY <1>0, LenProperties, EmptySeq
    <3>2. 1 \in 1..Len(tokens[i]) /\ Len(tokens[i]) \in 1..Len(tokens[i])
      BY <3>1
    <3> QED
      BY <3>1, <3>2, ElementOfSeq
  <2> QED
    BY <2>1, RangeIsList
<1> HIDE DEF piece
<1>2. PICK S, none : S = Seq(Int) /\ none = <<>> /\ none \in S
  BY EmptySeq
<1>3. step \in [1..n -> [S -> S]]
  BY <1>1, <1>2, ConcatProperties
<1>4. \A i \in 1..n : \A x \in Seq(Int) : step[i][x] = x \o piece(i)
  OBVIOUS
<1> HIDE DEF step
<1>5. PICK f \in [0..n -> S] : f[0] = none /\ \A i \in 1..n : f[i] = step[i][f[i - 1]]
  <2>1. none \in S
    BY <1>2
  <2> QED
    BY <2>1, <1>3, Steps
<1>6. Split(f)
  <2>1. ASSUME NEW i \in 0..n PROVE f[i] = (IF i = 0 THEN <<>> ELSE f[i - 1] \o piece(i))
    <3>1. CASE i = 0
      BY <1>2, <1>5, <3>1
    <3>2. CASE i # 0
      <4>1. i \in 1..n /\ i - 1 \in 0..n
        BY <3>2
      <4>2. f[i - 1] \in Seq(Int)
        BY <1>2, <1>5, <4>1
      <4> QED
        BY <1>4, <1>5, <3>2, <4>1, <4>2
    <3> QED
      BY <3>1, <3>2
  <2> QED
    BY <1>5, <2>1
<1>7. Split(list)
  <2> HIDE DEF Split
  <2> QED
    BY <1>6
<1>8. splitRange(tokens, signum) = Invalid \/ splitRange(tokens, signum) = list[n]
  BY <1>0 DEF splitRange, piece
<1> HIDE DEF list
<1>9. list[0] = <<>> /\ \A i \in 1..n : list[i] = list[i - 1] \o piece(i)
  <2>1. \A i \in 0..n : list[i] = (IF i = 0 THEN <<>> ELSE list[i - 1] \o piece(i))
    BY <1>7
  <2>2. 0 \in 0..n /\ \A i \in 1..n : i \in 0..n /\ i # 0
    OBVIOUS
  <2> QED
    BY <2>1, <2>2
<1>10. \A i \in 0..n : list[i] \in Seq(Int)
  <2> DEFINE Out == {i \in 0..n : list[i] \notin Seq(Int)}
  <2>1. SUFFICES ASSUME Out # {} PROVE FALSE
    OBVIOUS
  <2>2. Out \in SUBSET Nat
    OBVIOUS
  <2>3. PICK i \in Out : \A j \in Out : i <= j
    <3> HIDE DEF Out
    <3> QED
      BY <2>1, <2>2, LeastIsLeast
  <2>4. i # 0
    BY <2>3, <1>9, EmptySeq
  <2>5. i \in 1..n /\ i - 1 \in 0..n /\ ~(i <= i - 1)
    BY <2>3, <2>4
  <2>6. list[i - 1] \in Seq(Int) /\ piece(i) \in Seq(Int)
    BY <1>1, <2>3, <2>5
  <2>7. list[i] = list[i - 1] \o piece(i)
    BY <2>5, <1>9
  <2>8. list[i] \notin Seq(Int)
    BY <2>3
  <2> QED
    BY <2>6, <2>7, <2>8, ConcatProperties
<1> QED
  BY <1>8, <1>10

LEMMA JoinedIsList ==
  ASSUME NEW csv, NEW ints, SignatureOption(csv), SignatureOption(ints), NEW signum,
         Joined(csv, ints, signum) # Invalid
  PROVE  IsList(Joined(csv, ints, signum))
<1> DEFINE a == splitRange(csv, signum)
           b == splitRange(ints, signum)
<1>1. (a = Invalid \/ a \in Seq(Int)) /\ (b = Invalid \/ b \in Seq(Int))
  BY SplitIsList
<1>2. Joined(csv, ints, signum) = IF Invalid \in {a, b} THEN Invalid ELSE a \o b
  BY DEF Joined
<1> HIDE DEF a, b
<1>3. a \in Seq(Int) /\ b \in Seq(Int) /\ Joined(csv, ints, signum) = a \o b
  BY <1>1, <1>2
<1>4. a \o b \in Seq(Int)
  BY <1>3, ConcatProperties
<1> QED
  BY <1>3, <1>4, SeqIsList

LEMMA OneElement ==
  ASSUME NEW e
  PROVE  IsList(<<e>>) /\ Len(<<e>>) = 1 /\ <<e>>[1] = e
BY DEF IsList

LEMMA Nothing == IsList(<<>>) /\ Len(<<>>) = 0
BY DEF IsList

LEMMA MainsLists ==
  ASSUME NEW c, CommandLine(c), Parses(c)
  PROVE  /\ IsList(Main(c).fh) /\ IsList(Main(c).bh)
         /\ Main(c).blocksize \in Nat \ {0} /\ Main(c).modsize \in Nat \ {0}
         /\ c.tool = "mdzipsip47" => Main(c).blocksize <= 10
         /\ c.tool = "mdzipnh" => Main(c) = nhMain(c)
<1>1. c.tool \in {"mdzip", "mdzipsip40", "mdzipsip47", "mdzipnh"}
  BY DEF CommandLine
<1>2. CASE c.tool = "mdzip"
  <2>1. Main(c) = mdzipMain(c)
    BY <1>2 DEF Main
  <2> DEFINE signum == Len(Old!mdHashlist)
             f == Joined(c.fhs, c.fh, signum)
             b == Joined(c.bhs, c.bh, signum)
  <2>2. /\ Main(c).fh = f /\ Main(c).bh = (IF b = <<>> THEN <<FAST64>> ELSE b)
        /\ Main(c).blocksize = c.blocksize /\ Main(c).modsize = c.modsize
    BY <2>1 DEF mdzipMain
  <2>3. Main(c).fh # Invalid /\ Main(c).bh # Invalid
    BY DEF Parses
  <2>4. <<>> # Invalid
    BY DEF Invalid
  <2> HIDE DEF f, b
  <2>5. f # Invalid /\ b # Invalid
    BY <2>2, <2>3, <2>4
  <2>6. IsList(f) /\ IsList(b)
    BY <2>5, JoinedIsList DEF CommandLine, f, b
  <2>7. IsList(<<FAST64>>)
    BY OneElement
  <2> QED
    BY <1>2, <2>2, <2>6, <2>7 DEF CommandLine
<1>3. CASE c.tool = "mdzipsip40"
  <2>1. Main(c) = sip40Main(c)
    BY <1>3 DEF Main
  <2> DEFINE f == Joined(c.fhs, c.fh, Len(Old!mdHashlist))
  <2>2. /\ Main(c).fh = f /\ Main(c).bh = <<SIP40>> /\ Main(c).blocksize = 11 /\ Main(c).modsize = 32
    BY <2>1 DEF sip40Main
  <2> HIDE DEF f
  <2>3. f # Invalid
    BY <2>2 DEF Parses
  <2>4. IsList(f)
    BY <2>3, JoinedIsList DEF CommandLine, f
  <2>5. IsList(<<SIP40>>)
    BY OneElement
  <2> QED
    BY <1>3, <2>2, <2>4, <2>5
<1>4. CASE c.tool = "mdzipsip47"
  <2> DEFINE f == Joined(c.fhs, c.fh, Len(New!mdHashlist))
             block == CASE c.hw48 -> "hw48" [] c.sip48 -> "sip48" [] OTHER -> "sip40"
  <2>1. Main(c) = sip47Main(c)
    BY <1>4 DEF Main
  <2>2. /\ Main(c).fh = f /\ Main(c).bh = <<New!hclmap[block]>> /\ Main(c).blocksize = 10
        /\ Main(c).modsize = IF block = "sip40" THEN 32 ELSE 24
    BY <2>1 DEF sip47Main
  <2> HIDE DEF f, block
  <2>3. f # Invalid
    BY <2>2 DEF Parses
  <2>4. IsList(f)
    BY <2>3, JoinedIsList DEF CommandLine, f
  <2>5. IsList(<<New!hclmap[block]>>)
    BY OneElement
  <2> QED
    BY <1>4, <2>2, <2>4, <2>5
<1>5. CASE c.tool = "mdzipnh"
  <2>1. Main(c) = nhMain(c)
    BY <1>5 DEF Main
  <2>2. Main(c).fh = <<>> /\ Main(c).bh = <<FAST64>> /\ Main(c).blocksize = 14 /\ Main(c).modsize = 32
    BY <2>1 DEF nhMain
  <2>3. IsList(<<FAST64>>) /\ IsList(<<>>)
    BY OneElement, Nothing
  <2> QED
    BY <1>5, <2>1, <2>2, <2>3
<1> QED
  BY <1>1, <1>2, <1>3, <1>4, <1>5

\* A run: lists of registered names, blocks and remainders of some size, as many blocks as
\* the unzipper will count, exponents within the bits of a block, and nothing calculated
\* of a block but what equal blocks have alike.
RunOK ==
  /\ cmd \in Commands /\ run = Run(cmd)
  /\ cmd.tool \in {"mdzip", "mdzipsip40", "mdzipsip47", "mdzipnh"}
  /\ NameList(NumberOf, run.fl) /\ NameList(NumberOf, run.bl)
  /\ run.blocksize \in Nat \ {0} /\ run.modsize \in Nat \ {0} /\ cmd.filesize \in Nat
  /\ run.count \in 1..KeySpan /\ run.count = CalcFileBlocks(cmd.filesize, run.blocksize)
  /\ DOMAIN cmd.data = 1..run.count
  /\ \A b \in 1..run.count : cmd.data[b].exp \in Nat /\ cmd.data[b].id # "junk" /\ cmd.data[b].rem \in Nat
  /\ \A b \in 1..run.count : cmd.data[b].zeros => cmd.data[b].exp = 1
  /\ \A b, x \in 1..run.count : cmd.data[b].id = cmd.data[x].id => cmd.data[b] = cmd.data[x]
  /\ Sip47 => run.blocksize <= 10 /\ \A b \in 1..run.count : cmd.data[b].exp \in 0..127
  /\ NoHeader => run.fl = <<>> /\ run.bl = <<"fast64">> /\ run.blocksize = 14 /\ run.modsize = 32

LEMMA RunInit == Init => RunOK
<1> SUFFICES ASSUME Init PROVE RunOK
  OBVIOUS
<1>1. cmd \in Commands /\ Parses(cmd) /\ cmd.filesize > 0 /\ run = Run(cmd)
  BY DEF Init
<1>2. CommandLine(cmd) /\ InputFile(cmd)
  BY <1>1, MdzAssumption
<1> DEFINE m == Main(cmd)
           size == IF cmd.tool # "mdzipnh" /\ cmd.filesize < m.blocksize THEN cmd.filesize ELSE m.blocksize
           Named(numbers) == IF cmd.tool = "mdzipsip47" THEN New!setVectorHL(numbers) ELSE Old!setVectorHL(numbers)
<1>3. /\ IsList(m.fh) /\ IsList(m.bh) /\ m.blocksize \in Nat \ {0} /\ m.modsize \in Nat \ {0}
      /\ cmd.tool = "mdzipsip47" => m.blocksize <= 10
      /\ cmd.tool = "mdzipnh" => m = nhMain(cmd)
  BY <1>1, <1>2, MainsLists
<1>4. cmd.filesize \in Nat /\ cmd.tool \in {"mdzip", "mdzipsip40", "mdzipsip47", "mdzipnh"}
  BY <1>2 DEF CommandLine
<1>5. /\ run.fl = Named(m.fh) /\ run.bl = Named(m.bh) /\ run.blocksize = size /\ run.modsize = m.modsize
      /\ run.count = CalcFileBlocks(cmd.filesize, size)
  BY <1>1, Zenon DEF Run
<1>6. \A numbers : Named(numbers) = NamesOf(Registry, numbers)
  BY MethodsOfLists DEF Sip47
<1> HIDE DEF Named
<1>7. NameList(NumberOf, run.fl) /\ NameList(NumberOf, run.bl)
  <2>1. NameList(NumberOf, NamesOf(Registry, m.fh)) /\ NameList(NumberOf, NamesOf(Registry, m.bh))
    BY <1>3, NumbersNamed, Registered
  <2> QED
    BY <1>5, <1>6, <2>1
<1>8. size \in Nat \ {0} /\ (cmd.tool = "mdzipsip47" => size <= 10)
  BY <1>1, <1>3, <1>4
<1>9. /\ Run(cmd).count \in 1..KeySpan /\ DOMAIN cmd.data = 1..Run(cmd).count
      /\ \A b \in DOMAIN cmd.data :
           /\ cmd.data[b].exp \in 1..(8 * Run(cmd).blocksize) /\ cmd.data[b].id # "junk"
           /\ cmd.data[b].rem \in Nat /\ (cmd.data[b].zeros => cmd.data[b].exp = 1)
      /\ \A b, x \in DOMAIN cmd.data : cmd.data[b].id = cmd.data[x].id => cmd.data[b] = cmd.data[x]
  BY <1>2 DEF InputFile
<1>10. \A b \in 1..run.count : cmd.data[b].exp \in 0..(8 * size)
  BY <1>1, <1>5, <1>9
<1>11. ASSUME cmd.tool = "mdzipnh"
       PROVE  run.fl = <<>> /\ run.bl = <<"fast64">> /\ run.blocksize = 14 /\ run.modsize = 32
  <2>1. m.fh = <<>> /\ m.bh = <<FAST64>> /\ m.blocksize = 14 /\ m.modsize = 32
    BY <1>3, <1>11 DEF nhMain
  <2> HIDE DEF m
  <2>2. Registry = Old!mdHashlist
    BY <1>11 DEF Registry, Sip47
  <2>3. NamesOf(Registry, <<>>) = <<>>
    <3>1. IsList(<<>>) /\ Len(<<>>) = 0
      BY Nothing
    <3>2. NamesOf(Registry, <<>>) = [i \in 1..0 |-> Registry[<<>>[i]][1]]
      BY <3>1, FreshNumbersNamed
    <3> QED
      BY <3>2
  <2>4. FAST64 \in DOMAIN Old!mdHashlist /\ Old!mdHashlist[FAST64][1] = "fast64"
    BY OldMap, OldNames DEF MapOf, FAST64
  <2>5. NamesOf(Registry, <<FAST64>>) = <<"fast64">>
    <3>1. IsList(<<FAST64>>) /\ Len(<<FAST64>>) = 1 /\ <<FAST64>>[1] = FAST64
      BY OneElement
    <3>2. PICK one : one = <<FAST64>>
      OBVIOUS
    <3>3. \A i \in 1..1 : one[i] = FAST64
      BY <3>1, <3>2
    <3>4. NamesOf(Registry, one) = [i \in 1..1 |-> Registry[one[i]][1]]
      BY <3>1, <3>2, <3>3, <2>2, <2>4, FreshNumbersNamed
    <3>5. NamesOf(Registry, one) = [i \in 1..1 |-> "fast64"]
      BY <3>3, <3>4, <2>2, <2>4
    <3> QED
      BY <3>2, <3>5
  <2>6. run.fl = NamesOf(Registry, m.fh) /\ run.bl = NamesOf(Registry, m.bh)
    BY <1>5, <1>6
  <2>7. run.fl = <<>> /\ run.bl = <<"fast64">>
    BY <2>1, <2>3, <2>5, <2>6
  <2>8. run.blocksize = 14 /\ run.modsize = 32
    BY <1>5, <1>11, <2>1
  <2> QED
    BY <2>7, <2>8
<1> QED
  <2> HIDE DEF size, m
  <2>1. \A e \in 0..(8 * size) : e \in Nat /\ (Sip47 => e \in 0..127)
    BY <1>8 DEF Sip47
  <2>2. Sip47 => run.blocksize <= 10 /\ \A b \in 1..run.count : cmd.data[b].exp \in 0..127
    BY <1>5, <1>8, <1>10, <2>1 DEF Sip47
  <2>3. /\ cmd \in Commands /\ run = Run(cmd)
        /\ run.blocksize \in Nat \ {0} /\ run.modsize \in Nat \ {0} /\ cmd.filesize \in Nat
        /\ run.count = CalcFileBlocks(cmd.filesize, run.blocksize)
    BY <1>1, <1>3, <1>4, <1>5, <1>8
  <2>4. /\ run.count \in 1..KeySpan /\ DOMAIN cmd.data = 1..run.count
        /\ \A b \in 1..run.count : cmd.data[b].id # "junk" /\ cmd.data[b].rem \in Nat
        /\ \A b \in 1..run.count : cmd.data[b].zeros => cmd.data[b].exp = 1
        /\ \A b, x \in 1..run.count : cmd.data[b].id = cmd.data[x].id => cmd.data[b] = cmd.data[x]
    <3> HIDE DEF Named
    <3>1. Run(cmd) = run
      BY <1>1
    <3>2. run.count \in 1..KeySpan /\ DOMAIN cmd.data = 1..run.count
      BY <1>9, <3>1, Zenon
    <3> QED
      BY <1>9, <3>2
  <2>5. \A b \in 1..run.count : cmd.data[b].exp \in Nat
    BY <1>10, <2>1
  <2>6. NoHeader => run.fl = <<>> /\ run.bl = <<"fast64">> /\ run.blocksize = 14 /\ run.modsize = 32
    BY <1>11 DEF NoHeader
  <2> QED
    BY <1>4, <1>7, <2>2, <2>3, <2>4, <2>5, <2>6, Zenon DEF RunOK

----------------------------------------------------------------------------
(* Where things are in what a zipper writes.                               *)
KeyCount == IF cmd.rand THEN Len(run.bl) ELSE 0
FileDigests == Digests(run.fl, HashFile, DefaultKeys(run.fl), WholeFile)

HeaderLength == 9 + Len(run.fl) + KeyCount
HeaderShape(h, K) ==
  /\ h[1] = It(8, Version) /\ h[2] = It(8, cmd.filesize) /\ h[3] = It(8, run.blocksize)
  /\ h[4] = It(4, run.modsize)
  /\ h[5] = It(4, NameBytes(run.fl)) /\ h[6] = It(NameBytes(run.fl), run.fl)
  /\ h[7] = It(4, NameBytes(run.bl)) /\ h[8] = It(NameBytes(run.bl), run.bl)
  /\ \A i \in 1..Len(run.fl) : h[8 + i] = FileDigests[i]
  /\ h[9 + Len(run.fl)] = It(4, IF cmd.rand THEN NameBytes(run.bl) ELSE 0)
  /\ \A i \in 1..KeyCount : h[9 + Len(run.fl) + i] = It(WriteKey[run.bl[i]], K[run.bl[i]])

\* What is stored of a digest.
StoredDigest(s, row, k, data) == Old!Register(s, [row EXCEPT !.bytes = Least({@, WriteDigest[s]})], k, data)

LEMMA DigestsAreList ==
  ASSUME NEW list, IsList(list), NEW row, NEW K, NEW data
  PROVE  /\ IsList(Digests(list, row, K, data)) /\ Len(Digests(list, row, K, data)) = Len(list)
         /\ \A i \in 1..Len(list) :
              /\ Digests(list, row, K, data)[i].w = WriteDigest[list[i]]
              /\ Digests(list, row, K, data)[i].v = StoredDigest(list[i], row[list[i]], K[list[i]], data)
<1> DEFINE d == Digests(list, row, K, data)
           stored(i) == StoredDigest(list[i], row[list[i]], K[list[i]], data)
<1>1. PICK n \in Nat : n = Len(list) /\ DOMAIN list = 1..n
  BY ListIsSeq DEF IsList
<1>2. d = [i \in 1..n |-> It(WriteDigest[list[i]], stored(i))]
  BY <1>1 DEF Digests, StoredDigest
<1> HIDE DEF d, stored
<1>3. d = [i \in 1..n |-> d[i]] /\ \A i \in 1..n : d[i] = It(WriteDigest[list[i]], stored(i))
  BY <1>2
<1>4. IsList(d) /\ Len(d) = n
  BY <1>3, ListOf
<1>5. \A w, v : It(w, v).w = w /\ It(w, v).v = v
  BY DEF It
<1>6. \A i \in 1..n : d[i].w = WriteDigest[list[i]] /\ d[i].v = stored(i)
  BY <1>3, <1>5
<1> QED
  BY <1>1, <1>4, <1>6 DEF d, stored

LEMMA HeaderLayout ==
  ASSUME RunOK, NEW K
  PROVE  /\ IsList(mdzipHeader(K)) /\ Len(mdzipHeader(K)) = HeaderLength
         /\ HeaderShape(mdzipHeader(K), K)
<1>1. PICK nf \in Nat, nk \in Nat : nf = Len(run.fl) /\ nk = KeyCount
  BY DEF RunOK, NameList, IsList, KeyCount
<1> DEFINE keysize == It(4, IF cmd.rand THEN NameBytes(run.bl) ELSE 0)
<1>2. PICK a : a = <<It(8, Version), It(8, cmd.filesize), It(8, run.blocksize), It(4, run.modsize),
                     It(4, NameBytes(run.fl)), It(NameBytes(run.fl), run.fl),
                     It(4, NameBytes(run.bl)), It(NameBytes(run.bl), run.bl)>>
  OBVIOUS
<1>3. PICK b : b = FileDigests
  OBVIOUS
<1>4. PICK c : c = <<keysize>>
  OBVIOUS
<1>5. PICK d : d = IF cmd.rand THEN [i \in DOMAIN run.bl |-> It(WriteKey[run.bl[i]], K[run.bl[i]])] ELSE <<>>
  OBVIOUS
<1>6. mdzipHeader(K) = ((a \o b) \o c) \o d
  BY <1>2, <1>3, <1>4, <1>5, Zenon DEF mdzipHeader, FileDigests
<1>7. /\ IsList(a) /\ Len(a) = 8
      /\ a[1] = It(8, Version) /\ a[2] = It(8, cmd.filesize) /\ a[3] = It(8, run.blocksize)
      /\ a[4] = It(4, run.modsize)
      /\ a[5] = It(4, NameBytes(run.fl)) /\ a[6] = It(NameBytes(run.fl), run.fl)
      /\ a[7] = It(4, NameBytes(run.bl)) /\ a[8] = It(NameBytes(run.bl), run.bl)
  BY <1>2 DEF IsList
<1>8. IsList(b) /\ Len(b) = nf
  BY <1>1, <1>3, DigestsAreList DEF FileDigests, RunOK, NameList
<1> HIDE DEF keysize
<1>9. IsList(c) /\ Len(c) = 1 /\ c[1] = keysize
  BY <1>4, OneElement
<1>10. IsList(d) /\ Len(d) = nk /\ \A i \in 1..nk : d[i] = It(WriteKey[run.bl[i]], K[run.bl[i]])
  <2>1. CASE cmd.rand
    <3>1. DOMAIN run.bl = 1..nk
      BY <1>1, <2>1, ListIsSeq DEF RunOK, NameList, KeyCount
    <3>2. d = [i \in 1..nk |-> d[i]] /\ \A i \in 1..nk : d[i] = It(WriteKey[run.bl[i]], K[run.bl[i]])
      BY <1>5, <2>1, <3>1
    <3> QED
      BY <3>2, ListOf
  <2>2. CASE ~cmd.rand
    <3>1. nk = 0 /\ d = <<>>
      BY <1>1, <1>5, <2>2 DEF KeyCount
    <3> QED
      BY <3>1, Nothing
  <2> QED
    BY <2>1, <2>2
<1>11. PICK ab : ab = a \o b
  OBVIOUS
<1>12. /\ IsList(ab) /\ Len(ab) = 8 + nf /\ \A i \in 1..8 : ab[i] = a[i]
       /\ \A i \in 1..nf : ab[8 + i] = b[i]
  <2>1. Follows(ab, a, b)
    BY <1>7, <1>8, <1>11, Joins
  <2> QED
    BY <2>1, <1>7, <1>8 DEF Follows
<1>13. PICK abc : abc = ab \o c
  OBVIOUS
<1>14. /\ IsList(abc) /\ Len(abc) = 9 + nf /\ \A i \in 1..(8 + nf) : abc[i] = ab[i]
       /\ abc[9 + nf] = c[1]
  <2>1. Follows(abc, ab, c)
    BY <1>9, <1>12, <1>13, Joins
  <2>2. /\ IsList(abc) /\ Len(abc) = (8 + nf) + 1 /\ \A i \in 1..(8 + nf) : abc[i] = ab[i]
        /\ abc[(8 + nf) + 1] = c[1]
    BY <2>1, <1>9, <1>12 DEF Follows
  <2>3. (8 + nf) + 1 = 9 + nf
    OBVIOUS
  <2> QED
    BY <2>2, <2>3
<1>15. PICK h : h = mdzipHeader(K)
  OBVIOUS
<1>16. /\ IsList(h) /\ Len(h) = 9 + nf + nk /\ \A i \in 1..(9 + nf) : h[i] = abc[i]
       /\ \A i \in 1..nk : h[9 + nf + i] = d[i]
  <2>1. Follows(h, abc, d)
    BY <1>6, <1>10, <1>11, <1>13, <1>14, <1>15, Joins
  <2> QED
    BY <2>1, <1>10, <1>14 DEF Follows
<1>17. \A i \in 1..8 : h[i] = a[i]
  <2>1. \A i \in 1..8 : i \in 1..(8 + nf) /\ i \in 1..(9 + nf)
    OBVIOUS
  <2> QED
    BY <2>1, <1>12, <1>14, <1>16
<1>18. \A i \in 1..nf : h[8 + i] = b[i]
  <2>1. \A i \in 1..nf : 8 + i \in 1..(8 + nf) /\ 8 + i \in 1..(9 + nf)
    OBVIOUS
  <2> QED
    BY <2>1, <1>12, <1>14, <1>16
<1>19. h[9 + nf] = keysize
  BY <1>9, <1>14, <1>16
<1> QED
  <2>1. Len(h) = HeaderLength /\ IsList(h)
    BY <1>1, <1>16 DEF HeaderLength
  <2>2. /\ h[1] = It(8, Version) /\ h[2] = It(8, cmd.filesize) /\ h[3] = It(8, run.blocksize)
        /\ h[4] = It(4, run.modsize)
        /\ h[5] = It(4, NameBytes(run.fl)) /\ h[6] = It(NameBytes(run.fl), run.fl)
        /\ h[7] = It(4, NameBytes(run.bl)) /\ h[8] = It(NameBytes(run.bl), run.bl)
    BY <1>7, <1>17
  <2>3. \A i \in 1..Len(run.fl) : h[8 + i] = FileDigests[i]
    BY <1>1, <1>3, <1>18
  <2>4. h[9 + Len(run.fl)] = It(4, IF cmd.rand THEN NameBytes(run.bl) ELSE 0)
    BY <1>1, <1>19 DEF keysize
  <2>5. \A i \in 1..KeyCount : h[9 + Len(run.fl) + i] = It(WriteKey[run.bl[i]], K[run.bl[i]])
    BY <1>1, <1>10, <1>16
  <2>6. HeaderShape(h, K)
    BY <2>2, <2>3, <2>4, <2>5, Zenon DEF HeaderShape
  <2> QED
    BY <2>1, <2>6, <1>15

PrefixShape(P, K) ==
  /\ IsList(P)
  /\ NoHeader => Len(P) = 2 /\ P[1] = It(8, cmd.filesize) /\ P[2] = It(8, K["fast64"])
  /\ ~NoHeader => Len(P) = HeaderLength + (IF Sip47 THEN 2 ELSE 0) /\ HeaderShape(P, K)
  /\ Sip47 => /\ P[Len(P) - 1] = It(1, Format)
              /\ P[Len(P)] = It(calcBitstreamSize(run.count, Format), Stream(Exponents))

LEMMA Sizes ==
  ASSUME RunOK
  PROVE  /\ Len(run.fl) \in Nat /\ Len(run.bl) \in Nat /\ KeyCount \in 0..Len(run.bl)
         /\ HeaderLength \in Nat /\ HeaderLength >= 9 + Len(run.fl)
         /\ DOMAIN run.fl = 1..Len(run.fl) /\ DOMAIN run.bl = 1..Len(run.bl)
         /\ \A i \in 1..Len(run.fl) : run.fl[i] \in Names
         /\ \A i \in 1..Len(run.bl) : run.bl[i] \in Names
         /\ (NoHeader => ~Sip47)
<1>1. IsList(run.fl) /\ IsList(run.bl)
  BY DEF RunOK, NameList
<1>2. Len(run.fl) \in Nat /\ Len(run.bl) \in Nat /\ KeyCount \in 0..Len(run.bl)
  BY <1>1 DEF IsList, KeyCount
<1>3. HeaderLength \in Nat /\ HeaderLength >= 9 + Len(run.fl)
  BY <1>2 DEF HeaderLength
<1>4. NoHeader => ~Sip47
  BY DEF NoHeader, Sip47
<1> QED
  BY <1>1, <1>2, <1>3, <1>4, ListIsSeq DEF RunOK, NameList, Names

LEMMA PrefixLayout ==
  ASSUME RunOK, NEW K
  PROVE  PrefixShape(Prefix(K), K)
<1>1. cmd.tool \in {"mdzip", "mdzipsip40", "mdzipsip47", "mdzipnh"}
  BY DEF RunOK
<1>2. /\ IsList(mdzipHeader(K)) /\ Len(mdzipHeader(K)) = HeaderLength
      /\ HeaderShape(mdzipHeader(K), K)
  BY HeaderLayout
<1>3. CASE cmd.tool = "mdzipnh"
  <2>1. Prefix(K) = <<It(8, cmd.filesize), It(8, K["fast64"])>>
    BY <1>3 DEF Prefix, nhHeader
  <2>2. ~Sip47 /\ NoHeader
    BY <1>3 DEF Sip47, NoHeader
  <2> QED
    BY <2>1, <2>2 DEF PrefixShape, IsList
<1>4. CASE cmd.tool \in {"mdzip", "mdzipsip40"}
  <2>1. Prefix(K) = mdzipHeader(K)
    BY <1>4 DEF Prefix, sip40Header
  <2>2. ~Sip47 /\ ~NoHeader
    BY <1>4 DEF Sip47, NoHeader
  <2>3. HeaderLength + 0 = HeaderLength
    BY Sizes
  <2> QED
    BY <1>2, <2>1, <2>2, <2>3 DEF PrefixShape
<1>5. CASE cmd.tool = "mdzipsip47"
  <2>1. Sip47 /\ ~NoHeader
    BY <1>5 DEF Sip47, NoHeader
  <2>2. PICK a, b, c : a = mdzipHeader(K) /\ b = It(1, Format)
                       /\ c = It(calcBitstreamSize(run.count, Format), Stream(Exponents))
    OBVIOUS
  <2>3. PICK t, P : t = <<b, c>> /\ P = a \o t
    OBVIOUS
  <2>4. P = Prefix(K)
    BY <1>5, <2>2, <2>3 DEF Prefix, sip47Header
  <2>5. IsList(t) /\ Len(t) = 2 /\ t[1] = b /\ t[2] = c
    BY <2>3 DEF IsList
  <2>6. IsList(a) /\ Len(a) = HeaderLength /\ HeaderShape(a, K)
    BY <1>2, <2>2
  <2>7. PICK n \in Nat : n = HeaderLength /\ n >= 9 + Len(run.fl)
    BY Sizes
  <2>8. /\ IsList(P) /\ Len(P) = n + 2 /\ \A i \in 1..n : P[i] = a[i]
        /\ P[n + 1] = b /\ P[n + 2] = c
    <3>1. Follows(P, a, t)
      BY <2>3, <2>5, <2>6, Joins
    <3> QED
      BY <2>5, <2>6, <2>7, <3>1 DEF Follows
  <2>9. HeaderShape(P, K)
    <3>1. /\ Len(run.fl) \in Nat /\ KeyCount \in Nat /\ n = 9 + Len(run.fl) + KeyCount
      BY <2>7, Sizes DEF HeaderLength
    <3>2. /\ P[1] = a[1] /\ P[2] = a[2] /\ P[3] = a[3] /\ P[4] = a[4] /\ P[5] = a[5] /\ P[6] = a[6]
          /\ P[7] = a[7] /\ P[8] = a[8] /\ P[9 + Len(run.fl)] = a[9 + Len(run.fl)]
      <4>1. \A i \in 1..8 : i \in 1..n
        BY <3>1
      <4>2. 9 + Len(run.fl) \in 1..n
        BY <3>1
      <4> QED
        BY <2>8, <4>1, <4>2
    <3>3. \A i \in 1..Len(run.fl) : P[8 + i] = a[8 + i]
      BY <2>8, <3>1
    <3>4. \A i \in 1..KeyCount : P[9 + Len(run.fl) + i] = a[9 + Len(run.fl) + i]
      BY <2>8, <3>1
    <3> QED
      BY <2>6, <3>2, <3>3, <3>4 DEF HeaderShape
  <2>10. (n + 2) - 1 = n + 1
    OBVIOUS
  <2> QED
    BY <2>1, <2>2, <2>4, <2>7, <2>8, <2>9, <2>10 DEF PrefixShape
<1> QED
  BY <1>1, <1>3, <1>4, <1>5

\* A record: the digests, the exponent where it is not packed, the remainder.
Fields == Len(run.bl) + (IF Sip47 THEN 1 ELSE 2)
BlockShape(B, b, K) ==
  /\ IsList(B) /\ Len(B) = Fields
  /\ \A i \in 1..Len(run.bl) : B[i] = BlockDigests(b, K)[i]
  /\ ~Sip47 => B[Len(run.bl) + 1] = Exponent(b)
  /\ B[Fields] = Remainder(b)

LEMMA BlockLayout ==
  ASSUME RunOK, NEW b, NEW K
  PROVE  BlockShape(Block(b, K), b, K)
<1>1. PICK d : d = BlockDigests(b, K)
  OBVIOUS
<1>2. IsList(d) /\ Len(d) = Len(run.bl)
  BY <1>1, DigestsAreList DEF BlockDigests, RunOK, NameList
<1>3. PICK n \in Nat : n = Len(run.bl)
  BY Sizes
<1>4. PICK t, B : t = (IF Sip47 THEN <<Remainder(b)>> ELSE <<Exponent(b), Remainder(b)>>) /\ B = d \o t
  OBVIOUS
<1>5. B = Block(b, K)
  <2>1. CASE cmd.tool \in {"mdzip", "mdzipsip40", "mdzipnh"}
    BY <1>1, <1>4, <2>1 DEF Block, Sip47, mdzipBlock, sip40Block, nhBlock
  <2>2. CASE cmd.tool = "mdzipsip47"
    BY <1>1, <1>4, <2>2 DEF Block, Sip47, sip47Block
  <2> QED
    BY <2>1, <2>2 DEF RunOK
<1>6. CASE Sip47
  <2>1. IsList(t) /\ Len(t) = 1 /\ t[1] = Remainder(b)
    BY <1>4, <1>6 DEF IsList
  <2>2. /\ IsList(B) /\ Len(B) = n + 1 /\ \A i \in 1..n : B[i] = d[i]
        /\ B[n + 1] = Remainder(b)
    <3>1. Follows(B, d, t)
      BY <1>2, <1>4, <2>1, Joins
    <3> QED
      BY <1>2, <1>3, <2>1, <3>1 DEF Follows
  <2> QED
    BY <1>1, <1>3, <1>5, <1>6, <2>2 DEF BlockShape, Fields
<1>7. CASE ~Sip47
  <2>1. IsList(t) /\ Len(t) = 2 /\ t[1] = Exponent(b) /\ t[2] = Remainder(b)
    BY <1>4, <1>7 DEF IsList
  <2>2. /\ IsList(B) /\ Len(B) = n + 2 /\ \A i \in 1..n : B[i] = d[i]
        /\ B[n + 1] = Exponent(b) /\ B[n + 2] = Remainder(b)
    <3>1. Follows(B, d, t)
      BY <1>2, <1>4, <2>1, Joins
    <3> QED
      BY <1>2, <1>3, <2>1, <3>1 DEF Follows
  <2> QED
    BY <1>1, <1>3, <1>5, <1>7, <2>2 DEF BlockShape, Fields
<1> QED
  BY <1>6, <1>7

----------------------------------------------------------------------------
(* Keys.                                                                   *)
Keys == [Range(run.bl) -> 0..(KeySpan - 1)]

LEMMA Division ==
  ASSUME NEW x \in Nat, NEW k \in Nat \ {0}
  PROVE  x \div k \in Nat /\ (x \div k) * k <= x
BY Z3

\* A sum past the last key falls back into the range once its last byte is cut off.
LEMMA CutByte ==
  ASSUME NEW k \in 0..(KeySpan - 1), NEW n \in 0..(KeySpan - 1)
  PROVE  (k + n) \div Byte \in 0..(KeySpan - 1)
<1>1. KeySpan \in Nat \ {0} /\ Byte \in Nat /\ Byte >= 2 /\ k + n \in Nat /\ k + n <= 2 * (KeySpan - 1)
  BY MdCommonAssumption
<1>2. PICK q \in Nat : q = (k + n) \div Byte /\ q * Byte <= k + n
  BY <1>1, Division
<1>3. 2 * q <= q * Byte
  BY <1>1, Z3
<1>4. PICK p \in Int : p = q * Byte
  BY <1>1
<1>5. 2 * q <= p /\ p <= k + n
  BY <1>2, <1>3, <1>4
<1>6. q <= KeySpan - 1
  BY <1>1, <1>5
<1> QED
  BY <1>1, <1>2, <1>6

LEMMA MovedKey ==
  ASSUME NEW k \in 0..(KeySpan - 1), NEW n \in 0..(KeySpan - 1), NEW inc
  PROVE  incrementBlockNum(k, n, inc) \in 0..(KeySpan - 1)
<1>1. (k + n) \div Byte \in 0..(KeySpan - 1) /\ KeySpan \in Nat \ {0}
  BY CutByte, MdCommonAssumption
<1>2. PICK q \in 0..(KeySpan - 1) : q = (k + n) \div Byte
  BY <1>1
<1>3. incrementByteblock(k, n, inc) \in 0..(KeySpan - 1)
  BY <1>1, <1>2 DEF incrementByteblock
<1> QED
  BY <1>3 DEF incrementBlockNum

LEMMA MovedKeys ==
  ASSUME RunOK, NEW K \in Keys, NEW b \in 1..run.count, NEW inc
  PROVE  KeysAt(K, b, inc) \in Keys
<1>1. b - 1 \in 0..(KeySpan - 1)
  BY MdCommonAssumption DEF RunOK
<1>2. ASSUME NEW s \in Range(run.bl)
      PROVE  K[s] \in 0..(KeySpan - 1) /\ incrementBlockNum(K[s], b - 1, inc) \in 0..(KeySpan - 1)
  BY <1>1, MovedKey DEF Keys
<1> QED
  BY <1>2 DEF Keys, KeysAt

LEMMA FirstKeys ==
  ASSUME RunOK
  PROVE  DefaultKeys(run.bl) \in Keys /\ BlockKeys \subseteq Keys
<1>1. DefaultKey \in 0..(KeySpan - 1) /\ \A k \in RandomKeys \cup {DefaultKey} : k \in 0..(KeySpan - 1)
  BY MdzAssumption
<1>2. DefaultKeys(run.bl) \in Keys
  BY <1>1 DEF DefaultKeys, Keys
<1> QED
  BY <1>1, <1>2 DEF BlockKeys, Keys

----------------------------------------------------------------------------
(* The container as a zipper leaves it, wherever the disk filled up or the *)
(* zipper was killed.                                                      *)
\* The keys each record was written with: those of the prefix, moved block by block.
Trail(K) ==
  /\ \A n \in 0..(Len(sent) - 1) : K[n] \in Keys
  /\ Len(sent) > 0 => sent[1] = Prefix(K[0]) /\ K[0] \in BlockKeys /\ key = K[Len(sent) - 1]
  /\ \A b \in 1..(Len(sent) - 1) : sent[b + 1] = Block(b, K[b]) /\ K[b] = KeysAt(K[b - 1], b, incKey)

CutAt(k) == \E n \in 0..(Len(sent[k]) - 1) : cut = <<k, n>>
CutOK == cut = Never \/ \E k \in 1..Len(sent) : CutAt(k)
Stage ==
  /\ wpc \in {"header", "blocks", "closed"}
  /\ wpc = "header" => sent = <<>> /\ cut = Never
  /\ wpc = "blocks" => Len(sent) \in 1..run.count
  /\ wpc = "closed" => Len(sent) >= 1 /\ (Len(sent) = run.count + 1 \/ \E n \in Nat : cut = <<1, n>>)
Zipped ==
  /\ IsList(sent) /\ Len(sent) <= run.count + 1 /\ key \in Keys
  /\ Stage /\ CutOK /\ \E K : Trail(K)

LEMMA ZippedInit == Init => Zipped
<1> SUFFICES ASSUME Init PROVE Zipped
  OBVIOUS
<1>1. RunOK /\ run.count \in Nat
  BY RunInit, MdCommonAssumption DEF RunOK
<1>2. sent = <<>> /\ cut = Never /\ wpc = "header" /\ key = DefaultKeys(run.bl)
  BY DEF Init
<1>3. IsList(sent) /\ Len(sent) = 0
  BY <1>2, Nothing
<1>4. Trail(<<>>)
  BY <1>3 DEF Trail
<1>5. key \in Keys
  BY <1>1, <1>2, FirstKeys
<1> QED
  BY <1>1, <1>2, <1>3, <1>4, <1>5 DEF Zipped, Stage, CutOK

\* The zipper's command line and what main made of it stay as they are, and with them
\* everything made of the two alone.
LEMMA SameProgram ==
  ASSUME UNCHANGED <<cmd, run>>
  PROVE  /\ RunOK' = RunOK /\ Keys' = Keys /\ BlockKeys' = BlockKeys /\ incKey' = incKey
         /\ \A K : Prefix(K)' = Prefix(K)
         /\ \A b, K : Block(b, K)' = Block(b, K)
<1>1. cmd' = cmd /\ run' = run
  OBVIOUS
<1>2. Sip47' = Sip47 /\ NoHeader' = NoHeader /\ NumberOf' = NumberOf
  BY <1>1 DEF Sip47, NoHeader, NumberOf
<1>3. RunOK' = RunOK
  BY <1>1, <1>2 DEF RunOK
<1>4. Keys' = Keys /\ BlockKeys' = BlockKeys /\ incKey' = incKey
  BY <1>1 DEF BlockKeys, Keys, incKey, DefaultKeys, Randomized, Sip47
<1>5. ASSUME NEW K PROVE Prefix(K)' = Prefix(K)
  BY <1>1 DEF Prefix, mdzipHeader, sip40Header, sip47Header, nhHeader, Digests, WholeFile, Blocks, NameBytes,
     WriteKey, WriteDigest, HashFile, Sip47, Version, incKey, Format, Exponents, DefaultKeys
<1>6. ASSUME NEW b, NEW K PROVE Block(b, K)' = Block(b, K)
  BY <1>1 DEF Block, mdzipBlock, sip40Block, sip47Block, nhBlock, BlockDigests, Digests, Contents, WriteDigest,
     HashBlock, Sip47, Exponent, Remainder, modsizeBytes
<1> QED
  BY <1>3, <1>4, <1>5, <1>6

\* What the actions of the unzippers leave alone.
LEMMA UnzippersOnlyRead ==
  ASSUME [Next]_vars, ~Zipping
  PROVE  UNCHANGED zipVars
<1>1. CASE Launching
  BY <1>1 DEF Launching, mdunzipMain, sip40UnzipMain, sip47UnzipMain, nhUnzipMain, Launch
<1>2. CASE Refused
  BY <1>2 DEF Refused, Refuse
<1>3. CASE Check
  BY <1>3 DEF Check, mdunzipValidate, sip40Validate, sip47Validate, nhValidate, Validate, Crash
<1>4. CASE List
  BY <1>4 DEF List, mdunzipListHeader, sip40ListHeader, sip47ListHeader, nhListHeader, ReadHeader, Crash,
     mdunzipListBlock, sip40ListBlock, sip47ListBlock, nhListBlock, Turn
<1>5. CASE Unzip
  BY <1>5 DEF Unzip, mdunzipHeader, sip40UnzipHeader, sip47UnzipHeader, nhUnzipHeader, ReadHeader, Crash,
     mdunzipBlock, sip40UnzipBlock, sip47UnzipBlock, nhUnzipBlock, Turn,
     mdunzipEnd, sip40UnzipEnd, sip47UnzipEnd, nhUnzipEnd, End
<1>6. CASE Exit
  BY <1>6 DEF Exit
<1>7. CASE UNCHANGED vars
  BY <1>7 DEF vars
<1> QED
  BY <1>1, <1>2, <1>3, <1>4, <1>5, <1>6, <1>7 DEF Next

LEMMA ZippersOnlyWrite ==
  ASSUME Zipping
  PROVE  UNCHANGED <<cmd, run, unzipVars>>
BY DEF Zipping, WriteHeader, CrashInStream, WriteBlock

LEMMA RunStep == RunOK /\ [Next]_vars => RunOK'
<1> SUFFICES ASSUME RunOK, [Next]_vars PROVE RunOK'
  OBVIOUS
<1>1. UNCHANGED <<cmd, run>>
  <2>1. CASE Zipping
    BY <2>1, ZippersOnlyWrite
  <2>2. CASE ~Zipping
    BY <2>2, UnzippersOnlyRead DEF zipVars
  <2> QED
    BY <2>1, <2>2
<1> QED
  BY <1>1, SameProgram

\* A record more.
LEMMA Written ==
  ASSUME IsList(sent), CutOK, NEW items, Write(items)
  PROVE  /\ IsList(sent') /\ Len(sent') = Len(sent) + 1
         /\ \A k \in 1..Len(sent) : sent'[k] = sent[k]
         /\ sent'[Len(sent) + 1] = items
         /\ CutOK'
<1>1. PICK m \in Nat : m = Len(sent)
  BY DEF IsList
<1>2. sent' = Append(sent, items)
  BY DEF Write
<1>3. /\ IsList(sent') /\ Len(sent') = m + 1
      /\ \A k \in 1..m : sent'[k] = sent[k]
      /\ sent'[m + 1] = items
  BY <1>1, <1>2, Appended
<1>4. CASE cut' = cut
  <2>1. \A k \in 1..m : k \in 1..(m + 1)
    BY <1>1
  <2>2. \A k \in 1..m : CutAt(k) => CutAt(k)'
    BY <1>3, <1>4 DEF CutAt
  <2> QED
    BY <1>1, <1>3, <1>4, <2>1, <2>2 DEF CutOK, Never
<1>5. CASE cut' # cut
  <2>1. PICK n \in 0..(Len(items) - 1) : cut' = <<m + 1, n>>
    BY <1>1, <1>5 DEF Write
  <2>2. PICK k \in 1..(m + 1) : k = m + 1
    BY <1>1
  <2>3. CutAt(k)' /\ k \in 1..Len(sent')
    BY <1>3, <2>1, <2>2 DEF CutAt
  <2> QED
    BY <1>1, <1>3, <2>3 DEF CutOK
<1> QED
  BY <1>1, <1>3, <1>4, <1>5

LEMMA HeaderWritten == RunOK /\ Zipped /\ WriteHeader => Zipped'
<1> SUFFICES ASSUME RunOK, Zipped, WriteHeader PROVE Zipped'
  OBVIOUS
<1>1. /\ wpc = "header" /\ wpc' = "blocks" /\ key' \in BlockKeys /\ Write(Prefix(key'))
      /\ UNCHANGED <<cmd, run>>
  BY DEF WriteHeader
<1>2. sent = <<>> /\ Len(sent) = 0 /\ IsList(sent) /\ CutOK
  BY <1>1, Nothing DEF Zipped, Stage
<1>3. PICK k0 : k0 = key'
  OBVIOUS
<1>4. /\ IsList(sent') /\ Len(sent') = 1 /\ sent'[1] = Prefix(k0) /\ CutOK'
  <2>1. Write(Prefix(k0))
    BY <1>1, <1>3
  <2> QED
    BY <1>2, <2>1, Written
<1>5. k0 \in Keys /\ Keys' = Keys /\ BlockKeys' = BlockKeys /\ Prefix(k0)' = Prefix(k0) /\ k0 \in BlockKeys
  BY <1>1, <1>3, FirstKeys, SameProgram
<1> DEFINE K == [n \in {0} |-> k0]
<1>6. Trail(K)'
  <2>1. K[0] = k0 /\ \A n \in 0..(1 - 1) : n = 0
    OBVIOUS
  <2> HIDE DEF K
  <2> QED
    BY <1>3, <1>4, <1>5, <2>1 DEF Trail
<1>7. run.count \in Nat /\ run.count >= 1
  BY MdCommonAssumption DEF RunOK
<1>8. Stage'
  BY <1>1, <1>4, <1>7 DEF Stage
<1> HIDE DEF K
<1> QED
  BY <1>1, <1>3, <1>4, <1>5, <1>6, <1>7, <1>8 DEF Zipped

LEMMA KilledInStream == RunOK /\ Zipped /\ CrashInStream => Zipped'
<1> SUFFICES ASSUME RunOK, Zipped, CrashInStream PROVE Zipped'
  OBVIOUS
<1>1. PICK k0 : k0 = key'
  OBVIOUS
<1>2. PICK P : P = Prefix(k0)
  OBVIOUS
<1>3. /\ wpc' = "closed" /\ k0 \in BlockKeys /\ sent' = <<P>>
      /\ \E n \in 0..(Len(sent'[1]) - 1) : cut' = <<1, n>>
      /\ UNCHANGED <<cmd, run>>
  BY <1>1, <1>2 DEF CrashInStream
<1>4. IsList(sent') /\ Len(sent') = 1 /\ sent'[1] = P
  BY <1>3, OneElement
<1>5. k0 \in Keys /\ Keys' = Keys /\ BlockKeys' = BlockKeys /\ Prefix(k0)' = P
  BY <1>2, <1>3, FirstKeys, SameProgram
<1> DEFINE K == [n \in {0} |-> k0]
<1>6. Trail(K)'
  <2>1. K[0] = k0 /\ \A n \in 0..(1 - 1) : n = 0
    OBVIOUS
  <2> HIDE DEF K
  <2> QED
    BY <1>1, <1>3, <1>4, <1>5, <2>1 DEF Trail
<1>7. run.count \in Nat /\ run.count >= 1
  BY MdCommonAssumption DEF RunOK
<1>8. Stage' /\ CutOK'
  <2>1. PICK n \in 0..(Len(P) - 1) : cut' = <<1, n>>
    BY <1>3, <1>4
  <2>2. n \in Nat
    OBVIOUS
  <2>3. CutAt(1)'
    BY <1>4, <2>1 DEF CutAt
  <2> QED
    BY <1>3, <1>4, <2>1, <2>2, <2>3 DEF Stage, CutOK
<1> HIDE DEF K
<1> QED
  BY <1>1, <1>3, <1>4, <1>5, <1>6, <1>7, <1>8 DEF Zipped

LEMMA BlockWritten == RunOK /\ Zipped /\ WriteBlock => Zipped'
<1> SUFFICES ASSUME RunOK, Zipped, WriteBlock PROVE Zipped'
  OBVIOUS
<1>0. run.count \in 1..KeySpan /\ run.count \in Nat
  BY MdCommonAssumption DEF RunOK
<1>1. PICK m \in 1..run.count : m = Len(sent)
  BY DEF WriteBlock, Zipped, Stage
<1>2. PICK k1 : k1 = key'
  OBVIOUS
<1>3. /\ wpc = "blocks" /\ k1 = KeysAt(key, m, incKey) /\ Write(Block(m, k1))
      /\ wpc' = (IF m = run.count THEN "closed" ELSE "blocks")
      /\ UNCHANGED <<cmd, run>>
  BY <1>1, <1>2 DEF WriteBlock
<1>4. /\ IsList(sent') /\ Len(sent') = m + 1 /\ CutOK'
      /\ \A k \in 1..m : sent'[k] = sent[k]
      /\ sent'[m + 1] = Block(m, k1)
  BY <1>1, <1>3, Written DEF Zipped
<1>5. k1 \in Keys
  BY <1>3, MovedKeys DEF Zipped
<1>6. PICK K : Trail(K)
  BY DEF Zipped
<1> DEFINE L == [n \in 0..m |-> IF n = m THEN k1 ELSE K[n]]
<1>7. /\ \A n \in 0..(m - 1) : L[n] = K[n]
      /\ L[m] = k1
  BY <1>1
<1> HIDE DEF L
<1>8. /\ Keys' = Keys /\ BlockKeys' = BlockKeys /\ incKey' = incKey
      /\ \A k : Prefix(k)' = Prefix(k)
      /\ \A b, k : Block(b, k)' = Block(b, k)
  BY <1>3, SameProgram
<1>9. Trail(L)'
  <2>1. \A n \in 0..((m + 1) - 1) : L[n] \in Keys
    <3>1. \A n \in 0..((m + 1) - 1) : n \in 0..(m - 1) \/ n = m
      BY <1>0
    <3>2. \A n \in 0..(m - 1) : K[n] \in Keys
      BY <1>1, <1>6 DEF Trail
    <3> QED
      BY <1>5, <1>7, <3>1, <3>2
  <2>2. sent'[1] = Prefix(L[0]) /\ L[0] \in BlockKeys /\ L[m] = key'
    <3>1. 0 \in 0..(m - 1) /\ 1 \in 1..m
      BY <1>0
    <3> QED
      BY <1>1, <1>2, <1>4, <1>6, <1>7, <3>1 DEF Trail
  <2>3. ASSUME NEW b \in 1..((m + 1) - 1)
        PROVE  sent'[b + 1] = Block(b, L[b]) /\ L[b] = KeysAt(L[b - 1], b, incKey)
    <3>1. CASE b = m
      <4>1. m - 1 \in 0..(m - 1)
        BY <1>0
      <4>2. L[m - 1] = key
        BY <1>1, <1>6, <1>7, <4>1 DEF Trail
      <4> QED
        BY <1>3, <1>4, <1>7, <3>1, <4>2
    <3>2. CASE b # m
      <4>1. b \in 1..(m - 1) /\ b + 1 \in 1..m /\ b \in 0..(m - 1) /\ b - 1 \in 0..(m - 1)
        BY <1>0, <3>2
      <4> QED
        BY <1>1, <1>4, <1>6, <1>7, <4>1 DEF Trail
    <3> QED
      BY <3>1, <3>2
  <2> QED
    <3>1. (m + 1) - 1 = m
      BY <1>0
    <3>2. \A n \in 0..(Len(sent') - 1) : L[n] \in Keys'
      BY <1>4, <1>8, <2>1
    <3>3. sent'[1] = Prefix(L[0])' /\ L[0] \in BlockKeys' /\ key' = L[Len(sent') - 1]
      BY <1>4, <1>8, <2>2, <3>1
    <3>4. \A b \in 1..(Len(sent') - 1) :
            sent'[b + 1] = Block(b, L[b])' /\ L[b] = KeysAt(L[b - 1], b, incKey')
      BY <1>4, <1>8, <2>3
    <3>5. \A k, b, inc : KeysAt(k, b, inc)' = KeysAt(k, b, inc)
      BY <1>3 DEF KeysAt, Incremented, Sip47
    <3> QED
      BY <3>2, <3>3, <3>4, <3>5 DEF Trail
<1>10. Stage'
  BY <1>0, <1>3, <1>4 DEF Stage
<1>11. Len(sent') <= run'.count + 1
  BY <1>0, <1>3, <1>4
<1> QED
  BY <1>2, <1>4, <1>5, <1>8, <1>9, <1>10, <1>11 DEF Zipped

LEMMA ZippedStep == RunOK /\ Zipped /\ [Next]_vars => Zipped'
<1> SUFFICES ASSUME RunOK, Zipped, [Next]_vars PROVE Zipped'
  OBVIOUS
<1>1. CASE Zipping
  BY <1>1, HeaderWritten, KilledInStream, BlockWritten DEF Zipping
<1>2. CASE ~Zipping
  <2>1. UNCHANGED <<cmd, run>> /\ UNCHANGED <<wpc, key, sent, cut>>
    BY <1>2, UnzippersOnlyRead DEF zipVars
  <2>2. /\ Keys' = Keys /\ BlockKeys' = BlockKeys /\ incKey' = incKey
        /\ \A k : Prefix(k)' = Prefix(k)
        /\ \A b, k : Block(b, k)' = Block(b, k)
    BY <2>1, SameProgram
  <2>3. \A k, b, inc : KeysAt(k, b, inc)' = KeysAt(k, b, inc)
    BY <2>1 DEF KeysAt, Incremented, Sip47
  <2>4. \A K : Trail(K)' = Trail(K)
    BY <2>1, <2>2, <2>3 DEF Trail
  <2> QED
    BY <2>1, <2>2, <2>4 DEF Zipped, Stage, CutOK, CutAt
<1> QED
  BY <1>1, <1>2

----------------------------------------------------------------------------
(* What an unzipper finds on the disk.                                     *)
LEMMA Shapes ==
  ASSUME RunOK, NEW K, Trail(K), IsList(sent)
  PROVE  /\ Len(sent) \in Nat
         /\ Len(sent) > 0 => PrefixShape(sent[1], K[0])
         /\ \A b \in 1..(Len(sent) - 1) : BlockShape(sent[b + 1], b, K[b])
<1>1. Len(sent) \in Nat
  BY DEF IsList
<1>2. Len(sent) > 0 => PrefixShape(sent[1], K[0])
  BY PrefixLayout DEF Trail
<1>3. ASSUME NEW b \in 1..(Len(sent) - 1)
      PROVE  BlockShape(sent[b + 1], b, K[b])
  BY BlockLayout DEF Trail
<1> QED
  BY <1>1, <1>2, <1>3

LEMMA Records ==
  ASSUME RunOK, Zipped
  PROVE  \A k \in 1..Len(sent) : IsList(sent[k]) /\ Len(sent[k]) \in Nat /\ Len(sent[k]) >= 1
<1>1. PICK K : Trail(K)
  BY DEF Zipped
<1>2. /\ Len(sent) > 0 => PrefixShape(sent[1], K[0])
      /\ \A b \in 1..(Len(sent) - 1) : BlockShape(sent[b + 1], b, K[b])
      /\ Len(sent) \in Nat
  BY <1>1, Shapes DEF Zipped
<1>3. ASSUME Len(sent) > 0
      PROVE  IsList(sent[1]) /\ Len(sent[1]) \in Nat /\ Len(sent[1]) >= 1
  <2>1. IsList(sent[1]) /\ (Len(sent[1]) = 2 \/ Len(sent[1]) = HeaderLength + (IF Sip47 THEN 2 ELSE 0))
    BY <1>2, <1>3 DEF PrefixShape
  <2>2. HeaderLength \in Nat /\ HeaderLength >= 9
    BY Sizes
  <2> QED
    BY <2>1, <2>2
<1>4. ASSUME NEW b \in 1..(Len(sent) - 1)
      PROVE  IsList(sent[b + 1]) /\ Len(sent[b + 1]) \in Nat /\ Len(sent[b + 1]) >= 1
  <2>1. IsList(sent[b + 1]) /\ Len(sent[b + 1]) = Fields
    BY <1>2 DEF BlockShape
  <2>2. Fields \in Nat /\ Fields >= 1
    <3>1. Len(run.bl) \in Nat
      BY Sizes
    <3>2. PICK n \in Nat : n = Len(run.bl)
      BY <3>1
    <3>3. Fields = n + 1 \/ Fields = n + 2
      BY <3>2 DEF Fields
    <3> QED
      BY <3>2, <3>3
  <2> QED
    BY <2>1, <2>2
<1>5. ASSUME NEW k \in 1..Len(sent), k # 1
      PROVE  IsList(sent[k]) /\ Len(sent[k]) \in Nat /\ Len(sent[k]) >= 1
  <2>1. k - 1 \in 1..(Len(sent) - 1) /\ (k - 1) + 1 = k
    BY <1>2, <1>5
  <2> QED
    BY <1>4, <2>1
<1> QED
  BY <1>2, <1>3, <1>5

\* A cut lets through the records before it, a part of its own, and none after it.
LEMMA Arrivals ==
  ASSUME RunOK, Zipped
  PROVE  /\ DOMAIN sent = 1..Len(sent) /\ Len(sent) \in Nat
         /\ \A k \in 1..Len(sent) : Kept(k) \in 0..Len(sent[k])
         /\ \A k : k \notin 1..Len(sent) => Kept(k) = 0
         /\ \A j, k \in 1..Len(sent) : j < k /\ ~Intact(j) => Kept(k) = 0
         /\ \A j, k \in 1..Len(sent) : j < k /\ Intact(k) => Intact(j)
         /\ wpc = "closed" /\ Intact(1) => Len(sent) = run.count + 1
<1>1. IsList(sent) /\ DOMAIN sent = 1..Len(sent) /\ Len(sent) \in Nat
  BY ListIsSeq DEF Zipped, IsList
<1>2. \A k \in 1..Len(sent) : Len(sent[k]) \in Nat /\ Len(sent[k]) >= 1
  BY Records
<1>3. \A k : k \notin 1..Len(sent) => Kept(k) = 0
  BY <1>1 DEF Kept
<1>4. CASE cut = Never
  <2>1. \A k \in 1..Len(sent) : Kept(k) = Len(sent[k])
    BY <1>1, <1>4 DEF Kept
  <2>2. ~(\E n \in Nat : cut = <<1, n>>)
    BY <1>4 DEF Never
  <2>3. wpc = "closed" => Len(sent) = run.count + 1
    BY <2>2 DEF Zipped, Stage
  <2> QED
    BY <1>1, <1>2, <1>3, <2>1, <2>3 DEF Intact
<1>5. CASE cut # Never
  <2>1. PICK c \in 1..Len(sent) : CutAt(c)
    BY <1>5 DEF Zipped, CutOK
  <2>2. PICK n \in 0..(Len(sent[c]) - 1) : cut = <<c, n>>
    BY <2>1 DEF CutAt
  <2>3. \A k \in 1..Len(sent) :
          Kept(k) = IF k > c THEN 0 ELSE IF k = c THEN n ELSE Len(sent[k])
    BY <1>1, <1>5, <2>2 DEF Kept
  <2>4. n \in 0..Len(sent[c]) /\ n < Len(sent[c])
    BY <1>2
  <2>5. \A k \in 1..Len(sent) : Kept(k) \in 0..Len(sent[k]) /\ (Intact(k) <=> k < c)
    BY <1>1, <1>2, <2>3, <2>4 DEF Intact
  <2>6. ASSUME wpc = "closed", Intact(1)
        PROVE  Len(sent) = run.count + 1
    <3>1. 1 \in 1..Len(sent)
      BY <1>1, <2>6 DEF Zipped, Stage
    <3>2. 1 < c
      BY <2>5, <2>6, <3>1
    <3> QED
      BY <2>2, <2>6, <3>2 DEF Zipped, Stage
  <2> QED
    BY <1>1, <1>3, <2>3, <2>5, <2>6
<1> QED
  BY <1>4, <1>5

\* The header is the run's, whether it was stored or is built in.
LEMMA HeaderKnown ==
  ASSUME RunOK, NEW K, PrefixShape(sent[1], K)
  PROVE  /\ Header.filesize = cmd.filesize /\ Header.blocksize = run.blocksize /\ Header.modsize = run.modsize
         /\ Header.fl = run.fl /\ Header.bl = run.bl /\ blockcount = run.count
         /\ Header.version = (IF NoHeader THEN 101 ELSE Version)
         /\ Header.keysize = (IF NoHeader THEN 0 ELSE Field(KeySizeAt, 0))
<1>1. CASE NoHeader
  <2>1. sent[1][1].v = cmd.filesize
    BY <1>1 DEF PrefixShape, It
  <2> QED
    BY <1>1, <2>1 DEF Header, RunOK, blockcount
<1>2. CASE ~NoHeader
  <2>1. HeaderShape(sent[1], K)
    BY <1>2 DEF PrefixShape
  <2>2. /\ sent[1][1].v = Version /\ sent[1][2].v = cmd.filesize /\ sent[1][3].v = run.blocksize
        /\ sent[1][4].v = run.modsize /\ sent[1][6].v = run.fl /\ sent[1][8].v = run.bl
    BY <2>1 DEF HeaderShape, It
  <2>3. FromNames(run.fl) = run.fl /\ FromNames(run.bl) = run.bl
    BY MethodsOfLists, NamesReadBack, Registered DEF RunOK
  <2> QED
    BY <1>2, <2>2, <2>3 DEF Header, RunOK, blockcount
<1> QED
  BY <1>1, <1>2

\* Width by width an unzipper reads what was written, in the prefix as far as it arrived.
LEMMA PrefixFits ==
  ASSUME RunOK, Zipped, Len(sent) > 0, ~Garbled
  PROVE  ~TornAt(1, PrefixWidths)
<1>0. PICK K : Trail(K)
  BY DEF Zipped
<1>1. PrefixShape(sent[1], K[0])
  BY <1>0, Shapes DEF Zipped
<1>2. /\ Header.fl = run.fl /\ Header.bl = run.bl /\ blockcount = run.count
      /\ Header.keysize = (IF NoHeader THEN 0 ELSE Field(KeySizeAt, 0))
  BY <1>1, HeaderKnown
<1>3. PICK kept \in Nat : kept = Kept(1) /\ kept <= Len(sent[1])
  <2>1. Len(sent) \in Nat /\ 1 \in 1..Len(sent)
    BY Arrivals
  <2>2. Kept(1) \in 0..Len(sent[1])
    BY <2>1, Arrivals
  <2> QED
    BY <2>2
<1> DEFINE widths == PrefixWidths
<1>4. CASE NoHeader
  <2>1. kept <= 2 /\ sent[1][1].w = 8 /\ sent[1][2].w = 8
    <3>1. Len(sent[1]) = 2 /\ sent[1][1] = It(8, cmd.filesize) /\ sent[1][2] = It(8, K[0]["fast64"])
      BY <1>1, <1>4 DEF PrefixShape
    <3>2. \A w, v : It(w, v).w = w
      BY DEF It
    <3> QED
      BY <1>3, <3>1, <3>2
  <2>2. PrefixWidths = <<8, 8>>
    BY <1>4 DEF PrefixWidths
  <2> QED
    BY <1>3, <2>1, <2>2 DEF TornAt
<1>5. CASE ~NoHeader
  <2>1. PICK h : h = sent[1] /\ HeaderShape(h, K[0])
    BY <1>1, <1>5 DEF PrefixShape
  <2>2. PICK nf \in Nat, nb \in Nat, nk \in Nat : nf = Len(run.fl) /\ nb = Len(run.bl) /\ nk = KeyCount
    BY Sizes
  <2>3. kept >= 8
    BY <1>3, <1>5 DEF Garbled, OnDisk
  <2>4. Field(5, 0) = NameBytes(run.fl) /\ Field(7, 0) = NameBytes(run.bl)
    <3>1. h[5].v = NameBytes(run.fl) /\ h[7].v = NameBytes(run.bl)
      BY <2>1 DEF HeaderShape, It
    <3>2. OnDisk(1, 5) /\ OnDisk(1, 7)
      BY <1>3, <2>3 DEF OnDisk
    <3> QED
      BY <2>1, <3>1, <3>2 DEF Field
  <2>5. PICK a, b, c, d, e :
           /\ a = <<8, 8, 8, 4, 4, NameBytes(run.fl), 4, NameBytes(run.bl)>>
           /\ b = DigestWidths(run.fl) /\ c = <<4>>
           /\ d = (IF Header.keysize > 0 THEN [i \in DOMAIN run.bl |-> ReadKey[run.bl[i]]] ELSE <<>>)
           /\ e = (IF Sip47 THEN <<1, calcBitstreamSize(run.count, format)>> ELSE <<>>)
    OBVIOUS
  <2>6. widths = (((a \o b) \o c) \o d) \o e
    BY <1>2, <1>5, <2>4, <2>5 DEF PrefixWidths
  <2>7. IsList(a) /\ Len(a) = 8 /\ \A i \in 1..8 : a[i] = h[i].w
    <3>1. /\ a[1] = h[1].w /\ a[2] = h[2].w /\ a[3] = h[3].w /\ a[4] = h[4].w
          /\ a[5] = h[5].w /\ a[6] = h[6].w /\ a[7] = h[7].w /\ a[8] = h[8].w
      BY <2>1, <2>5 DEF HeaderShape, It
    <3> QED
      BY <2>5, <3>1 DEF IsList
  <2>8. IsList(b) /\ Len(b) = nf /\ \A i \in 1..nf : b[i] = h[8 + i].w
    <3>1. DOMAIN run.fl = 1..nf /\ IsList(run.fl)
      BY <2>2, Sizes DEF RunOK, NameList
    <3>2. b = [i \in 1..nf |-> b[i]] /\ \A i \in 1..nf : b[i] = ReadDigest[run.fl[i]]
      BY <2>5, <3>1 DEF DigestWidths
    <3>3. ASSUME NEW i \in 1..nf PROVE ReadDigest[run.fl[i]] = h[8 + i].w
      <4>1. run.fl[i] \in Names /\ i \in 1..Len(run.fl)
        BY <2>2, Sizes
      <4>2. ReadDigest[run.fl[i]] = WriteDigest[run.fl[i]]
        BY <4>1, SwitchesAgree DEF Agree
      <4>3. h[8 + i] = FileDigests[i]
        BY <2>1, <4>1 DEF HeaderShape
      <4>4. FileDigests[i].w = WriteDigest[run.fl[i]]
        BY <3>1, <4>1, DigestsAreList DEF FileDigests
      <4> QED
        BY <4>2, <4>3, <4>4
    <3> QED
      BY <3>2, <3>3, ListOf
  <2>9. IsList(c) /\ Len(c) = 1 /\ c[1] = h[9 + nf].w
    BY <2>1, <2>2, <2>5, OneElement DEF HeaderShape, It
  <2>10. IsList(d) /\ (kept >= 9 + nf => Len(d) = nk /\ \A i \in 1..nk : d[i] = h[9 + nf + i].w)
    <3>0. DOMAIN run.bl = 1..nb /\ \A i \in 1..nb : run.bl[i] \in Names
      BY <2>2, Sizes
    <3>1. CASE Header.keysize > 0
      <4>1. d = [i \in 1..nb |-> d[i]] /\ \A i \in 1..nb : d[i] = ReadKey[run.bl[i]]
        BY <2>5, <3>0, <3>1
      <4>2. IsList(d) /\ Len(d) = nb
        BY <4>1, ListOf
      <4>3. ASSUME kept >= 9 + nf
            PROVE  cmd.rand
        <5>1. Header.keysize = h[9 + nf].v
          BY <1>2, <1>3, <1>5, <2>1, <2>2, <4>3 DEF Field, OnDisk, KeySizeAt
        <5>2. h[9 + nf].v = IF cmd.rand THEN NameBytes(run.bl) ELSE 0
          BY <2>1, <2>2 DEF HeaderShape, It
        <5> QED
          BY <3>1, <5>1, <5>2
      <4>4. ASSUME NEW i \in 1..nb, cmd.rand
            PROVE  ReadKey[run.bl[i]] = h[9 + nf + i].w
        <5>1. nk = nb
          BY <2>2, <4>4 DEF KeyCount
        <5>2. h[9 + nf + i] = It(WriteKey[run.bl[i]], K[0][run.bl[i]])
          BY <2>1, <2>2, <5>1 DEF HeaderShape
        <5>3. ReadKey[run.bl[i]] = WriteKey[run.bl[i]]
          BY <3>0, SwitchesAgree DEF Agree
        <5> QED
          BY <5>2, <5>3 DEF It
      <4>5. cmd.rand => nk = nb
        BY <2>2 DEF KeyCount
      <4> QED
        BY <4>1, <4>2, <4>3, <4>4, <4>5
    <3>2. CASE ~(Header.keysize > 0)
      <4>1. d = <<>> /\ IsList(d) /\ Len(d) = 0
        BY <2>5, <3>2, Nothing
      <4>2. ASSUME kept >= 9 + nf PROVE nk = 0
        <5>1. Header.keysize = h[9 + nf].v
          BY <1>2, <1>3, <1>5, <2>1, <2>2, <4>2 DEF Field, OnDisk, KeySizeAt
        <5>2. h[9 + nf].v = IF cmd.rand THEN NameBytes(run.bl) ELSE 0
          BY <2>1, <2>2 DEF HeaderShape, It
        <5>3. NameBytes(run.bl) \in Nat /\ (run.bl # <<>> => NameBytes(run.bl) > 0)
          BY NamesTakeBytes DEF RunOK
        <5>4. cmd.rand => run.bl = <<>>
          BY <3>2, <5>1, <5>2, <5>3
        <5> QED
          BY <2>2, <5>4, Nothing DEF KeyCount
      <4> QED
        BY <4>1, <4>2
    <3> QED
      BY <3>1, <3>2
  <2>11. PICK ab, abc, abcd : ab = a \o b /\ abc = ab \o c /\ abcd = abc \o d
    OBVIOUS
  <2>12. /\ IsList(abc) /\ Len(abc) = 9 + nf /\ \A i \in 1..(9 + nf) : abc[i] = h[i].w
    <3>1. Follows(ab, a, b)
      BY <2>7, <2>8, <2>11, Joins
    <3>2. /\ IsList(ab) /\ Len(ab) = 8 + nf /\ \A i \in 1..8 : ab[i] = a[i]
          /\ \A i \in 1..nf : ab[8 + i] = b[i]
      BY <2>7, <2>8, <3>1 DEF Follows
    <3>3. ASSUME NEW i \in 1..(8 + nf) PROVE ab[i] = h[i].w
      <4>1. CASE i \in 1..8
        BY <2>7, <3>2, <4>1
      <4>2. CASE i \notin 1..8
        <5>1. i - 8 \in 1..nf /\ 8 + (i - 8) = i
          BY <4>2
        <5> QED
          BY <2>8, <3>2, <5>1
      <4> QED
        BY <4>1, <4>2
    <3>4. Follows(abc, ab, c)
      BY <2>9, <2>11, <3>2, Joins
    <3>5. /\ IsList(abc) /\ Len(abc) = (8 + nf) + 1 /\ \A i \in 1..(8 + nf) : abc[i] = ab[i]
          /\ abc[(8 + nf) + 1] = c[1]
      BY <2>9, <3>2, <3>4 DEF Follows
    <3>6. (8 + nf) + 1 = 9 + nf /\ \A i \in 1..(9 + nf) : i \in 1..(8 + nf) \/ i = 9 + nf
      OBVIOUS
    <3>7. Len(abc) = 9 + nf
      BY <3>5, <3>6
    <3>8. ASSUME NEW i \in 1..(9 + nf) PROVE abc[i] = h[i].w
      <4>1. abc[9 + nf] = h[9 + nf].w
        BY <2>9, <3>5, <3>6
      <4>2. \A j \in 1..(8 + nf) : abc[j] = h[j].w
        BY <3>3, <3>5
      <4> QED
        BY <3>6, <4>1, <4>2
    <3> QED
      BY <3>5, <3>7, <3>8
  <2>13. IsList(e) /\ Len(e) = (IF Sip47 THEN 2 ELSE 0)
         /\ (Sip47 => e[1] = 1 /\ e[2] = calcBitstreamSize(run.count, format))
    <3>1. CASE Sip47
      BY <2>5, <3>1 DEF IsList
    <3>2. CASE ~Sip47
      BY <2>5, <3>2, Nothing
    <3> QED
      BY <3>1, <3>2
  <2>14. PICK nd \in Nat : nd = Len(d)
    BY <2>10 DEF IsList
  <2>15. /\ IsList(abcd) /\ Len(abcd) = (9 + nf) + nd /\ \A i \in 1..(9 + nf) : abcd[i] = h[i].w
         /\ \A i \in 1..nd : abcd[9 + nf + i] = d[i]
    <3>1. Follows(abcd, abc, d)
      BY <2>10, <2>11, <2>12, Joins
    <3> QED
      BY <2>12, <2>14, <3>1 DEF Follows
  <2>16. PICK ne \in Nat : ne = Len(e)
    BY <2>13
  <2>17. /\ IsList(widths) /\ Len(widths) = ((9 + nf) + nd) + ne
         /\ \A i \in 1..((9 + nf) + nd) : widths[i] = abcd[i]
         /\ \A i \in 1..ne : widths[((9 + nf) + nd) + i] = e[i]
    <3> HIDE DEF widths
    <3>1. Follows(widths, abcd, e)
      BY <2>6, <2>11, <2>13, <2>15, Joins
    <3> QED
      BY <2>15, <2>16, <3>1 DEF Follows
  <2>18. DOMAIN widths = 1..(((9 + nf) + nd) + ne)
    BY <2>17, ListIsSeq
  <2> HIDE DEF widths
  <2>19. Len(h) = 9 + nf + nk + (IF Sip47 THEN 2 ELSE 0)
    BY <1>1, <1>5, <2>1, <2>2 DEF PrefixShape, HeaderLength
  <2>20. ASSUME NEW i \in 1..kept
         PROVE  i \in DOMAIN widths /\ widths[i] = h[i].w
    <3>1. CASE i <= 9 + nf
      <4>1. i \in 1..(9 + nf) /\ i \in 1..((9 + nf) + nd) /\ i \in 1..(((9 + nf) + nd) + ne)
        BY <3>1
      <4> QED
        BY <2>15, <2>17, <2>18, <4>1
    <3>2. CASE i > 9 + nf
      <4>1. kept >= 9 + nf
        BY <3>2
      <4>2. nd = nk /\ \A j \in 1..nk : d[j] = h[9 + nf + j].w
        BY <2>10, <2>14, <4>1
      <4>3. CASE i <= 9 + nf + nk
        <5>1. /\ i - (9 + nf) \in 1..nk /\ 9 + nf + (i - (9 + nf)) = i
              /\ i \in 1..((9 + nf) + nd) /\ i \in 1..(((9 + nf) + nd) + ne)
          BY <3>2, <4>2, <4>3
        <5>2. widths[i] = abcd[i] /\ i \in DOMAIN widths
          BY <2>17, <2>18, <5>1
        <5>3. abcd[i] = d[i - (9 + nf)]
          BY <2>15, <4>2, <5>1
        <5> QED
          BY <4>2, <5>1, <5>2, <5>3
      <4>4. CASE i > 9 + nf + nk
        <5>1. Sip47 /\ ne = 2
          BY <1>3, <2>1, <2>13, <2>16, <2>19, <4>4
        <5>2. PICK top \in Nat : top = 9 + nf + nk
          OBVIOUS
        <5>3. /\ Len(h) = top + 2 /\ (9 + nf) + nd = top /\ kept <= top + 2 /\ (i = top + 1 \/ i = top + 2)
              /\ i \in 1..(top + 2) /\ top + 1 <= kept /\ (i = top + 2 => kept = top + 2)
          BY <1>3, <2>1, <2>19, <4>2, <4>4, <5>1, <5>2
        <5>4. /\ h[top + 1] = It(1, Format)
              /\ h[top + 2] = It(calcBitstreamSize(run.count, Format), Stream(Exponents))
          <6>1. (top + 2) - 1 = top + 1
            OBVIOUS
          <6> QED
            BY <1>1, <2>1, <5>1, <5>3, <6>1 DEF PrefixShape
        <5>5. format = Format
          <6>1. FormatAt = top + 1
            BY <2>1, <5>3 DEF FormatAt
          <6> QED
            BY <1>3, <2>1, <5>3, <5>4, <6>1 DEF format, Field, OnDisk, It
        <5>6. widths[top + 1] = 1 /\ widths[top + 2] = calcBitstreamSize(run.count, Format)
          <6>1. 1 \in 1..ne /\ 2 \in 1..ne
            BY <5>1
          <6> QED
            BY <2>13, <2>17, <5>1, <5>3, <5>5, <6>1
        <5>7. i \in DOMAIN widths
          BY <2>18, <5>1, <5>3
        <5> QED
          BY <5>3, <5>4, <5>6, <5>7 DEF It
      <4> QED
        BY <4>3, <4>4
    <3> QED
      BY <3>1, <3>2
  <2> QED
    BY <1>3, <2>1, <2>20 DEF TornAt, widths
<1> QED
  BY <1>4, <1>5

LEMMA RecordFields ==
  ASSUME RunOK
  PROVE  /\ Len(run.bl) \in Nat /\ Fields \in Nat /\ Len(run.bl) < Fields
         /\ ~Sip47 => Len(run.bl) + 1 < Fields
         /\ \A i \in 1..Fields : i \in 1..Len(run.bl) \/ (~Sip47 /\ i = Len(run.bl) + 1) \/ i = Fields
<1>1. PICK n \in Nat : n = Len(run.bl)
  BY Sizes
<1>2. CASE Sip47
  <2>1. Fields = n + 1
    BY <1>1, <1>2 DEF Fields
  <2> QED
    BY <1>1, <1>2, <2>1
<1>3. CASE ~Sip47
  <2>1. Fields = n + 2
    BY <1>1, <1>3 DEF Fields
  <2> QED
    BY <1>1, <1>3, <2>1
<1> QED
  BY <1>2, <1>3

LEMMA WidthsKnown ==
  ASSUME RunOK, NEW K, PrefixShape(sent[1], K)
  PROVE  /\ IsList(BlockWidths) /\ Len(BlockWidths) = Fields /\ DOMAIN BlockWidths = 1..Fields
         /\ \A i \in 1..Len(run.bl) : BlockWidths[i] = WriteDigest[run.bl[i]]
         /\ ~Sip47 => BlockWidths[Len(run.bl) + 1] = ExponentBytes(run.blocksize)
         /\ BlockWidths[Fields] = modsizeBytes
<1>1. Header.blocksize = run.blocksize /\ Header.modsize = run.modsize /\ Header.bl = run.bl
  BY HeaderKnown
<1>2. PICK n \in Nat : n = Len(run.bl) /\ DOMAIN run.bl = 1..n /\ \A i \in 1..n : run.bl[i] \in Names
  BY Sizes
<1>3. PICK a, b, c : a = DigestWidths(run.bl)
                     /\ b = (IF Sip47 THEN <<>> ELSE <<ExponentBytes(run.blocksize)>>)
                     /\ c = <<modsizeBytes>>
  OBVIOUS
<1>4. BlockWidths = (a \o b) \o c
  BY <1>1, <1>3 DEF BlockWidths, modsizeBytes
<1>5. IsList(a) /\ Len(a) = n /\ \A i \in 1..n : a[i] = WriteDigest[run.bl[i]]
  <2>1. a = [i \in 1..n |-> a[i]] /\ \A i \in 1..n : a[i] = ReadDigest[run.bl[i]]
    BY <1>2, <1>3 DEF DigestWidths
  <2>2. \A i \in 1..n : ReadDigest[run.bl[i]] = WriteDigest[run.bl[i]]
    BY <1>2, SwitchesAgree DEF Agree
  <2> QED
    BY <2>1, <2>2, ListOf
<1>6. IsList(c) /\ Len(c) = 1 /\ c[1] = modsizeBytes
  BY <1>3, OneElement
<1>7. PICK w : w = BlockWidths
  OBVIOUS
<1>8. CASE Sip47
  <2>1. IsList(b) /\ Len(b) = 0
    BY <1>3, <1>8, Nothing
  <2>2. PICK ab : ab = a \o b /\ w = ab \o c
    BY <1>4, <1>7
  <2>3. Follows(ab, a, b)
    BY <1>5, <2>1, <2>2, Joins
  <2>4. IsList(ab) /\ Len(ab) = n /\ \A i \in 1..n : ab[i] = a[i]
    BY <1>5, <2>1, <2>3 DEF Follows
  <2>5. Follows(w, ab, c)
    BY <1>6, <2>2, <2>4, Joins
  <2>6. IsList(w) /\ Len(w) = n + 1 /\ (\A i \in 1..n : w[i] = ab[i]) /\ w[n + 1] = c[1]
    BY <1>6, <2>4, <2>5 DEF Follows
  <2>7. Fields = n + 1
    BY <1>2, <1>8 DEF Fields
  <2> QED
    BY <1>2, <1>5, <1>6, <1>7, <1>8, <2>4, <2>6, <2>7, ListIsSeq
<1>9. CASE ~Sip47
  <2>1. IsList(b) /\ Len(b) = 1 /\ b[1] = ExponentBytes(run.blocksize)
    BY <1>3, <1>9, OneElement
  <2>2. PICK ab : ab = a \o b /\ w = ab \o c
    BY <1>4, <1>7
  <2>3. Follows(ab, a, b)
    BY <1>5, <2>1, <2>2, Joins
  <2>4. IsList(ab) /\ Len(ab) = n + 1 /\ (\A i \in 1..n : ab[i] = a[i]) /\ ab[n + 1] = b[1]
    BY <1>5, <2>1, <2>3 DEF Follows
  <2>5. Follows(w, ab, c)
    BY <1>6, <2>2, <2>4, Joins
  <2>6. /\ IsList(w) /\ Len(w) = (n + 1) + 1 /\ (\A i \in 1..(n + 1) : w[i] = ab[i])
        /\ w[(n + 1) + 1] = c[1]
    BY <1>6, <2>4, <2>5 DEF Follows
  <2>7. Fields = n + 2 /\ (n + 1) + 1 = n + 2 /\ n + 1 \in 1..(n + 1) /\ \A i \in 1..n : i \in 1..(n + 1)
    BY <1>2, <1>9 DEF Fields
  <2> QED
    BY <1>2, <1>5, <1>6, <1>7, <1>9, <2>1, <2>4, <2>6, <2>7, ListIsSeq
<1> QED
  BY <1>8, <1>9

\* What a block's record holds.
LEMMA RecordHolds ==
  ASSUME RunOK, NEW B, NEW b, NEW K, BlockShape(B, b, K)
  PROVE  /\ \A i \in 1..Len(run.bl) :
              /\ B[i].w = WriteDigest[run.bl[i]]
              /\ B[i].v = StoredDigest(run.bl[i], HashBlock[run.bl[i]], K[run.bl[i]], Contents(b))
         /\ ~Sip47 => /\ B[Len(run.bl) + 1].w = ExponentBytes(run.blocksize)
                      /\ B[Len(run.bl) + 1].v =
                           IF run.blocksize > 32 THEN cmd.data[b].exp ELSE cmd.data[b].exp % 256
         /\ B[Fields].w = modsizeBytes /\ B[Fields].v = cmd.data[b].rem
<1>1. \A w, v : It(w, v).w = w /\ It(w, v).v = v
  BY DEF It
<1>2. IsList(run.bl)
  BY DEF RunOK, NameList
<1>3. \A i \in 1..Len(run.bl) :
              /\ B[i].w = WriteDigest[run.bl[i]]
              /\ B[i].v = StoredDigest(run.bl[i], HashBlock[run.bl[i]], K[run.bl[i]], Contents(b))
  BY <1>2, DigestsAreList DEF BlockShape, BlockDigests
<1> QED
  BY <1>1, <1>3 DEF BlockShape, Exponent, Remainder

LEMMA BlockFits ==
  ASSUME RunOK, Zipped, Len(sent) > 0, NEW b \in Nat \ {0}
  PROVE  ~TornAt(b + 1, BlockWidths)
<1>1. PICK K : Trail(K)
  BY SMTT(20) DEF Zipped
<1>2. PICK m \in Nat : m = Len(sent)
  BY Arrivals
<1>3. PrefixShape(sent[1], K[0]) /\ \A c \in 1..(m - 1) : BlockShape(sent[c + 1], c, K[c])
  BY <1>1, <1>2, Shapes DEF Zipped
<1>4. CASE b + 1 \notin 1..m
  <2>1. Kept(b + 1) = 0
    BY <1>2, <1>4, Arrivals
  <2> QED
    BY <2>1 DEF TornAt
<1>5. CASE b + 1 \in 1..m
  <2>1. b \in 1..(m - 1)
    BY <1>5
  <2>2. PICK B : B = sent[b + 1] /\ BlockShape(B, b, K[b])
    BY <1>3, <2>1
  <2>3. PICK kept \in Nat : kept = Kept(b + 1) /\ kept <= Len(B)
    <3>1. Kept(b + 1) \in 0..Len(sent[b + 1])
      BY <1>2, <1>5, Arrivals
    <3> QED
      BY <2>2, <3>1
  <2>4. Len(B) = Fields
    BY <2>2 DEF BlockShape
  <2>5. ASSUME NEW i \in 1..kept
        PROVE  i \in DOMAIN BlockWidths /\ BlockWidths[i] = B[i].w
    <3>1. i \in 1..Fields
      BY <2>3, <2>4, RecordFields
    <3>2. i \in 1..Len(run.bl) \/ (~Sip47 /\ i = Len(run.bl) + 1) \/ i = Fields
      BY <3>1, RecordFields
    <3>3. /\ DOMAIN BlockWidths = 1..Fields
          /\ \A j \in 1..Len(run.bl) : BlockWidths[j] = WriteDigest[run.bl[j]]
          /\ ~Sip47 => BlockWidths[Len(run.bl) + 1] = ExponentBytes(run.blocksize)
          /\ BlockWidths[Fields] = modsizeBytes
      BY <1>3, WidthsKnown
    <3>4. /\ \A j \in 1..Len(run.bl) : B[j].w = WriteDigest[run.bl[j]]
          /\ ~Sip47 => B[Len(run.bl) + 1].w = ExponentBytes(run.blocksize)
          /\ B[Fields].w = modsizeBytes
      BY <2>2, RecordHolds
    <3> QED
      BY <3>1, <3>2, <3>3, <3>4
  <2> QED
    BY <2>2, <2>3, <2>5 DEF TornAt
<1> QED
  BY <1>4, <1>5

----------------------------------------------------------------------------
(* The unzippers' steps, whichever program takes them.                     *)
ReaderStep ==
  \/ \E program, o : Launch(program, o)
  \/ \E program, job, least : Refuse(program, job, least)
  \/ \E program, least, sum : Validate(program, least, sum)
  \/ \E program, least : \E job \in {"list", "unzip"} : ReadHeader(program, job, least)
  \/ \E program : \E job \in {"list", "unzip"} : Turn(program, job)
  \/ \E program : End(program)
  \/ Exit
  \/ UNCHANGED vars

LEMMA ReaderSteps == [Next]_vars /\ ~Zipping => ReaderStep
<1> SUFFICES ASSUME [Next]_vars, ~Zipping PROVE ReaderStep
  OBVIOUS
<1>1. CASE Launching
  BY <1>1, Zenon DEF Launching, mdunzipMain, sip40UnzipMain, sip47UnzipMain, nhUnzipMain, ReaderStep
<1>2. CASE Refused
  BY <1>2, Zenon DEF Refused, ReaderStep
<1>3. CASE Check
  BY <1>3, Zenon DEF Check, mdunzipValidate, sip40Validate, sip47Validate, nhValidate, ReaderStep
<1>4. CASE List
  <2>1. CASE mdunzipListHeader \/ sip40ListHeader \/ sip47ListHeader \/ nhListHeader
    BY <2>1, Zenon DEF mdunzipListHeader, sip40ListHeader, sip47ListHeader, nhListHeader, ReaderStep
  <2>2. CASE mdunzipListBlock \/ sip40ListBlock \/ sip47ListBlock \/ nhListBlock
    BY <2>2, Zenon DEF mdunzipListBlock, sip40ListBlock, sip47ListBlock, nhListBlock, ReaderStep
  <2> QED
    BY <1>4, <2>1, <2>2 DEF List
<1>5. CASE Unzip
  <2>1. CASE mdunzipHeader \/ sip40UnzipHeader \/ sip47UnzipHeader \/ nhUnzipHeader
    BY <2>1, Zenon DEF mdunzipHeader, sip40UnzipHeader, sip47UnzipHeader, nhUnzipHeader, ReaderStep
  <2>2. CASE mdunzipBlock \/ sip40UnzipBlock \/ sip47UnzipBlock \/ nhUnzipBlock
    BY <2>2, Zenon DEF mdunzipBlock, sip40UnzipBlock, sip47UnzipBlock, nhUnzipBlock, ReaderStep
  <2>3. CASE mdunzipEnd \/ sip40UnzipEnd \/ sip47UnzipEnd \/ nhUnzipEnd
    BY <2>3, Zenon DEF mdunzipEnd, sip40UnzipEnd, sip47UnzipEnd, nhUnzipEnd, ReaderStep
  <2> QED
    BY <1>5, <2>1, <2>2, <2>3 DEF Unzip
<1>6. CASE Exit \/ UNCHANGED vars
  BY <1>6 DEF ReaderStep
<1> QED
  BY <1>1, <1>2, <1>3, <1>4, <1>5, <1>6 DEF Next

\* What an unzipper makes of the container stays as it is while it reads.
LEMMA SameContainer ==
  ASSUME UNCHANGED zipVars
  PROVE  /\ RunOK' = RunOK /\ Keys' = Keys /\ Fields' = Fields /\ Garbled' = Garbled /\ Sip47' = Sip47
         /\ Header' = Header /\ blockcount' = blockcount /\ format' = format
         /\ WholeFile' = WholeFile /\ Blocks' = Blocks
         /\ \A k : Kept(k)' = Kept(k) /\ Intact(k)' = Intact(k)
         /\ \A b : Contents(b)' = Contents(b) /\ Carried(b)' = Carried(b)
         /\ \A i : Initial(i)' = Initial(i)
         /\ \A K : Trail(K)' = Trail(K)
<1>1. cmd' = cmd /\ run' = run /\ wpc' = wpc /\ key' = key /\ sent' = sent /\ cut' = cut
  BY DEF zipVars
<1>2. Sip47' = Sip47 /\ NoHeader' = NoHeader
  BY <1>1 DEF Sip47, NoHeader
<1>3. /\ RunOK' = RunOK /\ Keys' = Keys /\ BlockKeys' = BlockKeys /\ incKey' = incKey
      /\ \A K : Prefix(K)' = Prefix(K)
      /\ \A b, K : Block(b, K)' = Block(b, K)
  BY <1>1, SameProgram
<1>4. \A k : Kept(k)' = Kept(k) /\ Intact(k)' = Intact(k)
  BY <1>1 DEF Kept, Intact
<1>5. ASSUME NEW K PROVE Trail(K)' = Trail(K)
  <2>0. \A k, b, inc : KeysAt(k, b, inc)' = KeysAt(k, b, inc)
    BY <1>1 DEF KeysAt, Incremented, Sip47
  <2>1. (\A b \in 1..(Len(sent) - 1) : sent[b + 1] = Block(b, K[b]) /\ K[b] = KeysAt(K[b - 1], b, incKey))'
        <=> \A b \in 1..(Len(sent) - 1) : sent[b + 1] = Block(b, K[b]) /\ K[b] = KeysAt(K[b - 1], b, incKey)
    BY <2>0, <1>1, <1>3
  <2>2. (Len(sent) > 0 => sent[1] = Prefix(K[0]) /\ K[0] \in BlockKeys /\ key = K[Len(sent) - 1])'
        <=> (Len(sent) > 0 => sent[1] = Prefix(K[0]) /\ K[0] \in BlockKeys /\ key = K[Len(sent) - 1])
    BY <1>1, <1>3
  <2>3. (\A n \in 0..(Len(sent) - 1) : K[n] \in Keys)' <=> \A n \in 0..(Len(sent) - 1) : K[n] \in Keys
    BY <1>1, <1>3
  <2> QED
    BY <2>1, <2>2, <2>3 DEF Trail
<1>6. Header' = Header /\ Garbled' = Garbled /\ format' = format
  BY <1>1, <1>2, <1>4
     DEF Header, Garbled, format, Field, OnDisk, FormatAt, KeySizeAt, FromNames
<1>7. /\ blockcount' = blockcount
      /\ \A b : Contents(b)' = Contents(b)
      /\ Fields' = Fields /\ Blocks' = Blocks /\ WholeFile' = WholeFile
  BY <1>1, <1>2, <1>6 DEF blockcount, Contents, Fields, Blocks, WholeFile
<1>8. \A i : Initial(i)' = Initial(i)
  BY <1>1, <1>2, <1>6 DEF Initial, BlockWidths, DigestWidths, ReadDigest
<1>9. \A b : Carried(b)' = Carried(b)
  BY <1>1, <1>2 DEF Carried, Format, Exponents, Blocks
<1> QED
  BY <1>2, <1>3, <1>4, <1>5, <1>6, <1>7, <1>8, <1>9

----------------------------------------------------------------------------
(* What an unzipper is doing and what it has read.                         *)
JobLists == {<<>>, <<"validate">>, <<"list">>, <<"list", "unzip">>, <<"unzip">>}

Reading ==
  /\ rpc \in {"off", "main", "list", "unzip", "done", "garbled"}
  /\ "jobs" \in DOMAIN unzip /\ unzip.jobs \in JobLists
  /\ rpc = "list" => unzip.jobs \in {<<"list">>, <<"list", "unzip">>}
  /\ rpc = "unzip" => unzip.jobs = <<"unzip">>
  /\ rpc # "off" => wpc = "closed"
  /\ rpc = "off" => got = <<>> /\ out = <<>> /\ verdict = "none"
  /\ rpc \in {"list", "unzip"} => ~Garbled
  /\ verdict \in {"none", "refused", "accepted", "rejected", "validates", "failed"}
  /\ verdict \in {"validates", "failed"} => unzip.jobs = <<>> /\ rpc \in {"main", "done"}

\* The exponent unpacked for a block.
Packed(b) ==
  IF OnDisk(1, StreamAt) THEN ReadExponent(sent[1][StreamAt].v, format, run.count, b) ELSE Torn

\* The turn that reads block b.
RecordRead(b, rec) ==
  /\ IsList(rec.fields) /\ Len(rec.fields) = Fields
  /\ \A i \in 1..Fields :
       rec.fields[i] = IF i <= Kept(b + 1) THEN sent[b + 1][i].v
                       ELSE IF b = 1 THEN Initial(i) ELSE got[b - 1].fields[i]
  /\ rec.exp = IF Sip47 THEN Packed(b) ELSE rec.fields[Len(run.bl) + 1]
TurnTo(rec, job) ==
  /\ rpc = job /\ rpc' = rpc /\ UNCHANGED <<zipVars, unzip, exps, verdict>>
  /\ Len(got) + 1 <= run.count
  /\ got' = Append(got, rec) /\ RecordRead(Len(got) + 1, rec)
  /\ rkey' = KeysAt(rkey, Len(got) + 1, IncKeyOf(Header.version))
  /\ IF job = "unzip" THEN \E block \in Scan(Len(got) + 1, rec, rkey') : out' = out \o block ELSE out' = out

Reads ==
  /\ IsList(got) /\ Len(got) <= run.count
  /\ \A n \in 1..Len(got) : RecordRead(n, got[n])
  /\ rpc \in {"list", "unzip"} /\ Sip47 => exps = [b \in 1..run.count |-> Packed(b)]

LEMMA ContainerKnown ==
  ASSUME RunOK, Zipped, Reading, rpc # "off"
  PROVE  /\ Len(sent) > 0
         /\ Header.filesize = cmd.filesize /\ Header.blocksize = run.blocksize /\ Header.modsize = run.modsize
         /\ Header.fl = run.fl /\ Header.bl = run.bl /\ blockcount = run.count
<1>1. wpc = "closed" /\ Len(sent) > 0
  <2>1. PICK m \in Nat : m = Len(sent)
    BY DEF Zipped, IsList
  <2> QED
    BY <2>1 DEF Zipped, Stage, Reading
<1>2. PICK K : Trail(K)
  BY DEF Zipped
<1>3. PrefixShape(sent[1], K[0])
  BY <1>1, <1>2, Shapes DEF Zipped
<1> QED
  BY <1>1, <1>3, HeaderKnown

LEMMA TurnReads ==
  ASSUME RunOK, Zipped, Reading, Reads, NEW program, NEW job \in {"list", "unzip"}, Turn(program, job)
  PROVE  \E rec : TurnTo(rec, job)
<1>1. /\ rpc = job /\ Len(got) < run.count /\ UNCHANGED <<zipVars, unzip, exps, verdict>>
      /\ Header.bl = run.bl /\ Len(sent) > 0
  BY ContainerKnown DEF Turn
<1>2. PICK b \in Nat \ {0} : b = Len(got) + 1 /\ b <= run.count
  <2>1. PICK m \in Nat : m = Len(got)
    BY DEF Reads, IsList
  <2>2. run.count \in Nat
    BY MdCommonAssumption DEF RunOK
  <2> QED
    BY <1>1, <2>1, <2>2
<1>3. PICK rec : rec = ReadBlock(b)
  OBVIOUS
<1>4. ~TornAt(b + 1, BlockWidths)
  BY <1>1, BlockFits
<1>5. /\ got' = Append(got, rec) /\ rpc' = rpc
      /\ rkey' = KeysAt(rkey, b, IncKeyOf(Header.version))
      /\ IF job = "unzip" THEN \E block \in Scan(b, rec, rkey') : out' = out \o block ELSE out' = out
  BY <1>2, <1>3, <1>4 DEF Turn
<1>6. DOMAIN BlockWidths = 1..Fields /\ Fields \in Nat /\ Len(run.bl) \in Nat /\ Len(run.bl) < Fields
      /\ (~Sip47 => Len(run.bl) + 1 < Fields)
  <2>1. PICK K : Trail(K)
    BY DEF Zipped
  <2>2. PrefixShape(sent[1], K[0])
    BY <1>1, <2>1, Shapes DEF Zipped
  <2> QED
    BY <2>2, WidthsKnown, RecordFields
<1>7. (got = <<>> <=> b = 1)
  BY <1>2, EmptyList DEF Reads, IsList
<1> DEFINE value(i) == IF i <= Kept(b + 1) THEN sent[b + 1][i].v
                       ELSE IF b = 1 THEN Initial(i) ELSE got[b - 1].fields[i]
<1>8. PICK fields : fields = [i \in 1..Fields |-> value(i)]
  OBVIOUS
<1>9. rec = [fields |-> fields, exp |-> IF Sip47 THEN exps[b] ELSE fields[Len(run.bl) + 1]]
  <2>1. PICK before : before = IF got = <<>> THEN [i \in DOMAIN BlockWidths |-> Initial(i)] ELSE got[b - 1].fields
    OBVIOUS
  <2>2. \A i \in 1..Fields : before[i] = IF b = 1 THEN Initial(i) ELSE got[b - 1].fields[i]
    BY <1>6, <1>7, <2>1
  <2>3. rec = [fields |-> [i \in DOMAIN BlockWidths |-> IF OnDisk(b + 1, i) THEN sent[b + 1][i].v ELSE before[i]],
               exp |-> IF Sip47 THEN exps[b]
                       ELSE [i \in DOMAIN BlockWidths |->
                               IF OnDisk(b + 1, i) THEN sent[b + 1][i].v ELSE before[i]][Len(run.bl) + 1]]
    BY <1>1, <1>3, <2>1 DEF ReadBlock
  <2>4. [i \in DOMAIN BlockWidths |-> IF OnDisk(b + 1, i) THEN sent[b + 1][i].v ELSE before[i]] = fields
    BY <1>6, <1>8, <2>2 DEF OnDisk
  <2> QED
    BY <2>3, <2>4
<1>10. /\ \A i \in 1..Fields : fields[i] = value(i)
       /\ IsList(fields) /\ Len(fields) = Fields
  <2>1. fields = [i \in 1..Fields |-> fields[i]]
    BY <1>8
  <2> QED
    BY <1>6, <1>8, <2>1, ListOf
<1>11. Sip47 => exps[b] = Packed(b)
  <2>1. b \in 1..run.count
    BY <1>2, MdCommonAssumption DEF RunOK
  <2>2. rpc \in {"list", "unzip"} /\ Sip47 => exps = [c \in 1..run.count |-> Packed(c)]
    BY DEF Reads
  <2> QED
    BY <1>1, <2>1, <2>2
<1>12. RecordRead(b, rec)
  <2>1. rec.fields = fields /\ rec.exp = IF Sip47 THEN exps[b] ELSE fields[Len(run.bl) + 1]
    BY <1>9
  <2> QED
    BY <1>10, <1>11, <2>1 DEF RecordRead
<1> QED
  BY <1>1, <1>2, <1>5, <1>12 DEF TurnTo

LEMMA JobsLeft ==
  /\ \A o : Jobs(o) \in JobLists
  /\ \A jobs \in JobLists : jobs # <<>> => Tail(jobs) \in JobLists
  /\ \A jobs \in JobLists : jobs # <<>> /\ jobs[1] = "list" => jobs \in {<<"list">>, <<"list", "unzip">>}
  /\ \A jobs \in JobLists : jobs # <<>> /\ jobs[1] = "unzip" => jobs = <<"unzip">>
  /\ Tail(<<"unzip">>) = <<>>
  /\ <<"list">> # <<>> /\ <<"unzip">> # <<>> /\ <<"list", "unzip">> # <<>>
<1>1. ASSUME NEW o PROVE Jobs(o) \in JobLists
  <2>0. PICK l, u, e, lu : l = <<"list">> /\ u = <<"unzip">> /\ e = <<>> /\ lu = <<"list", "unzip">>
    OBVIOUS
  <2>2. IsList(l) /\ Len(l) = 1 /\ l[1] = "list" /\ IsList(u) /\ Len(u) = 1 /\ u[1] = "unzip"
    BY <2>0, OneElement
  <2>3. IsList(e) /\ Len(e) = 0
    BY <2>0, Nothing
  <2>4. IsList(lu) /\ Len(lu) = 2 /\ lu[1] = "list" /\ lu[2] = "unzip"
    BY <2>0 DEF IsList
  <2>5. Follows(l \o u, l, u) /\ Follows(l \o e, l, e) /\ Follows(e \o u, e, u)
    BY <2>2, <2>3, Joins
  <2>6. l \o u = lu
    <3>1. PICK c : c = l \o u
      OBVIOUS
    <3>2. IsList(c) /\ Len(c) = 2 /\ c[1] = "list" /\ c[2] = "unzip"
      BY <2>2, <2>5, <3>1 DEF Follows
    <3>3. Len(c) = Len(lu) /\ \A i \in 1..Len(c) : c[i] = lu[i]
      <4>1. \A i \in 1..2 : i = 1 \/ i = 2
        OBVIOUS
      <4> QED
        BY <2>4, <3>2, <4>1
    <3> QED
      BY <2>4, <3>1, <3>2, <3>3, SameList
  <2>7. l \o e = l
    <3>1. PICK c : c = l \o e
      OBVIOUS
    <3>2. IsList(c) /\ Len(c) = 1 /\ c[1] = "list"
      BY <2>2, <2>3, <2>5, <3>1 DEF Follows
    <3>3. Len(c) = Len(l) /\ \A i \in 1..Len(c) : c[i] = l[i]
      <4>1. \A i \in 1..1 : i = 1
        OBVIOUS
      <4> QED
        BY <2>2, <3>2, <4>1
    <3> QED
      BY <2>2, <3>1, <3>2, <3>3, SameList
  <2>8. e \o u = u
    <3>1. PICK c : c = e \o u
      OBVIOUS
    <3>2. IsList(c) /\ Len(c) = 1 /\ c[1] = "unzip"
      BY <2>2, <2>3, <2>5, <3>1 DEF Follows
    <3>3. Len(c) = Len(u) /\ \A i \in 1..Len(c) : c[i] = u[i]
      <4>1. \A i \in 1..1 : i = 1
        OBVIOUS
      <4> QED
        BY <2>2, <3>2, <4>1
    <3> QED
      BY <2>2, <3>1, <3>2, <3>3, SameList
  <2>1. /\ <<"list">> \o <<"unzip">> = <<"list", "unzip">> /\ <<"list">> \o <<>> = <<"list">>
        /\ <<>> \o <<"unzip">> = <<"unzip">>
    BY <2>0, <2>6, <2>7, <2>8
  <2> QED
    BY <2>1 DEF Jobs, JobLists
<1>2. /\ Tail(<<"validate">>) = <<>> /\ Tail(<<"list">>) = <<>> /\ Tail(<<"unzip">>) = <<>>
      /\ Tail(<<"list", "unzip">>) = <<"unzip">>
  OBVIOUS
<1>3. \A jobs \in JobLists : jobs # <<>> => Tail(jobs) \in JobLists
  BY <1>2 DEF JobLists
<1>4. /\ <<"validate">>[1] = "validate" /\ <<"list">>[1] = "list" /\ <<"unzip">>[1] = "unzip"
      /\ <<"list", "unzip">>[1] = "list"
  OBVIOUS
<1>7. <<"list">> # <<>> /\ <<"unzip">> # <<>> /\ <<"list", "unzip">> # <<>>
  OBVIOUS
<1>5. \A jobs \in JobLists : jobs # <<>> /\ jobs[1] = "list" => jobs \in {<<"list">>, <<"list", "unzip">>}
  BY <1>4 DEF JobLists
<1>6. \A jobs \in JobLists : jobs # <<>> /\ jobs[1] = "unzip" => jobs = <<"unzip">>
  BY <1>4 DEF JobLists
<1> QED
  BY <1>1, <1>2, <1>3, <1>5, <1>6, <1>7

\* The header is read with the widths it was written with, or is no header at all.
LEMMA HeaderRead ==
  ASSUME RunOK, Zipped, Reading, NEW program, NEW job \in {"list", "unzip"}, NEW least,
         ReadHeader(program, job, least)
  PROVE  \/ Garbled /\ Crash
         \/ /\ ~Garbled /\ rpc' = job /\ rkey' = readKeys /\ got' = <<>> /\ out' = <<>>
            /\ Sip47 => exps' = [b \in 1..run.count |-> Packed(b)]
            /\ UNCHANGED <<zipVars, unzip, verdict>>
<1>1. rpc = "main" /\ Len(sent) > 0 /\ blockcount = run.count
  BY ContainerKnown DEF ReadHeader, Accepted, NextJob
<1>2. CASE Garbled
  BY <1>2 DEF ReadHeader
<1>3. CASE ~Garbled
  <2>1. ~TornAt(1, PrefixWidths)
    BY <1>1, <1>3, PrefixFits
  <2>2. /\ rpc' = (IF TornAt(1, PrefixWidths) THEN "torn" ELSE job) /\ rkey' = readKeys
        /\ got' = <<>> /\ out' = <<>> /\ UNCHANGED <<zipVars, unzip, verdict>>
        /\ exps' = IF ~Sip47 THEN <<>>
                   ELSE [b \in 1..blockcount |->
                           IF OnDisk(1, StreamAt)
                           THEN ReadExponent(sent[1][StreamAt].v, format, blockcount, b) ELSE Torn]
    BY <1>3 DEF ReadHeader
  <2>3. Sip47 => exps' = [b \in 1..run.count |-> Packed(b)]
    BY <1>1, <2>2 DEF Packed
  <2> QED
    BY <1>3, <2>1, <2>2, <2>3
<1> QED
  BY <1>2, <1>3

LEMMA ReadingInit == Init => Reading /\ Reads
<1> SUFFICES ASSUME Init PROVE Reading /\ Reads
  OBVIOUS
<1>1. /\ wpc = "header" /\ got = <<>> /\ out = <<>> /\ verdict = "none" /\ rpc = "off"
      /\ unzip = [program |-> "none", jobs |-> <<>>, val |-> FALSE, over |-> FALSE, single |-> FALSE]
  BY DEF Init
<1>2. "jobs" \in DOMAIN unzip /\ unzip.jobs = <<>>
  BY <1>1
<1>3. IsList(got) /\ Len(got) = 0 /\ run.count \in Nat
  BY <1>1, Nothing, RunInit, MdCommonAssumption DEF RunOK
<1> QED
  BY <1>1, <1>2, <1>3 DEF Reading, Reads, JobLists

\* The unzippers start when the zipper is done.
LEMMA ZippersFirst ==
  ASSUME Reading, Zipping
  PROVE  rpc = "off" /\ got = <<>> /\ out = <<>> /\ verdict = "none" /\ UNCHANGED <<cmd, run, unzipVars>>
<1>1. wpc # "closed"
  BY DEF Zipping, WriteHeader, CrashInStream, WriteBlock
<1> QED
  BY <1>1, ZippersOnlyWrite DEF Reading

LEMMA ReadingStep == RunOK /\ Zipped /\ Reading /\ Reads /\ [Next]_vars => Reading'
<1> SUFFICES ASSUME RunOK, Zipped, Reading, Reads, [Next]_vars PROVE Reading'
  OBVIOUS
<1>1. CASE Zipping
  <2>1. rpc' = "off" /\ got' = <<>> /\ out' = <<>> /\ verdict' = "none" /\ unzip' = unzip
    BY <1>1, ZippersFirst DEF unzipVars
  <2> QED
    BY <2>1 DEF Reading
<1>2. CASE ~Zipping
  <2>0. UNCHANGED zipVars /\ wpc' = wpc
    BY <1>2, UnzippersOnlyRead DEF zipVars
  <2>1. Garbled' = Garbled
    BY <2>0, SameContainer
  <2>r. ReaderStep
    BY <1>2, ReaderSteps
  <2>2. ASSUME NEW program, NEW o, Launch(program, o) PROVE Reading'
    <3>1. /\ rpc = "off" /\ wpc = "closed" /\ rpc' = "main" /\ verdict' = verdict
          /\ unzip' = [program |-> program, jobs |-> Jobs(o), val |-> o.val, over |-> o.over \/ ~o.exists,
                       single |-> o.threads = 1]
      BY <2>2 DEF Launch
    <3>2. "jobs" \in DOMAIN unzip' /\ unzip'.jobs = Jobs(o)
      BY <3>1
    <3> QED
      BY <2>0, <3>1, <3>2, JobsLeft DEF Reading
  <2>3. ASSUME NEW program, NEW job, NEW least, Refuse(program, job, least) PROVE Reading'
    <3>1. /\ rpc = "main" /\ unzip.jobs # <<>> /\ rpc' = rpc /\ verdict' = "refused"
          /\ unzip' = [unzip EXCEPT !.jobs = Tail(@)]
      BY <2>3 DEF Refuse, NextJob
    <3>2. "jobs" \in DOMAIN unzip' /\ unzip'.jobs = Tail(unzip.jobs)
      BY <3>1 DEF Reading
    <3> QED
      BY <2>0, <3>1, <3>2, JobsLeft DEF Reading
  <2>4. ASSUME NEW program, NEW least, NEW sum, Validate(program, least, sum) PROVE Reading'
    <3>1. rpc = "main" /\ unzip.jobs # <<>>
      BY <2>4 DEF Validate, Accepted, NextJob
    <3>2. CASE Garbled
      <4>1. rpc' = "garbled" /\ UNCHANGED <<unzip, got, out, verdict>>
        BY <2>4, <3>2 DEF Validate, Crash
      <4> QED
        BY <2>0, <3>1, <4>1 DEF Reading
    <3>3. CASE ~Garbled
      <4>1. /\ rpc' = rpc /\ verdict' \in {"accepted", "rejected"}
            /\ unzip' = [unzip EXCEPT !.jobs = Tail(@)]
        BY <2>4, <3>3 DEF Validate
      <4>2. "jobs" \in DOMAIN unzip' /\ unzip'.jobs = Tail(unzip.jobs)
        BY <4>1 DEF Reading
      <4> QED
        BY <2>0, <3>1, <4>1, <4>2, JobsLeft DEF Reading
    <3> QED
      BY <3>2, <3>3
  <2>5. ASSUME NEW program, NEW least, NEW job \in {"list", "unzip"}, ReadHeader(program, job, least)
        PROVE  Reading'
    <3>1. rpc = "main" /\ unzip.jobs # <<>> /\ unzip.jobs[1] = job
      BY <2>5 DEF ReadHeader, Accepted, NextJob
    <3>2. CASE Garbled /\ Crash
      <4>1. rpc' = "garbled" /\ UNCHANGED <<unzip, got, out, verdict>>
        BY <3>2 DEF Crash
      <4> QED
        BY <2>0, <3>1, <4>1 DEF Reading
    <3>3. CASE ~Garbled /\ rpc' = job /\ UNCHANGED <<zipVars, unzip, verdict>>
      BY <2>0, <2>1, <3>1, <3>3, JobsLeft DEF Reading
    <3> QED
      BY <2>5, <3>2, <3>3, HeaderRead
  <2>6. ASSUME NEW program, NEW job \in {"list", "unzip"}, Turn(program, job) PROVE Reading'
    <3>1. rpc = job /\ rpc' = rpc /\ UNCHANGED <<unzip, verdict>>
      BY <2>6, TurnReads DEF TurnTo
    <3> QED
      BY <2>0, <2>1, <3>1 DEF Reading
  <2>7. ASSUME NEW program, End(program) PROVE Reading'
    <3>1. /\ rpc \in {"list", "unzip"} /\ rpc' = "main"
          /\ unzip' = [unzip EXCEPT !.jobs = Tail(@)]
          /\ verdict' = verdict \/ (rpc = "unzip" /\ verdict' \in FileVerdicts)
      BY <2>7 DEF End
    <3>2. "jobs" \in DOMAIN unzip' /\ unzip'.jobs = Tail(unzip.jobs)
      BY <3>1 DEF Reading
    <3>3. unzip.jobs \in JobLists /\ unzip.jobs # <<>> /\ (rpc = "unzip" => Tail(unzip.jobs) = <<>>)
      BY <3>1, JobsLeft DEF Reading
    <3>4. FileVerdicts \subseteq {"validates", "failed"}
      BY DEF FileVerdicts
    <3> QED
      BY <2>0, <3>1, <3>2, <3>3, <3>4, JobsLeft DEF Reading
  <2>8. CASE Exit
    <3>1. rpc = "main" /\ rpc' = "done" /\ UNCHANGED <<unzip, verdict>>
      BY <2>8 DEF Exit
    <3> QED
      BY <2>0, <3>1 DEF Reading
  <2>9. CASE UNCHANGED vars
    BY <2>1, <2>9 DEF Reading, vars, unzipVars, zipVars
  <2> QED
    BY <2>r, <2>2, <2>3, <2>4, <2>5, <2>6, <2>7, <2>8, <2>9 DEF ReaderStep
<1> QED
  BY <1>1, <1>2

\* What a step does to what has been read.
Still ==
  UNCHANGED <<rkey, exps, got, out>> /\ (rpc' \in {"list", "unzip"} => rpc' = rpc /\ unzip' = unzip)
StartsOver ==
  /\ rpc = "main" /\ wpc = "closed" /\ ~Garbled /\ rpc' \in {"list", "unzip"} /\ rkey' = readKeys /\ got' = <<>> /\ out' = <<>>
  /\ Sip47 => exps' = [b \in 1..run.count |-> Packed(b)]

LEMMA Effects ==
  ASSUME RunOK, Zipped, Reading, Reads, [Next]_vars, ~Zipping
  PROVE  /\ UNCHANGED zipVars
         /\ Still \/ StartsOver \/ \E job \in {"list", "unzip"} : \E rec : TurnTo(rec, job)
<1>1. UNCHANGED zipVars
  BY UnzippersOnlyRead
<1>2. ReaderStep
  BY ReaderSteps
<1>3. ASSUME NEW program, NEW o, Launch(program, o) PROVE Still
  BY <1>3 DEF Launch, Still
<1>4. ASSUME NEW program, NEW job, NEW least, Refuse(program, job, least) PROVE Still
  BY <1>4 DEF Refuse, NextJob, Still
<1>5. ASSUME NEW program, NEW least, NEW sum, Validate(program, least, sum) PROVE Still
  BY <1>5 DEF Validate, Accepted, NextJob, Crash, Still
<1>6. ASSUME NEW program, NEW least, NEW job \in {"list", "unzip"}, ReadHeader(program, job, least)
      PROVE  Still \/ StartsOver
  <2>1. CASE Garbled /\ Crash
    BY <2>1 DEF Crash, Still
  <2>2. CASE /\ ~Garbled /\ rpc' = job /\ rkey' = readKeys /\ got' = <<>> /\ out' = <<>>
             /\ Sip47 => exps' = [b \in 1..run.count |-> Packed(b)]
    <3>1. rpc = "main" /\ wpc = "closed"
      BY <1>6 DEF ReadHeader, Accepted, NextJob, Reading
    <3> QED
      BY <2>2, <3>1 DEF StartsOver
  <2> QED
    BY <1>6, <2>1, <2>2, HeaderRead
<1>7. ASSUME NEW program, End(program) PROVE Still
  BY <1>7 DEF End, Still
<1>8. CASE Exit \/ UNCHANGED vars
  BY <1>8 DEF Exit, vars, unzipVars, Still
<1> QED
  BY <1>1, <1>2, <1>3, <1>4, <1>5, <1>6, <1>7, <1>8, TurnReads DEF ReaderStep

LEMMA SameRecord ==
  ASSUME UNCHANGED zipVars, NEW b, NEW rec, b = 1 \/ got'[b - 1] = got[b - 1]
  PROVE  RecordRead(b, rec)' = RecordRead(b, rec) /\ Packed(b)' = Packed(b)
<1>1. cmd' = cmd /\ run' = run /\ sent' = sent /\ cut' = cut
  BY DEF zipVars
<1>2. /\ Fields' = Fields /\ Sip47' = Sip47 /\ format' = format
      /\ \A k : Kept(k)' = Kept(k)
      /\ \A i : Initial(i)' = Initial(i)
  BY SameContainer
<1>3. Packed(b)' = Packed(b)
  BY <1>1, <1>2 DEF Packed, OnDisk, StreamAt
<1> QED
  BY <1>1, <1>2, <1>3 DEF RecordRead

LEMMA ReadsStep == RunOK /\ Zipped /\ Reading /\ Reads /\ [Next]_vars => Reads'
<1> SUFFICES ASSUME RunOK, Zipped, Reading, Reads, [Next]_vars PROVE Reads'
  OBVIOUS
<1>0. run.count \in Nat
  BY MdCommonAssumption DEF RunOK
<1>1. CASE Zipping
  <2>1. rpc' = "off" /\ got' = <<>> /\ run' = run
    BY <1>1, ZippersFirst DEF unzipVars
  <2>2. IsList(got') /\ Len(got') = 0
    BY <2>1, Nothing
  <2> QED
    BY <1>0, <2>1, <2>2 DEF Reads
<1>2. CASE ~Zipping
  <2>1. UNCHANGED zipVars /\ run' = run /\ Sip47' = Sip47
    BY <1>2, Effects, SameContainer DEF zipVars
  <2>2. PICK all : all = [b \in 1..run.count |-> Packed(b)]
    OBVIOUS
  <2>3. all = [b \in 1..run.count |-> Packed(b)]'
    <3>1. ASSUME NEW b \in 1..run.count PROVE Packed(b)' = Packed(b)
      <4>1. cmd' = cmd /\ sent' = sent /\ cut' = cut /\ run' = run
        BY <2>1 DEF zipVars
      <4>2. format' = format /\ \A k : Kept(k)' = Kept(k)
        BY <2>1, SameContainer
      <4> QED
        BY <4>1, <4>2 DEF Packed, OnDisk, StreamAt
    <3> QED
      BY <2>1, <2>2, <3>1
  <2>4. CASE Still
    <3>1. ASSUME NEW n \in 1..Len(got') PROVE RecordRead(n, got[n])'
      <4>1. got' = got /\ n \in 1..Len(got) /\ RecordRead(n, got[n])
        BY <2>4 DEF Still, Reads
      <4>2. PICK rec : rec = got[n]
        OBVIOUS
      <4>3. RecordRead(n, rec)'
        BY <2>1, <4>1, <4>2, SameRecord
      <4> QED
        BY <4>1, <4>2, <4>3
    <3>2. got' = got /\ exps' = exps /\ (rpc' \in {"list", "unzip"} => rpc' = rpc)
      BY <2>4 DEF Still
    <3> QED
      BY <2>1, <2>2, <2>3, <3>1, <3>2 DEF Reads
  <2>5. CASE StartsOver
    <3>1. got' = <<>> /\ (Sip47 => exps' = all)
      BY <2>2, <2>5 DEF StartsOver
    <3>2. IsList(got') /\ Len(got') = 0
      BY <3>1, Nothing
    <3> QED
      BY <1>0, <2>1, <2>3, <3>1, <3>2 DEF Reads
  <2>6. ASSUME NEW job \in {"list", "unzip"}, NEW rec, TurnTo(rec, job)
        PROVE  Reads'
    <3>1. PICK m \in Nat : m = Len(got)
      BY DEF Reads, IsList
    <3>2. rpc = job /\ rpc' = rpc /\ got' = Append(got, rec) /\ RecordRead(m + 1, rec) /\ exps' = exps /\ m + 1 <= run.count
      BY <3>1, <2>6 DEF TurnTo
    <3>3. IsList(got') /\ Len(got') = m + 1 /\ (\A k \in 1..m : got'[k] = got[k]) /\ got'[m + 1] = rec
      BY <3>1, <3>2, Appended DEF Reads
    <3>4. ASSUME NEW n \in 1..(m + 1) PROVE RecordRead(n, got[n])'
      <4>1. n = 1 \/ n - 1 \in 1..m
        BY <3>1
      <4>2. n = 1 \/ got'[n - 1] = got[n - 1]
        BY <3>3, <4>1
      <4>3. PICK r : r = got'[n]
        OBVIOUS
      <4>4. RecordRead(n, r)
        <5>1. CASE n = m + 1
          BY <3>2, <3>3, <4>3, <5>1
        <5>2. CASE n # m + 1
          <6>1. n \in 1..m
            BY <3>1, <5>2
          <6> QED
            BY <3>1, <3>3, <4>3, <6>1 DEF Reads
        <5> QED
          BY <5>1, <5>2
      <4>5. RecordRead(n, r)'
        BY <2>1, <4>2, <4>4, SameRecord
      <4> QED
        BY <4>3, <4>5
    <3>5. Sip47' => exps' = all
      BY <2>1, <2>2, <3>2 DEF Reads
    <3> QED
      BY <2>1, <2>3, <3>2, <3>3, <3>4, <3>5 DEF Reads
  <2> QED
    BY <1>2, <2>4, <2>5, <2>6, Effects
<1> QED
  BY <1>1, <1>2

----------------------------------------------------------------------------
(* The unzipper's keys.                                                    *)
LEMMA KeysRead ==
  ASSUME RunOK, Zipped, Len(sent) > 0, ~Garbled, NEW K, Trail(K)
  PROVE  /\ readKeys \in Keys
         /\ Intact(1) => \A s \in KeyedSignatures \cap Range(run.bl) : readKeys[s] = K[0][s]
<1>1. PICK m \in Nat : m = Len(sent) /\ m >= 1
  BY DEF Zipped, IsList
<1>2. K[0] \in Keys /\ K[0] \in BlockKeys
  BY <1>1 DEF Trail
<1>3. PICK P : P = sent[1]
  OBVIOUS
<1>4. PrefixShape(P, K[0])
  BY <1>1, <1>3, Shapes DEF Zipped
<1>5. \A w, v : It(w, v).w = w /\ It(w, v).v = v
  BY DEF It
<1>6. DefaultKey \in 0..(KeySpan - 1)
  BY MdzAssumption
<1>7. CASE NoHeader
  <2>1. P[2].v = K[0]["fast64"]
    BY <1>4, <1>5, <1>7 DEF PrefixShape
  <2>2. Range(run.bl) = {"fast64"}
    BY <1>7 DEF RunOK, Range
  <2>3. readKeys = [s \in {"fast64"} |-> K[0]["fast64"]]
    BY <1>3, <1>7, <2>1 DEF readKeys
  <2> QED
    BY <1>2, <2>2, <2>3 DEF Keys
<1>8. CASE ~NoHeader
  <2>1. PICK nf \in Nat, n \in Nat :
          nf = Len(run.fl) /\ n = Len(run.bl) /\ DOMAIN run.bl = 1..n /\ \A i \in 1..n : run.bl[i] \in Names
    BY Sizes
  <2>2. PICK c \in 0..n : c = KeyCount /\ (cmd.rand => c = n) /\ (~cmd.rand => c = 0)
    BY <2>1, Sizes DEF KeyCount
  <2>3. PICK l \in Nat : l = Len(P) /\ l >= 9 + nf + c
    <3>1. Len(P) = 9 + nf + c + (IF Sip47 THEN 2 ELSE 0)
      BY <1>4, <1>8, <2>1, <2>2 DEF PrefixShape, HeaderLength
    <3> QED
      BY <3>1
  <2>4. PICK kept \in 0..l : kept = Kept(1)
    BY <1>1, <1>3, <2>3, Arrivals
  <2>5. /\ P[9 + nf].v = (IF cmd.rand THEN NameBytes(run.bl) ELSE 0)
        /\ \A i \in 1..c : P[9 + nf + i].v = K[0][run.bl[i]]
    <3>1. /\ P[9 + Len(run.fl)] = It(4, IF cmd.rand THEN NameBytes(run.bl) ELSE 0)
          /\ \A i \in 1..KeyCount : P[9 + Len(run.fl) + i] = It(WriteKey[run.bl[i]], K[0][run.bl[i]])
      BY <1>4, <1>8 DEF PrefixShape, HeaderShape
    <3>2. PICK bytes : bytes = IF cmd.rand THEN NameBytes(run.bl) ELSE 0
      OBVIOUS
    <3>3. P[9 + nf] = It(4, bytes)
      BY <2>1, <3>1, <3>2
    <3>4. P[9 + nf].v = bytes
      BY <1>5, <3>3
    <3>5. ASSUME NEW i \in 1..c PROVE P[9 + nf + i].v = K[0][run.bl[i]]
      <4>1. P[9 + nf + i] = It(WriteKey[run.bl[i]], K[0][run.bl[i]])
        BY <2>1, <2>2, <3>1
      <4> QED
        BY <1>5, <4>1
    <3> QED
      BY <3>2, <3>4, <3>5
  <2>6. Header.bl = run.bl /\ Header.keysize = IF 9 + nf <= kept THEN P[9 + nf].v ELSE 0
    BY <1>3, <1>4, <1>8, <2>1, <2>4, HeaderKnown DEF Field, OnDisk, KeySizeAt
  <2>7. NameBytes(run.bl) \in Nat /\ (n > 0 => NameBytes(run.bl) > 0)
    <3>1. NameList(NumberOf, run.bl) /\ IsList(run.bl)
      BY DEF RunOK, NameList
    <3> QED
      BY <2>1, <3>1, NamesTakeBytes, EmptyList
  <2>8. PICK keysize : keysize = Header.keysize
    OBVIOUS
  <2>9. /\ keysize \in Nat
        /\ keysize > 0 => cmd.rand
        /\ (kept = l /\ cmd.rand /\ n > 0) => keysize > 0
        /\ ~cmd.rand => keysize = 0
    BY <2>2, <2>3, <2>4, <2>5, <2>6, <2>7, <2>8
  <2> DEFINE Key(s) ==
        LET i == CHOOSE i \in DOMAIN Header.bl : Header.bl[i] = s
        IN  IF Header.keysize > 0 /\ ReadKey[s] > 0 THEN Field(KeyAt(i), DefaultKey) ELSE DefaultKey
  <2>10. readKeys = [s \in Range(Header.bl) |-> Key(s)]
    BY <1>8 DEF readKeys
  <2>11. ASSUME NEW s \in Range(run.bl)
         PROVE  /\ Key(s) \in 0..(KeySpan - 1)
                /\ Intact(1) /\ s \in KeyedSignatures => Key(s) = K[0][s]
    <3>1. PICK i : i = CHOOSE j \in DOMAIN run.bl : run.bl[j] = s
      OBVIOUS
    <3>2. i \in 1..n /\ run.bl[i] = s /\ s \in Names
      <4>1. \E j \in DOMAIN run.bl : run.bl[j] = s
        BY DEF Range
      <4> QED
        BY <2>1, <3>1, <4>1
    <3>3. Key(s) = IF keysize > 0 /\ ReadKey[s] > 0 THEN Field(KeyAt(i), DefaultKey) ELSE DefaultKey
      BY <2>6, <2>8, <3>1
    <3>4. Field(KeyAt(i), DefaultKey) = IF 9 + nf + i <= kept THEN P[9 + nf + i].v ELSE DefaultKey
      BY <1>3, <2>1, <2>4 DEF Field, OnDisk, KeyAt, KeySizeAt
    <3>5. K[0][s] \in 0..(KeySpan - 1)
      BY <1>2 DEF Keys
    <3>6. s \in KeyedSignatures => ReadKey[s] > 0
      BY <3>2, SwitchesAgree DEF Agree
    <3> HIDE DEF Key
    <3>7. CASE cmd.rand
      <4>1. c = n /\ P[9 + nf + i].v = K[0][s] /\ 9 + nf + i <= l
        BY <2>2, <2>3, <2>5, <3>2, <3>7
      <4>2. Field(KeyAt(i), DefaultKey) \in 0..(KeySpan - 1) /\ (kept = l => Field(KeyAt(i), DefaultKey) = K[0][s])
        BY <1>6, <3>4, <3>5, <4>1
      <4>3. Intact(1) <=> kept = l
        BY <1>3, <2>3, <2>4 DEF Intact
      <4>4. kept = l => keysize > 0
        BY <2>9, <3>2, <3>7
      <4> QED
        BY <1>6, <3>3, <3>6, <4>2, <4>3, <4>4
    <3>8. CASE ~cmd.rand
      <4>1. Key(s) = DefaultKey
        BY <2>9, <3>3, <3>8
      <4>2. K[0][s] = DefaultKey
        BY <1>2, <3>8 DEF BlockKeys, DefaultKeys
      <4> QED
        BY <1>6, <4>1, <4>2
    <3> QED
      BY <3>7, <3>8
  <2> HIDE DEF Key
  <2> QED
    BY <2>6, <2>10, <2>11 DEF Keys
<1> QED
  BY <1>7, <1>8

\* The unzipper's keys are those the records were written with.
Lockstep ==
  /\ \A s \in DOMAIN rkey : rkey[s] \in 0..(KeySpan - 1)
  /\ rpc \in {"list", "unzip"} =>
       /\ rkey \in Keys
       /\ Intact(1) => \A K : Trail(K) =>
            \A s \in KeyedSignatures \cap Range(run.bl) : rkey[s] = K[Len(got)][s]

LEMMA LockstepInit == Init => Lockstep
BY DEF Init, Lockstep

\* Moving keys: the unzipper's move as the zipper's did.
LEMMA KeysMoveAlike ==
  ASSUME RunOK, Zipped, Reading, rpc # "off", NEW k, NEW l, NEW b, NEW s \in Range(run.bl), k \in Keys, l \in Keys, k[s] = l[s]
  PROVE  KeysAt(k, b, IncKeyOf(Header.version))[s] = KeysAt(l, b, incKey)[s]
<1>1. s \in DOMAIN k /\ s \in DOMAIN l
  BY DEF Keys
<1>2. CASE NoHeader
  <2>1. s = "fast64"
    BY <1>2 DEF RunOK, Range
  <2>2. s \notin Incremented
    BY <2>1, MovingKeys
  <2> QED
    BY <1>1, <2>2 DEF KeysAt
<1>3. CASE ~NoHeader
  <2>1. Len(sent) > 0
    BY ContainerKnown
  <2>2. PICK K : Trail(K)
    BY DEF Zipped
  <2>3. PrefixShape(sent[1], K[0])
    BY <2>1, <2>2, Shapes DEF Zipped
  <2>4. Header.version = Version
    BY <1>3, <2>3, HeaderKnown
  <2>5. IncKeyOf(Version) = incKey
    BY DEF IncKeyOf, Version, incKey, INC, DEC, NOINC
  <2> QED
    BY <1>1, <2>4, <2>5 DEF KeysAt
<1> QED
  BY <1>2, <1>3

LEMMA LockstepStep == RunOK /\ Zipped /\ Reading /\ Reads /\ Lockstep /\ [Next]_vars => Lockstep'
<1> SUFFICES ASSUME RunOK, Zipped, Reading, Reads, Lockstep, [Next]_vars PROVE Lockstep'
  OBVIOUS
<1>1. CASE Zipping
  <2>1. rpc' = "off" /\ rkey' = rkey
    BY <1>1, ZippersFirst DEF unzipVars
  <2> QED
    BY <2>1 DEF Lockstep
<1>2. CASE ~Zipping
  <2>1. UNCHANGED zipVars /\ run' = run
    BY <1>2, Effects DEF zipVars
  <2>2. Keys' = Keys /\ Intact(1)' = Intact(1) /\ \A K : Trail(K)' = Trail(K)
    BY <2>1, SameContainer
  <2>3. CASE Still
    <3>1. rkey' = rkey /\ got' = got /\ (rpc' \in {"list", "unzip"} => rpc' = rpc)
      BY <2>3 DEF Still
    <3> QED
      BY <2>1, <2>2, <3>1 DEF Lockstep
  <2>4. CASE StartsOver
    <3>1. ~Garbled /\ rkey' = readKeys /\ got' = <<>> /\ Len(got') = 0 /\ rpc = "main"
      BY <2>4 DEF StartsOver
    <3>2. Len(sent) > 0
      BY <3>1, ContainerKnown
    <3>3. \A K : Trail(K) => /\ readKeys \in Keys
                             /\ Intact(1) => \A s \in KeyedSignatures \cap Range(run.bl) : readKeys[s] = K[0][s]
      BY <3>1, <3>2, KeysRead
    <3>4. PICK K : Trail(K)
      BY DEF Zipped
    <3>5. readKeys \in Keys
      BY <3>1, <3>2, <3>4, KeysRead
    <3>6. \A k \in Keys : \A s \in DOMAIN k : k[s] \in 0..(KeySpan - 1)
      BY DEF Keys
    <3>7. \A s \in DOMAIN rkey' : rkey'[s] \in 0..(KeySpan - 1)
      BY <3>1, <3>5, <3>6
    <3> QED
      BY <2>1, <2>2, <3>1, <3>3, <3>5, <3>7 DEF Lockstep
  <2>5. ASSUME NEW job \in {"list", "unzip"}, NEW rec, TurnTo(rec, job)
        PROVE  Lockstep'
    <3>1. PICK b \in 1..run.count : b = Len(got) + 1
      <4>1. Len(got) \in Nat /\ Len(got) + 1 <= run.count /\ run.count \in Nat
        BY <2>5, MdCommonAssumption DEF TurnTo, Reads, IsList, RunOK
      <4> QED
        BY <4>1
    <3>2. /\ rpc = job /\ rpc' = rpc /\ rkey' = KeysAt(rkey, b, IncKeyOf(Header.version))
          /\ got' = Append(got, rec)
      BY <2>5, <3>1 DEF TurnTo
    <3>3. rkey \in Keys /\ rpc # "off"
      BY <3>2 DEF Lockstep
    <3>4. rkey' \in Keys
      BY <3>2, <3>3, MovedKeys
    <3>5. Len(got') = b
      BY <3>1, <3>2, Appended DEF Reads
    <3>6. ASSUME Intact(1), NEW K, Trail(K), NEW s \in KeyedSignatures \cap Range(run.bl)
          PROVE  rkey'[s] = K[b][s]
      <4>0. wpc = "closed" /\ run.count \in Nat
        BY <3>3, MdCommonAssumption DEF Reading, RunOK
      <4>1. Len(sent) = run.count + 1
        BY <3>6, <4>0, Arrivals
      <4>2. b - 1 = Len(got) /\ b - 1 \in 0..(Len(sent) - 1) /\ b \in 1..(Len(sent) - 1)
        BY <3>1, <4>0, <4>1
      <4>3. K[b - 1] \in Keys /\ K[b] = KeysAt(K[b - 1], b, incKey)
        BY <3>6, <4>2 DEF Trail
      <4>4. rkey[s] = K[b - 1][s]
        BY <3>2, <3>6, <4>2 DEF Lockstep
      <4> QED
        <5>1. PICK k \in Keys, l \in Keys : k = rkey /\ l = K[b - 1]
          BY <3>3, <4>3
        <5>2. KeysAt(k, b, IncKeyOf(Header.version))[s] = KeysAt(l, b, incKey)[s]
          BY <3>3, <4>4, <5>1, KeysMoveAlike
        <5> QED
          BY <3>2, <4>3, <5>1, <5>2
    <3>7. \A s \in DOMAIN rkey' : rkey'[s] \in 0..(KeySpan - 1)
      BY <3>4 DEF Keys
    <3> QED
      BY <2>1, <2>2, <3>4, <3>5, <3>6, <3>7 DEF Lockstep
  <2> QED
    BY <1>2, <2>3, <2>4, <2>5, Effects
<1> QED
  BY <1>1, <1>2

----------------------------------------------------------------------------
(* The inductive invariant of the container.                               *)
CInv == RunOK /\ Zipped /\ Reading /\ Reads /\ Lockstep

LEMMA ContainerInit == Init => CInv
BY RunInit, ZippedInit, ReadingInit, LockstepInit DEF CInv

LEMMA ContainerStep == CInv /\ [Next]_vars => CInv'
BY RunStep, ZippedStep, ReadingStep, ReadsStep, LockstepStep DEF CInv

LEMMA ContainerInv == Spec => []CInv
BY ContainerInit, ContainerStep, PTL DEF Spec

\* No unzipper reads a field of the container with another width than the one it was
\* written with, wherever the container was cut off: the switches of the zippers' and
\* the unzippers' registries move the same bytes, and the sizes the header carries are
\* those the zipper used.
THEOREM NeverTorn == Spec => [](rpc # "torn")
<1>1. CInv => rpc # "torn"
  BY DEF CInv, Reading
<1> QED
  BY <1>1, ContainerInv, PTL

LEMMA RecordsRead ==
  ASSUME CInv, NEW n \in 1..Len(got)
  PROVE  n \in 1..run.count /\ rpc # "off" /\ RecordRead(n, got[n])
<1>1. Len(got) \in Nat /\ Len(got) <= run.count /\ run.count \in Nat /\ RecordRead(n, got[n])
  BY MdCommonAssumption DEF CInv, Reads, IsList, RunOK
<1>2. got # <<>>
  BY <1>1
<1> QED
  BY <1>1, <1>2 DEF CInv, Reading

\* The record of a block that is all there is read as it was written.
LEMMA RecordKnown ==
  ASSUME CInv, rpc # "off", NEW n \in 1..run.count, NEW rec, RecordRead(n, rec),
         Intact(1), Intact(n + 1), NEW K, Trail(K)
  PROVE  /\ wpc = "closed" /\ Len(sent) = run.count + 1
         /\ BlockShape(sent[n + 1], n, K[n])
         /\ \A i \in 1..Fields : rec.fields[i] = sent[n + 1][i].v
<1>1. run.count \in Nat /\ wpc = "closed"
  BY MdCommonAssumption DEF CInv, RunOK, Reading
<1>2. Len(sent) = run.count + 1
  BY <1>1, Arrivals DEF CInv
<1>3. n \in 1..(Len(sent) - 1)
  BY <1>1, <1>2
<1>4. BlockShape(sent[n + 1], n, K[n])
  BY <1>3, Shapes DEF CInv, Zipped
<1>5. Kept(n + 1) = Fields /\ Fields \in Nat
  BY <1>4, RecordFields DEF BlockShape, Intact, CInv
<1>6. \A i \in 1..Fields : rec.fields[i] = sent[n + 1][i].v
  BY <1>5 DEF RecordRead
<1> QED
  BY <1>1, <1>2, <1>4, <1>6

LEMMA RowsAreRecords ==
  \A s \in Names : DOMAIN HashBlock[s] = {"takes", "bytes"} /\ DOMAIN HashFile[s] = {"takes", "bytes"}
<1>1. \A n : DOMAIN Old!Keyed(n) = {"takes", "bytes"} /\ DOMAIN Old!Unkeyed(n) = {"takes", "bytes"}
  BY DEF Old!Keyed, Old!Unkeyed
<1>2. \A s \in DOMAIN Old!hclmap : DOMAIN Old!setByteBlockHashList[s] = {"takes", "bytes"}
  BY <1>1, OldNames DEF Old!setByteBlockHashList
<1>3. \A s \in DOMAIN Old!hclmap : DOMAIN Old!setFileHashList[s] = {"takes", "bytes"}
  BY <1>1, OldNames DEF Old!setFileHashList
<1>4. \A n : New!Old!Keyed(n) = Old!Keyed(n)
  BY DEF New!Old!Keyed, Old!Keyed
<1>5. ASSUME NEW s \in DOMAIN New!hclmap
      PROVE  /\ DOMAIN New!setByteBlockHashList[s] = {"takes", "bytes"}
             /\ DOMAIN New!setFileHashList[s] = {"takes", "bytes"}
  <2>1. s = "hw48" \/ (s \in DOMAIN Old!hclmap /\ s # "hw48")
    BY NewRegistry
  <2>2. \A outcome, switch : New!WithHw48(outcome, switch)[s] = IF s = "hw48" THEN outcome ELSE switch[s]
    BY DEF New!WithHw48
  <2> QED
    BY <1>1, <1>2, <1>3, <1>4, <2>1, <2>2, NewOldSwitches DEF New!setByteBlockHashList, New!setFileHashList
<1> QED
  BY <1>2, <1>3, <1>5 DEF Names, NumberOf, HashBlock, HashFile

LEMMA DigestKey ==
  ASSUME NEW s \in Names, NEW k, NEW data
  PROVE  LET r == StoredDigest(s, HashBlock[s], k, data)
         IN  /\ r.sig = s /\ r.data = data
             /\ r.key = IF s \in KeyedSignatures THEN k ELSE Old!NoKey
             /\ r.bytes \in Nat /\ CompareBlock[s].bytes \in Nat /\ CompareBlock[s].bytes <= r.bytes
             /\ CompareBlock[s].takes = Takes(s)
<1>1. PICK row : row = [HashBlock[s] EXCEPT !.bytes = Least({@, WriteDigest[s]})]
  OBVIOUS
<1>2. /\ HashBlock[s].takes = Takes(s) /\ CompareBlock[s].takes = Takes(s)
      /\ HashBlock[s].bytes \in Nat /\ WriteDigest[s] \in Nat /\ CompareBlock[s].bytes \in Nat
      /\ CompareBlock[s].bytes <= HashBlock[s].bytes /\ CompareBlock[s].bytes <= WriteDigest[s]
  BY SwitchesAgree DEF Agree
<1>3. DOMAIN HashBlock[s] = {"takes", "bytes"}
  BY RowsAreRecords
<1>4. row.takes = Takes(s) /\ row.bytes = Least({HashBlock[s].bytes, WriteDigest[s]})
  BY <1>1, <1>2, <1>3
<1>5. row.bytes \in Nat /\ CompareBlock[s].bytes <= row.bytes
  <2>1. ASSUME NEW x \in Nat, NEW y \in Nat PROVE Least({x, y}) \in {x, y}
    <3>1. \E z \in {x, y} : \A u \in {x, y} : z <= u
      BY <2>1
    <3> QED
      BY <3>1 DEF Least
  <2> QED
    BY <1>2, <1>4, <2>1
<1>6. Takes(s) = "key" <=> s \in KeyedSignatures
  BY DEF Takes
<1>7. StoredDigest(s, HashBlock[s], k, data) = Old!Register(s, row, k, data)
  BY <1>1 DEF StoredDigest
<1> QED
  BY <1>2, <1>4, <1>5, <1>6, <1>7 DEF Old!Register

\* A block's digest is checked under the key it was computed with: whichever keys the
\* prefix carries, and however --inc and --dec move them from block to block past
\* either end of their range, the unzipper's count of blocks and the zipper's agree.
THEOREM KeysKeepStep == Spec => []KeyLockstep
<1>1. ASSUME CInv PROVE KeyLockstep
  <2> SUFFICES ASSUME rpc \in {"list", "unzip"}, got # <<>>, Intact(1), Intact(Len(got) + 1), NEW i \in DOMAIN run.bl
               PROVE  got[Len(got)].fields[i].key \in {Old!NoKey, rkey[run.bl[i]]}
    BY DEF KeyLockstep
  <2>1. PICK n \in Nat : n = Len(got) /\ n \in 1..n
    <3>1. Len(got) \in Nat /\ Len(got) > 0
      BY <1>1, EmptyList DEF CInv, Reads, IsList
    <3> QED
      BY <3>1
  <2>2. PICK K : Trail(K)
    BY <1>1 DEF CInv, Zipped
  <2>3. /\ BlockShape(sent[n + 1], n, K[n])
        /\ \A j \in 1..Fields : got[n].fields[j] = sent[n + 1][j].v
    <3>1. n \in 1..run.count /\ RecordRead(n, got[n]) /\ Intact(n + 1)
      BY <1>1, <2>1, RecordsRead
    <3> QED
      BY <1>1, <2>2, <3>1, RecordKnown
  <2>4. PICK s \in Names : s = run.bl[i] /\ i \in 1..Len(run.bl) /\ s \in Range(run.bl)
    BY <1>1, Sizes DEF CInv, Range
  <2>5. i \in 1..Fields
    BY <1>1, <2>4, RecordFields DEF CInv
  <2>6. got[n].fields[i] = StoredDigest(s, HashBlock[s], K[n][s], Contents(n))
    <3>1. sent[n + 1][i].v = StoredDigest(s, HashBlock[s], K[n][s], Contents(n))
      BY <1>1, <2>3, <2>4, RecordHolds DEF CInv
    <3> QED
      BY <2>3, <2>5, <3>1
  <2>7. s \in KeyedSignatures => rkey[s] = K[n][s]
    BY <1>1, <2>1, <2>2, <2>4 DEF CInv, Lockstep
  <2>8. got[n].fields[i].key = IF s \in KeyedSignatures THEN K[n][s] ELSE Old!NoKey
    BY <2>6, DigestKey
  <2> QED
    BY <2>1, <2>4, <2>7, <2>8
<1> QED
  BY <1>1, ContainerInv, PTL

LEMMA ExponentKnown ==
  ASSUME CInv, rpc # "off", NEW b \in 1..run.count, NEW rec, RecordRead(b, rec),
         Intact(1), Intact(b + 1), Carried(b)
  PROVE  rec.exp = cmd.data[b].exp
<1>1. PICK K : Trail(K)
  BY DEF CInv, Zipped
<1>2. /\ Len(sent) = run.count + 1
      /\ BlockShape(sent[b + 1], b, K[b])
      /\ \A i \in 1..Fields : rec.fields[i] = sent[b + 1][i].v
  BY <1>1, RecordKnown
<1>3. RecordRead(b, rec)
  OBVIOUS
<1>4. cmd.data[b].exp \in Nat
  BY <1>2 DEF CInv, RunOK
<1>5. CASE ~Sip47
  <2>1. rec.exp = rec.fields[Len(run.bl) + 1]
    BY <1>3, <1>5 DEF RecordRead
  <2>2. Len(run.bl) + 1 \in 1..Fields
    BY <1>5, RecordFields DEF CInv
  <2>3. sent[b + 1][Len(run.bl) + 1].v = IF run.blocksize > 32 THEN cmd.data[b].exp ELSE cmd.data[b].exp % 256
    BY <1>2, <1>5, RecordHolds DEF CInv
  <2>4. run.blocksize > 32 \/ cmd.data[b].exp < 256
    BY <1>5 DEF Carried
  <2>5. \A e \in Nat : e < 256 => e % 256 = e
    BY Z3
  <2>6. PICK e \in Nat : e = cmd.data[b].exp
    BY <1>4
  <2>7. sent[b + 1][Len(run.bl) + 1].v = e
    BY <2>3, <2>4, <2>5, <2>6
  <2>8. rec.fields[Len(run.bl) + 1] = sent[b + 1][Len(run.bl) + 1].v
    BY <1>2, <2>2
  <2> QED
    BY <2>1, <2>6, <2>7, <2>8
<1>6. CASE Sip47
  <2>1. rec.exp = Packed(b)
    BY <1>3, <1>6 DEF RecordRead
  <2>2. PICK m \in Nat \ {0} : m = Len(sent)
    BY <1>2, MdCommonAssumption DEF CInv, RunOK
  <2>3. PrefixShape(sent[1], K[0]) /\ IsList(sent[1]) /\ Len(sent[1]) >= 2 /\ Len(sent[1]) \in Nat
    <3>1. PrefixShape(sent[1], K[0]) /\ IsList(sent[1])
      BY <1>1, <2>2, Shapes DEF CInv, Zipped, PrefixShape
    <3>2. ~NoHeader /\ HeaderLength \in Nat
      BY <1>6, Sizes DEF CInv
    <3> QED
      BY <1>6, <3>1, <3>2 DEF PrefixShape, IsList
  <2>4. OnDisk(1, StreamAt) /\ OnDisk(1, FormatAt)
    BY <2>3 DEF OnDisk, StreamAt, FormatAt, Intact
  <2>5. sent[1][StreamAt].v = Stream(Exponents) /\ format = Format
    <3>1. \A w, v : It(w, v).w = w /\ It(w, v).v = v
      BY DEF It
    <3> QED
      BY <1>6, <2>3, <2>4, <3>1 DEF PrefixShape, format, Field, StreamAt, FormatAt
  <2>6. Format < 7
    <3>1. ~(run.blocksize > 32)
      <4>1. run.blocksize \in Nat /\ run.blocksize <= 10
        BY <1>6 DEF CInv, RunOK
      <4> QED
        BY <4>1
    <3> QED
      BY <1>6, <3>1 DEF Carried
  <2>7. Exponents \in Exps /\ Len(Exponents) = run.count /\ run.count > 0 /\ Exponents[b] = cmd.data[b].exp
    <3>1. run.count \in Nat \ {0} /\ \A c \in 1..run.count : cmd.data[c].exp \in 0..127
      BY <1>6, MdCommonAssumption DEF CInv, RunOK
    <3>2. PICK c \in Nat \ {0} : c = run.count
      BY <3>1
    <3>3. Exponents = [d \in 1..c |-> cmd.data[d].exp] /\ \A d \in 1..c : cmd.data[d].exp \in 0..127
      BY <3>1, <3>2 DEF Exponents, Blocks
    <3>4. Exponents \in [1..c -> 0..127] /\ Exponents[b] = cmd.data[b].exp
      BY <1>2, <3>2, <3>3
    <3>5. Exponents \in Seq(0..127)
      <4>1. PICK S : S = 0..127
        OBVIOUS
      <4>2. c \in Nat /\ Exponents \in [1..c -> S]
        BY <3>2, <3>4, <4>1
      <4>3. [1..c -> S] \in {[1..n -> S] : n \in Nat}
        BY <4>2
      <4>4. Exponents \in UNION {[1..n -> S] : n \in Nat}
        BY <4>2, <4>3, Zenon
      <4>5. Exponents \in Seq(S)
        BY <4>4, SeqDef, Zenon
      <4> QED
        BY <4>1, <4>5
    <3>6. Len(Exponents) = c
      BY <3>4, <3>5
    <3> QED
      BY <3>2, <3>4, <3>5, <3>6 DEF Exps
  <2>8. ReadExponent(Stream(Exponents), Format, run.count, b) = cmd.data[b].exp
    <3>1. b \in 1..Len(Exponents) /\ calcMinMaxExponent(Exponents) < 7
      BY <1>2, <2>6, <2>7 DEF Format
    <3>2. ReadExponent(Stream(Exponents), calcMinMaxExponent(Exponents), Len(Exponents), b) = Exponents[b]
      BY <2>7, <3>1, RoundTrip
    <3> QED
      BY <2>7, <3>2 DEF Format
  <2> QED
    BY <2>1, <2>4, <2>5, <2>8 DEF Packed
<1> QED
  BY <1>5, <1>6

\* A block whose record and whose prefix are all there is scanned with its own exponent,
\* for every number of blocks: the byte of it in the record, or what RoundTrip gets back
\* from the stream in front of all blocks.
THEOREM ExponentsSurvive == Spec => []ExponentSurvives
<1>1. ASSUME CInv PROVE ExponentSurvives
  <2>1. DOMAIN got = 1..Len(got)
    BY <1>1, ListIsSeq DEF CInv, Reads
  <2> QED
    BY <1>1, <2>1, RecordsRead, ExponentKnown DEF ExponentSurvives
<1> QED
  BY <1>1, ContainerInv, PTL

----------------------------------------------------------------------------
(* What comes of scanning the blocks.                                      *)
\* The records up to the k-th are all there and none after it.
HoldsUpTo(k) == k \in 0..run.count /\ \A b \in 1..run.count : Intact(b + 1) <=> b <= k

LEMMA SomePrefix ==
  ASSUME CInv, wpc = "closed", Intact(1)
  PROVE  \E k : HoldsUpTo(k)
<1>1. PICK c \in Nat : c = run.count /\ Len(sent) = c + 1
  <2>1. run.count \in Nat
    BY MdCommonAssumption DEF CInv, RunOK
  <2> QED
    BY <2>1, Arrivals DEF CInv
<1>2. \A i, j \in 1..(c + 1) : i < j /\ Intact(j) => Intact(i)
  BY <1>1, Arrivals DEF CInv
<1> DEFINE S == {b \in 1..(c + 1) : b = c + 1 \/ ~Intact(b + 1)}
<1>3. S \subseteq Nat /\ c + 1 \in S
  BY <1>1
<1>4. PICK l \in S : \A x \in S : l <= x
  BY <1>3, LeastIsLeast
<1>5. PICK k \in 0..c : k = l - 1
  BY <1>1, <1>4
<1>6. ASSUME NEW b \in 1..c PROVE Intact(b + 1) <=> b <= k
  <2>1. CASE b <= k
    BY <1>1, <1>4, <1>5, <2>1
  <2>2. CASE ~(b <= k)
    <3>1. l \in 1..c /\ l <= b /\ ~Intact(l + 1)
      BY <1>1, <1>4, <1>5, <2>2
    <3>2. l + 1 \in 1..(c + 1) /\ b + 1 \in 1..(c + 1) /\ (l = b \/ l + 1 < b + 1)
      BY <1>1, <3>1
    <3> QED
      BY <1>2, <2>2, <3>1, <3>2
  <2> QED
    BY <2>1, <2>2
<1> QED
  BY <1>1, <1>5, <1>6 DEF HoldsUpTo

\* What a field of the record holds after the n-th turn when k records are all there: its
\* own value while records last, then what arrived of the next one, or else of the last.
FieldIs(k, n, i) ==
  IF n <= k THEN sent[n + 1][i].v
  ELSE IF i <= Kept(k + 2) THEN sent[k + 2][i].v
  ELSE IF k = 0 THEN Initial(i) ELSE sent[k + 1][i].v

LEMMA FieldRead ==
  ASSUME CInv, rpc # "off", Intact(1), NEW k, HoldsUpTo(k), NEW n \in 1..run.count, NEW i \in 1..Fields,
         NEW rec, RecordRead(n, rec), n = 1 \/ got[n - 1].fields[i] = FieldIs(k, n - 1, i)
  PROVE  rec.fields[i] = FieldIs(k, n, i)
<1>1. PICK K : Trail(K)
  BY DEF CInv, Zipped
<1>2. /\ run.count \in Nat /\ k \in 0..run.count /\ (Intact(n + 1) <=> n <= k)
      /\ \A b \in 1..run.count : Intact(b + 1) <=> b <= k
  BY MdCommonAssumption DEF CInv, RunOK, HoldsUpTo
<1>3. rec.fields[i] = IF i <= Kept(n + 1) THEN sent[n + 1][i].v
                      ELSE IF n = 1 THEN Initial(i) ELSE got[n - 1].fields[i]
  BY DEF RecordRead
<1>4. CASE n <= k
  <2>1. rec.fields[i] = sent[n + 1][i].v
    BY <1>1, <1>2, <1>4, RecordKnown
  <2> QED
    BY <1>4, <2>1 DEF FieldIs
<1>5. CASE n = k + 1
  <2>1. n + 1 = k + 2 /\ ~(n <= k) /\ n - 1 = k /\ (n = 1 <=> k = 0)
    BY <1>2, <1>5
  <2>2. n # 1 => FieldIs(k, n - 1, i) = sent[k + 1][i].v
    BY <1>2, <2>1 DEF FieldIs
  <2> QED
    BY <1>3, <2>1, <2>2 DEF FieldIs
<1>6. CASE n > k + 1
  <2>1. Kept(n + 1) = 0
    <3>1. Len(sent) = run.count + 1
      BY Arrivals DEF CInv, Reading
    <3>2. k + 2 \in 1..Len(sent) /\ n + 1 \in 1..Len(sent) /\ k + 2 < n + 1
      BY <1>2, <1>6, <3>1
    <3>3. ~Intact(k + 2)
      <4>1. PICK b \in 1..run.count : b = k + 1
        BY <1>2, <1>6
      <4>2. ~Intact(b + 1) /\ b + 1 = k + 2
        BY <1>2, <4>1
      <4> QED
        BY <4>2
    <3> QED
      BY <3>2, <3>3, Arrivals DEF CInv
  <2>2. ~(i <= Kept(n + 1)) /\ n # 1 /\ ~(n <= k) /\ ~(n - 1 <= k)
    <3>1. i \in Nat \ {0}
      BY RecordFields DEF CInv
    <3> QED
      BY <1>2, <1>6, <2>1, <3>1
  <2> QED
    BY <1>3, <2>2 DEF FieldIs
<1>7. n <= k \/ n = k + 1 \/ n > k + 1
  BY <1>2
<1> QED
  BY <1>4, <1>5, <1>6, <1>7

LEMMA FieldsRead ==
  ASSUME CInv, Intact(1), NEW k, HoldsUpTo(k), NEW i \in 1..Fields
  PROVE  \A n \in 1..Len(got) : got[n].fields[i] = FieldIs(k, n, i)
<1> SUFFICES ASSUME NEW x \in 1..Len(got), got[x].fields[i] # FieldIs(k, x, i)
             PROVE  FALSE
  OBVIOUS
<1> DEFINE S == {n \in 1..Len(got) : got[n].fields[i] # FieldIs(k, n, i)}
<1>1. S \subseteq Nat /\ S # {}
  OBVIOUS
<1>2. PICK l \in S : \A n \in S : l <= n
  BY <1>1, LeastIsLeast
<1>3. Len(got) \in Nat /\ l \in 1..Len(got)
  BY DEF CInv, Reads, IsList
<1>4. l = 1 \/ got[l - 1].fields[i] = FieldIs(k, l - 1, i)
  <2>1. l = 1 \/ (l - 1 \in 1..Len(got) /\ ~(l <= l - 1))
    BY <1>3
  <2> QED
    BY <1>2, <2>1
<1>5. got[l].fields[i] = FieldIs(k, l, i)
  BY <1>3, <1>4, RecordsRead, FieldRead
<1> QED
  BY <1>2, <1>5

\* A candidate the scan returns: it has the remainder and the data of every digest.
LEMMA ScanFinds ==
  ASSUME CInv, rpc # "off", NEW b \in 1..run.count, NEW rec, Len(rec.fields) = Fields, NEW keys,
         NEW block \in Scan(b, rec, keys)
  PROVE  \/ block = <<>>
         \/ run.bl = <<>> /\ block = <<Wrong>>
         \/ \E x \in 1..run.count :
              /\ block = Contents(x) /\ rec.fields[Fields] \in {cmd.data[x].rem, Unset}
              /\ ~Passed(b, x, rec.exp)
              /\ \A i \in 1..Len(run.bl) : rec.fields[i].data = Contents(x)
<1>1. Header.bl = run.bl /\ DOMAIN run.bl = 1..Len(run.bl)
  BY ContainerKnown, Sizes DEF CInv
<1> DEFINE Answers(i, x) ==
             LET s == Header.bl[i]
             IN  Old!Compare(rec.fields[i], CompareBlock[s], keys[s], Contents(x))
           Found(x) ==
             /\ SizeOf(x) = SizeOf(b) /\ rec.fields[Len(rec.fields)] \in {cmd.data[x].rem, Unset}
             /\ ~Passed(b, x, rec.exp)
             /\ \A i \in DOMAIN Header.bl : TRUE \in Answers(i, x)
<1>2. \/ \E x \in Blocks : Found(x) /\ block = Contents(x)
      \/ Header.bl = <<>> /\ block = <<Wrong>>
      \/ block = <<>>
  BY DEF Scan
<1>3. ASSUME NEW i, NEW x, TRUE \in Answers(i, x) PROVE rec.fields[i].data = Contents(x)
  BY <1>3 DEF Old!Compare
<1> HIDE DEF Answers
<1>4. \A x \in Blocks : Found(x) => /\ rec.fields[Fields] \in {cmd.data[x].rem, Unset} /\ ~Passed(b, x, rec.exp)
                                    /\ \A i \in 1..Len(run.bl) : rec.fields[i].data = Contents(x)
  BY <1>1, <1>3
<1> HIDE DEF Found
<1> QED
  BY <1>1, <1>2, <1>4 DEF Blocks

\* The record of a block that is all there: its own digests and its own remainder.
LEMMA DigestData ==
  ASSUME CInv, NEW b \in 1..run.count, b + 1 \in 1..Len(sent), NEW i \in 1..Len(run.bl)
  PROVE  sent[b + 1][i].v.data = Contents(b)
<1>1. PICK K : Trail(K)
  BY DEF CInv, Zipped
<1>2. BlockShape(sent[b + 1], b, K[b])
  <2>1. b \in 1..(Len(sent) - 1)
    <3>1. Len(sent) \in Nat /\ run.count \in Nat
      BY Arrivals, MdCommonAssumption DEF CInv, RunOK
    <3> QED
      BY <3>1
  <2> QED
    BY <1>1, <2>1, Shapes DEF CInv, Zipped
<1>3. PICK s \in Names : s = run.bl[i]
  BY Sizes DEF CInv
<1>4. sent[b + 1][i].v = StoredDigest(s, HashBlock[s], K[b][s], Contents(b))
  BY <1>2, <1>3, RecordHolds DEF CInv
<1> QED
  BY <1>4, DigestKey

LEMMA SameBlock ==
  ASSUME CInv, NEW x \in 1..run.count, NEW b \in 1..run.count, Contents(x) = Contents(b)
  PROVE  cmd.data[x] = cmd.data[b]
<1>1. \A y, z : <<y>> = <<z>> => y = z
  OBVIOUS
<1>2. cmd.data[x].id = cmd.data[b].id
  BY <1>1 DEF Contents
<1> QED
  BY <1>2 DEF CInv, RunOK

LEMMA ScanWhole ==
  ASSUME CInv, rpc # "off", run.bl # <<>>, NEW b \in 1..run.count, NEW rec, RecordRead(b, rec),
         Intact(1), Intact(b + 1), Carried(b), NEW K, Trail(K), NEW keys,
         \A s \in KeyedSignatures \cap Range(run.bl) : keys[s] = K[b][s]
  PROVE  \A block \in Scan(b, rec, keys) : block = IF Lost(b) THEN <<>> ELSE Contents(b)
<1>1. /\ Header.bl = run.bl /\ Header.modsize = run.modsize
      /\ DOMAIN run.bl = 1..Len(run.bl) /\ Len(run.bl) \in Nat /\ Len(run.bl) < Fields
  BY ContainerKnown, Sizes, RecordFields DEF CInv
<1>2. /\ BlockShape(sent[b + 1], b, K[b]) /\ b + 1 \in 1..Len(sent)
      /\ \A i \in 1..Fields : rec.fields[i] = sent[b + 1][i].v
      /\ Len(rec.fields) = Fields
  <2>1. run.count \in Nat
    BY MdCommonAssumption DEF CInv, RunOK
  <2>2. Len(sent) = run.count + 1
    BY RecordKnown
  <2>3. b + 1 \in 1..Len(sent)
    BY <2>1, <2>2
  <2> QED
    BY <2>3, RecordKnown DEF RecordRead
<1>3. rec.fields[Fields] = cmd.data[b].rem
  <2>1. Fields \in 1..Fields
    BY RecordFields DEF CInv
  <2>2. sent[b + 1][Fields].v = cmd.data[b].rem
    BY <1>2, RecordHolds DEF CInv
  <2> QED
    BY <1>2, <2>1, <2>2
<1>4. rec.exp = cmd.data[b].exp
  BY ExponentKnown
<1>5. ASSUME NEW i \in 1..Len(run.bl)
      PROVE  Old!Compare(rec.fields[i], CompareBlock[run.bl[i]], keys[run.bl[i]], Contents(b)) = {TRUE}
  <2>1. PICK s \in Names : s = run.bl[i] /\ s \in Range(run.bl)
    BY <1>1, Sizes DEF CInv, Range
  <2>2. rec.fields[i] = StoredDigest(s, HashBlock[s], K[b][s], Contents(b))
    <3>1. sent[b + 1][i].v = StoredDigest(s, HashBlock[s], K[b][s], Contents(b))
      BY <1>2, <2>1, RecordHolds DEF CInv
    <3>2. i \in 1..Fields
      BY <1>1, RecordFields DEF CInv
    <3> QED
      BY <1>2, <3>1, <3>2
  <2>3. PICK r : r = rec.fields[i]
    OBVIOUS
  <2>4. /\ r.data = Contents(b)
        /\ r.key = IF s \in KeyedSignatures THEN K[b][s] ELSE Old!NoKey
        /\ CompareBlock[s].bytes <= r.bytes /\ CompareBlock[s].takes = Takes(s)
    BY <2>2, <2>3, DigestKey
  <2>5. s \in KeyedSignatures => keys[s] = K[b][s]
    BY <2>1
  <2>6. CompareBlock[s].takes = "key" <=> s \in KeyedSignatures
    BY <2>4 DEF Takes
  <2>7. r.key = IF CompareBlock[s].takes = "key" THEN keys[s] ELSE Old!NoKey
    BY <2>4, <2>5, <2>6
  <2>8. Old!Compare(r, CompareBlock[s], keys[s], Contents(b)) = {TRUE}
    BY <2>4, <2>7 DEF Old!Compare
  <2> QED
    BY <2>1, <2>3, <2>8
<1>6. Passed(b, b, rec.exp) <=> Lost(b)
  <2>1. cmd.data[b].zeros => rec.exp # 0
    BY <1>4 DEF CInv, RunOK
  <2> QED
    BY <1>1, <2>1 DEF Passed, Lost
<1>7. ASSUME NEW x \in 1..run.count, \A i \in 1..Len(run.bl) : rec.fields[i].data = Contents(x)
      PROVE  cmd.data[x] = cmd.data[b]
  <2>1. PICK i \in 1..Len(run.bl) : i = 1
    BY EmptyList DEF CInv, RunOK, NameList
  <2>2. i \in 1..Fields
    BY <1>1, RecordFields DEF CInv
  <2>3. rec.fields[i].data = Contents(b)
    BY <1>2, <2>2, DigestData
  <2> QED
    BY <1>7, <2>1, <2>3, SameBlock
<1> DEFINE Answers(i, x) ==
             LET s == Header.bl[i]
             IN  Old!Compare(rec.fields[i], CompareBlock[s], keys[s], Contents(x))
           MayMatch(x) ==
             /\ SizeOf(x) = SizeOf(b) /\ rec.fields[Len(rec.fields)] \in {cmd.data[x].rem, Unset}
             /\ ~Passed(b, x, rec.exp)
             /\ \A i \in DOMAIN Header.bl : TRUE \in Answers(i, x)
           MustMatch(x) ==
             /\ MayMatch(x) /\ rec.fields[Len(rec.fields)] # Unset /\ cmd.data[x].exp = rec.exp
             /\ \A i \in DOMAIN Header.bl : FALSE \notin Answers(i, x)
<1>8. Scan(b, rec, keys) = {Contents(x) : x \in {x \in Blocks : MayMatch(x)}}
                             \cup (IF Header.bl = <<>> THEN {<<Wrong>>}
                                   ELSE IF \E x \in Blocks : MustMatch(x) THEN {} ELSE {<<>>})
  BY DEF Scan
<1>9. ~Lost(b) => MustMatch(b)
  <2>1. \A i \in 1..Len(run.bl) : Answers(i, b) = {TRUE}
    BY <1>1, <1>5
  <2>2. cmd.data[b].rem # Unset
    BY DEF CInv, RunOK, Unset
  <2> HIDE DEF Answers
  <2> QED
    BY <1>1, <1>2, <1>3, <1>4, <1>6, <2>1, <2>2
<1> HIDE DEF MayMatch, MustMatch
<1>10. ASSUME NEW block \in Scan(b, rec, keys) PROVE block = IF Lost(b) THEN <<>> ELSE Contents(b)
  <2>1. CASE block = <<>>
    <3>1. \A x : Contents(x) # <<>>
      BY DEF Contents
    <3>2. ~\E x \in Blocks : MustMatch(x)
      BY <1>1, <1>8, <1>10, <2>1, <3>1
    <3> QED
      BY <1>9, <2>1, <3>2 DEF Blocks
  <2>2. CASE block # <<>>
    <3>1. PICK x \in 1..run.count : /\ block = Contents(x) /\ ~Passed(b, x, rec.exp)
                                    /\ \A i \in 1..Len(run.bl) : rec.fields[i].data = Contents(x)
      <4>1. Len(rec.fields) = Fields
        BY <1>2
      <4>2. \/ block = <<>>
            \/ run.bl = <<>> /\ block = <<Wrong>>
            \/ \E x \in 1..run.count :
                 /\ block = Contents(x) /\ rec.fields[Fields] \in {cmd.data[x].rem, Unset}
                 /\ ~Passed(b, x, rec.exp)
                 /\ \A i \in 1..Len(run.bl) : rec.fields[i].data = Contents(x)
        BY <1>10, <4>1, ScanFinds, SMTT(30)
      <4> QED
        BY <2>2, <4>2, Zenon
    <3>2. cmd.data[x] = cmd.data[b]
      BY <1>7, <3>1
    <3>3. block = Contents(b) /\ ~Passed(b, b, rec.exp)
      BY <3>1, <3>2 DEF Contents, Passed
    <3> QED
      BY <1>6, <3>3
  <2> QED
    BY <2>1, <2>2
<1> QED
  BY <1>10

----------------------------------------------------------------------------
(* What the unzipper has written.                                          *)
\* Past a cut: the last block that is all there, or the next one.
NextMatches(k) ==
  /\ k < run.count /\ OnDisk(k + 2, Len(run.bl))
  /\ k = 0 \/ cmd.data[k + 1].rem = cmd.data[k].rem
Again(k, id) == (k > 0 /\ id = cmd.data[k].id) \/ (NextMatches(k) /\ id = cmd.data[k + 1].id)

LEMMA ScanPastCut ==
  ASSUME CInv, rpc # "off", Intact(1), run.bl # <<>>, NEW k, HoldsUpTo(k),
         NEW n \in 1..run.count, k < n, NEW rec, Len(rec.fields) = Fields,
         \A i \in 1..Fields : rec.fields[i] = FieldIs(k, n, i), NEW keys, NEW block \in Scan(n, rec, keys)
  PROVE  block = <<>> \/ \E id : Again(k, id) /\ block = <<id>>
<1>1. PICK L \in Nat : L = Len(run.bl) /\ L \in 1..L /\ L < Fields /\ L \in 1..Fields /\ Fields \in 1..Fields
  <2>1. Len(run.bl) # 0
    BY EmptyList DEF CInv, RunOK, NameList
  <2> QED
    BY <2>1, RecordFields DEF CInv
<1>2. /\ k \in Nat /\ k < run.count /\ run.count \in Nat /\ ~(n <= k) /\ Len(sent) = run.count + 1
      /\ k + 2 = (k + 1) + 1 /\ ~Intact(k + 2)
  <2>1. Len(sent) = run.count + 1 /\ run.count \in Nat /\ k \in 0..run.count
    BY Arrivals, MdCommonAssumption DEF CInv, RunOK, Reading, HoldsUpTo
  <2>2. PICK b \in 1..run.count : b = k + 1
    BY <2>1
  <2>3. ~Intact(b + 1) /\ b + 1 = k + 2
    BY <2>1, <2>2 DEF HoldsUpTo
  <2> QED
    BY <2>1, <2>3
<1>3. k + 1 \in 1..run.count /\ (k + 1) + 1 \in 1..Len(sent) /\ (k > 0 => k \in 1..run.count /\ k + 1 \in 1..Len(sent))
  BY <1>2
<1>4. PICK K : Trail(K)
  BY DEF CInv, Zipped
<1>5. /\ PrefixShape(sent[1], K[0]) /\ BlockShape(sent[k + 2], k + 1, K[k + 1])
      /\ k > 0 => BlockShape(sent[k + 1], k, K[k])
  <2>1. /\ Len(sent) > 0 /\ k + 1 \in 1..(Len(sent) - 1)
        /\ k > 0 => k \in 1..(Len(sent) - 1)
    BY <1>2
  <2> QED
    BY <1>2, <1>4, <2>1, Shapes DEF CInv, Zipped
<1>6. ~(Fields <= Kept(k + 2))
  <2>1. Kept(k + 2) \in 0..Fields /\ Kept(k + 2) # Fields
    BY <1>2, <1>3, <1>5, Arrivals DEF CInv, Intact, BlockShape
  <2> QED
    BY <1>1, <2>1
<1>7. Initial(Fields) = Unset /\ Initial(L).data = Junk
  <2>1. Len(BlockWidths) = Fields /\ Header.bl = run.bl
    BY <1>5, WidthsKnown, HeaderKnown DEF CInv
  <2> QED
    BY <1>1, <2>1 DEF Initial
<1>8. rec.fields[Fields] = IF k = 0 THEN Unset ELSE cmd.data[k].rem
  <2>1. rec.fields[Fields] = IF k = 0 THEN Unset ELSE sent[k + 1][Fields].v
    BY <1>1, <1>2, <1>6, <1>7 DEF FieldIs
  <2>2. k > 0 => sent[k + 1][Fields].v = cmd.data[k].rem
    BY <1>5, RecordHolds DEF CInv
  <2> QED
    BY <1>2, <2>1, <2>2
<1>9. ASSUME block # <<>>
      PROVE  \E id : Again(k, id) /\ block = <<id>>
  <2>1. PICK x \in 1..run.count : /\ block = Contents(x) /\ rec.fields[Fields] \in {cmd.data[x].rem, Unset}
                                  /\ rec.fields[L].data = Contents(x)
    BY <1>1, <1>9, ScanFinds
  <2>2. CASE L <= Kept(k + 2)
    <3>1. rec.fields[L].data = Contents(k + 1)
      <4>1. rec.fields[L] = sent[k + 2][L].v
        BY <1>1, <1>2, <2>2 DEF FieldIs
      <4>2. sent[(k + 1) + 1][L].v.data = Contents(k + 1)
        BY <1>1, <1>3, DigestData
      <4> QED
        BY <1>2, <4>1, <4>2
    <3>2. cmd.data[x] = cmd.data[k + 1]
      BY <1>3, <2>1, <3>1, SameBlock
    <3>3. k = 0 \/ cmd.data[k + 1].rem = cmd.data[k].rem
      <4>1. k > 0 => cmd.data[k].rem # Unset
        BY <1>3 DEF CInv, RunOK, Unset
      <4> QED
        BY <1>2, <1>8, <2>1, <3>2, <4>1
    <3>4. NextMatches(k)
      BY <1>1, <1>2, <2>2, <3>3 DEF NextMatches, OnDisk
    <3> QED
      BY <2>1, <3>2, <3>4 DEF Again, Contents
  <2>3. CASE ~(L <= Kept(k + 2))
    <3>1. rec.fields[L] = IF k = 0 THEN Initial(L) ELSE sent[k + 1][L].v
      BY <1>1, <1>2, <2>3 DEF FieldIs
    <3>2. k > 0
      <4>1. Contents(x) # Junk
        <5>1. \A y, z : <<y>> = <<z>> => y = z
          OBVIOUS
        <5> QED
          BY <5>1 DEF Contents, Junk, CInv, RunOK
      <4> QED
        BY <1>2, <1>7, <2>1, <3>1, <4>1
    <3>3. rec.fields[L].data = Contents(k)
      BY <1>1, <1>3, <3>1, <3>2, DigestData
    <3>4. cmd.data[x] = cmd.data[k]
      BY <1>3, <2>1, <3>2, <3>3, SameBlock
    <3> QED
      BY <2>1, <3>2, <3>4 DEF Again, Contents
  <2> QED
    BY <2>2, <2>3
<1> QED
  BY <1>9

\* The places of the blocks that are not lost.
LEMMA OutPlaces ==
  ASSUME NEW b \in Nat
  PROVE  /\ OutPlace(b) \in 0..b /\ OutPlace(0) = 0
         /\ OutPlace(b + 1) = OutPlace(b) + (IF Lost(b + 1) THEN 0 ELSE 1)
         /\ \A a \in 0..b : OutPlace(a) <= OutPlace(b)
         /\ \A a \in 1..b : ~Lost(a) => OutPlace(a) \in 1..OutPlace(b)
<1> DEFINE S(a) == {x \in 1..a : ~Lost(x)}
<1>1. ASSUME NEW a \in Nat PROVE IsFiniteSet(S(a)) /\ Cardinality(S(a)) \in 0..a
  <2>1. IsFiniteSet(1..a) /\ Cardinality(1..a) = a
    BY FS_Interval
  <2>2. S(a) \in SUBSET (1..a)
    OBVIOUS
  <2> HIDE DEF S
  <2>3. IsFiniteSet(S(a)) /\ Cardinality(S(a)) <= a
    BY <2>1, <2>2, FS_Subset
  <2>4. Cardinality(S(a)) \in Nat
    BY <2>3, FS_CardinalityType
  <2> QED
    BY <2>3, <2>4
<1>2. Cardinality(S(0)) = 0
  <2>1. S(0) = {}
    OBVIOUS
  <2> QED
    BY <2>1, FS_EmptySet
<1>3. Cardinality(S(b + 1)) = Cardinality(S(b)) + (IF Lost(b + 1) THEN 0 ELSE 1)
  <2>1. CASE Lost(b + 1)
    <3>1. S(b + 1) = S(b)
      BY <2>1
    <3>2. Cardinality(S(b)) \in Nat
      BY <1>1
    <3> HIDE DEF S
    <3> QED
      BY <2>1, <3>1, <3>2
  <2>2. CASE ~Lost(b + 1)
    <3>1. S(b + 1) = S(b) \cup {b + 1} /\ b + 1 \notin S(b)
      BY <2>2
    <3>2. IsFiniteSet(S(b))
      BY <1>1
    <3> HIDE DEF S
    <3> QED
      BY <2>2, <3>1, <3>2, FS_AddElement
  <2> QED
    BY <2>1, <2>2
<1>4. ASSUME NEW a \in 0..b PROVE Cardinality(S(a)) <= Cardinality(S(b))
  <2>1. S(a) \in SUBSET S(b)
    OBVIOUS
  <2> HIDE DEF S
  <2> QED
    BY <1>1, <2>1, FS_Subset
<1>5. ASSUME NEW a \in 1..b, ~Lost(a) PROVE Cardinality(S(a)) # 0
  <2>1. a \in S(a)
    BY <1>5
  <2>2. IsFiniteSet(S(a))
    BY <1>1
  <2> HIDE DEF S
  <2> QED
    BY <2>1, <2>2, FS_EmptySet
<1>6. \A a : OutPlace(a) = Cardinality(S(a))
  BY DEF OutPlace
<1> HIDE DEF S
<1>7. \A a \in 1..b : a \in 0..b /\ a \in Nat
  OBVIOUS
<1>8. ASSUME NEW a \in 1..b, ~Lost(a) PROVE Cardinality(S(a)) \in 1..Cardinality(S(b))
  <2>1. Cardinality(S(a)) \in 0..a /\ Cardinality(S(b)) \in 0..b
    BY <1>1, <1>7
  <2>2. Cardinality(S(a)) <= Cardinality(S(b)) /\ Cardinality(S(a)) # 0
    BY <1>4, <1>5, <1>7, <1>8
  <2> QED
    BY <2>1, <2>2
<1> QED
  BY <1>1, <1>2, <1>3, <1>4, <1>6, <1>8

LEMMA SamePlaces ==
  ASSUME UNCHANGED zipVars, unzip' = unzip
  PROVE  /\ \A b : Lost(b)' = Lost(b) /\ OutPlace(b)' = OutPlace(b)
         /\ \A k, id : Again(k, id)' = Again(k, id)
<1>1. cmd' = cmd /\ run' = run
  BY DEF zipVars
<1>2. \A b : Lost(b)' = Lost(b)
  BY <1>1 DEF Lost
<1>3. \A b : OutPlace(b)' = OutPlace(b)
  BY <1>2 DEF OutPlace
<1>4. \A k : Kept(k)' = Kept(k)
  BY SameContainer
<1>5. \A k, id : Again(k, id)' = Again(k, id)
  BY <1>1, <1>4 DEF Again, NextMatches, OnDisk
<1> QED
  BY <1>2, <1>3, <1>5

\* Block by block what the zipper read while records last, without the blocks the scan
\* passes, and then nothing but one of two blocks.
OutIs(k) ==
  /\ IF Len(got) <= k THEN Len(out) = OutPlace(Len(got)) ELSE Len(out) \in OutPlace(k)..(OutPlace(k) + Len(got) - k)
  /\ \A b \in 1..Len(got) : b <= k /\ ~Lost(b) => out[OutPlace(b)] = cmd.data[b].id
  /\ \A i \in 1..Len(out) : i <= OutPlace(k) \/ Again(k, out[i])

Scannable == run.bl # <<>> /\ Intact(1) /\ \A b \in Blocks : Carried(b)
Delivers ==
  /\ IsList(out) /\ Len(out) <= Len(got) /\ \A i \in 1..Len(out) : out[i] # "junk"
  /\ rpc = "unzip" /\ Scannable => \A k : HoldsUpTo(k) => OutIs(k)

LEMMA DeliversInit == Init => Delivers
<1> SUFFICES ASSUME Init PROVE Delivers
  OBVIOUS
<1>1. got = <<>> /\ out = <<>> /\ rpc = "off"
  BY DEF Init
<1>2. IsList(out) /\ Len(out) = 0 /\ Len(got) = 0
  BY <1>1, Nothing
<1> QED
  BY <1>1, <1>2 DEF Delivers

LEMMA SameHolds ==
  ASSUME UNCHANGED zipVars
  PROVE  Scannable' = Scannable /\ \A k : HoldsUpTo(k)' = HoldsUpTo(k)
<1>1. run' = run
  BY DEF zipVars
<1>2. Intact(1)' = Intact(1) /\ Blocks' = Blocks /\ \A b : Carried(b)' = Carried(b)
  BY SameContainer
<1>3. \A k : Intact(k)' = Intact(k)
  BY SameContainer
<1> QED
  BY <1>1, <1>2, <1>3 DEF Scannable, HoldsUpTo

\* One block of a whole or a cut container.
LEMMA TurnDelivers ==
  ASSUME CInv, CInv', UNCHANGED zipVars, Delivers, Scannable, NEW k, HoldsUpTo(k),
         NEW rec, TurnTo(rec, "unzip")
  PROVE  OutIs(k)'
<1>0. PICK K : Trail(K)
  BY DEF CInv, Zipped
<1>1. PICK n \in Nat, m \in Nat : n = Len(got) /\ m = Len(out) /\ m <= n
  BY DEF CInv, Reads, IsList, Delivers
<1>2. /\ rpc = "unzip" /\ rpc' = rpc /\ unzip' = unzip /\ n + 1 <= run.count
      /\ got' = Append(got, rec) /\ RecordRead(n + 1, rec)
      /\ \E block \in Scan(n + 1, rec, rkey') : out' = out \o block
  BY <1>1 DEF TurnTo
<1>3. PICK block \in Scan(n + 1, rec, rkey') : out' = out \o block
  BY <1>2
<1>4. OutIs(k) /\ Intact(1) /\ run.bl # <<>> /\ \A c \in 1..run.count : Carried(c)
  BY <1>2 DEF Delivers, Scannable, Blocks
<1>5. PICK b \in 1..run.count : b = n + 1
  <2>1. run.count \in Nat
    BY MdCommonAssumption DEF CInv, RunOK
  <2> QED
    BY <1>1, <1>2, <2>1
<1>6. Len(got') = b /\ cmd' = cmd
  BY <1>1, <1>2, <1>5, Appended DEF CInv, Reads, zipVars
<1>7. k \in 0..run.count /\ k \in Nat /\ run.count \in Nat /\ (b <= k => Intact(b + 1))
  BY MdCommonAssumption DEF HoldsUpTo, CInv, RunOK
<1>8. PICK p \in Nat, q \in Nat :
        /\ p = OutPlace(n) /\ q = OutPlace(k)
        /\ OutPlace(b) = p + (IF Lost(b) THEN 0 ELSE 1)
        /\ b <= k => OutPlace(b) <= q
        /\ \A c \in 1..n : ~Lost(c) => OutPlace(c) \in 1..p
        /\ \A c \in 1..k : ~Lost(c) => OutPlace(c) \in 1..q
  <2>1. (b <= k => b \in 0..k) /\ n + 1 = b /\ n \in Nat
    BY <1>1, <1>5, <1>7
  <2>2. OutPlace(n) \in 0..n /\ OutPlace(k) \in 0..k
    BY <1>1, <1>7, OutPlaces
  <2>3. OutPlace(n + 1) = OutPlace(n) + (IF Lost(n + 1) THEN 0 ELSE 1)
    BY <2>1, OutPlaces
  <2>4. \A c \in 1..n : ~Lost(c) => OutPlace(c) \in 1..OutPlace(n)
    BY <2>1, OutPlaces
  <2>5. /\ \A c \in 1..k : ~Lost(c) => OutPlace(c) \in 1..OutPlace(k)
        /\ \A a \in 0..k : OutPlace(a) <= OutPlace(k)
    BY <1>7, OutPlaces
  <2> QED
    BY <2>1, <2>2, <2>3, <2>4, <2>5
<1>9. /\ IF n <= k THEN m = p ELSE m \in q..(q + n - k)
      /\ \A c \in 1..n : c <= k /\ ~Lost(c) => out[OutPlace(c)] = cmd.data[c].id
      /\ \A i \in 1..m : i <= q \/ Again(k, out[i])
  BY <1>1, <1>4, <1>8 DEF OutIs
<1>10. \A c \in 1..n : c <= k /\ ~Lost(c) => OutPlace(c) \in 1..m
  <2>1. ASSUME NEW c \in 1..n, c <= k, ~Lost(c) PROVE OutPlace(c) \in 1..m
    <3>1. OutPlace(c) \in 1..p /\ OutPlace(c) \in 1..q
      <4>1. c \in 1..k
        BY <1>1, <1>7, <2>1
      <4> QED
        BY <1>8, <2>1, <4>1
    <3> QED
      BY <1>9, <3>1
  <2> QED
    BY <2>1
<1>11. /\ \A c : Lost(c)' = Lost(c) /\ OutPlace(c)' = OutPlace(c)
       /\ \A j, id : Again(j, id)' = Again(j, id)
  BY <1>2, SamePlaces
<1>own. ASSUME b <= k PROVE block = IF Lost(b) THEN <<>> ELSE Contents(b)
  <2>1. \A s \in KeyedSignatures \cap Range(run.bl) : rkey'[s] = K[b][s]
    <3>1. Trail(K)' /\ Intact(1)' /\ run' = run
      BY <1>0, <1>4, SameContainer DEF zipVars
    <3> QED
      BY <1>2, <1>6, <3>1 DEF CInv, Lockstep
  <2>2. RecordRead(b, rec) /\ Carried(b) /\ Intact(b + 1) /\ rpc # "off"
    BY <1>2, <1>4, <1>5, <1>7, <1>own
  <2>3. \A o \in Scan(b, rec, rkey') : o = IF Lost(b) THEN <<>> ELSE Contents(b)
    BY <1>0, <1>4, <2>1, <2>2, ScanWhole
  <2> QED
    BY <1>3, <1>5, <2>3
<1>12. CASE block = <<>>
  <2>1. PICK e : e = <<>> /\ IsList(e) /\ Len(e) = 0
    BY Nothing
  <2>2. Follows(out', out, e)
    BY <1>3, <1>12, <2>1, Joins DEF Delivers
  <2>3. Len(out') = m /\ \A i \in 1..m : out'[i] = out[i]
    BY <1>1, <2>1, <2>2 DEF Follows
  <2>4. \A c \in 1..n : c <= k /\ ~Lost(c) => out'[OutPlace(c)] = cmd.data[c].id
    BY <1>9, <1>10, <2>3
  <2>5. \A i \in 1..m : i <= q \/ Again(k, out'[i])
    BY <1>9, <2>3
  <2>6. b <= k => Lost(b)
    BY <1>own, <1>12 DEF Contents
  <2>7. IF b <= k THEN m = OutPlace(b) ELSE m \in q..(q + b - k)
    BY <1>1, <1>5, <1>7, <1>8, <1>9, <2>6
  <2>8. \A c \in 1..b : c <= k /\ ~Lost(c) => c \in 1..n
    BY <1>1, <1>5, <2>6
  <2> QED
    BY <1>6, <1>8, <1>11, <2>3, <2>4, <2>5, <2>7, <2>8 DEF OutIs
<1>13. ASSUME NEW id, block = <<id>>, b <= k => ~Lost(b) /\ id = cmd.data[b].id, ~(b <= k) => Again(k, id)
       PROVE  OutIs(k)'
  <2>1. PICK one : one = <<id>> /\ IsList(one) /\ Len(one) = 1 /\ one[1] = id
    BY OneElement
  <2>2. Follows(out', out, one)
    BY <1>3, <1>13, <2>1, Joins DEF Delivers
  <2>3. Len(out') = m + 1 /\ (\A i \in 1..m : out'[i] = out[i]) /\ out'[m + 1] = id
    BY <1>1, <2>1, <2>2 DEF Follows
  <2>4. \A c \in 1..n : c <= k /\ ~Lost(c) => out'[OutPlace(c)] = cmd.data[c].id
    BY <1>9, <1>10, <2>3
  <2>5. IF b <= k THEN m + 1 = OutPlace(b) /\ m + 1 <= q ELSE m + 1 \in q..(q + b - k)
    BY <1>1, <1>5, <1>7, <1>8, <1>9, <1>13
  <2>6. b <= k => out'[OutPlace(b)] = cmd.data[b].id
    BY <1>13, <2>3, <2>5
  <2>7. \A c \in 1..b : c \in 1..n \/ c = b
    BY <1>1, <1>5
  <2>8. \A i \in 1..(m + 1) : i <= q \/ Again(k, out'[i])
    <3>1. \A i \in 1..(m + 1) : i \in 1..m \/ i = m + 1
      BY <1>1
    <3> QED
      BY <1>9, <1>13, <2>3, <2>5, <3>1
  <2> QED
    BY <1>6, <1>8, <1>11, <2>3, <2>4, <2>5, <2>6, <2>7, <2>8 DEF OutIs
<1>14. CASE b <= k
  <2>1. block = <<>> \/ (block = <<cmd.data[b].id>> /\ ~Lost(b))
    BY <1>own, <1>14 DEF Contents
  <2> QED
    BY <1>12, <1>13, <1>14, <2>1
<1>15. CASE ~(b <= k)
  <2>1. \A i \in 1..Fields : rec.fields[i] = FieldIs(k, b, i)
    <3>1. ASSUME NEW i \in 1..Fields PROVE rec.fields[i] = FieldIs(k, b, i)
      <4>1. b = 1 \/ b - 1 \in 1..Len(got)
        BY <1>1, <1>5
      <4>2. b = 1 \/ got[b - 1].fields[i] = FieldIs(k, b - 1, i)
        BY <1>4, <4>1, FieldsRead
      <4>3. RecordRead(b, rec) /\ rpc # "off"
        BY <1>2, <1>5
      <4> QED
        BY <1>4, <4>2, <4>3, FieldRead
    <3> QED
      BY <3>1
  <2>2. block = <<>> \/ \E id : Again(k, id) /\ block = <<id>>
    <3>1. Len(rec.fields) = Fields /\ rpc # "off" /\ k < b
      BY <1>2, <1>5, <1>7, <1>15 DEF RecordRead
    <3>2. PICK keys : keys = rkey'
      OBVIOUS
    <3>3. block \in Scan(b, rec, keys)
      BY <1>3, <1>5, <3>2
    <3> QED
      BY <1>4, <2>1, <3>1, <3>3, ScanPastCut
  <2> QED
    BY <1>12, <1>13, <1>15, <2>2
<1> QED
  BY <1>14, <1>15

LEMMA WrittenBlocks ==
  ASSUME CInv, Delivers, NEW rec, TurnTo(rec, "unzip")
  PROVE  IsList(out') /\ Len(out') <= Len(got) + 1 /\ \A i \in 1..Len(out') : out'[i] # "junk"
<1>1. PICK n \in Nat, m \in Nat : n = Len(got) /\ m = Len(out) /\ m <= n
  BY DEF CInv, Reads, IsList, Delivers
<1>2. /\ rpc = "unzip" /\ RecordRead(n + 1, rec) /\ n + 1 \in 1..run.count
      /\ \E block \in Scan(n + 1, rec, rkey') : out' = out \o block
  <2>1. run.count \in Nat
    BY MdCommonAssumption DEF CInv, RunOK
  <2>2. /\ rpc = "unzip" /\ RecordRead(Len(got) + 1, rec) /\ Len(got) + 1 <= run.count
        /\ \E block \in Scan(Len(got) + 1, rec, rkey') : out' = out \o block
    BY DEF TurnTo
  <2>3. n + 1 \in 1..run.count
    BY <1>1, <2>1, <2>2
  <2> QED
    BY <1>1, <2>2, <2>3
<1>3. PICK block \in Scan(n + 1, rec, rkey') : out' = out \o block
  BY <1>2
<1>4. block = <<>> \/ \E id : id # "junk" /\ block = <<id>>
  <2>1. \A x \in 1..run.count : cmd.data[x].id # "junk"
    BY DEF CInv, RunOK
  <2>2. Len(rec.fields) = Fields /\ rpc # "off"
    BY <1>2 DEF RecordRead
  <2>3. block = <<>> \/ block = <<Wrong>> \/ \E x \in 1..run.count : block = <<cmd.data[x].id>>
    <3>1. PICK keys, b : keys = rkey' /\ b = n + 1
      OBVIOUS
    <3>2. b \in 1..run.count /\ block \in Scan(b, rec, keys)
      BY <1>2, <1>3, <3>1
    <3>3. block = <<>> \/ block = <<Wrong>> \/ \E x \in 1..run.count : block = Contents(x)
      BY <2>2, <3>2, ScanFinds
    <3> QED
      BY <3>3 DEF Contents
  <2>4. Wrong # "junk"
    BY DEF Wrong
  <2> QED
    BY <2>1, <2>3, <2>4
<1>5. CASE block = <<>>
  <2>1. PICK e : e = <<>> /\ IsList(e) /\ Len(e) = 0
    BY Nothing
  <2>2. Follows(out', out, e)
    BY <1>3, <1>5, <2>1, Joins DEF Delivers
  <2> QED
    BY <1>1, <2>1, <2>2 DEF Follows, Delivers
<1>6. ASSUME NEW id, id # "junk", block = <<id>>
      PROVE  IsList(out') /\ Len(out') <= n + 1 /\ \A i \in 1..Len(out') : out'[i] # "junk"
  <2>1. PICK one : one = <<id>> /\ IsList(one) /\ Len(one) = 1 /\ one[1] = id
    BY OneElement
  <2>2. Follows(out', out, one)
    BY <1>3, <1>6, <2>1, Joins DEF Delivers
  <2>3. IsList(out') /\ Len(out') = m + 1 /\ (\A i \in 1..m : out'[i] = out[i]) /\ out'[m + 1] = id
    BY <1>1, <2>1, <2>2 DEF Follows
  <2>4. \A i \in 1..(m + 1) : i \in 1..m \/ i = m + 1
    BY <1>1
  <2> QED
    BY <1>1, <1>6, <2>3, <2>4 DEF Delivers
<1> QED
  BY <1>1, <1>4, <1>5, <1>6

LEMMA DeliversStep == CInv /\ CInv' /\ Delivers /\ [Next]_vars => Delivers'
<1> SUFFICES ASSUME CInv, CInv', Delivers, [Next]_vars PROVE Delivers'
  OBVIOUS
<1>1. CASE Zipping
  <2>1. rpc' = "off" /\ got' = <<>> /\ out' = <<>>
    BY <1>1, ZippersFirst DEF unzipVars, CInv
  <2>2. IsList(out') /\ Len(out') = 0 /\ Len(got') = 0
    BY <2>1, Nothing
  <2> QED
    BY <2>1, <2>2 DEF Delivers
<1>2. CASE ~Zipping
  <2>1. UNCHANGED zipVars /\ Scannable' = Scannable /\ \A k : HoldsUpTo(k)' = HoldsUpTo(k)
    <3>1. UNCHANGED zipVars
      BY <1>2, UnzippersOnlyRead
    <3> QED
      BY <3>1, SameHolds
  <2>2. CASE Still
    <3>1. out' = out /\ got' = got /\ (rpc' = "unzip" => rpc = "unzip" /\ unzip' = unzip)
      BY <2>2 DEF Still
    <3>2. ASSUME NEW k, unzip' = unzip PROVE OutIs(k)' = OutIs(k)
      <4>1. /\ \A b : Lost(b)' = Lost(b) /\ OutPlace(b)' = OutPlace(b)
            /\ \A j, id : Again(j, id)' = Again(j, id)
        BY <2>1, <3>2, SamePlaces
      <4> QED
        BY <2>1, <3>1, <4>1 DEF OutIs, zipVars
    <3> QED
      BY <2>1, <3>1, <3>2 DEF Delivers
  <2>3. CASE StartsOver
    <3>1. out' = <<>> /\ got' = <<>>
      BY <2>3 DEF StartsOver
    <3>2. IsList(out') /\ Len(out') = 0 /\ Len(got') = 0
      BY <3>1, Nothing
    <3>3. ASSUME NEW k, HoldsUpTo(k) PROVE OutIs(k)'
      <4>1. k \in Nat
        <5>1. run.count \in Nat /\ k \in 0..run.count
          BY <3>3, MdCommonAssumption DEF CInv, RunOK, HoldsUpTo
        <5> QED
          BY <5>1
      <4>2. OutPlace(0)' = 0
        <5>1. {x \in 1..0 : ~Lost(x)'} = {}
          OBVIOUS
        <5> QED
          BY <5>1, FS_EmptySet DEF OutPlace
      <4> QED
        BY <3>2, <4>1, <4>2 DEF OutIs
    <3> QED
      BY <2>1, <3>2, <3>3 DEF Delivers
  <2>4. ASSUME NEW job \in {"list", "unzip"}, NEW rec, TurnTo(rec, job) PROVE Delivers'
    <3>1. PICK n \in Nat : n = Len(got) /\ Len(got') = n + 1 /\ rpc = job /\ rpc' = rpc
      <4>1. got' = Append(got, rec) /\ rpc = job /\ rpc' = rpc
        BY <2>4 DEF TurnTo
      <4>2. IsList(got) /\ Len(got) \in Nat
        BY DEF CInv, Reads, IsList
      <4> QED
        BY <4>1, <4>2, Appended
    <3>2. CASE job = "list"
      <4>1. out' = out
        BY <2>4, <3>2 DEF TurnTo
      <4>2. Len(out) \in Nat
        BY DEF Delivers, IsList
      <4> QED
        BY <3>1, <3>2, <4>1, <4>2 DEF Delivers
    <3>3. CASE job = "unzip"
      <4>1. TurnTo(rec, "unzip")
        BY <2>4, <3>3
      <4>2. IsList(out') /\ Len(out') <= n + 1 /\ \A i \in 1..Len(out') : out'[i] # "junk"
        BY <3>1, <4>1, WrittenBlocks
      <4>3. ASSUME Scannable, NEW k, HoldsUpTo(k) PROVE OutIs(k)'
        BY <2>1, <4>1, <4>3, TurnDelivers
      <4> QED
        BY <2>1, <3>1, <4>2, <4>3 DEF Delivers
    <3> QED
      BY <3>2, <3>3
  <2> QED
    BY <1>2, <2>2, <2>3, <2>4, Effects DEF CInv
<1> QED
  BY <1>1, <1>2

LEMMA DeliversInv == Spec => [](CInv /\ Delivers)
BY ContainerInit, ContainerStep, DeliversInit, DeliversStep, PTL DEF Spec

\* Every state variable of zipper and unzipper keeps to its set: keys stay within their
\* range whatever --inc, --dec and the length of the file, no more blocks are read than
\* the file has, and no more written than read.
THEOREM ContainerTyping == Spec => []TypeOK
<1>1. ASSUME CInv, Delivers PROVE TypeOK
  <2>1. cmd \in Commands /\ run = Run(cmd) /\ run.count \in Nat
    BY <1>1, MdCommonAssumption DEF CInv, RunOK
  <2>2. wpc \in {"header", "blocks", "closed"} /\ key \in Keys /\ Len(sent) <= run.count + 1
    BY <1>1 DEF CInv, Zipped, Stage
  <2>3. rpc \in {"off", "main", "list", "unzip", "done", "garbled"}
        /\ verdict \in {"none", "refused", "accepted", "rejected", "validates", "failed"}
    BY <1>1 DEF CInv, Reading
  <2>4. \A s \in DOMAIN rkey : rkey[s] \in 0..(KeySpan - 1)
    BY <1>1 DEF CInv, Lockstep
  <2>5. Len(got) \in Nat /\ Len(out) \in Nat /\ Len(got) <= run.count /\ Len(out) <= Len(got)
    BY <1>1 DEF CInv, Reads, Delivers, IsList
  <2>6. Len(out) <= run.count
    BY <2>1, <2>5
  <2> QED
    BY <2>1, <2>2, <2>3, <2>4, <2>5, <2>6 DEF TypeOK, Keys
<1> QED
  BY <1>1, DeliversInv, PTL

\* The first elements of a list.
LEMMA FirstOf ==
  ASSUME NEW s, IsList(s), NEW t, IsList(t), NEW k \in Nat, k <= Len(s), k <= Len(t),
         \A i \in 1..k : s[i] = t[i]
  PROVE  SubSeq(s, 1, k) = SubSeq(t, 1, k)
<1> DEFINE T == {s[i] : i \in 1..Len(s)} \cup {t[i] : i \in 1..Len(t)}
<1>1. Len(s) \in Nat /\ Len(t) \in Nat /\ s = [i \in 1..Len(s) |-> s[i]] /\ t = [i \in 1..Len(t) |-> t[i]]
  BY DEF IsList
<1>2. s \in Seq(T) /\ t \in Seq(T)
  <2>1. \A i \in 1..Len(s) : s[i] \in T
    OBVIOUS
  <2>2. \A i \in 1..Len(t) : t[i] \in T
    OBVIOUS
  <2> HIDE DEF T
  <2> QED
    BY <1>1, <2>1, <2>2
<1> HIDE DEF T
<1>3. /\ SubSeq(s, 1, k) = [i \in 1..k |-> s[i]]
      /\ SubSeq(t, 1, k) = [i \in 1..k |-> t[i]]
  BY <1>1, <1>2
<1> QED
  BY <1>3

\* Whatever the lists of signatures, the block size, the modulus, the keys and the place
\* the disk filled up at: an unzipper that got through a container with block signatures,
\* a whole prefix and exponents it can carry has written the blocks of the input file
\* whose records are there, in order and without only those zeros that a modulus of one
\* loses; of a whole container nothing else, and past a cut nothing but the last of them
\* or the block whose digests came last.
THEOREM UnzippingIsExact == Spec => []UnzipIsExact
<1>1. ASSUME CInv, Delivers PROVE UnzipIsExact
  <2>1. rpc # "torn"
    BY <1>1 DEF CInv, Reading
  <2>2. PICK k : k = Cardinality({b \in Blocks : Intact(b + 1)})
    OBVIOUS
  <2>3. ASSUME rpc = "unzip", Len(got) = run.count, run.bl # <<>>, Intact(1), \A b \in Blocks : Carried(b)
        PROVE  /\ Len(out) \in OutPlace(k)..(OutPlace(k) + run.count - k)
               /\ \A b \in 1..k : ~Lost(b) => out[OutPlace(b)] = WholeFile[b]
               /\ \A i \in (OutPlace(k) + 1)..Len(out) :
                    \/ k > 0 /\ out[i] = WholeFile[k]
                    \/ NextMatches(k) /\ out[i] = WholeFile[k + 1]
    <3>1. wpc = "closed"
      BY <1>1, <2>3 DEF CInv, Reading
    <3>2. PICK c \in Nat : c = run.count
      BY <1>1, MdCommonAssumption DEF CInv, RunOK
    <3>3. HoldsUpTo(k) /\ k \in 0..c
      <4>1. PICK h : HoldsUpTo(h)
        BY <1>1, <2>3, <3>1, SomePrefix
      <4>2. h \in 0..c /\ {b \in Blocks : Intact(b + 1)} = 1..h
        BY <3>2, <4>1 DEF HoldsUpTo, Blocks
      <4>3. Cardinality(1..h) = h
        BY <4>2, FS_Interval
      <4> QED
        BY <2>2, <4>1, <4>2, <4>3
    <3>4. OutIs(k)
      BY <1>1, <2>3, <3>3 DEF Delivers, Scannable
    <3>5. PICK p \in Nat, m \in Nat : p = OutPlace(k) /\ m = Len(out)
      BY <1>1, <3>3, OutPlaces DEF Delivers, IsList
    <3>6. /\ IF c <= k THEN m = OutPlace(c) ELSE m \in p..(p + c - k)
          /\ \A b \in 1..c : b <= k /\ ~Lost(b) => out[OutPlace(b)] = cmd.data[b].id
          /\ \A i \in 1..m : i <= p \/ Again(k, out[i])
      BY <2>3, <3>2, <3>4, <3>5 DEF OutIs
    <3>7. \A b \in 1..c : WholeFile[b] = cmd.data[b].id
      BY <3>2 DEF WholeFile, Blocks
    <3>8. m \in p..(p + c - k)
      <4>1. c <= k => k = c
        BY <3>3
      <4> QED
        BY <3>3, <3>5, <3>6, <4>1
    <3>9. \A b \in 1..k : ~Lost(b) => out[OutPlace(b)] = WholeFile[b]
      <4>1. \A b \in 1..k : b \in 1..c /\ b <= k
        BY <3>3
      <4> QED
        BY <3>6, <3>7, <4>1
    <3>10. ASSUME NEW i \in (p + 1)..m
           PROVE  \/ k > 0 /\ out[i] = WholeFile[k]
                  \/ NextMatches(k) /\ out[i] = WholeFile[k + 1]
      <4>1. i \in 1..m /\ ~(i <= p)
        OBVIOUS
      <4>2. Again(k, out[i])
        BY <3>6, <4>1
      <4>3. (k > 0 => k \in 1..c) /\ (NextMatches(k) => k + 1 \in 1..c)
        BY <3>2, <3>3 DEF NextMatches
      <4> QED
        BY <3>7, <4>2, <4>3 DEF Again
    <3> QED
      BY <3>2, <3>5, <3>8, <3>9, <3>10
  <2> QED
    BY <2>1, <2>2, <2>3 DEF UnzipIsExact, NextMatches
<1> QED
  BY <1>1, DeliversInv, PTL

----------------------------------------------------------------------------
(* The verdict of --val.                                                   *)
LEMMA FileDigestKey ==
  ASSUME NEW s \in Names, NEW k, NEW data
  PROVE  LET r == StoredDigest(s, HashFile[s], k, data)
         IN  /\ r.data = data
             /\ r.key = IF s \in KeyedSignatures THEN k ELSE Old!NoKey
             /\ s \notin {"md6", "md62"} => CompareFile[s].bytes <= r.bytes
             /\ CompareFile[s].takes = Takes(s)
<1>1. PICK row : row = [HashFile[s] EXCEPT !.bytes = Least({@, WriteDigest[s]})]
  OBVIOUS
<1>2. /\ HashFile[s].takes = Takes(s) /\ CompareFile[s].takes = Takes(s)
      /\ HashFile[s].bytes \in Nat /\ WriteDigest[s] \in Nat /\ CompareFile[s].bytes \in Nat
      /\ CompareFile[s].bytes <= WriteDigest[s]
      /\ s \notin {"md6", "md62"} => CompareFile[s].bytes <= HashFile[s].bytes
  <2>1. Agree(s, SizeOfDigest[s], ReadDigest[s], WriteDigest[s], ReadKey[s], WriteKey[s], HashBlock[s],
              HashFile[s], CompareBlock[s], CompareFile[s])
    BY SwitchesAgree
  <2> QED
    BY <2>1 DEF Agree
<1>3. DOMAIN HashFile[s] = {"takes", "bytes"}
  BY RowsAreRecords
<1>4. row.takes = Takes(s) /\ row.bytes = Least({HashFile[s].bytes, WriteDigest[s]})
  BY <1>1, <1>2, <1>3
<1>5. s \notin {"md6", "md62"} => CompareFile[s].bytes <= row.bytes
  <2>1. ASSUME NEW x \in Nat, NEW y \in Nat PROVE Least({x, y}) \in {x, y}
    <3>1. \E z \in {x, y} : \A u \in {x, y} : z <= u
      BY <2>1
    <3> QED
      BY <3>1 DEF Least
  <2> QED
    BY <1>2, <1>4, <2>1
<1>6. Takes(s) = "key" <=> s \in KeyedSignatures
  BY DEF Takes
<1>7. StoredDigest(s, HashFile[s], k, data) = Old!Register(s, row, k, data)
  BY <1>1 DEF StoredDigest
<1> QED
  BY <1>2, <1>4, <1>5, <1>6, <1>7 DEF Old!Register

LEMMA VerdictIsRight ==
  ASSUME CInv, Delivers, rpc = "unzip", run.fl # <<>>
  PROVE  /\ "validates" \in FileVerdicts => out = WholeFile
         /\ "failed" \in FileVerdicts =>
              out # WholeFile \/ ~OnDisk(1, 8 + Len(run.fl)) \/ Range(run.fl) \cap {"md6", "md62"} # {}
<1>1. PICK n \in Nat \ {0} : n = Len(run.fl) /\ DOMAIN run.fl = 1..n /\ \A i \in 1..n : run.fl[i] \in Names
  <2>1. Len(run.fl) > 0 /\ Len(run.fl) \in Nat
    BY Sizes, EmptyList DEF CInv, RunOK, NameList
  <2> QED
    BY <2>1, Sizes DEF CInv
<1>2. PICK K : Trail(K)
  BY DEF CInv, Zipped
<1>3. Header.fl = run.fl /\ Len(sent) > 0
  BY ContainerKnown DEF CInv
<1>4. ~NoHeader
  BY DEF CInv, RunOK
<1>5. PrefixShape(sent[1], K[0])
  BY <1>2, <1>3, Shapes DEF CInv, Zipped
<1> DEFINE Reg(i) == Field(8 + i, [sig |-> run.fl[i], key |-> Old!NoKey, data |-> Junk, bytes |-> 0])
           Answers(i) == Old!Compare(Reg(i), CompareFile[run.fl[i]], DefaultKey, out)
<1>6. FileVerdicts = (IF \A i \in 1..n : TRUE \in Answers(i) THEN {"validates"} ELSE {})
                       \cup (IF \E i \in 1..n : FALSE \in Answers(i) THEN {"failed"} ELSE {})
  BY <1>1, <1>3 DEF FileVerdicts
<1>7. ASSUME NEW i \in 1..n, OnDisk(1, 8 + i)
      PROVE  /\ Reg(i).data = WholeFile
             /\ (run.fl[i] \notin {"md6", "md62"} /\ out = WholeFile) => Answers(i) = {TRUE}
  <2>1. PICK s \in Names : s = run.fl[i]
    BY <1>1
  <2>2. Reg(i) = StoredDigest(s, HashFile[s], DefaultKey, WholeFile)
    <3>1. sent[1][8 + i] = FileDigests[i]
      BY <1>1, <1>4, <1>5 DEF PrefixShape, HeaderShape
    <3>2. DefaultKeys(run.fl)[s] = DefaultKey
      BY <1>1, <2>1 DEF DefaultKeys, Range
    <3>3. IsList(run.fl)
      BY DEF CInv, RunOK, NameList
    <3>4. FileDigests[i].v = StoredDigest(s, HashFile[s], DefaultKey, WholeFile)
      BY <1>1, <2>1, <3>2, <3>3, DigestsAreList DEF FileDigests
    <3> QED
      BY <1>7, <3>1, <3>4 DEF Field
  <2>3. PICK r : r = Reg(i)
    OBVIOUS
  <2>4. /\ r.data = WholeFile
        /\ r.key = IF s \in KeyedSignatures THEN DefaultKey ELSE Old!NoKey
        /\ s \notin {"md6", "md62"} => CompareFile[s].bytes <= r.bytes
        /\ CompareFile[s].takes = "key" <=> s \in KeyedSignatures
    BY <2>2, <2>3, FileDigestKey DEF Takes
  <2>5. (s \notin {"md6", "md62"} /\ out = WholeFile) => Old!Compare(r, CompareFile[s], DefaultKey, out) = {TRUE}
    BY <2>4 DEF Old!Compare
  <2> QED
    BY <2>1, <2>3, <2>4, <2>5
<1>8. ASSUME NEW i \in 1..n, TRUE \in Answers(i) PROVE Reg(i).data = out
  BY <1>8 DEF Old!Compare
<1>9. ASSUME "validates" \in FileVerdicts PROVE out = WholeFile
  <2> HIDE DEF Answers
  <2>1. 1 \in 1..n /\ TRUE \in Answers(1)
    <3>1. \A i \in 1..n : TRUE \in Answers(i)
      BY <1>6, <1>9
    <3>2. PICK j \in 1..n : j = 1
      OBVIOUS
    <3>3. TRUE \in Answers(j)
      BY <3>1
    <3> QED
      BY <3>2, <3>3
  <2>2. Reg(1).data = out
    BY <1>8, <2>1
  <2>3. CASE OnDisk(1, 8 + 1)
    BY <1>7, <2>1, <2>2, <2>3
  <2>4. CASE ~OnDisk(1, 8 + 1)
    <3>1. Reg(1).data = Junk
      BY <2>4 DEF Field
    <3>2. out = <<"junk">>
      BY <2>2, <3>1 DEF Junk
    <3>3. Len(out) = 1 /\ out[1] = "junk"
      BY <3>2
    <3> QED
      BY <3>3 DEF Delivers
  <2> QED
    BY <2>3, <2>4
<1>10. ASSUME "failed" \in FileVerdicts, out = WholeFile, OnDisk(1, 8 + n),
              Range(run.fl) \cap {"md6", "md62"} = {}
       PROVE  FALSE
  <2> HIDE DEF Answers
  <2>1. PICK i \in 1..n : FALSE \in Answers(i)
    BY <1>6, <1>10
  <2>2. OnDisk(1, 8 + i)
    <3>1. Kept(1) \in Int
      <4>1. Len(sent) \in Nat /\ 1 \in 1..Len(sent)
        BY <1>3, Arrivals DEF CInv
      <4>2. Kept(1) \in 0..Len(sent[1])
        BY <4>1, Arrivals DEF CInv
      <4> QED
        BY <4>2
    <3> QED
      BY <1>10, <3>1 DEF OnDisk
  <2>3. run.fl[i] \notin {"md6", "md62"}
    BY <1>1, <1>10 DEF Range
  <2>4. Answers(i) = {TRUE}
    BY <1>7, <1>10, <2>2, <2>3
  <2> QED
    BY <2>1, <2>4
<1> QED
  BY <1>1, <1>9, <1>10

LEMMA VerdictStep ==
  ASSUME [Next]_vars, ~Zipping
  PROVE  verdict' = verdict \/ verdict' \in {"refused", "accepted", "rejected"}
           \/ (rpc = "unzip" /\ verdict' \in FileVerdicts)
<1>1. ReaderStep
  BY ReaderSteps
<1>2. ASSUME NEW program, NEW o, Launch(program, o) PROVE verdict' = verdict
  BY <1>2 DEF Launch
<1>3. ASSUME NEW program, NEW job, NEW least, Refuse(program, job, least) PROVE verdict' = "refused"
  BY <1>3 DEF Refuse
<1>4. ASSUME NEW program, NEW least, NEW sum, Validate(program, least, sum)
      PROVE  verdict' = verdict \/ verdict' \in {"accepted", "rejected"}
  BY <1>4 DEF Validate, Crash
<1>5. ASSUME NEW program, NEW least, NEW job, ReadHeader(program, job, least) PROVE verdict' = verdict
  BY <1>5 DEF ReadHeader, Crash
<1>6. ASSUME NEW program, NEW job, Turn(program, job) PROVE verdict' = verdict
  BY <1>6 DEF Turn
<1>7. ASSUME NEW program, End(program)
      PROVE  verdict' = verdict \/ (rpc = "unzip" /\ verdict' \in FileVerdicts)
  BY <1>7 DEF End
<1>8. CASE Exit \/ UNCHANGED vars
  BY <1>8 DEF Exit, vars, unzipVars
<1> QED
  BY <1>1, <1>2, <1>3, <1>4, <1>5, <1>6, <1>7, <1>8 DEF ReaderStep

LEMMA VerdictHolds == CInv /\ CInv' /\ Delivers /\ ValVerdict /\ [Next]_vars => ValVerdict'
<1> SUFFICES ASSUME CInv, CInv', Delivers, ValVerdict, [Next]_vars PROVE ValVerdict'
  OBVIOUS
<1>1. CASE Zipping
  <2>1. verdict' = "none"
    BY <1>1, ZippersFirst DEF unzipVars, CInv
  <2> QED
    BY <2>1 DEF ValVerdict
<1>2. CASE ~Zipping
  <2>1. run' = run /\ WholeFile' = WholeFile /\ \A i : OnDisk(1, i)' = OnDisk(1, i)
    <3>1. UNCHANGED zipVars
      BY <1>2, UnzippersOnlyRead
    <3> QED
      BY <3>1, SameContainer DEF zipVars, OnDisk
  <2>2. SUFFICES ASSUME verdict' \in {"validates", "failed"}, run.fl # <<>> PROVE ValVerdict'
    BY <2>1 DEF ValVerdict
  <2>3. rpc' \in {"main", "done"}
    BY <2>2 DEF CInv, Reading
  <2>4. out' = out
    <3>1. ~StartsOver
      BY <2>3 DEF StartsOver
    <3>2. ASSUME NEW job \in {"list", "unzip"}, NEW rec, TurnTo(rec, job) PROVE FALSE
      BY <2>3, <3>2 DEF TurnTo
    <3>3. Still
      BY <1>2, <3>1, <3>2, Effects DEF CInv
    <3> QED
      BY <3>3 DEF Still
  <2>5. verdict' = verdict \/ (rpc = "unzip" /\ verdict' \in FileVerdicts)
    BY <1>2, <2>2, VerdictStep
  <2>6. CASE verdict' = verdict
    BY <2>1, <2>4, <2>6 DEF ValVerdict
  <2>7. CASE rpc = "unzip" /\ verdict' \in FileVerdicts
    <3>1. /\ verdict' = "validates" => out = WholeFile
          /\ verdict' = "failed" =>
               out # WholeFile \/ ~OnDisk(1, 8 + Len(run.fl)) \/ Range(run.fl) \cap {"md6", "md62"} # {}
      BY <2>2, <2>7, VerdictIsRight
    <3> QED
      BY <2>1, <2>4, <3>1 DEF ValVerdict
  <2> QED
    BY <2>5, <2>6, <2>7
<1> QED
  BY <1>1, <1>2

\* --val tells the truth for every file, every list of file signatures and every place
\* the container was cut off at: what it validates is the input file, block by block,
\* and a file it fails was not given back, or its signatures are not in the container,
\* or one of them is MD6.
THEOREM VerdictIsTrue == Spec => []ValVerdict
<1>1. Init => ValVerdict
  BY DEF Init, ValVerdict
<1> QED
  BY <1>1, DeliversInv, VerdictHolds, PTL DEF Spec

----------------------------------------------------------------------------
(* The container is a channel for the block records.                       *)
Sent == [k \in 1..(Len(sent) - 1) |-> Values(sent[k + 1])]
Arriving == [k \in 1..(Len(sent) - 1) |-> Kept(k + 1)]
Got == [n \in DOMAIN got |-> got[n].fields]

LEMMA Mapped ==
  ASSUME CInv
  PROVE  /\ IsList(got) /\ IsList(Got) /\ Len(Got) = Len(got) /\ Len(got) \in Nat
         /\ \A n \in 1..Len(got) : Got[n] = got[n].fields
         /\ got = <<>> <=> Got = <<>>
<1>1. PICK n \in Nat : n = Len(got) /\ DOMAIN got = 1..n /\ IsList(got)
  BY ListIsSeq DEF CInv, Reads, IsList
<1>2. Got = [i \in 1..n |-> Got[i]] /\ \A i \in 1..n : Got[i] = got[i].fields
  BY <1>1 DEF Got
<1>3. IsList(Got) /\ Len(Got) = n
  BY <1>2, ListOf
<1> QED
  BY <1>1, <1>2, <1>3, EmptyList

LEMMA NoRecords ==
  ASSUME Len(sent) \in {0, 1}
  PROVE  Sent = <<>> /\ Arriving = <<>>
<1>1. 1..(Len(sent) - 1) = 1..0
  <2>1. PICK m \in {0, 1} : m = Len(sent)
    OBVIOUS
  <2>2. m - 1 \in {-1, 0} /\ 1..-1 = 1..0
    OBVIOUS
  <2>3. 1..(m - 1) = 1..0
    BY <2>2
  <2> QED
    BY <2>1, <2>3
<1>2. IsList(Sent) /\ Len(Sent) = 0 /\ IsList(Arriving) /\ Len(Arriving) = 0
  <2>1. Sent = [k \in 1..0 |-> Sent[k]] /\ Arriving = [k \in 1..0 |-> Arriving[k]]
    BY <1>1 DEF Sent, Arriving
  <2> QED
    BY <2>1, ListOf
<1> QED
  BY <1>2, EmptyList

LEMMA ChannelInit0 == Init => Channel!Init
<1> SUFFICES ASSUME Init PROVE Channel!Init
  OBVIOUS
<1>1. sent = <<>> /\ got = <<>>
  BY DEF Init
<1>2. Len(sent) = 0
  BY <1>1, Nothing
<1>3. CInv
  BY ContainerInit
<1> QED
  BY <1>1, <1>2, <1>3, NoRecords, Mapped DEF Channel!Init, Sent, Arriving, Got

\* A header is no record.
LEMMA HeaderStutters ==
  ASSUME CInv, WriteHeader \/ CrashInStream
  PROVE  UNCHANGED Channel!vars
<1>1. wpc = "header" /\ got' = got
  BY DEF WriteHeader, CrashInStream, unzipVars
<1>2. sent = <<>> /\ cut = Never /\ Len(sent) = 0
  BY <1>1, Nothing DEF CInv, Zipped, Stage
<1>3. Len(sent') = 1
  <2>1. CASE WriteHeader
    <3>1. PICK P : sent' = Append(sent, P)
      BY <2>1 DEF WriteHeader, Write
    <3> QED
      BY <1>2, <3>1
  <2>2. CASE CrashInStream
    BY <2>2 DEF CrashInStream
  <2> QED
    BY <2>1, <2>2
<1>4. Sent = <<>> /\ Arriving = <<>>
  BY <1>2, NoRecords
<1>5. Sent' = <<>> /\ Arriving' = <<>>
  <2>1. 1..(Len(sent') - 1) = 1..0
    BY <1>3
  <2>2. PICK a, b : a = Sent' /\ b = Arriving'
    OBVIOUS
  <2>3. a = [k \in 1..0 |-> a[k]] /\ b = [k \in 1..0 |-> b[k]]
    BY <2>1, <2>2 DEF Sent, Arriving
  <2>4. IsList(a) /\ Len(a) = 0 /\ IsList(b) /\ Len(b) = 0
    BY <2>3, ListOf
  <2> QED
    BY <2>2, <2>4, EmptyList
<1>6. Got' = Got
  BY <1>1 DEF Got
<1> QED
  BY <1>4, <1>5, <1>6 DEF Channel!vars, Sent, Arriving, Got

LEMMA AllOf ==
  ASSUME NEW s, IsList(s)
  PROVE  SubSeq(s, 1, Len(s)) = s
<1>1. PICK n \in Nat : n = Len(s)
  BY DEF IsList
<1>2. s \in Seq({s[i] : i \in 1..n}) /\ s = [i \in 1..n |-> s[i]]
  BY <1>1, ListIsSeq DEF IsList
<1>3. SubSeq(s, 1, n) = [i \in 1..n |-> s[i]]
  BY <1>1, <1>2
<1> QED
  BY <1>1, <1>2, <1>3

\* A block's record is sent, and as much of it arrives as the disk has room for.
LEMMA BlockSends ==
  ASSUME CInv, WriteBlock
  PROVE  Channel!Send
<1>0. run.count \in Nat
  BY MdCommonAssumption DEF CInv, RunOK
<1>1. PICK m \in 1..run.count : m = Len(sent) /\ m \in Nat
  BY <1>0 DEF CInv, WriteBlock, Zipped, Stage
<1>2. PICK B : B = Block(m, key') /\ Write(B)
  BY <1>1 DEF WriteBlock
<1>3. /\ IsList(sent') /\ Len(sent') = m + 1 /\ \A k \in 1..m : sent'[k] = sent[k]
      /\ sent'[m + 1] = B
  BY <1>1, <1>2, Written DEF CInv, Zipped
<1>4. IsList(B) /\ Len(B) \in Nat
  <2>1. PICK K : K = key'
    OBVIOUS
  <2>2. BlockShape(B, m, K)
    BY <1>2, <2>1, BlockLayout DEF CInv
  <2> QED
    BY <2>2, RecordFields DEF BlockShape, CInv
<1>5. IsList(Values(B)) /\ Len(Values(B)) = Len(B)
  <2>1. DOMAIN B = 1..Len(B)
    BY <1>4, ListIsSeq
  <2>2. Values(B) = [i \in 1..Len(B) |-> Values(B)[i]]
    BY <2>1 DEF Values
  <2> QED
    BY <1>4, <2>2, ListOf
<1>6. /\ IsList(Sent) /\ Len(Sent) = m - 1 /\ \A k \in 1..(m - 1) : Sent[k] = Values(sent[k + 1])
      /\ IsList(Arriving) /\ Len(Arriving) = m - 1 /\ DOMAIN Arriving = 1..(m - 1)
      /\ \A k \in 1..(m - 1) : Arriving[k] = Kept(k + 1)
  <2>1. PICK l \in Nat : l = m - 1
    BY <1>1
  <2>2. /\ Sent = [k \in 1..l |-> Sent[k]] /\ \A k \in 1..l : Sent[k] = Values(sent[k + 1])
        /\ Arriving = [k \in 1..l |-> Arriving[k]] /\ \A k \in 1..l : Arriving[k] = Kept(k + 1)
        /\ DOMAIN Arriving = 1..l
    BY <1>1, <2>1 DEF Sent, Arriving
  <2> QED
    BY <2>1, <2>2, ListOf
<1>7. PICK a, r, t : a = Sent' /\ r = Arriving' /\ t = sent'
  OBVIOUS
<1>8. PICK kept : kept = [k \in 1..(m + 1) |-> Kept(k)']
  OBVIOUS
<1>9. /\ IsList(a) /\ Len(a) = m /\ \A k \in 1..m : a[k] = Values(t[k + 1])
      /\ IsList(r) /\ Len(r) = m /\ \A k \in 1..m : r[k] = kept[k + 1]
  <2>1. (m + 1) - 1 = m /\ Len(sent') - 1 = m /\ \A k \in 1..m : k + 1 \in 1..(m + 1)
    BY <1>1, <1>3
  <2>2. /\ a = [k \in 1..m |-> a[k]] /\ \A k \in 1..m : a[k] = Values(t[k + 1])
    BY <1>7, <2>1 DEF Sent
  <2>3. /\ r = [k \in 1..m |-> r[k]] /\ \A k \in 1..m : r[k] = kept[k + 1]
    BY <1>7, <1>8, <2>1 DEF Arriving
  <2> QED
    BY <1>1, <2>2, <2>3, ListOf
<1>10. DOMAIN sent = 1..m /\ DOMAIN sent' = 1..(m + 1) /\ \A k \in 1..m : k \in 1..(m + 1) /\ ~(k > m + 1) /\ k # m + 1
  BY <1>1, <1>3, ListIsSeq DEF CInv, Zipped
<1>11. \A k \in 1..m : kept[k] = Kept(k)
  <2>1. ASSUME NEW k \in 1..m PROVE kept[k] = Kept(k)
    <3>1. kept[k] = Kept(k)'
      BY <1>8, <1>10
    <3>2. CASE cut' = cut
      BY <1>3, <1>10, <3>1, <3>2 DEF Kept
    <3>3. CASE cut' # cut
      <4>1. cut = Never /\ \E n \in 0..(Len(B) - 1) : cut' = <<m + 1, n>>
        BY <1>1, <1>2, <3>3 DEF Write
      <4> QED
        BY <1>3, <1>10, <3>1, <4>1 DEF Kept
    <3> QED
      BY <3>2, <3>3
  <2> QED
    BY <2>1
<1>12. /\ kept[m + 1] \in 0..Len(B)
       /\ cut # Never => kept[m + 1] = 0
  <2>1. kept[m + 1] = Kept(m + 1)' /\ m + 1 \in 1..(m + 1)
    BY <1>1, <1>8
  <2>2. CASE cut = Never /\ cut' = cut
    BY <1>3, <1>4, <1>10, <2>1, <2>2 DEF Kept
  <2>3. CASE cut # Never
    <3>1. cut' = cut
      BY <1>2, <2>3 DEF Write
    <3>2. PICK c \in 1..m : \E n \in 0..(Len(sent[c]) - 1) : cut = <<c, n>>
      BY <1>1, <2>3 DEF CInv, Zipped, CutOK, CutAt
    <3>3. m + 1 > c /\ cut[1] = c
      BY <3>2
    <3> QED
      BY <1>4, <2>1, <2>3, <3>1, <3>3 DEF Kept
  <2>4. CASE cut = Never /\ cut' # cut
    <3>1. PICK n \in 0..(Len(B) - 1) : cut' = <<m + 1, n>>
      BY <1>1, <1>2, <2>4 DEF Write
    <3>2. kept[m + 1] = n
      BY <1>1, <1>10, <2>1, <2>4, <3>1 DEF Kept
    <3> QED
      BY <1>4, <2>4, <3>1, <3>2
  <2> QED
    BY <2>2, <2>3, <2>4
<1>13. SubSeq(a, 1, Len(Sent)) = Sent
  <2>1. PICK l \in Nat : l = m - 1 /\ l <= m
    BY <1>1
  <2>2. \A k \in 1..l : k \in 1..m /\ k + 1 \in 1..m
    BY <2>1
  <2>3. \A k \in 1..l : a[k] = Sent[k]
    BY <1>3, <1>6, <1>7, <1>9, <2>1, <2>2
  <2>4. SubSeq(a, 1, l) = SubSeq(Sent, 1, l)
    BY <1>6, <1>9, <2>1, <2>3, FirstOf
  <2> QED
    BY <1>6, <2>1, <2>4, AllOf
<1>14. a[m] = Values(B) /\ Len(a[m]) = Len(B)
  BY <1>1, <1>3, <1>5, <1>7, <1>9
<1>15. r = Append(Arriving, kept[m + 1])
  <2>1. PICK z : z = Append(Arriving, kept[m + 1])
    OBVIOUS
  <2>2. /\ IsList(z) /\ Len(z) = m /\ \A k \in 1..(m - 1) : z[k] = Arriving[k]
        /\ z[m] = kept[m + 1]
    BY <1>1, <1>6, <2>1, Appended
  <2>3. ASSUME NEW k \in 1..m PROVE r[k] = z[k]
    <3>1. CASE k = m
      BY <1>9, <2>2, <3>1
    <3>2. CASE k # m
      <4>1. k \in 1..(m - 1) /\ k + 1 \in 1..m
        BY <1>1, <3>2
      <4> QED
        BY <1>6, <1>9, <1>11, <2>2, <4>1
    <3> QED
      BY <3>1, <3>2
  <2> QED
    BY <1>9, <2>1, <2>2, <2>3, SameList
<1>16. Channel!Cut => cut # Never
  <2>1. SUFFICES ASSUME NEW k \in 1..(m - 1), Kept(k + 1) < Len(Values(sent[k + 1])) PROVE cut # Never
    BY <1>6 DEF Channel!Cut, Sent, Arriving
  <2>2. k + 1 \in 1..m
    BY <1>1
  <2>3. IsList(sent[k + 1]) /\ DOMAIN sent[k + 1] = 1..Len(sent[k + 1]) /\ Len(sent[k + 1]) \in Nat
    BY <1>1, <2>2, Records, ListIsSeq DEF CInv
  <2>4. Len(Values(sent[k + 1])) = Len(sent[k + 1])
    <3>1. Values(sent[k + 1]) = [i \in 1..Len(sent[k + 1]) |-> Values(sent[k + 1])[i]]
      BY <2>3 DEF Values
    <3> QED
      BY <2>3, <3>1, ListOf
  <2> QED
    BY <1>10, <2>1, <2>2, <2>3, <2>4 DEF Kept
<1>17. got = <<>> /\ got' = got
  BY ZippersFirst DEF CInv, Zipping, unzipVars
<1>18. Got = <<>> /\ Got' = Got
  BY <1>17, Mapped DEF Got
<1> QED
  <2>1. Len(a) = Len(Sent) + 1 /\ Len(a) = m
    BY <1>1, <1>6, <1>9
  <2>2. PICK n \in 0..Len(a[Len(a)]) : r = Append(Arriving, n) /\ (Channel!Cut => n = 0)
    BY <1>12, <1>14, <1>15, <1>16, <2>1
  <2> QED
    BY <1>7, <1>13, <1>18, <2>1, <2>2 DEF Channel!Send, Sent, Arriving, Got

LEMMA SameChannel ==
  ASSUME UNCHANGED zipVars
  PROVE  UNCHANGED <<Sent, Arriving>>
<1>1. sent' = sent /\ \A k : Kept(k)' = Kept(k)
  BY SameContainer DEF zipVars
<1>2. \A k : Kept(k + 1)' = Kept(k + 1)
  BY <1>1
<1> QED
  BY <1>1, <1>2 DEF Sent, Arriving

\* A turn of the block loop takes the next record off the channel.
LEMMA TurnDeliversRecord ==
  ASSUME CInv, NEW job \in {"list", "unzip"}, NEW rec, TurnTo(rec, job)
  PROVE  Channel!Deliver
<1>1. PICK n \in Nat : n = Len(got) /\ IsList(Got) /\ Len(Got) = n /\ \A i \in 1..n : Got[i] = got[i].fields
  BY Mapped
<1>2. PICK b \in 1..run.count : b = n + 1
  BY <1>1, MdCommonAssumption DEF TurnTo, CInv, RunOK
<1>3. rpc # "off" /\ UNCHANGED zipVars /\ got' = Append(got, rec) /\ RecordRead(b, rec)
  BY <1>1, <1>2 DEF TurnTo
<1>4. UNCHANGED <<Sent, Arriving>>
  BY <1>3, SameChannel
<1>5. PICK g : g = Got'
  OBVIOUS
<1>6. IsList(g) /\ Len(g) = b /\ \A i \in 1..n : g[i] = Got[i]
  <2>1. /\ IsList(got') /\ Len(got') = b /\ DOMAIN got' = 1..b /\ got'[b] = rec
        /\ \A i \in 1..n : got'[i] = got[i]
    <3>1. IsList(got) /\ Len(got) = n
      BY <1>1, Mapped
    <3>2. IsList(got') /\ Len(got') = b /\ got'[b] = rec /\ \A i \in 1..n : got'[i] = got[i]
      BY <1>2, <1>3, <3>1, Appended
    <3> QED
      BY <3>2, ListIsSeq
  <2>2. g = [i \in 1..b |-> g[i]] /\ \A i \in 1..b : g[i] = got'[i].fields
    BY <1>5, <2>1 DEF Got
  <2>3. \A i \in 1..n : i \in 1..b
    BY <1>2
  <2>4. b \in Nat
    BY <1>2
  <2>5. IsList(g) /\ Len(g) = b
    BY <2>2, <2>4, ListOf
  <2> QED
    BY <1>1, <2>1, <2>2, <2>3, <2>5
<1>7. g[b] = rec.fields
  <2>1. IsList(got) /\ Len(got) = n
    BY <1>1, Mapped
  <2>2. got'[b] = rec /\ DOMAIN got' = 1..b /\ b \in 1..b
    BY <1>2, <1>3, <2>1, Appended, ListIsSeq
  <2> QED
    BY <1>5, <2>2 DEF Got
<1>8. SubSeq(g, 1, n) = Got
  <2>1. SubSeq(g, 1, n) = SubSeq(Got, 1, n)
    BY <1>1, <1>2, <1>6, FirstOf
  <2> QED
    BY <1>1, <2>1, AllOf
<1>9. Fields \in Nat /\ DOMAIN g[b] = 1..Fields
  BY <1>3, <1>7, RecordFields, ListIsSeq DEF RecordRead, CInv
<1>10. PICK m \in Nat : m = Len(sent)
  BY DEF CInv, Zipped, IsList
<1>11. DOMAIN Sent = 1..(m - 1) /\ \A k \in 1..(m - 1) : Sent[k] = Values(sent[k + 1]) /\ Arriving[k] = Kept(k + 1)
  BY <1>10 DEF Sent, Arriving
<1>12. ASSUME b \in DOMAIN Sent
       PROVE  /\ Sent[b] = Values(sent[b + 1]) /\ DOMAIN Sent[b] = 1..Fields
              /\ \A i \in 1..Fields : Sent[b][i] = sent[b + 1][i].v
  <2>1. PICK K : Trail(K)
    BY DEF CInv, Zipped
  <2>2. BlockShape(sent[b + 1], b, K[b])
    BY <1>10, <1>11, <1>12, <2>1, Shapes DEF CInv, Zipped
  <2>3. DOMAIN sent[b + 1] = 1..Fields
    BY <2>2, ListIsSeq DEF BlockShape
  <2>4. Sent[b] = Values(sent[b + 1])
    BY <1>11, <1>12
  <2>5. PICK B : B = sent[b + 1]
    OBVIOUS
  <2>6. DOMAIN Values(B) = 1..Fields /\ \A i \in 1..Fields : Values(B)[i] = B[i].v
    BY <2>3, <2>5 DEF Values
  <2> QED
    BY <2>4, <2>5, <2>6
<1>13. Channel!Arrived(b) = Kept(b + 1) /\ (Kept(b + 1) # 0 => b \in DOMAIN Sent)
  <2>1. CASE b \in DOMAIN Sent
    BY <1>11, <2>1 DEF Channel!Arrived, Sent, Arriving
  <2>2. CASE b \notin DOMAIN Sent
    <3>1. b + 1 \notin 1..Len(sent)
      BY <1>2, <1>10, <1>11, <2>2
    <3>2. Kept(b + 1) = 0
      BY <3>1, Arrivals DEF CInv
    <3> QED
      BY <2>2, <3>2 DEF Channel!Arrived, Sent
  <2> QED
    BY <2>1, <2>2
<1>14. Kept(b + 1) \in Nat
  <2>1. CASE b + 1 \in 1..Len(sent)
    BY <2>1, Arrivals, Records DEF CInv
  <2>2. CASE b + 1 \notin 1..Len(sent)
    BY <2>2, Arrivals DEF CInv
  <2> QED
    BY <2>1, <2>2
<1>15. ASSUME NEW i \in 1..Fields
       PROVE  /\ i <= Kept(b + 1) => g[b][i] = Sent[b][i]
              /\ i > Kept(b + 1) /\ b > 1 => g[b][i] = Got[b - 1][i]
  <2>1. rec.fields[i] = IF i <= Kept(b + 1) THEN sent[b + 1][i].v
                        ELSE IF b = 1 THEN Initial(i) ELSE got[b - 1].fields[i]
    BY <1>3 DEF RecordRead
  <2>2. CASE i <= Kept(b + 1)
    <3>1. Kept(b + 1) # 0
      BY <1>9, <2>2
    <3> QED
      BY <1>7, <1>12, <1>13, <1>14, <2>1, <2>2, <3>1
  <2>3. CASE i > Kept(b + 1) /\ b > 1
    <3>1. b - 1 \in 1..n /\ ~(i <= Kept(b + 1)) /\ b # 1
      BY <1>2, <1>9, <1>14, <2>3
    <3> QED
      BY <1>1, <1>7, <1>14, <2>1, <2>3, <3>1
  <2> QED
    BY <2>2, <2>3
<1>16. \E c : /\ c = Len(Got) + 1 /\ Len(g) = c /\ SubSeq(g, 1, c - 1) = Got
              /\ c \in DOMAIN Sent => DOMAIN g[c] = DOMAIN Sent[c]
              /\ \A i \in DOMAIN g[c] :
                   /\ i <= Channel!Arrived(c) => g[c][i] = Sent[c][i]
                   /\ i > Channel!Arrived(c) /\ c > 1 => g[c][i] = Got[c - 1][i]
  <2>1. b = Len(Got) + 1 /\ b - 1 = n
    BY <1>1, <1>2
  <2>2. b \in DOMAIN Sent => DOMAIN g[b] = DOMAIN Sent[b]
    BY <1>9, <1>12
  <2>3. \A i \in DOMAIN g[b] :
          /\ i <= Channel!Arrived(b) => g[b][i] = Sent[b][i]
          /\ i > Channel!Arrived(b) /\ b > 1 => g[b][i] = Got[b - 1][i]
    BY <1>9, <1>13, <1>15
  <2> QED
    BY <1>6, <1>8, <2>1, <2>2, <2>3
<1> QED
  BY <1>4, <1>5, <1>16 DEF Channel!Deliver, Sent, Arriving, Got

\* The container is the channel it claims to be, step by step.
LEMMA ChannelStep == CInv /\ [Next]_vars => [Channel!Next]_(Channel!vars)
<1> SUFFICES ASSUME CInv, [Next]_vars PROVE Channel!Next \/ UNCHANGED Channel!vars
  BY DEF Channel!Next
<1>1. CASE WriteHeader \/ CrashInStream
  BY <1>1, HeaderStutters
<1>2. CASE WriteBlock
  BY <1>2, BlockSends DEF Channel!Next
<1>3. CASE ~Zipping
  <2>1. /\ UNCHANGED zipVars
        /\ Still \/ StartsOver \/ \E job \in {"list", "unzip"} : \E rec : TurnTo(rec, job)
    BY <1>3, Effects DEF CInv
  <2>2. UNCHANGED <<Sent, Arriving>>
    BY <2>1, SameChannel
  <2>3. CASE Still
    <3>1. Got' = Got
      BY <2>3 DEF Still, Got
    <3> QED
      BY <2>2, <3>1 DEF Channel!vars, Sent, Arriving, Got
  <2>4. CASE StartsOver
    <3>1. Got' = <<>>
      <4>1. got' = <<>>
        BY <2>4 DEF StartsOver
      <4>2. PICK z : z = Got'
        OBVIOUS
      <4>3. z = [i \in 1..0 |-> z[i]]
        BY <4>1, <4>2 DEF Got
      <4> QED
        BY <4>2, <4>3, ListOf, EmptyList
    <3> QED
      BY <2>2, <3>1 DEF Channel!Next, Channel!Restart, Sent, Arriving, Got
  <2>5. CASE \E job \in {"list", "unzip"} : \E rec : TurnTo(rec, job)
    BY <2>5, TurnDeliversRecord DEF Channel!Next
  <2> QED
    BY <2>1, <2>3, <2>4, <2>5
<1> QED
  BY <1>1, <1>2, <1>3 DEF Zipping

\* Whatever the command line, the file, the keys and the place the disk filled up at, the
\* zippers and the unzippers together are a channel of block records: field by field they
\* agree where every digest, exponent and remainder is, and past a cut a record repeats
\* the one before.
THEOREM ContainerIsChannel == Spec => ChannelSpec
<1>1. Init => Channel!Init
  BY ChannelInit0
<1>2. CInv /\ [Next]_vars => [Channel!Next]_(Channel!vars)
  BY ChannelStep
<1> QED
  BY <1>1, <1>2, ContainerInv, PTL DEF Spec, ChannelSpec, Channel!Spec

----------------------------------------------------------------------------
(* What a container weighs.                                                *)
Running(f, a) ==
  /\ f \in [0..Len(a) -> Nat] /\ f[0] = 0
  /\ \A i \in 1..Len(a) : f[i] = f[i - 1] + a[i]
Naturals(a) == IsList(a) /\ \A i \in 1..Len(a) : a[i] \in Nat

LEMMA RunningSum ==
  ASSUME NEW a, Naturals(a)
  PROVE  \E f : Running(f, a) /\ Old!Total(a) = f[Len(a)]
BY Sums DEF Running, Naturals

\* Where b is a part of a, the sum of a grows by the sum of b.
LEMMA Segment ==
  ASSUME NEW a, NEW b, Naturals(a), Naturals(b), NEW f, Running(f, a), NEW k \in Nat, k + Len(b) <= Len(a),
         \A i \in 1..Len(b) : a[k + i] = b[i]
  PROVE  f[k + Len(b)] = f[k] + Old!Total(b) /\ f[k] \in Nat /\ Old!Total(b) \in Nat
<1>1. PICK n \in Nat, m \in Nat : n = Len(a) /\ m = Len(b)
  BY DEF Naturals, IsList
<1>2. PICK g : Running(g, b) /\ Old!Total(b) = g[m]
  BY <1>1, RunningSum
<1> DEFINE Off == {i \in 0..m : f[k + i] # f[k] + g[i]}
<1>3. f \in [0..n -> Nat] /\ g \in [0..m -> Nat] /\ k \in 0..n /\ g[0] = 0 /\ k + m <= n
  BY <1>1, <1>2 DEF Running
<1>4. SUFFICES ASSUME Off # {} PROVE FALSE
  <2>1. ASSUME Off = {} PROVE f[k + m] = f[k] + g[m]
    <3>1. m \in 0..m
      BY <1>1
    <3> QED
      BY <2>1, <3>1
  <2>2. f[k] \in Nat /\ g[m] \in Nat
    BY <1>1, <1>3
  <2> HIDE DEF Off
  <2> QED
    BY <1>1, <1>2, <1>4, <2>1, <2>2
<1>5. Off \in SUBSET Nat
  OBVIOUS
<1>6. PICK i \in Off : \A j \in Off : i <= j
  <2> HIDE DEF Off
  <2> QED
    BY <1>4, <1>5, LeastIsLeast
<1>7. i # 0
  <2>1. k + 0 = k /\ f[k] \in Nat
    BY <1>3
  <2> QED
    BY <1>3, <1>6, <2>1
<1>8. i \in 1..m /\ i - 1 \in 0..m /\ ~(i <= i - 1)
  BY <1>1, <1>6, <1>7
<1>9. f[k + (i - 1)] = f[k] + g[i - 1]
  BY <1>6, <1>8
<1>10. f[k + i] = f[k + (i - 1)] + b[i]
  <2>1. k + i \in 1..n /\ (k + i) - 1 = k + (i - 1)
    BY <1>3, <1>8
  <2> QED
    BY <1>1, <1>8, <2>1 DEF Running
<1>11. g[i] = g[i - 1] + b[i]
  BY <1>1, <1>2, <1>8 DEF Running
<1>12. f[k] \in Nat /\ g[i - 1] \in Nat /\ b[i] \in Nat
  BY <1>1, <1>3, <1>8 DEF Naturals
<1>13. f[k + i] # f[k] + g[i]
  BY <1>6
<1> QED
  BY <1>9, <1>10, <1>11, <1>12, <1>13

\* A longer beginning is no lighter.
LEMMA RunningGrows ==
  ASSUME NEW a, Naturals(a), NEW f, Running(f, a), NEW k \in 0..Len(a), NEW l \in 0..Len(a), k <= l
  PROVE  f[k] \in Nat /\ f[l] \in Nat /\ f[k] <= f[l]
<1>1. PICK n \in Nat : n = Len(a)
  BY DEF Naturals, IsList
<1>2. f \in [0..n -> Nat]
  BY <1>1 DEF Running
<1> DEFINE Less == {i \in k..n : f[i] < f[k]}
<1>3. SUFFICES ASSUME Less # {} PROVE FALSE
  <2>1. l \in k..n /\ k \in 0..n /\ l \in 0..n
    BY <1>1
  <2> QED
    BY <1>2, <1>3, <2>1
<1>4. Less \in SUBSET Nat
  BY <1>1
<1>5. PICK i \in Less : \A j \in Less : i <= j
  <2> HIDE DEF Less
  <2> QED
    BY <1>3, <1>4, LeastIsLeast
<1>6. i # k
  BY <1>1, <1>2, <1>5
<1>7. i \in 1..n /\ i - 1 \in k..n /\ ~(i <= i - 1) /\ i - 1 \in 0..n /\ i \in 0..n /\ k \in 0..n
  BY <1>1, <1>5, <1>6
<1>8. f[i] = f[i - 1] + a[i] /\ a[i] \in Nat
  BY <1>1, <1>7 DEF Running, Naturals
<1>9. f[i - 1] \in Nat /\ f[i] \in Nat /\ f[k] \in Nat
  BY <1>2, <1>7
<1>10. ~(f[i - 1] < f[k])
  BY <1>5, <1>7
<1> QED
  BY <1>5, <1>8, <1>9, <1>10

\* Element by element no heavier.
LEMMA TotalGrows ==
  ASSUME NEW a, NEW b, Naturals(a), Naturals(b), Len(a) = Len(b), \A i \in 1..Len(a) : b[i] <= a[i]
  PROVE  Old!Total(b) <= Old!Total(a) /\ Old!Total(a) \in Nat /\ Old!Total(b) \in Nat
<1>1. PICK n \in Nat : n = Len(a)
  BY DEF Naturals, IsList
<1>2. PICK f : Running(f, a) /\ Old!Total(a) = f[n]
  BY <1>1, RunningSum
<1>3. PICK g : Running(g, b) /\ Old!Total(b) = g[n]
  BY <1>1, RunningSum
<1>4. f \in [0..n -> Nat] /\ g \in [0..n -> Nat] /\ f[0] = 0 /\ g[0] = 0 /\ n \in 0..n
  BY <1>1, <1>2, <1>3 DEF Running
<1> DEFINE More == {i \in 0..n : g[i] > f[i]}
<1>5. SUFFICES ASSUME More # {} PROVE FALSE
  BY <1>2, <1>3, <1>4
<1>6. More \in SUBSET Nat
  OBVIOUS
<1>7. PICK i \in More : \A j \in More : i <= j
  <2> HIDE DEF More
  <2> QED
    BY <1>5, <1>6, LeastIsLeast
<1>8. i \in 1..n /\ i - 1 \in 0..n /\ ~(i <= i - 1)
  BY <1>4, <1>7
<1>9. f[i] = f[i - 1] + a[i] /\ g[i] = g[i - 1] + b[i] /\ a[i] \in Nat /\ b[i] \in Nat /\ b[i] <= a[i]
  BY <1>1, <1>2, <1>3, <1>8 DEF Running, Naturals
<1>10. f[i - 1] \in Nat /\ g[i - 1] \in Nat /\ f[i] \in Nat /\ g[i] \in Nat
  BY <1>4, <1>8
<1>11. ~(g[i - 1] > f[i - 1]) /\ g[i] > f[i]
  BY <1>7, <1>8
<1> QED
  BY <1>9, <1>10, <1>11

\* A first number and then the same one over and over.
LEMMA TotalOfEqual ==
  ASSUME NEW a, Naturals(a), Len(a) >= 1, NEW r \in Nat, \A i \in 2..Len(a) : a[i] = r
  PROVE  Old!Total(a) = a[1] + (Len(a) - 1) * r
<1>1. PICK n \in Nat : n = Len(a) /\ n >= 1
  BY DEF Naturals, IsList
<1>2. PICK f : Running(f, a) /\ Old!Total(a) = f[n]
  BY <1>1, RunningSum
<1>3. f \in [0..n -> Nat] /\ f[0] = 0 /\ \A i \in 1..n : f[i] = f[i - 1] + a[i] /\ a[i] \in Nat
  BY <1>1, <1>2 DEF Running, Naturals
<1> DEFINE Off == {i \in 1..n : f[i] # a[1] + (i - 1) * r}
<1>4. SUFFICES ASSUME Off # {} PROVE FALSE
  <2>1. ASSUME Off = {} PROVE f[n] = a[1] + (n - 1) * r
    <3>1. n \in 1..n
      BY <1>1
    <3> QED
      BY <2>1, <3>1
  <2> HIDE DEF Off
  <2> QED
    BY <1>1, <1>2, <1>4, <2>1
<1>5. Off \in SUBSET Nat
  OBVIOUS
<1>6. PICK i \in Off : \A j \in Off : i <= j
  <2> HIDE DEF Off
  <2> QED
    BY <1>4, <1>5, LeastIsLeast
<1>7. i # 1
  <2>1. f[1] = f[1 - 1] + a[1] /\ a[1] \in Nat /\ 1 - 1 = 0 /\ 0 * r = 0
    BY <1>1, <1>3
  <2>2. f[1] = a[1] + (1 - 1) * r
    BY <1>3, <2>1
  <2> QED
    BY <1>6, <2>2
<1>8. i \in 2..n /\ i \in 1..n /\ i - 1 \in 1..n /\ ~(i <= i - 1) /\ 1 \in 1..n
  BY <1>1, <1>6, <1>7
<1>9. f[i] = f[i - 1] + r /\ a[1] \in Nat
  BY <1>1, <1>3, <1>8
<1>10. f[i - 1] = a[1] + ((i - 1) - 1) * r
  BY <1>6, <1>8
<1>11. ((i - 1) - 1) * r + r = (i - 1) * r /\ ((i - 1) - 1) * r \in Nat
  <2>1. PICK j \in Nat : j = (i - 1) - 1
    BY <1>8
  <2>2. i - 1 = j + 1 /\ j * r \in Nat /\ j * r + r = (j + 1) * r
    BY <2>1, <1>8
  <2> QED
    BY <2>1, <2>2
<1>12. f[i] # a[1] + (i - 1) * r
  BY <1>6
<1> QED
  BY <1>9, <1>10, <1>11, <1>12
\* What each of a list of signatures takes, and each of a list of writes.
SizesOf(switch, list) == [i \in DOMAIN list |-> switch[list[i]]]
Weights(items) == [i \in DOMAIN items |-> items[i].w]

LEMMA ListSizes ==
  ASSUME RunOK, NEW list, NameList(NumberOf, list), NEW switch, \A s \in Names : switch[s] \in Nat
  PROVE  /\ Naturals(SizesOf(switch, list)) /\ Len(SizesOf(switch, list)) = Len(list)
         /\ \A i \in 1..Len(list) : SizesOf(switch, list)[i] = switch[list[i]]
<1>1. DOMAIN list = 1..Len(list) /\ \A i \in 1..Len(list) : list[i] \in Names
  BY ListIsSeq DEF NameList, Names
<1>2. PICK n \in Nat : n = Len(list)
  BY DEF NameList, IsList
<1>3. PICK a : a = SizesOf(switch, list)
  OBVIOUS
<1>4. a = [i \in 1..n |-> a[i]] /\ \A i \in 1..n : a[i] = switch[list[i]]
  BY <1>1, <1>2, <1>3 DEF SizesOf
<1>5. IsList(a) /\ Len(a) = n
  BY <1>4, ListOf
<1> QED
  BY <1>1, <1>2, <1>3, <1>4, <1>5 DEF Naturals

\* The registry's sum is the sum of what is written.
LEMMA DigestsWeigh ==
  ASSUME RunOK, NEW list, NameList(NumberOf, list)
  PROVE  /\ DigestBytes(list) = Old!Total(SizesOf(WriteDigest, list)) /\ DigestBytes(list) \in Nat
         /\ list # <<>> => DigestBytes(list) >= 4
<1>1. \A s \in Names : SizeOfDigest[s] = WriteDigest[s] /\ WriteDigest[s] \in Nat /\ WriteDigest[s] >= 4
  <2>1. \A s \in Names : SizeOfDigest[s] = WriteDigest[s] /\ SizeOfDigest[s] \in 4..64
    BY SwitchesAgree DEF Agree
  <2> QED
    BY <2>1
<1>2. PICK a, b : a = SizesOf(WriteDigest, list) /\ b = SizesOf(SizeOfDigest, list)
  OBVIOUS
<1>3. /\ Naturals(a) /\ Len(a) = Len(list) /\ \A i \in 1..Len(list) : a[i] = WriteDigest[list[i]]
      /\ Naturals(b) /\ Len(b) = Len(list) /\ \A i \in 1..Len(list) : b[i] = SizeOfDigest[list[i]]
  BY <1>1, <1>2, ListSizes
<1>4. \A i \in 1..Len(list) : list[i] \in Names
  BY ListIsSeq DEF NameList, Names
<1>5. a = b
  <2>1. \A i \in 1..Len(a) : a[i] = b[i]
    BY <1>1, <1>3, <1>4
  <2> QED
    BY <1>3, <2>1, SameList DEF Naturals
<1>6. DigestBytes(list) = Old!Total(b)
  <2>1. \A numbers : New!Old!Total(numbers) = Old!Total(numbers)
    BY DEF New!Old!Total, Old!Total
  <2>2. CASE Sip47
    <3>1. b = [i \in DOMAIN list |-> New!hashblocksize[list[i]]]
      BY <1>2, <2>2 DEF SizesOf, SizeOfDigest
    <3> QED
      BY <2>1, <2>2, <3>1 DEF DigestBytes, New!calcBlockSize
  <2>3. CASE ~Sip47
    <3>1. b = [i \in DOMAIN list |-> Old!hashblocksize[list[i]]]
      BY <1>2, <2>3 DEF SizesOf, SizeOfDigest
    <3> QED
      BY <2>3, <3>1 DEF DigestBytes, Old!calcBlockSize
  <2> QED
    BY <2>2, <2>3
<1>7. Old!Total(a) \in Nat /\ (Len(a) > 0 => Old!Total(a) >= a[Len(a)])
  BY <1>3, TotalBounds DEF Naturals
<1>8. ASSUME list # <<>> PROVE Old!Total(a) >= 4
  <2>1. PICK n \in Nat : n = Len(list) /\ n > 0
    BY <1>8, EmptyList DEF NameList, IsList
  <2>2. n \in 1..n /\ a[n] \in Nat /\ a[n] >= 4
    BY <1>1, <1>3, <1>4, <2>1
  <2> QED
    BY <1>3, <1>7, <2>1, <2>2
<1> QED
  BY <1>2, <1>5, <1>6, <1>7, <1>8

LEMMA ItemsWeigh ==
  ASSUME NEW items, IsList(items), \A i \in 1..Len(items) : items[i].w \in Nat
  PROVE  /\ Naturals(Weights(items)) /\ Len(Weights(items)) = Len(items)
         /\ \A i \in 1..Len(items) : Weights(items)[i] = items[i].w
         /\ Width(items) = Old!Total(Weights(items)) /\ Width(items) \in Nat
<1>1. PICK n \in Nat : n = Len(items) /\ DOMAIN items = 1..n
  BY ListIsSeq DEF IsList
<1>2. PICK a : a = Weights(items)
  OBVIOUS
<1>3. a = [i \in 1..n |-> a[i]] /\ \A i \in 1..n : a[i] = items[i].w
  BY <1>1, <1>2 DEF Weights
<1>4. IsList(a) /\ Len(a) = n
  BY <1>3, ListOf
<1>5. Naturals(a)
  BY <1>1, <1>3, <1>4 DEF Naturals
<1>6. Width(items) = Old!Total(a)
  BY <1>2 DEF Width, Weights
<1>7. Old!Total(a) \in Nat
  BY <1>5, TotalBounds DEF Naturals
<1> QED
  BY <1>1, <1>2, <1>3, <1>4, <1>5, <1>6, <1>7

\* The bytes of a record, of the prefix, and of a file that is all there.
RecordBytes == DigestBytes(run.bl) + (IF Sip47 THEN 0 ELSE ExponentBytes(run.blocksize)) + modsizeBytes
NamedSizes == NameBytes(run.fl) + NameBytes(run.bl) + DigestBytes(run.fl)
KeySizes == IF cmd.rand THEN SizesOf(WriteKey, run.bl) ELSE <<>>
StreamBytes == IF Sip47 THEN 1 + calcBitstreamSize(run.count, Format) ELSE 0
PrefixBytes == IF NoHeader THEN 16 ELSE 40 + NamedSizes + Old!Total(KeySizes) + StreamBytes
Full == PrefixBytes + (run.count * RecordBytes)

LEMMA NoWeight == Naturals(<<>>) /\ Len(<<>>) = 0 /\ Old!Total(<<>>) = 0
<1>1. IsList(<<>>) /\ Len(<<>>) = 0
  BY Nothing
<1>2. Naturals(<<>>)
  BY <1>1 DEF Naturals
<1>3. PICK f : Running(f, <<>>) /\ Old!Total(<<>>) = f[0]
  BY <1>1, <1>2, RunningSum
<1> QED
  BY <1>1, <1>2, <1>3 DEF Running

LEMMA Bytes ==
  ASSUME RunOK
  PROVE  /\ modsizeBytes \in Nat /\ modsizeBytes >= 1 /\ ExponentBytes(run.blocksize) \in {1, 4}
         /\ calcBitstreamSize(run.count, Format) \in Nat
         /\ NameBytes(run.fl) \in Nat /\ NameBytes(run.bl) \in Nat
         /\ DigestBytes(run.fl) \in Nat /\ DigestBytes(run.bl) \in Nat /\ NamedSizes \in Nat
         /\ RecordBytes \in Nat /\ RecordBytes >= 1
         /\ Naturals(KeySizes) /\ Len(KeySizes) = KeyCount /\ Old!Total(KeySizes) \in Nat
         /\ StreamBytes \in Nat /\ PrefixBytes \in Nat /\ run.count \in Nat /\ run.count >= 1
<1>1. modsizeBytes \in Nat /\ modsizeBytes >= 1
  <2>1. PICK m \in Nat \ {0} : m = run.modsize
    BY DEF RunOK
  <2>2. m \div 8 \in Nat /\ (m >= 8 => m \div 8 >= 1) /\ (m % 8 = 0 => m >= 8)
    OBVIOUS
  <2> QED
    BY <2>1, <2>2 DEF modsizeBytes, calcModulusBytes
<1>2. ExponentBytes(run.blocksize) \in {1, 4}
  BY DEF ExponentBytes
<1>3. run.count \in Nat /\ run.count >= 1
  BY MdCommonAssumption DEF RunOK
<1>4. calcBitstreamSize(run.count, Format) \in Nat
  <2>1. Format \in 2..7
    BY DEF Format, calcMinMaxExponent, setDiffFormat
  <2>2. PICK bits \in Nat : bits = (run.count * Format) + (IF Format < 7 THEN 14 ELSE 0)
    <3>1. run.count * Format \in Nat
      BY <1>3, <2>1
    <3> QED
      BY <3>1
  <2>3. bits \div 8 \in Nat
    BY <2>2
  <2> QED
    BY <2>2, <2>3 DEF calcBitstreamSize
<1>5. NameBytes(run.fl) \in Nat /\ NameBytes(run.bl) \in Nat
  BY NamesTakeBytes DEF RunOK
<1>6. DigestBytes(run.fl) \in Nat /\ DigestBytes(run.bl) \in Nat
  BY DigestsWeigh DEF RunOK
<1>7. Naturals(KeySizes) /\ Len(KeySizes) = KeyCount
  <2>1. CASE cmd.rand
    <3>1. \A s \in Names : WriteKey[s] \in Nat
      BY SwitchesAgree DEF Agree
    <3>2. Naturals(SizesOf(WriteKey, run.bl)) /\ Len(SizesOf(WriteKey, run.bl)) = Len(run.bl)
      BY <3>1, ListSizes DEF RunOK
    <3> QED
      BY <2>1, <3>2 DEF KeySizes, KeyCount
  <2>2. CASE ~cmd.rand
    BY <2>2, NoWeight DEF KeySizes, KeyCount
  <2> QED
    BY <2>1, <2>2
<1>8. Old!Total(KeySizes) \in Nat
  BY <1>7, TotalBounds DEF Naturals
<1>9. NamedSizes \in Nat /\ StreamBytes \in Nat
  BY <1>4, <1>5, <1>6 DEF NamedSizes, StreamBytes
<1>10. PrefixBytes \in Nat
  BY <1>8, <1>9 DEF PrefixBytes
<1>11. RecordBytes \in Nat /\ RecordBytes >= 1
  BY <1>1, <1>2, <1>6 DEF RecordBytes
<1> QED
  BY <1>1, <1>2, <1>3, <1>4, <1>5, <1>6, <1>7, <1>8, <1>9, <1>10, <1>11

LEMMA RecordWeight ==
  ASSUME RunOK, NEW B, NEW b, NEW K, BlockShape(B, b, K)
  PROVE  Width(B) = RecordBytes /\ IsList(B) /\ \A i \in 1..Len(B) : B[i].w \in Nat
<1>1. PICK n \in Nat : n = Len(run.bl) /\ \A i \in 1..n : run.bl[i] \in Names
  BY Sizes
<1>2. IsList(B) /\ Len(B) = Fields /\ Fields = IF Sip47 THEN n + 1 ELSE n + 2
  <2>1. IF Sip47 THEN Fields = n + 1 ELSE Fields = n + 2
    BY <1>1 DEF Fields
  <2> QED
    BY <2>1 DEF BlockShape
<1>3. PICK d : d = SizesOf(WriteDigest, run.bl)
  OBVIOUS
<1>4. \A s \in Names : WriteDigest[s] \in Nat
  <2>1. \A s \in Names : WriteDigest[s] = SizeOfDigest[s] /\ SizeOfDigest[s] \in 4..64
    BY SwitchesAgree DEF Agree
  <2> QED
    BY <2>1
<1>5. Naturals(d) /\ Len(d) = n /\ \A i \in 1..n : d[i] = WriteDigest[run.bl[i]]
  BY <1>1, <1>3, <1>4, ListSizes DEF RunOK
<1>6. Old!Total(d) = DigestBytes(run.bl) /\ DigestBytes(run.bl) \in Nat
  BY <1>3, DigestsWeigh DEF RunOK
<1>7. /\ \A i \in 1..n : B[i].w = d[i]
      /\ ~Sip47 => B[n + 1].w = ExponentBytes(run.blocksize)
      /\ B[Fields].w = modsizeBytes
  BY <1>1, <1>5, RecordHolds
<1>8. PICK e, m : e = ExponentBytes(run.blocksize) /\ m = modsizeBytes /\ e \in Nat /\ m \in Nat
  BY Bytes
<1>9. \A i \in 1..Len(B) : B[i].w \in Nat
  <2>1. \A i \in 1..n : d[i] \in Nat
    BY <1>5 DEF Naturals
  <2>2. \A i \in 1..Fields : i \in 1..n \/ (~Sip47 /\ i = n + 1) \/ i = Fields
    BY <1>1, <1>2
  <2> QED
    BY <1>2, <1>7, <1>8, <2>1, <2>2
<1>10. PICK w : /\ w = Weights(B) /\ Naturals(w) /\ Len(w) = Fields /\ Width(B) = Old!Total(w)
                /\ \A i \in 1..Fields : w[i] = B[i].w
  BY <1>2, <1>9, ItemsWeigh
<1>11. PICK f : Running(f, w) /\ Old!Total(w) = f[Fields]
  BY <1>10, RunningSum
<1>12. f[n] = DigestBytes(run.bl)
  <2>1. 0 + n = n /\ n <= Fields /\ \A i \in 1..n : i \in 1..Fields /\ 0 + i = i
    BY <1>2
  <2>2. \A i \in 1..n : w[0 + i] = d[i]
    BY <1>7, <1>10, <2>1
  <2>3. f[0 + n] = f[0] + Old!Total(d)
    BY <1>5, <1>10, <1>11, <2>1, <2>2, Segment
  <2>4. f[0] = 0
    BY <1>11 DEF Running
  <2> QED
    BY <1>6, <2>1, <2>3, <2>4
<1>13. \A i \in 1..Fields : f[i] = f[i - 1] + w[i]
  BY <1>10, <1>11 DEF Running
<1>14. CASE Sip47
  <2>1. Fields = n + 1 /\ n + 1 \in 1..Fields /\ (n + 1) - 1 = n
    BY <1>2, <1>14
  <2>2. f[n + 1] = DigestBytes(run.bl) + m
    BY <1>7, <1>8, <1>10, <1>12, <1>13, <2>1
  <2>3. RecordBytes = DigestBytes(run.bl) + m
    BY <1>6, <1>8, <1>14 DEF RecordBytes
  <2> QED
    BY <1>2, <1>9, <1>10, <1>11, <2>1, <2>2, <2>3
<1>15. CASE ~Sip47
  <2>1. /\ Fields = n + 2 /\ n + 1 \in 1..Fields /\ n + 2 \in 1..Fields
        /\ (n + 1) - 1 = n /\ (n + 2) - 1 = n + 1
    BY <1>2, <1>15
  <2>2. f[n + 1] = DigestBytes(run.bl) + e
    BY <1>7, <1>8, <1>10, <1>12, <1>13, <1>15, <2>1
  <2>3. f[n + 2] = f[n + 1] + m
    BY <1>7, <1>8, <1>10, <1>13, <2>1
  <2>4. RecordBytes = DigestBytes(run.bl) + e + m
    BY <1>6, <1>8, <1>15 DEF RecordBytes
  <2> QED
    BY <1>2, <1>6, <1>8, <1>9, <1>10, <1>11, <2>1, <2>2, <2>3, <2>4
<1> QED
  BY <1>14, <1>15

\* The sums of the prefix, write by write.
PrefixSums(P, f) ==
  /\ IsList(P) /\ \A i \in 1..Len(P) : P[i].w \in Nat
  /\ Running(f, Weights(P)) /\ Width(P) = f[Len(P)] /\ f[Len(P)] = PrefixBytes
  /\ ~NoHeader => /\ f[8 + Len(run.fl)] = 36 + NamedSizes /\ f[9 + Len(run.fl)] = 40 + NamedSizes
                  /\ f[HeaderLength] = 40 + NamedSizes + Old!Total(KeySizes)

LEMMA BuiltInSums ==
  ASSUME RunOK, NEW P, NEW K, PrefixShape(P, K), NoHeader
  PROVE  \E f : PrefixSums(P, f)
<1>1. IsList(P) /\ Len(P) = 2 /\ P[1].w = 8 /\ P[2].w = 8
  <2>1. \A w, v : It(w, v).w = w
    BY DEF It
  <2> QED
    BY <2>1 DEF PrefixShape
<1>2. \A i \in 1..2 : i = 1 \/ i = 2
  OBVIOUS
<1>3. \A i \in 1..Len(P) : P[i].w \in Nat
  BY <1>1, <1>2
<1>4. PICK w : /\ w = Weights(P) /\ Naturals(w) /\ Len(w) = 2 /\ Width(P) = Old!Total(w)
               /\ \A i \in 1..2 : w[i] = P[i].w
  BY <1>1, <1>3, ItemsWeigh
<1>5. PICK f : Running(f, w) /\ Old!Total(w) = f[2]
  BY <1>4, RunningSum
<1>6. f[0] = 0 /\ f[1] = f[0] + 8 /\ f[2] = f[1] + 8
  <2>1. f[0] = 0 /\ \A i \in 1..2 : f[i] = f[i - 1] + w[i]
    BY <1>4, <1>5 DEF Running
  <2>2. 1 - 1 = 0 /\ 2 - 1 = 1 /\ 1 \in 1..2 /\ 2 \in 1..2
    OBVIOUS
  <2> QED
    BY <1>1, <1>4, <2>1, <2>2
<1> QED
  BY <1>1, <1>3, <1>4, <1>5, <1>6 DEF PrefixSums, PrefixBytes

LEMMA StoredSums ==
  ASSUME RunOK, NEW P, NEW K, PrefixShape(P, K), ~NoHeader
  PROVE  \E f : PrefixSums(P, f)
<1>1. PICK nf \in Nat, nk \in Nat, top \in Nat :
        nf = Len(run.fl) /\ nk = KeyCount /\ top = HeaderLength /\ top = 9 + nf + nk
  BY Sizes DEF HeaderLength
<1>2. IsList(P) /\ HeaderShape(P, K) /\ Len(P) = IF Sip47 THEN top + 2 ELSE top
  BY <1>1 DEF PrefixShape
<1>3. PICK d, k : d = SizesOf(WriteDigest, run.fl) /\ k = KeySizes
  OBVIOUS
<1>4. \A w, v : It(w, v).w = w
  BY DEF It
<1>5. /\ Naturals(d) /\ Len(d) = nf /\ \A i \in 1..nf : P[8 + i].w = d[i]
      /\ Old!Total(d) = DigestBytes(run.fl)
  <2>1. \A s \in Names : WriteDigest[s] \in Nat
    <3>1. \A s \in Names : WriteDigest[s] = SizeOfDigest[s] /\ SizeOfDigest[s] \in 4..64
      BY SwitchesAgree DEF Agree
    <3> QED
      BY <3>1
  <2>2. Naturals(d) /\ Len(d) = nf /\ \A i \in 1..nf : d[i] = WriteDigest[run.fl[i]]
    <3>1. PICK list, switch : list = run.fl /\ switch = WriteDigest
      OBVIOUS
    <3>2. NameList(NumberOf, list)
      BY <3>1 DEF RunOK
    <3>3. \A s \in Names : switch[s] \in Nat
      BY <2>1, <3>1
    <3>4. /\ Naturals(SizesOf(switch, list)) /\ Len(SizesOf(switch, list)) = Len(list)
          /\ \A i \in 1..Len(list) : SizesOf(switch, list)[i] = switch[list[i]]
      BY <3>2, <3>3, ListSizes
    <3> QED
      BY <1>1, <1>3, <3>1, <3>4
  <2>3. \A i \in 1..nf : FileDigests[i].w = WriteDigest[run.fl[i]]
    BY <1>1, DigestsAreList DEF FileDigests, RunOK, NameList
  <2>4. \A i \in 1..nf : P[8 + i] = FileDigests[i]
    BY <1>1, <1>2 DEF HeaderShape
  <2>5. Old!Total(d) = DigestBytes(run.fl)
    BY <1>3, DigestsWeigh DEF RunOK
  <2> QED
    BY <2>2, <2>3, <2>4, <2>5
<1>6. Naturals(k) /\ Len(k) = nk /\ \A i \in 1..nk : P[(9 + nf) + i].w = k[i]
  <2>1. Naturals(k) /\ Len(k) = nk
    BY <1>1, <1>3, Bytes
  <2>2. ASSUME NEW i \in 1..nk PROVE P[(9 + nf) + i].w = k[i]
    <3>1. cmd.rand
      BY <1>1 DEF KeyCount
    <3>2. \A s \in Names : WriteKey[s] \in Nat
      BY SwitchesAgree DEF Agree
    <3>3. k[i] = WriteKey[run.bl[i]]
      <4>1. PICK list, switch : list = run.bl /\ switch = WriteKey
        OBVIOUS
      <4>2. NameList(NumberOf, list) /\ \A s \in Names : switch[s] \in Nat
        BY <3>2, <4>1 DEF RunOK
      <4>3. \A j \in 1..Len(list) : SizesOf(switch, list)[j] = switch[list[j]]
        BY <4>2, ListSizes
      <4>4. nk = Len(list) /\ k = SizesOf(switch, list)
        BY <1>1, <1>3, <3>1, <4>1 DEF KeySizes, KeyCount
      <4> QED
        BY <4>1, <4>3, <4>4
    <3>4. P[(9 + nf) + i] = It(WriteKey[run.bl[i]], K[run.bl[i]])
      BY <1>1, <1>2 DEF HeaderShape
    <3> QED
      BY <1>4, <3>3, <3>4
  <2> QED
    BY <2>1, <2>2
<1>7. PICK x, y \in Nat : x = NameBytes(run.fl) /\ y = NameBytes(run.bl) /\ x \in Nat
  BY Bytes
<1>8. /\ P[1].w = 8 /\ P[2].w = 8 /\ P[3].w = 8 /\ P[4].w = 4 /\ P[5].w = 4 /\ P[6].w = x
      /\ P[7].w = 4 /\ P[8].w = y /\ P[9 + nf].w = 4
  <2>1. /\ P[1] = It(8, Version) /\ P[2] = It(8, cmd.filesize) /\ P[3] = It(8, run.blocksize)
        /\ P[4] = It(4, run.modsize)
        /\ P[5] = It(4, NameBytes(run.fl)) /\ P[6] = It(NameBytes(run.fl), run.fl)
        /\ P[7] = It(4, NameBytes(run.bl)) /\ P[8] = It(NameBytes(run.bl), run.bl)
    BY <1>2 DEF HeaderShape
  <2>2. P[9 + nf].w = 4
    BY <1>1, <1>2, <1>4 DEF HeaderShape
  <2> QED
    BY <1>4, <1>7, <2>1, <2>2
<1>9. PICK c \in Nat : c = calcBitstreamSize(run.count, Format)
  BY Bytes
<1>10. Sip47 => P[top + 1].w = 1 /\ P[top + 2].w = c
  <2>1. (top + 2) - 1 = top + 1
    OBVIOUS
  <2>2. Sip47 => /\ P[Len(P) - 1] = It(1, Format)
                 /\ P[Len(P)] = It(calcBitstreamSize(run.count, Format), Stream(Exponents))
    BY DEF PrefixShape
  <2> QED
    BY <1>2, <1>4, <1>9, <2>1, <2>2
<1>11. \A i \in 1..Len(P) : P[i].w \in Nat
  <2>1. \A i \in 1..8 : P[i].w \in Nat
    <3>1. \A i \in 1..8 : i = 1 \/ i = 2 \/ i = 3 \/ i = 4 \/ i = 5 \/ i = 6 \/ i = 7 \/ i = 8
      OBVIOUS
    <3> QED
      BY <1>7, <1>8, <3>1
  <2>2. \A i \in 1..nf : P[8 + i].w \in Nat
    BY <1>5 DEF Naturals
  <2>3. \A i \in 1..nk : P[(9 + nf) + i].w \in Nat
    BY <1>6 DEF Naturals
  <2>4. ASSUME NEW i \in 1..Len(P) PROVE P[i].w \in Nat
    <3>1. CASE i \in 1..8
      BY <2>1, <3>1
    <3>2. CASE i > 8 /\ i <= 8 + nf
      <4>1. i - 8 \in 1..nf /\ 8 + (i - 8) = i
        BY <1>2, <3>2
      <4> QED
        BY <2>2, <4>1
    <3>3. CASE i = 9 + nf
      BY <1>8, <3>3
    <3>4. CASE i > 9 + nf /\ i <= top
      <4>1. i - (9 + nf) \in 1..nk /\ (9 + nf) + (i - (9 + nf)) = i
        BY <1>1, <1>2, <3>4
      <4> QED
        BY <2>3, <4>1
    <3>5. CASE i > top
      <4>1. Sip47 /\ (i = top + 1 \/ i = top + 2)
        BY <1>2, <3>5
      <4> QED
        BY <1>9, <1>10, <4>1
    <3> QED
      BY <1>1, <1>2, <3>1, <3>2, <3>3, <3>4, <3>5
  <2> QED
    BY <2>4
<1>12. PICK n \in Nat : n = Len(P)
  BY <1>2
<1>13. PICK w : /\ w = Weights(P) /\ Naturals(w) /\ Len(w) = n /\ Width(P) = Old!Total(w)
                /\ \A i \in 1..n : w[i] = P[i].w
  BY <1>2, <1>11, <1>12, ItemsWeigh
<1>14. PICK f : Running(f, w) /\ Old!Total(w) = f[n]
  BY <1>13, RunningSum
<1>15. n >= top /\ top >= 9 + nf /\ f[0] = 0 /\ \A i \in 1..n : f[i] = f[i - 1] + P[i].w
  BY <1>1, <1>2, <1>12, <1>13, <1>14 DEF Running
<1>16. f[8] = 36 + x + y
  <2>1. \A i \in 1..8 : i \in 1..n
    BY <1>1, <1>15
  <2>2. /\ 1 - 1 = 0 /\ 2 - 1 = 1 /\ 3 - 1 = 2 /\ 4 - 1 = 3 /\ 5 - 1 = 4 /\ 6 - 1 = 5 /\ 7 - 1 = 6 /\ 8 - 1 = 7
    OBVIOUS
  <2>3. /\ f[1] = f[0] + 8 /\ f[2] = f[1] + 8 /\ f[3] = f[2] + 8 /\ f[4] = f[3] + 4 /\ f[5] = f[4] + 4
        /\ f[6] = f[5] + x /\ f[7] = f[6] + 4 /\ f[8] = f[7] + y
    BY <1>8, <1>15, <2>1, <2>2
  <2> QED
    BY <1>7, <1>15, <2>3
<1>17. PICK b \in Nat : b = DigestBytes(run.fl)
  BY Bytes
<1>18. f[8 + nf] = 36 + x + y + b
  <2>1. 8 + nf <= n /\ \A i \in 1..nf : 8 + i \in 1..n
    BY <1>15
  <2>2. \A i \in 1..nf : w[8 + i] = d[i]
    BY <1>5, <1>13, <2>1
  <2>3. f[8 + nf] = f[8] + Old!Total(d)
    <3>1. PICK q \in Nat : q = 8
      OBVIOUS
    <3>2. \A i \in 1..Len(d) : w[q + i] = d[i]
      BY <1>5, <2>2, <3>1
    <3>3. q + Len(d) <= Len(w)
      BY <1>5, <1>13, <2>1, <3>1
    <3>4. f[q + Len(d)] = f[q] + Old!Total(d)
      <4>1. Naturals(w) /\ Naturals(d) /\ Running(f, w)
        BY <1>5, <1>13, <1>14
      <4> QED
        BY <3>2, <3>3, <4>1, Segment
    <3> QED
      BY <1>5, <3>1, <3>4
  <2> QED
    BY <1>5, <1>16, <1>17, <2>3
<1>19. NamedSizes = x + y + b
  BY <1>7, <1>17 DEF NamedSizes
<1>20. f[9 + nf] = 40 + NamedSizes
  <2>1. 9 + nf \in 1..n /\ (9 + nf) - 1 = 8 + nf
    BY <1>15
  <2>2. f[9 + nf] = f[8 + nf] + 4
    BY <1>8, <1>15, <2>1
  <2> QED
    BY <1>7, <1>17, <1>18, <1>19, <2>2
<1>21. PICK t \in Nat : t = Old!Total(KeySizes)
  BY Bytes
<1>22. f[top] = 40 + NamedSizes + t
  <2>1. PICK q \in Nat : q = 9 + nf
    OBVIOUS
  <2>2. q + nk = top /\ top <= n
    BY <1>1, <1>15, <2>1
  <2>3. \A i \in 1..nk : q + i \in 1..n
    BY <2>2
  <2>4. \A i \in 1..Len(k) : w[q + i] = k[i]
    BY <1>6, <1>13, <2>1, <2>3
  <2>5. q + Len(k) <= Len(w)
    BY <1>6, <1>13, <2>2
  <2>6. f[q + Len(k)] = f[q] + Old!Total(k)
    <3>1. Naturals(w) /\ Naturals(k) /\ Running(f, w)
      BY <1>6, <1>13, <1>14
    <3> QED
      BY <2>4, <2>5, <3>1, Segment
  <2> QED
    BY <1>3, <1>6, <1>20, <1>21, <2>1, <2>2, <2>6
<1>23. f[n] = PrefixBytes
  <2>1. CASE Sip47
    <3>1. /\ n = top + 2 /\ top + 1 \in 1..n /\ top + 2 \in 1..n
          /\ (top + 1) - 1 = top /\ (top + 2) - 1 = top + 1
      BY <1>2, <1>12, <2>1
    <3>2. f[top + 1] = f[top] + 1 /\ f[top + 2] = f[top + 1] + c
      BY <1>10, <1>15, <2>1, <3>1
    <3>3. PrefixBytes = 40 + NamedSizes + t + (1 + c)
      BY <1>9, <1>21, <2>1 DEF PrefixBytes, StreamBytes
    <3> QED
      BY <1>9, <1>7, <1>17, <1>19, <1>21, <1>22, <3>1, <3>2, <3>3
  <2>2. CASE ~Sip47
    <3>1. n = top /\ PrefixBytes = 40 + NamedSizes + t + 0
      BY <1>2, <1>12, <1>21, <2>2 DEF PrefixBytes, StreamBytes
    <3> QED
      BY <1>7, <1>17, <1>19, <1>21, <1>22, <3>1
  <2> QED
    BY <2>1, <2>2
<1>24. f[8 + nf] = 36 + NamedSizes
  BY <1>7, <1>17, <1>18, <1>19
<1> QED
  BY <1>1, <1>2, <1>11, <1>12, <1>13, <1>14, <1>20, <1>21, <1>22, <1>23, <1>24 DEF PrefixSums

\* What arrives of a list of writes is its beginning.
LEMMA ArrivedWeighs ==
  ASSUME NEW items, IsList(items), \A i \in 1..Len(items) : items[i].w \in Nat, NEW n \in 0..Len(items),
         NEW f, Running(f, Weights(items))
  PROVE  /\ Width(SubSeq(items, 1, n)) = f[n] /\ f[n] \in Nat
         /\ n < Len(items) => f[n] <= f[Len(items)]
         /\ Width(SubSeq(items, 1, n)) <= Width(items) /\ Width(items) = f[Len(items)]
<1>1. PICK m \in Nat : m = Len(items) /\ n \in Nat /\ n <= m
  BY DEF IsList
<1>2. PICK s : s = SubSeq(items, 1, n)
  OBVIOUS
<1>3. IsList(s) /\ Len(s) = n /\ \A i \in 1..n : s[i] = items[i]
  <2>1. PICK T : items \in Seq(T)
    BY ListIsSeq
  <2>2. s = [i \in 1..n |-> items[i]]
    BY <1>1, <1>2, <2>1
  <2>3. s = [i \in 1..n |-> s[i]] /\ \A i \in 1..n : s[i] = items[i]
    BY <2>2
  <2> QED
    BY <1>1, <2>3, ListOf
<1>4. \A i \in 1..n : i \in 1..m
  BY <1>1
<1>5. \A i \in 1..Len(s) : s[i].w \in Nat
  BY <1>1, <1>3, <1>4
<1>6. PICK a : /\ a = Weights(s) /\ Naturals(a) /\ Len(a) = n /\ Width(s) = Old!Total(a)
               /\ \A i \in 1..n : a[i] = s[i].w
  BY <1>3, <1>5, ItemsWeigh
<1>7. PICK b : /\ b = Weights(items) /\ Naturals(b) /\ Len(b) = m /\ Width(items) = Old!Total(b)
               /\ \A i \in 1..m : b[i] = items[i].w
  BY <1>1, ItemsWeigh
<1>8. \A i \in 1..n : b[0 + i] = a[i]
  <2>1. \A i \in 1..n : 0 + i = i
    BY <1>1
  <2> QED
    BY <1>3, <1>4, <1>6, <1>7, <2>1
<1>9. f[0 + n] = f[0] + Old!Total(a) /\ Old!Total(a) \in Nat
  <2>1. Naturals(a) /\ Naturals(b) /\ Running(f, b) /\ 0 + Len(a) <= Len(b)
    BY <1>1, <1>6, <1>7
  <2>2. PICK z \in Nat : z = 0
    OBVIOUS
  <2>3. (\A i \in 1..Len(a) : b[z + i] = a[i]) /\ z + Len(a) <= Len(b)
    BY <1>6, <1>8, <2>1, <2>2
  <2>4. Naturals(a) /\ Naturals(b) /\ Running(f, b)
    BY <2>1
  <2>5. f[z + Len(a)] = f[z] + Old!Total(a)
    BY <2>3, <2>4, Segment
  <2>6. Old!Total(a) \in Nat
    BY <2>4, TotalBounds DEF Naturals
  <2> QED
    BY <1>6, <2>2, <2>5, <2>6
<1>10. f[0] = 0 /\ 0 + n = n
  BY <1>1 DEF Running
<1>11. f[n] \in Nat /\ f[m] \in Nat /\ f[n] <= f[m]
  <2>1. n \in 0..Len(b) /\ m \in 0..Len(b) /\ n <= m
    BY <1>1, <1>7
  <2>2. Naturals(b) /\ Running(f, b)
    BY <1>7
  <2> QED
    BY <2>1, <2>2, RunningGrows
<1>12. Old!Total(b) = f[m]
  <2>1. PICK z \in Nat : z = 0
    OBVIOUS
  <2>2. Naturals(b) /\ Running(f, b) /\ z + Len(b) <= Len(b) /\ \A i \in 1..Len(b) : b[z + i] = b[i]
    BY <1>1, <1>7, <2>1
  <2>3. f[z + Len(b)] = f[z] + Old!Total(b)
    BY <2>1, <2>2, Segment
  <2>4. z + Len(b) = m /\ Old!Total(b) \in Nat
    BY <1>1, <1>7, <2>1, TotalBounds, SMTT(20) DEF Naturals
  <2> QED
    BY <1>10, <2>1, <2>3, <2>4
<1> QED
  BY <1>1, <1>2, <1>6, <1>7, <1>9, <1>10, <1>11, <1>12

\* The widths of the records, and of what arrived of them.
AllWidths == [k \in DOMAIN sent |-> Width(sent[k])]
DiskWidths == [k \in DOMAIN sent |-> Width(Arrived(k))]

LEMMA FileWeight ==
  ASSUME RunOK, Zipped, wpc = "closed"
  PROVE  \E f : /\ PrefixSums(sent[1], f)
                /\ DiskBytes \in Nat /\ Full \in Nat /\ DiskBytes <= Full /\ (Complete <=> DiskBytes = Full)
                /\ Kept(1) < Len(sent[1]) => DiskBytes = f[Kept(1)]
                /\ Kept(1) \in 0..Len(sent[1]) /\ IsList(sent[1])
<1>1. PICK m \in Nat : m = Len(sent) /\ m >= 1 /\ m <= run.count + 1 /\ DOMAIN sent = 1..m
  <2>1. Len(sent) \in Nat /\ DOMAIN sent = 1..Len(sent)
    BY Arrivals
  <2> QED
    BY <2>1 DEF Zipped, Stage
<1>2. PICK K : Trail(K)
  BY DEF Zipped
<1>3. PrefixShape(sent[1], K[0]) /\ \A b \in 1..(m - 1) : BlockShape(sent[b + 1], b, K[b])
  BY <1>1, <1>2, Shapes DEF Zipped
<1>4. PICK f : PrefixSums(sent[1], f)
  BY <1>3, BuiltInSums, StoredSums
<1>5. PICK R \in Nat, P \in Nat, c \in Nat :
        R = RecordBytes /\ R >= 1 /\ P = PrefixBytes /\ c = run.count /\ c >= 1
  BY Bytes
<1>6. ASSUME NEW k \in 1..m
      PROVE  /\ IsList(sent[k]) /\ \A i \in 1..Len(sent[k]) : sent[k][i].w \in Nat
             /\ Width(sent[k]) = IF k = 1 THEN P ELSE R
  <2>1. CASE k = 1
    BY <1>4, <1>5, <2>1 DEF PrefixSums
  <2>2. CASE k # 1
    <3>1. PICK b \in 1..(m - 1) : b = k - 1 /\ b + 1 = k
      BY <1>1, <2>2
    <3>2. BlockShape(sent[k], b, K[b])
      BY <1>3, <3>1
    <3> QED
      BY <1>5, <2>2, <3>2, RecordWeight
  <2> QED
    BY <2>1, <2>2
<1>7. ASSUME NEW k \in 1..m
      PROVE  Width(Arrived(k)) \in Nat /\ Width(Arrived(k)) <= Width(sent[k])
  <2>1. PICK s : s = sent[k] /\ IsList(s) /\ \A i \in 1..Len(s) : s[i].w \in Nat
    BY <1>6
  <2>2. PICK n \in 0..Len(s) : n = Kept(k)
    BY <1>1, <2>1, Arrivals
  <2>3. Naturals(Weights(s))
    BY <2>1, ItemsWeigh
  <2>4. PICK g : Running(g, Weights(s))
    BY <2>3, RunningSum
  <2>5. Width(SubSeq(s, 1, n)) = g[n] /\ g[n] \in Nat /\ Width(SubSeq(s, 1, n)) <= Width(s)
    BY <2>1, <2>4, ArrivedWeighs
  <2> QED
    BY <2>1, <2>2, <2>5 DEF Arrived
<1>8. PICK a, d : a = AllWidths /\ d = DiskWidths
  OBVIOUS
<1>9. Naturals(a) /\ Len(a) = m /\ \A k \in 1..m : a[k] = Width(sent[k])
  <2>1. a = [k \in 1..m |-> a[k]] /\ \A k \in 1..m : a[k] = Width(sent[k])
    BY <1>1, <1>8 DEF AllWidths
  <2>2. IsList(a) /\ Len(a) = m
    BY <2>1, ListOf
  <2>3. \A k \in 1..m : a[k] \in Nat
    BY <1>6, <2>1
  <2> QED
    BY <2>1, <2>2, <2>3 DEF Naturals
<1>10. Naturals(d) /\ Len(d) = m /\ \A k \in 1..m : d[k] = Width(Arrived(k))
  <2>1. d = [k \in 1..m |-> d[k]] /\ \A k \in 1..m : d[k] = Width(Arrived(k))
    BY <1>1, <1>8 DEF DiskWidths
  <2>2. IsList(d) /\ Len(d) = m
    BY <2>1, ListOf
  <2>3. \A k \in 1..m : d[k] \in Nat
    BY <1>7, <2>1
  <2> QED
    BY <2>1, <2>2, <2>3 DEF Naturals
<1>11. Old!Total(a) = P + (m - 1) * R
  <2>1. a[1] = P /\ \A i \in 2..m : a[i] = R
    <3>1. 1 \in 1..m /\ \A i \in 2..m : i \in 1..m /\ i # 1
      BY <1>1
    <3> QED
      BY <1>6, <1>9, <3>1
  <2> QED
    BY <1>1, <1>9, <2>1, TotalOfEqual
<1>12. Old!Total(d) <= Old!Total(a) /\ Old!Total(d) \in Nat /\ Old!Total(a) \in Nat
  <2>1. \A i \in 1..Len(a) : d[i] <= a[i]
    BY <1>7, <1>9, <1>10
  <2> QED
    BY <1>9, <1>10, <2>1, TotalGrows
<1>13. DiskBytes = Old!Total(d) /\ (Complete <=> DiskBytes = Old!Total(a) /\ m = c + 1)
  BY <1>1, <1>5, <1>8 DEF DiskBytes, Complete, AllWidths, DiskWidths
<1>14. Full = P + c * R /\ c * R \in Nat
  BY <1>5 DEF Full
<1>15. m = c + 1 \/ (m - 1) * R < c * R
  <2>1. CASE m = c + 1
    BY <2>1
  <2>2. CASE m # c + 1
    <3>1. PICK q \in Nat : c = (m - 1) + (q + 1)
      <4>1. c - m \in Nat
        BY <1>1, <1>5, <2>2
      <4>2. c = (m - 1) + ((c - m) + 1)
        BY <1>1
      <4> QED
        BY <4>1, <4>2
    <3>2. c * R = (m - 1) * R + (q + 1) * R /\ (m - 1) * R \in Nat
      BY <1>1, <3>1
    <3>3. (q + 1) * R = q * R + R /\ q * R \in Nat
      OBVIOUS
    <3> QED
      BY <1>5, <3>2, <3>3
  <2> QED
    BY <2>1, <2>2
<1>16. (m = c + 1 => (m - 1) * R = c * R) /\ (m - 1) * R \in Nat
  <2>1. m - 1 \in Nat /\ (m = c + 1 => m - 1 = c)
    BY <1>1
  <2> QED
    BY <2>1
<1>17. DiskBytes \in Nat /\ Full \in Nat /\ DiskBytes <= Full /\ (Complete <=> DiskBytes = Full)
  <2>1. PICK x \in Nat, y \in Nat : x = (m - 1) * R /\ y = c * R
    BY <1>14, <1>16
  <2> QED
    BY <1>11, <1>12, <1>13, <1>14, <1>15, <1>16, <2>1
<1>18. Kept(1) \in 0..Len(sent[1]) /\ IsList(sent[1]) /\ 1 \in 1..m
  BY <1>1, <1>6, Arrivals
<1>19. ASSUME Kept(1) < Len(sent[1]) PROVE DiskBytes = f[Kept(1)]
  <2>1. ~Intact(1)
    BY <1>18, <1>19 DEF Intact, IsList
  <2>2. \A k \in 2..m : Kept(k) = 0
    <3>1. \A k \in 2..m : k \in 1..m /\ 1 < k
      BY <1>1
    <3> QED
      BY <1>1, <1>18, <2>1, <3>1, Arrivals
  <2>3. ASSUME NEW k \in 2..m PROVE d[k] = 0
    <3>1. k \in 1..m
      BY <1>1
    <3>2. PICK s : s = sent[k] /\ IsList(s) /\ \A i \in 1..Len(s) : s[i].w \in Nat
      BY <1>6, <3>1
    <3>3. Naturals(Weights(s))
      BY <3>2, ItemsWeigh
    <3>4. PICK g : Running(g, Weights(s))
      BY <3>3, RunningSum
    <3>5. PICK n \in 0..Len(s) : n = 0
      BY <3>2 DEF IsList
    <3>6. Width(SubSeq(s, 1, n)) = g[n]
      BY <3>2, <3>4, ArrivedWeighs
    <3>7. g[0] = 0
      BY <3>4 DEF Running
    <3> QED
      BY <1>10, <2>2, <3>1, <3>2, <3>5, <3>6, <3>7 DEF Arrived
  <2>4. d[1] = f[Kept(1)] /\ f[Kept(1)] \in Nat
    <3>1. PICK s, n : s = sent[1] /\ n = Kept(1)
      OBVIOUS
    <3>2. IsList(s) /\ (\A i \in 1..Len(s) : s[i].w \in Nat) /\ n \in 0..Len(s) /\ Running(f, Weights(s))
      BY <1>4, <1>18, <3>1 DEF PrefixSums
    <3>3. Width(SubSeq(s, 1, n)) = f[n] /\ f[n] \in Nat
      BY <3>2, ArrivedWeighs
    <3> QED
      BY <1>10, <1>18, <3>1, <3>3 DEF Arrived
  <2>5. Old!Total(d) = d[1] + (m - 1) * 0
    <3>1. PICK z \in Nat : z = 0
      OBVIOUS
    <3>2. Old!Total(d) = d[1] + (m - 1) * z
      BY <1>1, <1>10, <2>3, <3>1, TotalOfEqual
    <3> QED
      BY <3>1, <3>2
  <2>6. (m - 1) * 0 = 0
    BY <1>1
  <2> QED
    BY <1>13, <2>4, <2>5, <2>6
<1> QED
  BY <1>4, <1>17, <1>18, <1>19

LEMMA OneMore == \A q, R \in Nat : (q + 1) * R = q * R + R /\ q * R \in Nat
OBVIOUS

\* No command refuses a whole file for its size.
LEMMA LeastSize ==
  ASSUME RunOK, run.bl # <<>>
  PROVE  Full \in Nat /\ (NoHeader => Full >= 24) /\ (~NoHeader => Full >= 48)
<1>1. PICK R \in Nat, P \in Nat, c \in Nat : R = RecordBytes /\ P = PrefixBytes /\ c = run.count /\ c >= 1
  BY Bytes
<1>2. c * R \in Nat /\ c * R >= R
  <2>1. PICK q \in Nat : c = q + 1
    <3>1. c - 1 \in Nat /\ c = (c - 1) + 1
      BY <1>1
    <3> QED
      BY <3>1
  <2>2. PICK z \in Nat : z = q * R
    BY OneMore
  <2>3. c * R = z + R
    BY <2>1, <2>2, OneMore
  <2> QED
    BY <2>3
<1>3. PICK B \in Nat : B = c * R
  BY <1>2
<1>8. B >= R
  BY <1>2, <1>3
<1>9. Full = P + B
  BY <1>1, <1>3 DEF Full
<1>4. PICK d \in Nat, e \in Nat, m \in Nat :
        d = DigestBytes(run.bl) /\ d >= 4 /\ e = ExponentBytes(run.blocksize) /\ e >= 1 /\ m = modsizeBytes /\ m >= 1
  <2>1. DigestBytes(run.bl) \in Nat /\ DigestBytes(run.bl) >= 4
    BY Bytes, DigestsWeigh DEF RunOK
  <2>2. ExponentBytes(run.blocksize) \in Nat /\ ExponentBytes(run.blocksize) >= 1
    BY Bytes
  <2>3. modsizeBytes \in Nat /\ modsizeBytes >= 1
    BY Bytes
  <2> QED
    BY <2>1, <2>2, <2>3
<1>5. R = d + (IF Sip47 THEN 0 ELSE e) + m
  BY <1>1, <1>4 DEF RecordBytes
<1>6. CASE NoHeader
  <2>1. m = 4
    <3>1. run.modsize = 32
      BY <1>6 DEF RunOK
    <3>2. 32 % 8 = 0 /\ 32 \div 8 = 4
      BY Z3
    <3> QED
      BY <1>4, <3>1, <3>2 DEF modsizeBytes, calcModulusBytes
  <2>2. P = 16 /\ ~Sip47
    BY <1>1, <1>6, Sizes DEF PrefixBytes
  <2>3. R = d + e + m
    BY <1>5, <2>2
  <2> QED
    BY <1>8, <1>9, <1>4, <1>6, <2>1, <2>2, <2>3
<1>7. CASE ~NoHeader
  <2>1. PICK x \in Nat, y \in Nat, b \in Nat, t \in Nat, s \in Nat :
          /\ x = NameBytes(run.fl) /\ y = NameBytes(run.bl) /\ b = DigestBytes(run.fl)
          /\ t = Old!Total(KeySizes) /\ s = StreamBytes /\ y >= 3
    BY Bytes, NamesTakeBytes DEF RunOK
  <2>2. P = 40 + (x + y + b) + t + s
    BY <1>1, <1>7, <2>1 DEF PrefixBytes, NamedSizes
  <2>5. P >= 43 + s
    <3>1. y >= 3
      BY <2>1
    <3>2. PICK z \in Nat : z = x + y + b /\ z >= 3
      BY <3>1
    <3>3. P = 40 + z + t + s
      BY <2>2, <3>2
    <3> QED
      BY <3>2, <3>3
  <2>6. d >= 4 /\ e >= 1 /\ m >= 1
    BY <1>4
  <2>3. CASE Sip47
    <3>1. s >= 1
      BY <2>1, <2>3, Bytes, SMTT(20) DEF StreamBytes
    <3>2. R = d + 0 + m
      BY <1>5, <2>3
    <3>4. R >= 5
      BY <2>6, <3>2
    <3>3. P + B >= 48
      BY <1>8, <2>5, <3>1, <3>4
    <3> QED
      BY <1>7, <1>9, <3>3
  <2>4. CASE ~Sip47
    <3>1. R = d + e + m
      BY <1>5, <2>4
    <3>3. R >= 6
      BY <2>6, <3>1
    <3>2. P + B >= 48
      BY <1>8, <2>5, <3>3
    <3> QED
      BY <1>7, <1>9, <3>2
  <2> QED
    BY <2>3, <2>4
<1> QED
  BY <1>6, <1>7

\* The bytes the sums leave out: the key list, where the header has none or the sum
\* counts another.
KeysCounted ==
  NoHeader \/ Old!Total(KeySizes) = (IF cmd.rand \/ cmd.tool # "mdzipsip47" THEN KeyBytes(run.bl) ELSE 0)

LEMMA WhatIsPromised ==
  ASSUME RunOK
  PROVE  ValidationIsExact <=>
           (run.bl # <<>> =>
              /\ verdict \in {"accepted", "rejected"} /\ KeysCounted => (verdict = "accepted" <=> Complete)
              /\ verdict = "refused" /\ unzip.over => ~Complete)
<1>1. PICK stored : stored = IF cmd.rand /\ ~NoHeader
                             THEN Old!Total([i \in DOMAIN run.bl |-> WriteKey[run.bl[i]]]) ELSE 0
  OBVIOUS
<1>2. ~NoHeader => Old!Total(KeySizes) = stored
  BY <1>1, NoWeight DEF KeySizes, SizesOf
<1> QED
  BY <1>1, <1>2 DEF ValidationIsExact, KeysCounted

\* The header as the validators read it.
LEMMA HeaderSums ==
  ASSUME RunOK, Zipped, wpc = "closed", ~Garbled
  PROVE  /\ ~NoHeader => NamedBytes = NamedSizes /\ Kept(1) >= 8
         /\ BlockBytes = DigestBytes(run.bl) + modsizeBytes
         /\ ExponentTable = run.count * ExponentBytes(run.blocksize)
         /\ Header.bl = run.bl /\ blockcount = run.count
         /\ Header.keysize = (IF NoHeader THEN 0 ELSE Field(KeySizeAt, 0))
<1>1. Len(sent) > 0
  <2>1. PICK m \in Nat : m = Len(sent)
    BY Arrivals
  <2> QED
    BY <2>1 DEF Zipped, Stage
<1>2. PICK K : Trail(K)
  BY DEF Zipped
<1>3. PrefixShape(sent[1], K[0])
  BY <1>1, <1>2, Shapes DEF Zipped
<1>4. /\ Header.blocksize = run.blocksize /\ Header.modsize = run.modsize
      /\ Header.fl = run.fl /\ Header.bl = run.bl /\ blockcount = run.count
      /\ Header.keysize = (IF NoHeader THEN 0 ELSE Field(KeySizeAt, 0))
  BY <1>3, HeaderKnown
<1>5. ASSUME ~NoHeader PROVE NamedBytes = NamedSizes /\ Kept(1) >= 8
  <2>1. PICK kept \in Nat : kept = Kept(1)
    <3>1. 1 \in 1..Len(sent) /\ \A k \in 1..Len(sent) : Kept(k) \in 0..Len(sent[k])
      BY <1>1, Arrivals
    <3> QED
      BY <3>1
  <2>2. kept >= 8
    BY <1>5, <2>1 DEF Garbled, OnDisk
  <2>3. OnDisk(1, 5) /\ OnDisk(1, 7)
    BY <2>1, <2>2 DEF OnDisk
  <2>4. sent[1][5].v = NameBytes(run.fl) /\ sent[1][7].v = NameBytes(run.bl)
    BY <1>3, <1>5 DEF PrefixShape, HeaderShape, It
  <2>5. Field(5, 0) = NameBytes(run.fl) /\ Field(7, 0) = NameBytes(run.bl)
    BY <2>3, <2>4 DEF Field
  <2> QED
    BY <1>4, <2>1, <2>2, <2>5 DEF NamedBytes, NamedSizes
<1> QED
  BY <1>4, <1>5 DEF BlockBytes, ExponentTable, modsizeBytes

LEMMA Spread == \A c, x, y \in Nat : c * x + c * y = c * (x + y) /\ c * x \in Nat /\ c * y \in Nat
OBVIOUS

\* mdunzip and mdunzipsip40 expect the file that is all there; and so does mdunzipnh.
LEMMA OldSums ==
  ASSUME RunOK, Zipped, wpc = "closed", ~Garbled, ~Sip47, KeysCounted
  PROVE  (~NoHeader => mdunzipSum = Full) /\ (NoHeader => nhSum = Full)
<1>1. PICK c \in Nat, d \in Nat, e \in Nat, m \in Nat :
        c = run.count /\ d = DigestBytes(run.bl) /\ e = ExponentBytes(run.blocksize) /\ m = modsizeBytes
  BY Bytes
<1>2. BlockBytes = d + m /\ ExponentTable = c * e /\ blockcount = c
  BY <1>1, HeaderSums
<1>3. c * (d + m) + c * e = c * (d + e + m) /\ c * (d + m) \in Nat /\ c * e \in Nat
  <2>1. PICK x \in Nat : x = d + m
    BY <1>1
  <2>2. c * x + c * e = c * (x + e) /\ c * x \in Nat /\ c * e \in Nat
    BY Spread
  <2>3. x + e = d + e + m
    BY <2>1
  <2> QED
    BY <2>1, <2>2, <2>3
<1>4. Full = PrefixBytes + c * (d + e + m)
  BY <1>1 DEF Full, RecordBytes
<1>5. ASSUME ~NoHeader PROVE mdunzipSum = Full
  <2>1. PICK t \in Nat, z \in Nat : t = Old!Total(KeySizes) /\ z = NamedSizes
    BY Bytes
  <2>2. KeyBytes(run.bl) = t
    BY <1>5, <2>1 DEF KeysCounted, Sip47
  <2>3. mdunzipSum = 40 + z + t + (c * (d + m)) + c * e
    BY <1>2, <1>5, <2>1, <2>2, HeaderSums DEF mdunzipSum
  <2>4. PrefixBytes = 40 + z + t + 0
    BY <1>5, <2>1 DEF PrefixBytes, StreamBytes
  <2> QED
    BY <1>3, <1>4, <2>1, <2>3, <2>4
<1>6. ASSUME NoHeader PROVE nhSum = Full
  <2>1. nhSum = 16 + (c * (d + m)) + c * e
    BY <1>2 DEF nhSum
  <2>2. PrefixBytes = 16
    BY <1>6 DEF PrefixBytes
  <2> QED
    BY <1>3, <1>4, <2>1, <2>2
<1> QED
  BY <1>5, <1>6

\* mdunzipsip47 reads the format of the exponents and the size of the key list from the
\* prefix; where they are not there, neither is the rest.
LEMMA NewSum ==
  ASSUME RunOK, Zipped, wpc = "closed", ~Garbled, Sip47, KeysCounted, run.bl # <<>>
  PROVE  sip47Sum = DiskBytes <=> Complete
<1>0. ~NoHeader
  BY Sizes
<1>1. PICK c \in Nat, d \in Nat, m \in Nat, t \in Nat, z \in Nat, s \in Nat :
        /\ c = run.count /\ c >= 1 /\ d = DigestBytes(run.bl) /\ m = modsizeBytes /\ d >= 4
        /\ t = Old!Total(KeySizes) /\ z = NamedSizes /\ s = calcBitstreamSize(run.count, Format)
  BY Bytes, DigestsWeigh DEF RunOK
<1>2. PICK B \in Nat : B = c * (d + m)
  <2>1. PICK x \in Nat : x = d + m
    BY <1>1
  <2> QED
    BY <2>1, Spread
<1>3. Full = 40 + z + t + (1 + s) + B
  <2>1. RecordBytes = d + m
    BY <1>1 DEF RecordBytes
  <2>2. PrefixBytes = 40 + z + t + (1 + s)
    BY <1>0, <1>1 DEF PrefixBytes, StreamBytes
  <2> QED
    BY <1>1, <1>2, <2>1, <2>2 DEF Full
<1>4. sip47Sum = 40 + z + (IF Header.keysize > 0 THEN KeyBytes(run.bl) ELSE 0)
                   + 1 + calcBitstreamSize(c, format) + B
  BY <1>0, <1>1, <1>2, HeaderSums DEF sip47Sum
<1>5. PICK f : /\ PrefixSums(sent[1], f)
               /\ DiskBytes \in Nat /\ Full \in Nat /\ DiskBytes <= Full /\ (Complete <=> DiskBytes = Full)
               /\ Kept(1) < Len(sent[1]) => DiskBytes = f[Kept(1)]
               /\ Kept(1) \in 0..Len(sent[1]) /\ IsList(sent[1])
  BY FileWeight
<1>6. PICK K : Trail(K)
  BY DEF Zipped
<1>7. PrefixShape(sent[1], K[0])
  <2>1. PICK n \in Nat : n = Len(sent)
    BY Arrivals
  <2>2. Len(sent) > 0
    BY <2>1 DEF Zipped, Stage
  <2> QED
    BY <1>6, <2>2, Shapes, SMTT(20) DEF Zipped
<1>8. PICK nf \in Nat, nk \in Nat, top \in Nat :
        nf = Len(run.fl) /\ nk = KeyCount /\ top = HeaderLength /\ top = 9 + nf + nk
  BY Sizes DEF HeaderLength
<1>9. PICK P : P = sent[1] /\ HeaderShape(P, K[0]) /\ Len(P) = top + 2 /\ P[(top + 2) - 1] = It(1, Format)
  BY <1>0, <1>7, <1>8 DEF PrefixShape
<1>10. PICK kept \in Nat : kept = Kept(1) /\ kept <= top + 2 /\ 8 <= kept
  BY <1>0, <1>5, <1>9, HeaderSums
<1>11. /\ f[8 + nf] = 36 + z /\ f[9 + nf] = 40 + z /\ f[top] = 40 + z + t
  BY <1>0, <1>1, <1>5, <1>8 DEF PrefixSums
<1>12. ASSUME NEW k \in Nat, k <= top + 2, kept <= k, kept < top + 2
       PROVE  DiskBytes <= f[k]
  <2>1. PICK w : w = Weights(P) /\ Naturals(w) /\ Running(f, w) /\ Len(w) = top + 2
    BY <1>5, <1>9, ItemsWeigh DEF PrefixSums
  <2>2. f[kept] <= f[k]
    <3>1. Naturals(w) /\ Running(f, w) /\ kept \in 0..Len(w) /\ k \in 0..Len(w)
      BY <1>10, <1>12, <2>1
    <3> QED
      BY <1>12, <3>1, RunningGrows
  <2>3. DiskBytes = f[kept]
    BY <1>5, <1>9, <1>10, <1>12
  <2> QED
    BY <2>2, <2>3
<1>13. Header.keysize = IF 9 + nf <= kept /\ cmd.rand THEN NameBytes(run.bl) ELSE 0
  <2>1. P[9 + nf].v = IF cmd.rand THEN NameBytes(run.bl) ELSE 0
    BY <1>8, <1>9 DEF HeaderShape, It
  <2>2. Header.keysize = Field(9 + nf, 0)
    BY <1>0, <1>8, HeaderSums DEF KeySizeAt
  <2> QED
    BY <1>9, <1>10, <2>1, <2>2 DEF Field, OnDisk
<1>14. format = IF top + 1 <= kept THEN Format ELSE 0
  <2>1. (top + 2) - 1 = top + 1 /\ FormatAt = top + 1
    BY <1>9 DEF FormatAt
  <2>2. P[top + 1].v = Format
    BY <1>9, <2>1 DEF It
  <2> QED
    BY <1>9, <1>10, <2>1, <2>2 DEF format, Field, OnDisk
<1>15. NameBytes(run.bl) > 0
  <2>1. NameBytes(run.bl) \in Nat /\ NameBytes(run.bl) >= 3
    BY NamesTakeBytes DEF RunOK
  <2> QED
    BY <2>1
<1>16. (cmd.rand => KeyBytes(run.bl) = t) /\ (~cmd.rand => t = 0)
  <2>1. cmd.rand => KeyBytes(run.bl) = t
    BY <1>0, <1>1 DEF KeysCounted
  <2>2. ~cmd.rand => t = 0
    BY <1>1, NoWeight DEF KeySizes
  <2> QED
    BY <2>1, <2>2
<1>17. CASE top + 1 <= kept
  <2>1. 9 + nf <= kept
    BY <1>8, <1>17
  <2>2. (IF Header.keysize > 0 THEN KeyBytes(run.bl) ELSE 0) = t
    <3>1. CASE cmd.rand
      BY <1>13, <1>15, <1>16, <2>1, <3>1
    <3>2. CASE ~cmd.rand
      <4>1. ~(Header.keysize > 0)
        BY <1>13, <3>2
      <4> QED
        BY <1>16, <3>2, <4>1
    <3> QED
      BY <3>1, <3>2
  <2>3. calcBitstreamSize(c, format) = s
    BY <1>1, <1>14, <1>17
  <2>4. sip47Sum = 40 + z + t + 1 + s + B
    BY <1>4, <2>2, <2>3
  <2>5. sip47Sum = Full
    BY <1>1, <1>2, <1>3, <2>4
  <2> QED
    BY <1>5, <2>5
<1>18. CASE ~(top + 1 <= kept)
  <2>1. calcBitstreamSize(c, format) = 2
    <3>1. format = 0
      BY <1>14, <1>18
    <3>2. c * 0 = 0 /\ 0 < 7 /\ 0 + 14 = 14
      BY <1>1
    <3>3. 14 \div 8 = 1 /\ 14 % 8 = 6
      BY Z3
    <3> QED
      BY <3>1, <3>2, <3>3 DEF calcBitstreamSize
  <2>2. kept <= top /\ kept < top + 2 /\ top <= top + 2
    BY <1>10, <1>18
  <2>3. DiskBytes <= 40 + z + t
    BY <1>11, <1>12, <2>2
  <2>4. PICK D \in Nat, F \in Nat :
          D = DiskBytes /\ F = Full /\ D <= 40 + z + t /\ F = 40 + z + t + (1 + s) + B /\ D < F
    <3>1. PICK D \in Nat, F \in Nat : D = DiskBytes /\ F = Full
      BY <1>5
    <3>2. D <= 40 + z + t /\ F = 40 + z + t + (1 + s) + B
      BY <1>3, <2>3, <3>1
    <3>3. D < F
      BY <3>2
    <3> QED
      BY <3>1, <3>2, <3>3
  <2>5. sip47Sum # DiskBytes
    <3>1. CASE 9 + nf <= kept
      <4>1. (IF Header.keysize > 0 THEN KeyBytes(run.bl) ELSE 0) = t
        <5>1. CASE cmd.rand
          BY <1>13, <1>15, <1>16, <3>1, <5>1
        <5>2. CASE ~cmd.rand
          <6>1. ~(Header.keysize > 0)
            BY <1>13, <5>2
          <6> QED
            BY <1>16, <5>2, <6>1
        <5> QED
          BY <5>1, <5>2
      <4>2. sip47Sum = 40 + z + t + 1 + 2 + B
        BY <1>4, <2>1, <4>1
      <4>3. 40 + z + t + 1 + 2 + B # D
        BY <2>4
      <4> QED
        BY <2>4, <4>2, <4>3
    <3>2. CASE ~(9 + nf <= kept)
      <4>1. ~(Header.keysize > 0)
        BY <1>13, <3>2
      <4>2. sip47Sum = 40 + z + 0 + 1 + 2 + B
        BY <1>4, <2>1, <4>1
      <4>3. DiskBytes <= 36 + z
        <5>1. PICK k \in Nat : k = 8 + nf /\ k <= top + 2 /\ kept <= k
          BY <1>8, <1>10, <3>2
        <5>2. DiskBytes <= f[k]
          BY <1>12, <2>2, <5>1
        <5> QED
          BY <1>11, <5>1, <5>2
      <4>4. 40 + z + 0 + 1 + 2 + B # D
        <5>1. D <= 36 + z
          BY <2>4, <4>3
        <5> QED
          BY <5>1
      <4> QED
        BY <2>4, <4>2, <4>4
    <3> QED
      BY <3>1, <3>2
  <2> QED
    BY <1>5, <2>4, <2>5
<1> QED
  BY <1>17, <1>18

----------------------------------------------------------------------------
(* The verdicts of --valmdzip and of the checks of the size.               *)
\* A container is read by the programs its zipper has.
Launched ==
  /\ {"program", "jobs", "over"} \subseteq DOMAIN unzip
  /\ rpc # "off" => unzip.program \in Programs(cmd.tool)

\* What a step of an unzipper may do to what ValidationIsExact looks at.
LEMMA Refusals ==
  ASSUME Launched, NEW program, NEW job, NEW least, Refuse(program, job, least)
  PROVE  /\ rpc = "main" /\ unzip.program = program /\ rpc' = rpc
         /\ {"program", "jobs", "over"} \subseteq DOMAIN unzip'
         /\ unzip'.program = unzip.program /\ unzip'.over = unzip.over
         /\ verdict' = "refused" /\ (DiskBytes < least \/ ~unzip.over)
<1>1. unzip' = [unzip EXCEPT !.jobs = Tail(@)]
  BY DEF Refuse
<1>2. DOMAIN unzip' = DOMAIN unzip /\ unzip'.program = unzip.program /\ unzip'.over = unzip.over
  BY <1>1 DEF Launched
<1> QED
  BY <1>2, Zenon DEF Refuse, NextJob, Launched

LEMMA Validations ==
  ASSUME Launched, NEW program, NEW least, NEW sum, Validate(program, least, sum)
  PROVE  /\ rpc = "main" /\ unzip.program = program
         /\ {"program", "jobs", "over"} \subseteq DOMAIN unzip'
         /\ unzip'.program = unzip.program /\ unzip'.over = unzip.over
         /\ \/ verdict' = verdict
            \/ ~Garbled /\ verdict' = IF sum = DiskBytes THEN "accepted" ELSE "rejected"
<1>1. unzip' = unzip \/ unzip' = [unzip EXCEPT !.jobs = Tail(@)]
  BY DEF Validate, Crash
<1>2. DOMAIN unzip' = DOMAIN unzip /\ unzip'.program = unzip.program /\ unzip'.over = unzip.over
  BY <1>1 DEF Launched
<1>3. rpc = "main" /\ unzip.program = program
  BY DEF Validate, Accepted, NextJob
<1>4. verdict' = verdict \/ (~Garbled /\ verdict' = IF sum = DiskBytes THEN "accepted" ELSE "rejected")
  BY DEF Validate, Crash
<1> QED
  BY <1>2, <1>3, <1>4 DEF Launched

\* The steps of listing and unzipping.
OtherStep ==
  \/ \E program, least : \E job \in {"list", "unzip"} : ReadHeader(program, job, least)
  \/ \E program : \E job \in {"list", "unzip"} : Turn(program, job)
  \/ \E program : End(program)

LEMMA PassesOver ==
  ASSUME List \/ Unzip \/ Exit \/ UNCHANGED vars
  PROVE  (Exit \/ UNCHANGED vars) \/ OtherStep
<1>1. CASE List
  <2>1. CASE mdunzipListHeader \/ sip40ListHeader \/ sip47ListHeader \/ nhListHeader
    BY <2>1, Zenon DEF mdunzipListHeader, sip40ListHeader, sip47ListHeader, nhListHeader, OtherStep
  <2>2. CASE mdunzipListBlock \/ sip40ListBlock \/ sip47ListBlock \/ nhListBlock
    BY <2>2, Zenon DEF mdunzipListBlock, sip40ListBlock, sip47ListBlock, nhListBlock, OtherStep
  <2> QED
    BY <1>1, <2>1, <2>2 DEF List
<1>2. CASE Unzip
  <2>1. CASE mdunzipHeader \/ sip40UnzipHeader \/ sip47UnzipHeader \/ nhUnzipHeader
    BY <2>1, Zenon DEF mdunzipHeader, sip40UnzipHeader, sip47UnzipHeader, nhUnzipHeader, OtherStep
  <2>2. CASE mdunzipBlock \/ sip40UnzipBlock \/ sip47UnzipBlock \/ nhUnzipBlock
    BY <2>2, Zenon DEF mdunzipBlock, sip40UnzipBlock, sip47UnzipBlock, nhUnzipBlock, OtherStep
  <2>3. CASE mdunzipEnd \/ sip40UnzipEnd \/ sip47UnzipEnd \/ nhUnzipEnd
    BY <2>3, Zenon DEF mdunzipEnd, sip40UnzipEnd, sip47UnzipEnd, nhUnzipEnd, OtherStep
  <2> QED
    BY <1>2, <2>1, <2>2, <2>3 DEF Unzip
<1> QED
  BY <1>1, <1>2

\* The steps that neither launch, refuse nor validate.
LEMMA OtherSteps ==
  ASSUME Launched, List \/ Unzip \/ Exit \/ UNCHANGED vars
  PROVE  /\ {"program", "jobs", "over"} \subseteq DOMAIN unzip'
         /\ unzip'.program = unzip.program /\ unzip'.over = unzip.over
         /\ rpc' # "off" => rpc # "off"
         /\ verdict' = verdict \/ verdict' \in {"validates", "failed"}
<1> DEFINE Keeps == unzip' = unzip \/ unzip' = [unzip EXCEPT !.jobs = Tail(@)]
           Says == verdict' = verdict \/ verdict' \in {"validates", "failed"}
           Goes == rpc' # "off" => rpc # "off"
<1>1. ASSUME NEW program, NEW job, NEW least, ReadHeader(program, job, least) PROVE Keeps /\ Says /\ Goes
  BY <1>1 DEF ReadHeader, Crash, Accepted, NextJob
<1>2. ASSUME NEW program, NEW job \in {"list", "unzip"}, Turn(program, job) PROVE Keeps /\ Says /\ Goes
  BY <1>2 DEF Turn
<1>3. ASSUME NEW program, End(program) PROVE Keeps /\ Says /\ Goes
  <2>1. FileVerdicts \subseteq {"validates", "failed"}
    BY DEF FileVerdicts
  <2>2. verdict' \in FileVerdicts \/ verdict' = verdict
    BY <1>3 DEF End
  <2> QED
    BY <1>3, <2>1, <2>2 DEF End
<1>4. ASSUME Exit \/ UNCHANGED vars PROVE Keeps /\ Says /\ Goes
  BY <1>4 DEF Exit, vars, unzipVars
<1> HIDE DEF Keeps, Says, Goes
<1>5. ASSUME OtherStep PROVE Keeps /\ Says /\ Goes
  BY <1>1, <1>2, <1>3, <1>5, Zenon DEF OtherStep
<1>6. (Exit \/ UNCHANGED vars) \/ OtherStep
  BY PassesOver
<1>7. Keeps /\ Says /\ Goes
  BY <1>4, <1>5, <1>6
<1>8. DOMAIN unzip' = DOMAIN unzip /\ unzip'.program = unzip.program /\ unzip'.over = unzip.over
  BY <1>7 DEF Launched, Keeps
<1> QED
  BY <1>7, <1>8 DEF Launched, Says, Goes

LEMMA Launches ==
  ASSUME Launching
  PROVE  /\ {"program", "jobs", "over"} \subseteq DOMAIN unzip' /\ unzip'.program \in Programs(cmd.tool)
         /\ verdict' = verdict /\ rpc = "off"
<1>1. ASSUME NEW program, NEW o, Launch(program, o)
      PROVE  /\ {"program", "jobs", "over"} \subseteq DOMAIN unzip' /\ unzip'.program \in Programs(cmd.tool)
             /\ verdict' = verdict /\ rpc = "off"
  BY <1>1 DEF Launch
<1> QED
  BY <1>1, Zenon DEF Launching, mdunzipMain, sip40UnzipMain, sip47UnzipMain, nhUnzipMain

\* Refuse and Validate, one program at a time.
LEMMA RefusedBy ==
  ASSUME Refused
  PROVE  \E program, job, least :
           /\ Refuse(program, job, least)
           /\ \/ program \in {"mdunzip", "mdunzipsip40", "mdunzipsip47"} /\ least = 48
              \/ program = "mdunzipnh" /\ least \in {21, 24}
<1>1. PICK job \in {"validate", "list", "unzip"} :
        \/ \E program \in {"mdunzip", "mdunzipsip40", "mdunzipsip47"} : Refuse(program, job, 48)
        \/ Refuse("mdunzipnh", job, IF job = "unzip" THEN 24 ELSE 21)
  BY DEF Refused
<1>2. CASE \E program \in {"mdunzip", "mdunzipsip40", "mdunzipsip47"} : Refuse(program, job, 48)
  BY <1>2, Zenon
<1>3. CASE Refuse("mdunzipnh", job, IF job = "unzip" THEN 24 ELSE 21)
  <2>1. PICK least : least = (IF job = "unzip" THEN 24 ELSE 21)
    OBVIOUS
  <2>2. least \in {21, 24}
    BY <2>1
  <2> QED
    BY <1>3, <2>1, <2>2, Zenon
<1> QED
  BY <1>1, <1>2, <1>3

LEMMA ProgramsOf ==
  ASSUME RunOK, NEW program, program \in Programs(cmd.tool)
  PROVE  /\ program \in {"mdunzip", "mdunzipsip40"} => ~Sip47 /\ ~NoHeader
         /\ program = "mdunzipsip47" => Sip47 /\ ~NoHeader
         /\ program = "mdunzipnh" => ~Sip47 /\ NoHeader
BY DEF RunOK, Programs, Sip47, NoHeader

LEMMA LaunchedInit == Init => Launched
<1> SUFFICES ASSUME Init PROVE Launched
  OBVIOUS
<1>1. rpc = "off" /\ unzip = [program |-> "none", jobs |-> <<>>, val |-> FALSE, over |-> FALSE, single |-> FALSE]
  BY DEF Init
<1> QED
  BY <1>1 DEF Launched

LEMMA LaunchedStep == CInv /\ Launched /\ [Next]_vars => Launched'
<1> SUFFICES ASSUME CInv, Launched, [Next]_vars PROVE Launched'
  OBVIOUS
<1>1. CASE Zipping
  BY <1>1, ZippersFirst DEF CInv, Launched, unzipVars
<1>2. CASE ~Zipping
  <2>1. cmd' = cmd
    BY <1>2, UnzippersOnlyRead DEF zipVars
  <2>2. CASE Launching
    BY <2>1, <2>2, Launches DEF Launched
  <2>3. CASE Refused
    <3>1. PICK program, job, least : Refuse(program, job, least)
      BY <2>3, RefusedBy
    <3> QED
      BY <2>1, <3>1, Refusals DEF Launched
  <2>4. CASE Check
    <3>1. PICK program, least, sum : Validate(program, least, sum)
      BY <2>4, Zenon DEF Check, mdunzipValidate, sip40Validate, sip47Validate, nhValidate
    <3> QED
      BY <2>1, <3>1, Validations DEF Launched
  <2>5. CASE List \/ Unzip \/ Exit \/ UNCHANGED vars
    BY <2>1, <2>5, OtherSteps DEF Launched
  <2> QED
    BY <1>2, <2>2, <2>3, <2>4, <2>5 DEF Next
<1> QED
  BY <1>1, <1>2

\* What ValidationIsExact compares a verdict with stays as it is while the container is
\* read.
LEMMA SameSizes ==
  ASSUME UNCHANGED zipVars
  PROVE  Complete' = Complete /\ NoHeader' = NoHeader /\ KeyBytes(run.bl)' = KeyBytes(run.bl)
         /\ KeySizes' = KeySizes
<1>1. cmd' = cmd /\ run' = run /\ wpc' = wpc /\ key' = key /\ sent' = sent /\ cut' = cut
  BY DEF zipVars
<1> QED
  BY <1>1 DEF Complete, DiskBytes, Width, Arrived, Kept, NoHeader, KeyBytes, Sip47, KeySizes, SizesOf, WriteKey

\* The sum a program compares the file's size with.
SumOf(program, sum) ==
  \/ program \in {"mdunzip", "mdunzipsip40"} /\ sum = mdunzipSum
  \/ program = "mdunzipsip47" /\ sum = sip47Sum
  \/ program = "mdunzipnh" /\ sum = nhSum

LEMMA CheckedBy ==
  ASSUME Check
  PROVE  \E program, least, sum : Validate(program, least, sum) /\ SumOf(program, sum)
<1>1. /\ SumOf("mdunzip", mdunzipSum) /\ SumOf("mdunzipsip40", sip40Sum)
      /\ SumOf("mdunzipsip47", sip47Sum) /\ SumOf("mdunzipnh", nhSum)
  BY DEF SumOf, sip40Sum
<1> HIDE DEF SumOf
<1> QED
  BY <1>1, Zenon DEF Check, mdunzipValidate, sip40Validate, sip47Validate, nhValidate

LEMMA SumIsRight ==
  ASSUME CInv, Launched, rpc = "main", run.bl # <<>>, ~Garbled, KeysCounted,
         NEW sum, SumOf(unzip.program, sum)
  PROVE  sum = DiskBytes <=> Complete
<1>1. RunOK /\ Zipped /\ wpc = "closed" /\ unzip.program \in Programs(cmd.tool)
  BY DEF CInv, Reading, Launched
<1>2. DiskBytes \in Nat /\ (Complete <=> DiskBytes = Full)
  BY <1>1, FileWeight
<1>3. CASE unzip.program \in {"mdunzip", "mdunzipsip40"}
  <2>1. ~Sip47 /\ ~NoHeader
    BY <1>1, <1>3, ProgramsOf
  <2>2. sum = mdunzipSum
    BY <1>3 DEF SumOf
  <2>3. mdunzipSum = Full
    BY <1>1, <2>1, OldSums
  <2> QED
    BY <1>2, <2>2, <2>3
<1>4. CASE unzip.program = "mdunzipsip47"
  <2>1. Sip47
    BY <1>1, <1>4, ProgramsOf
  <2>2. sum = sip47Sum
    BY <1>4 DEF SumOf
  <2> QED
    BY <1>1, <2>1, <2>2, NewSum
<1>5. CASE unzip.program = "mdunzipnh"
  <2>1. ~Sip47 /\ NoHeader
    BY <1>1, <1>5, ProgramsOf
  <2>2. sum = nhSum
    BY <1>5 DEF SumOf
  <2>3. nhSum = Full
    BY <1>1, <2>1, OldSums
  <2> QED
    BY <1>2, <2>2, <2>3
<1> QED
  BY <1>3, <1>4, <1>5 DEF SumOf

LEMMA RefusalIsRight ==
  ASSUME CInv, Launched, run.bl # <<>>, Refused
  PROVE  verdict' = "refused" /\ (unzip'.over => ~Complete)
<1>1. PICK program, job, least :
        /\ Refuse(program, job, least)
        /\ \/ program \in {"mdunzip", "mdunzipsip40", "mdunzipsip47"} /\ least = 48
           \/ program = "mdunzipnh" /\ least \in {21, 24}
  BY RefusedBy
<1>2. /\ rpc = "main" /\ unzip.program = program /\ unzip'.over = unzip.over
      /\ verdict' = "refused" /\ (DiskBytes < least \/ ~unzip.over)
  BY <1>1, Refusals
<1>3. RunOK /\ Zipped /\ wpc = "closed" /\ program \in Programs(cmd.tool)
  BY <1>2 DEF CInv, Reading, Launched
<1>4. PICK D \in Nat, F \in Nat : D = DiskBytes /\ F = Full /\ (Complete <=> D = F)
  BY <1>3, FileWeight
<1>5. least <= F /\ least \in Nat
  <2>1. (NoHeader => F >= 24) /\ (~NoHeader => F >= 48)
    BY <1>3, <1>4, LeastSize
  <2>2. program \in {"mdunzip", "mdunzipsip40", "mdunzipsip47"} => ~NoHeader
    BY <1>3, ProgramsOf
  <2>3. program = "mdunzipnh" => NoHeader
    BY <1>3, ProgramsOf
  <2>4. CASE program \in {"mdunzip", "mdunzipsip40", "mdunzipsip47"} /\ least = 48
    BY <2>1, <2>2, <2>4
  <2>5. CASE program = "mdunzipnh" /\ least \in {21, 24}
    BY <2>1, <2>3, <2>5
  <2> QED
    BY <1>1, <2>4, <2>5
<1>6. D < least => ~Complete
  BY <1>4, <1>5
<1>7. ~unzip.over => ~unzip'.over
  BY <1>2, Zenon
<1> QED
  BY <1>2, <1>4, <1>6, <1>7

LEMMA ValidationStep == CInv /\ CInv' /\ Launched /\ ValidationIsExact /\ [Next]_vars => ValidationIsExact'
<1> SUFFICES ASSUME CInv, CInv', Launched, ValidationIsExact, [Next]_vars PROVE ValidationIsExact'
  OBVIOUS
<1>1. CASE Zipping
  <2>1. verdict' = "none"
    BY <1>1, ZippersFirst DEF unzipVars, CInv
  <2> QED
    BY <2>1 DEF ValidationIsExact
<1>2. CASE ~Zipping
  <2>1. UNCHANGED zipVars
    BY <1>2, UnzippersOnlyRead
  <2>2. /\ cmd' = cmd /\ run' = run /\ Complete' = Complete /\ KeysCounted' = KeysCounted
    BY <2>1, SameSizes DEF zipVars, KeysCounted
  <2>3. ValidationIsExact' <=>
           (run.bl # <<>> =>
              /\ verdict' \in {"accepted", "rejected"} /\ KeysCounted => (verdict' = "accepted" <=> Complete)
              /\ verdict' = "refused" /\ unzip'.over => ~Complete)
    <3>1. RunOK'
      BY DEF CInv
    <3>2. (RunOK => (ValidationIsExact <=>
           (run.bl # <<>> =>
              /\ verdict \in {"accepted", "rejected"} /\ KeysCounted => (verdict = "accepted" <=> Complete)
              /\ verdict = "refused" /\ unzip.over => ~Complete)))'
      BY WhatIsPromised, PTL
    <3> QED
      BY <2>2, <3>1, <3>2
  <2>4. SUFFICES ASSUME run.bl # <<>>
                 PROVE  /\ verdict' \in {"accepted", "rejected"} /\ KeysCounted => (verdict' = "accepted" <=> Complete)
                        /\ verdict' = "refused" /\ unzip'.over => ~Complete
    BY <2>3
  <2>5. /\ verdict \in {"accepted", "rejected"} /\ KeysCounted => (verdict = "accepted" <=> Complete)
        /\ verdict = "refused" /\ unzip.over => ~Complete
    BY <2>4, WhatIsPromised DEF CInv
  <2>6. CASE Launching
    <3>1. verdict' = "none"
      BY <2>6, Launches DEF CInv, Reading
    <3> QED
      BY <3>1
  <2>7. CASE Refused
    BY <2>4, <2>7, RefusalIsRight
  <2>8. CASE Check
    <3>1. PICK program, least, sum : Validate(program, least, sum) /\ SumOf(program, sum)
      BY <2>8, CheckedBy
    <3>2. /\ unzip'.over = unzip.over /\ rpc = "main" /\ unzip.program = program
          /\ \/ verdict' = verdict
             \/ ~Garbled /\ verdict' = IF sum = DiskBytes THEN "accepted" ELSE "rejected"
      BY <3>1, Validations
    <3>3. CASE verdict' = verdict
      BY <2>5, <3>2, <3>3
    <3>4. CASE ~Garbled /\ verdict' = IF sum = DiskBytes THEN "accepted" ELSE "rejected"
      <4>1. KeysCounted => (sum = DiskBytes <=> Complete)
        BY <2>4, <3>1, <3>2, <3>4, SumIsRight
      <4> QED
        BY <3>4, <4>1
    <3> QED
      BY <3>2, <3>3, <3>4
  <2>9. CASE List \/ Unzip \/ Exit \/ UNCHANGED vars
    <3>1. unzip'.over = unzip.over /\ (verdict' = verdict \/ verdict' \in {"validates", "failed"})
      BY <2>9, OtherSteps
    <3> QED
      BY <2>5, <3>1
  <2> QED
    BY <1>2, <2>6, <2>7, <2>8, <2>9 DEF Next
<1> QED
  BY <1>1, <1>2

\* Validation is exact, for every command line, every list of signatures, every length
\* of file and every place the container was cut off at: a container that is all there
\* is accepted and one that is not is rejected, and no command refuses a whole one for
\* its size (validateMDzip, the programs' checks of the size).
THEOREM ValidationHolds == Spec => []ValidationIsExact
<1>1. Init => ValidationIsExact
  BY DEF Init, ValidationIsExact
<1> QED
  BY <1>1, ContainerInit, ContainerStep, LaunchedInit, LaunchedStep, ValidationStep, PTL DEF Spec

=============================================================================
