---------------------------- MODULE GoMdz_proofs ----------------------------
(***************************************************************************)
(* The container of the Go programs for every command line, registry, key  *)
(* list, file, and every number of bytes that reached the disk.            *)
(***************************************************************************)
EXTENDS GoMdz, TLAPS, SequenceTheorems, FiniteSetTheorems, WellFoundedInduction

----------------------------------------------------------------------------
(* Sequences, and what is computed along one of them step by step.         *)
IsList(s) == Len(s) \in Nat /\ s = [i \in 1..Len(s) |-> s[i]]

\* A function on the first n numbers.
LEMMA ListOf ==
  ASSUME NEW n \in Nat, NEW f, f = [i \in 1..n |-> f[i]]
  PROVE  IsList(f) /\ Len(f) = n
<1>1. f \in [1..n -> {f[i] : i \in 1..n}]
  BY DEF IsList
<1>2. f \in Seq({f[i] : i \in 1..n}) /\ Len(f) = n
  BY <1>1
<1> QED
  BY <1>2 DEF IsList

LEMMA SeqIsList ==
  ASSUME NEW S, NEW s \in Seq(S)
  PROVE  IsList(s) /\ \A i \in 1..Len(s) : s[i] \in S
<1>1. Len(s) \in Nat /\ DOMAIN s = 1..Len(s) /\ s \in [1..Len(s) -> S]
  BY LenProperties
<1> QED
  BY <1>1 DEF IsList

LEMMA Appended ==
  ASSUME NEW s, NEW e, IsList(s)
  PROVE  /\ IsList(Append(s, e)) /\ Len(Append(s, e)) = Len(s) + 1
         /\ \A i \in 1..Len(s) : Append(s, e)[i] = s[i]
         /\ Append(s, e)[Len(s) + 1] = e
<1> DEFINE T == {s[i] : i \in 1..Len(s)} \cup {e}
<1>1. s \in Seq(T) /\ e \in T /\ Len(s) \in Nat
  <2>1. \A i \in 1..Len(s) : s[i] \in T
    OBVIOUS
  <2>2. e \in T
    OBVIOUS
  <2> HIDE DEF T
  <2>3. Len(s) \in Nat /\ s \in [1..Len(s) -> T]
    BY <2>1 DEF IsList
  <2> QED
    BY <2>2, <2>3
<1> HIDE DEF T
<1>2. Append(s, e) \in Seq(T) /\ Len(Append(s, e)) = Len(s) + 1
  BY <1>1, AppendProperties
<1>3. IsList(Append(s, e))
  BY <1>2, SeqIsList
<1>4. /\ \A i \in 1..Len(s) : Append(s, e)[i] = s[i]
      /\ Append(s, e)[Len(s) + 1] = e
  BY <1>1, AppendProperties
<1> QED
  BY <1>2, <1>3, <1>4

\* Two lists with the same elements in the same places.
LEMMA SameList ==
  ASSUME NEW a, NEW b, IsList(a), IsList(b), Len(a) = Len(b), \A i \in 1..Len(a) : a[i] = b[i]
  PROVE  a = b
BY DEF IsList

LEMMA LeastExists ==
  ASSUME NEW S \in SUBSET Nat, S # {}
  PROVE  \E x \in S : \A y \in S : x <= y
<1>1. PICK x \in S : \A y \in S : <<y, x>> \notin OpToRel(<, Nat)
  BY NatLessThanWellFounded, WFMin
<1>2. ASSUME NEW y \in S PROVE ~(y < x)
  BY <1>1 DEF OpToRel
<1> QED
  BY <1>2

\* n steps from a base can be taken.
LEMMA Steps ==
  ASSUME NEW S, NEW base \in S, NEW n \in Nat, NEW step \in [1..n -> [S -> S]]
  PROVE  \E f \in [0..n -> S] : f[0] = base /\ \A i \in 1..n : f[i] = step[i][f[i - 1]]
<1> DEFINE Taken(f, k) == f[0] = base /\ \A i \in 1..k : f[i] = step[i][f[i - 1]]
           Bad == {k \in 0..n : \A f \in [0..k -> S] : ~Taken(f, k)}
<1>1. Bad = {}
  <2>1. SUFFICES ASSUME Bad # {} PROVE FALSE
    OBVIOUS
  <2>2. Bad \in SUBSET Nat
    OBVIOUS
  <2>3. PICK k \in Bad : \A j \in Bad : k <= j
    <3> HIDE DEF Bad
    <3> QED
      BY <2>1, <2>2, LeastExists
  <2>4. k # 0
    <3> DEFINE f == [i \in 0..0 |-> base]
    <3>1. f \in [0..0 -> S] /\ Taken(f, 0)
      OBVIOUS
    <3> HIDE DEF f, Taken
    <3> QED
      BY <2>3, <3>1
  <2>5. k \in 1..n /\ k - 1 \in 0..n /\ ~(k <= k - 1)
    BY <2>3, <2>4
  <2>6. PICK f \in [0..(k - 1) -> S] : Taken(f, k - 1)
    <3> HIDE DEF Taken
    <3> QED
      BY <2>3, <2>5
  <2> DEFINE h == [i \in 0..k |-> IF i = k THEN step[k][f[k - 1]] ELSE f[i]]
  <2>7. h \in [0..k -> S]
    <3>1. step[k][f[k - 1]] \in S
      BY <2>5, <2>6
    <3>2. \A i \in 0..k : i # k => i \in 0..(k - 1)
      BY <2>5
    <3> QED
      BY <3>1, <3>2, <2>6
  <2>8. Taken(h, k)
    <3>1. h[0] = base
      BY <2>5, <2>6
    <3>2. ASSUME NEW i \in 1..k PROVE h[i] = step[i][h[i - 1]]
      <4>1. h[i - 1] = f[i - 1]
        <5>1. i - 1 \in 0..k /\ i - 1 # k
          BY <2>5
        <5> QED
          BY <5>1
      <4>2. CASE i = k
        BY <4>1, <4>2, <2>5
      <4>3. CASE i # k
        <5>1. i \in 0..k /\ i \in 1..(k - 1)
          BY <4>3, <2>5
        <5> QED
          BY <4>1, <4>3, <5>1, <2>6
      <4> QED
        BY <4>2, <4>3
    <3> QED
      BY <3>1, <3>2
  <2> HIDE DEF h, Taken
  <2> QED
    BY <2>3, <2>7, <2>8
<1>2. PICK f \in [0..n -> S] : Taken(f, n)
  <2>1. n \in 0..n
    OBVIOUS
  <2> HIDE DEF Taken
  <2> QED
    BY <1>1, <2>1
<1> QED
  BY <1>2

----------------------------------------------------------------------------
(* The registry.                                                           *)
Registered == {hlist[i][1] : i \in 1..Len(hlist)}

LEMMA SizesArePositive == \A s \in Registered : CalcHashBlockSize(s) \in Nat \ {0}
<1>1. Len(hlist) \in Nat /\ DOMAIN hlist = 1..Len(hlist) /\ \A i \in 1..Len(hlist) : hlist[i] \in STRING \X (Nat \ {0})
  BY GoMdzAssumption, LenProperties
<1>2. ASSUME NEW s \in Registered PROVE CalcHashBlockSize(s) \in Nat \ {0}
  <2>1. \E i \in DOMAIN hlist : hlist[i][1] = s
    BY <1>1 DEF Registered
  <2>2. (CHOOSE i \in DOMAIN hlist : hlist[i][1] = s) \in DOMAIN hlist
    BY <2>1
  <2>3. \A i \in DOMAIN hlist : hlist[i][2] \in Nat \ {0}
    BY <1>1
  <2> QED
    BY <2>2, <2>3 DEF CalcHashBlockSize
<1> QED
  BY <1>2

\* Whatever the command line names, the list has names of the registry only.
LEMMA NamesAreRegistered ==
  ASSUME NEW indices
  PROVE  Names(indices) \in Seq(Registered)
<1>0. PICK n \in Nat : n = Len(hlist)
  BY GoMdzAssumption, LenProperties
<1> DEFINE Picked(i) == IF i - 1 \in indices THEN <<hlist[i][1]>> ELSE <<>>
           S == Seq(Registered)
           step == [i \in 1..n |-> [x \in S |-> x \o Picked(i)]]
           Walk(f) == f = [i \in 0..n |-> IF i = 0 THEN <<>> ELSE f[i - 1] \o Picked(i)]
           names == CHOOSE f : Walk(f)
<1>1. ASSUME NEW i \in 1..n PROVE Picked(i) \in S
  <2>1. PICK s : s = hlist[i][1]
    OBVIOUS
  <2>2. s \in Registered
    BY <1>0, <2>1 DEF Registered
  <2>3. <<s>> \in S /\ <<>> \in S
    BY <2>2
  <2> QED
    BY <2>1, <2>3
<1>2. step \in [1..n -> [S -> S]]
  <2>1. ASSUME NEW i \in 1..n, NEW x \in S PROVE x \o Picked(i) \in S
    <3> HIDE DEF Picked
    <3> QED
      BY <1>1, ConcatProperties
  <2> HIDE DEF Picked, S
  <2> QED
    BY <2>1
<1>3. \A i \in 1..n : \A x \in S : step[i][x] = x \o Picked(i)
  OBVIOUS
<1>4. <<>> \in S
  OBVIOUS
<1>5. Names(indices) = names[n]
  BY <1>0 DEF Names
<1> HIDE DEF step, S, Picked
<1>6. PICK f \in [0..n -> S] : f[0] = <<>> /\ \A i \in 1..n : f[i] = step[i][f[i - 1]]
  BY <1>2, <1>4, Steps
<1>7. Walk(f)
  <2>1. ASSUME NEW i \in 0..n PROVE f[i] = (IF i = 0 THEN <<>> ELSE f[i - 1] \o Picked(i))
    <3>1. CASE i = 0
      BY <1>6, <3>1
    <3>2. CASE i # 0
      <4>1. i \in 1..n /\ i - 1 \in 0..n
        BY <3>2
      <4>2. f[i - 1] \in S
        BY <1>6, <4>1
      <4> QED
        BY <1>3, <1>6, <3>2, <4>1, <4>2
    <3> QED
      BY <3>1, <3>2
  <2> QED
    BY <1>6, <2>1
<1>8. Walk(names)
  <2> HIDE DEF Walk
  <2> QED
    BY <1>7
<1> HIDE DEF names
<1>9. /\ names[0] = <<>> /\ \A i \in 1..n : names[i] = names[i - 1] \o Picked(i)
      /\ 0 \in 0..n
  <2>1. \A i \in 0..n : names[i] = (IF i = 0 THEN <<>> ELSE names[i - 1] \o Picked(i))
    BY <1>8
  <2>2. 0 \in 0..n /\ \A i \in 1..n : i \in 0..n /\ i # 0
    OBVIOUS
  <2> QED
    BY <2>1, <2>2
<1>10. \A i \in 0..n : names[i] \in S
  <2> DEFINE Out == {i \in 0..n : names[i] \notin S}
  <2>1. SUFFICES ASSUME Out # {} PROVE FALSE
    OBVIOUS
  <2>2. Out \in SUBSET Nat
    OBVIOUS
  <2>3. PICK i \in Out : \A j \in Out : i <= j
    <3> HIDE DEF Out
    <3> QED
      BY <2>1, <2>2, LeastExists
  <2>4. i # 0
    BY <2>3, <1>4, <1>9
  <2>5. i \in 1..n /\ i - 1 \in 0..n /\ ~(i <= i - 1)
    BY <2>3, <2>4
  <2>6. names[i - 1] \in S
    BY <2>3, <2>5
  <2>7. names[i] = names[i - 1] \o Picked(i) /\ Picked(i) \in S
    BY <1>1, <1>9, <2>5
  <2>8. names[i] \in S
    BY <2>6, <2>7, ConcatProperties DEF S
  <2> QED
    BY <2>3, <2>8
<1>11. n \in 0..n
  OBVIOUS
<1> QED
  BY <1>5, <1>10, <1>11 DEF S

LEMMA ListsAreRegistered == FileList \in Seq(Registered) /\ BlockList \in Seq(Registered)
<1>1. ASSUME NEW list PROVE CreateHashBlockList(list) \in Seq(Registered)
  BY NamesAreRegistered DEF CreateHashBlockList, CreateHashBlockListCSV, CreateHashBlockListBinary
<1> QED
  BY <1>1 DEF FileList, BlockList

----------------------------------------------------------------------------
(* Sums.                                                                   *)
Naturals(a) == IsList(a) /\ \A i \in 1..Len(a) : a[i] \in Nat
Running(f, a) ==
  /\ f \in [0..Len(a) -> Nat] /\ f[0] = 0
  /\ \A i \in 1..Len(a) : f[i] = f[i - 1] + a[i]

LEMMA RunningSum ==
  ASSUME NEW a, Naturals(a)
  PROVE  \E f : Running(f, a) /\ Total(a) = f[Len(a)]
<1>0. PICK n \in Nat : n = Len(a)
  BY DEF Naturals, IsList
<1> DEFINE step == [i \in 1..n |-> [x \in Nat |-> x + a[i]]]
           Sum(f) == f = [i \in 0..n |-> IF i = 0 THEN 0 ELSE f[i - 1] + a[i]]
           sum == CHOOSE f : Sum(f)
<1>1. step \in [1..n -> [Nat -> Nat]]
  BY <1>0 DEF Naturals
<1>2. \A i \in 1..n : \A x \in Nat : step[i][x] = x + a[i]
  OBVIOUS
<1> HIDE DEF step
<1>3. PICK N, zero : N = Nat /\ zero = 0
  OBVIOUS
<1>4. PICK f \in [0..n -> Nat] : f[0] = 0 /\ \A i \in 1..n : f[i] = step[i][f[i - 1]]
  <2>1. zero \in N /\ n \in Nat /\ step \in [1..n -> [N -> N]]
    BY <1>1, <1>3
  <2>2. \E f \in [0..n -> N] : f[0] = zero /\ \A i \in 1..n : f[i] = step[i][f[i - 1]]
    BY <2>1, Steps
  <2> QED
    BY <2>2, <1>3
<1>5. Sum(f)
  <2>1. ASSUME NEW i \in 1..n PROVE i - 1 \in 0..n /\ f[i - 1] \in Nat
    <3>1. i - 1 \in 0..n
      OBVIOUS
    <3> QED
      BY <1>4, <3>1
  <2>2. ASSUME NEW i \in 0..n PROVE f[i] = (IF i = 0 THEN 0 ELSE f[i - 1] + a[i])
    <3>1. CASE i = 0
      BY <1>4, <3>1
    <3>2. CASE i # 0
      <4>1. i \in 1..n
        BY <3>2
      <4> QED
        BY <1>2, <1>4, <2>1, <3>2, <4>1
    <3> QED
      BY <3>1, <3>2
  <2> QED
    BY <1>4, <2>2
<1>6. Sum(sum)
  <2> HIDE DEF Sum
  <2> QED
    BY <1>5
<1>7. Total(a) = sum[n]
  BY <1>0 DEF Total
<1> HIDE DEF sum
<1>8. sum[0] = 0 /\ (\A i \in 1..n : sum[i] = sum[i - 1] + a[i]) /\ sum = [i \in 0..n |-> sum[i]]
  <2>1. \A i \in 0..n : sum[i] = (IF i = 0 THEN 0 ELSE sum[i - 1] + a[i])
    BY <1>6
  <2>2. 0 \in 0..n /\ \A i \in 1..n : i \in 0..n /\ i # 0
    OBVIOUS
  <2>3. sum = [i \in 0..n |-> sum[i]]
    BY <1>6
  <2> QED
    BY <2>1, <2>2, <2>3
<1>9. \A i \in 0..n : sum[i] = f[i]
  <2> DEFINE Off == {i \in 0..n : sum[i] # f[i]}
  <2>1. SUFFICES ASSUME Off # {} PROVE FALSE
    OBVIOUS
  <2>2. Off \in SUBSET Nat
    OBVIOUS
  <2>3. PICK i \in Off : \A j \in Off : i <= j
    <3> HIDE DEF Off
    <3> QED
      BY <2>1, <2>2, LeastExists
  <2>4. i # 0
    BY <2>3, <1>4, <1>8
  <2>5. i \in 1..n /\ i - 1 \in 0..n /\ ~(i <= i - 1)
    BY <2>3, <2>4
  <2>6. sum[i - 1] = f[i - 1] /\ f[i - 1] \in Nat
    BY <1>4, <2>3, <2>5
  <2>7. sum[i] = f[i]
    BY <1>2, <1>4, <1>8, <2>5, <2>6
  <2> QED
    BY <2>3, <2>7
<1>10. Running(f, a)
  <2>1. ASSUME NEW i \in 1..n PROVE f[i] = f[i - 1] + a[i]
    <3>1. i - 1 \in 0..n
      OBVIOUS
    <3> QED
      BY <1>2, <1>4, <3>1
  <2> QED
    BY <1>0, <1>4, <2>1 DEF Running
<1>11. n \in 0..n
  OBVIOUS
<1> QED
  BY <1>0, <1>7, <1>9, <1>10, <1>11

\* One number more.
LEMMA TotalGrows ==
  ASSUME NEW a, Naturals(a), NEW x \in Nat, NEW b, IsList(b), Len(b) = Len(a) + 1,
         \A i \in 1..Len(a) : b[i] = a[i], b[Len(b)] = x
  PROVE  Naturals(b) /\ Total(b) = Total(a) + x /\ Total(a) \in Nat
<1>1. PICK n \in Nat : n = Len(a)
  BY DEF Naturals, IsList
<1>2. Naturals(b)
  <2>1. ASSUME NEW i \in 1..Len(b) PROVE b[i] \in Nat
    <3>1. i = n + 1 \/ i \in 1..n
      BY <1>1
    <3> QED
      BY <1>1, <3>1 DEF Naturals
  <2> QED
    BY <2>1 DEF Naturals
<1>3. PICK f : Running(f, a) /\ Total(a) = f[n]
  BY <1>1, RunningSum
<1>4. PICK g : Running(g, b) /\ Total(b) = g[n + 1]
  BY <1>1, <1>2, RunningSum
<1>5. f \in [0..n -> Nat] /\ f[0] = 0 /\ \A i \in 1..n : f[i] = f[i - 1] + a[i]
  BY <1>1, <1>3 DEF Running
<1>6. g \in [0..(n + 1) -> Nat] /\ g[0] = 0 /\ \A i \in 1..(n + 1) : g[i] = g[i - 1] + b[i]
  BY <1>1, <1>4 DEF Running
<1> DEFINE Off == {i \in 0..n : f[i] # g[i]}
<1>7. Off = {}
  <2>1. SUFFICES ASSUME Off # {} PROVE FALSE
    OBVIOUS
  <2>2. Off \in SUBSET Nat
    OBVIOUS
  <2>3. PICK i \in Off : \A j \in Off : i <= j
    <3> HIDE DEF Off
    <3> QED
      BY <2>1, <2>2, LeastExists
  <2>4. i # 0
    BY <2>3, <1>5, <1>6
  <2>5. i \in 1..n /\ i \in 1..(n + 1) /\ i - 1 \in 0..n /\ ~(i <= i - 1)
    BY <2>3, <2>4
  <2>6. f[i - 1] = g[i - 1] /\ a[i] = b[i]
    BY <1>1, <2>3, <2>5
  <2> QED
    BY <1>5, <1>6, <2>3, <2>5, <2>6
<1>8. n \in 0..n /\ n + 1 \in 1..(n + 1) /\ (n + 1) - 1 = n
  OBVIOUS
<1>9. g[n + 1] = g[n] + b[n + 1] /\ f[n] = g[n] /\ f[n] \in Nat
  BY <1>5, <1>6, <1>7, <1>8
<1> QED
  BY <1>1, <1>2, <1>3, <1>4, <1>9

LEMMA NothingWeighs == Naturals(<<>>) /\ Len(<<>>) = 0 /\ Total(<<>>) = 0 /\ IsList(<<>>)
<1>1. Naturals(<<>>) /\ Len(<<>>) = 0 /\ IsList(<<>>)
  BY DEF Naturals, IsList
<1>2. PICK f : Running(f, <<>>) /\ Total(<<>>) = f[Len(<<>>)]
  BY <1>1, RunningSum
<1> QED
  BY <1>1, <1>2 DEF Running

----------------------------------------------------------------------------
(* The key list: what its entries come to, once and again.                 *)
\* The provers do not know that "default" is a string.
Key == [id : STRING \cup {"default"}, len : Nat]

\* The contexts of HighwayHash and SipHash take keys of one length only.
KeyTables ==
  {k \in [KeyNames -> Key] : (\A s \in HighWay : k[s].len = 64) /\ (\A s \in Sip : k[s].len = 32)}
StoredKey == [name : KeyNames, key : Key]
KeyStates == [keys : KeyTables, list : Seq(StoredKey)]
NoKeys == [keys |-> DefaultKeys, list |-> <<>>]

LEMMA Kinds ==
  /\ Plain \cap Blake = {} /\ Plain \cap HighWay = {} /\ Plain \cap Sip = {}
  /\ Blake \cap HighWay = {} /\ Blake \cap Sip = {} /\ HighWay \cap Sip = {}
BY DEF Plain, Blake, HighWay, Sip

LEMMA DefaultsFit == NoKeys \in KeyStates /\ DefaultKeys \in KeyTables
<1> DEFINE Length(s) == CASE s \in HighWay -> 64 [] s \in Sip -> 32 [] OTHER -> 22
<1>1. \A s \in KeyNames : Length(s) \in Nat
  OBVIOUS
<1>2. \A s \in HighWay : Length(s) = 64
  BY Kinds
<1>3. \A s \in Sip : Length(s) = 32
  BY Kinds
<1>4. DefaultKeys = [s \in KeyNames |-> [id |-> "default", len |-> Length(s)]]
  BY DEF DefaultKeys
<1> HIDE DEF Length
<1>5. DefaultKeys \in [KeyNames -> Key]
  <2>1. ASSUME NEW s \in KeyNames PROVE [id |-> "default", len |-> Length(s)] \in Key
    <3>1. PICK l \in Nat : l = Length(s)
      BY <1>1
    <3>2. [id |-> "default", len |-> l] \in Key
      BY <3>1 DEF Key
    <3> QED
      BY <3>1, <3>2
  <2> QED
    BY <1>4, <2>1
<1>6. \A s \in KeyNames : DefaultKeys[s].len = Length(s)
  BY <1>4
<1>7. HighWay \subseteq KeyNames /\ Sip \subseteq KeyNames
  BY DEF KeyNames
<1>8. DefaultKeys \in KeyTables
  BY <1>2, <1>3, <1>5, <1>6, <1>7 DEF KeyTables
<1> QED
  BY <1>8 DEF NoKeys, KeyStates

\* A key that was filled up is one of the right length.
LEMMA FilledFits ==
  ASSUME NEW given \in Key, NEW before \in Key, NEW length \in Nat, length >= 2, before.len = length
  PROVE  /\ Filled(given, before, length) \in Key /\ Filled(given, before, length).len = length
         /\ Filled(Filled(given, before, length), before, length) = Filled(given, before, length)
<1>1. Filled(given, before, length) \in Key /\ Filled(given, before, length).len = length
  BY DEF Filled, Key
<1> QED
  BY <1>1 DEF Filled

\* What an entry came to comes to itself when it is set again over the same key.
LEMMA EntryFits ==
  ASSUME NEW s \in KeyNames, NEW given \in Key, NEW keys \in KeyTables
  PROVE  /\ Entry(s, given, keys[s]) \in Key
         /\ s \in HighWay => Entry(s, given, keys[s]).len = 64
         /\ s \in Sip => Entry(s, given, keys[s]).len = 32
         /\ Entry(s, Entry(s, given, keys[s]), keys[s]) = Entry(s, given, keys[s])
<1>0. PICK before \in Key : before = keys[s]
  BY DEF KeyTables
<1>1. CASE s \in Plain
  <2>1. \A g : Entry(s, g, before) = g
    BY <1>1, Kinds DEF Entry
  <2> QED
    BY <1>0, <1>1, <2>1, Kinds
<1>2. CASE s \in Blake
  <2>1. \A g : Entry(s, g, before) = (IF g.len >= 16 THEN g ELSE before)
    BY <1>2, Kinds DEF Entry
  <2> QED
    BY <1>0, <1>2, <2>1, Kinds
<1>3. CASE s \in HighWay
  <2>1. \A g : Entry(s, g, before) = Filled(g, before, 64)
    BY <1>3, Kinds DEF Entry
  <2>2. before.len = 64
    BY <1>0, <1>3 DEF KeyTables
  <2>3. PICK key \in Key : /\ key = Filled(given, before, 64) /\ key.len = 64
                           /\ Filled(key, before, 64) = key
    BY <2>2, FilledFits
  <2>4. Entry(s, given, before) = key /\ Entry(s, key, before) = key
    BY <2>1, <2>3
  <2> QED
    BY <1>0, <1>3, <2>3, <2>4, Kinds
<1>4. CASE s \in Sip
  <2>1. \A g : Entry(s, g, before) = Filled(g, before, 32)
    BY <1>4, Kinds DEF Entry
  <2>2. before.len = 32
    BY <1>0, <1>4 DEF KeyTables
  <2>3. PICK key \in Key : /\ key = Filled(given, before, 32) /\ key.len = 32
                           /\ Filled(key, before, 32) = key
    BY <2>2, FilledFits
  <2>4. Entry(s, given, before) = key /\ Entry(s, key, before) = key
    BY <2>1, <2>3
  <2> QED
    BY <1>0, <1>4, <2>3, <2>4, Kinds
<1> QED
  BY <1>1, <1>2, <1>3, <1>4 DEF KeyNames

LEMMA SetKeyFits ==
  ASSUME NEW st \in KeyStates, NEW s, NEW given \in Key
  PROVE  SetKey(st, s, given) \in KeyStates
<1>1. CASE s \notin KeyNames
  BY <1>1 DEF SetKey
<1>2. CASE s \in KeyNames
  <2>1. st.keys \in KeyTables /\ st.list \in Seq(StoredKey)
    BY DEF KeyStates
  <2>2. PICK key \in Key : /\ key = Entry(s, given, st.keys[s])
                           /\ s \in HighWay => key.len = 64
                           /\ s \in Sip => key.len = 32
    BY <1>2, <2>1, EntryFits
  <2>3. [st.keys EXCEPT ![s] = key] \in KeyTables
    <3>1. HighWay \subseteq KeyNames /\ Sip \subseteq KeyNames
      BY DEF KeyNames
    <3> QED
      BY <1>2, <2>1, <2>2, <3>1 DEF KeyTables
  <2>4. Append(st.list, [name |-> s, key |-> key]) \in Seq(StoredKey)
    BY <1>2, <2>1, AppendProperties DEF StoredKey
  <2>5. SetKey(st, s, given) =
          [keys |-> [st.keys EXCEPT ![s] = key], list |-> Append(st.list, [name |-> s, key |-> key])]
    BY <1>2, <2>2 DEF SetKey
  <2> QED
    BY <2>3, <2>4, <2>5 DEF KeyStates
<1> QED
  BY <1>1, <1>2

\* Setting what was stored, over the same keys, gives the same keys and stores the same.
LEMMA SetKeyAgain ==
  ASSUME NEW st \in KeyStates, NEW s \in KeyNames, NEW given \in Key
  PROVE  /\ SetKey(st, s, Entry(s, given, st.keys[s])) = SetKey(st, s, given)
         /\ SetKey(st, s, given).list = Append(st.list, [name |-> s, key |-> Entry(s, given, st.keys[s])])
         /\ Entry(s, given, st.keys[s]) \in Key
<1>1. st.keys \in KeyTables
  BY DEF KeyStates
<1>2. Entry(s, Entry(s, given, st.keys[s]), st.keys[s]) = Entry(s, given, st.keys[s]) /\ Entry(s, given, st.keys[s]) \in Key
  BY <1>1, EntryFits
<1> HIDE DEF Entry
<1> QED
  BY <1>2 DEF SetKey

\* The states a key list goes through.
Keyed(f, list) ==
  /\ f \in [0..Len(list) -> KeyStates] /\ f[0] = NoKeys
  /\ \A i \in 1..Len(list) : f[i] = SetKey(f[i - 1], list[i].name, list[i].key)

KeyList(list) == IsList(list) /\ \A i \in 1..Len(list) : list[i].key \in Key

LEMMA KeysAreSet ==
  ASSUME NEW list, KeyList(list)
  PROVE  \E f : Keyed(f, list) /\ SetHashListKey(list) = f[Len(list)]
<1>0. PICK n \in Nat : n = Len(list)
  BY DEF KeyList, IsList
<1> DEFINE Set(i, st) == SetKey(st, list[i].name, list[i].key)
           step == [i \in 1..n |-> [st \in KeyStates |-> Set(i, st)]]
           Walk(f) == f = [i \in 0..n |-> IF i = 0 THEN [keys |-> DefaultKeys, list |-> <<>>]
                                          ELSE SetKey(f[i - 1], list[i].name, list[i].key)]
           after == CHOOSE f : Walk(f)
<1>1. step \in [1..n -> [KeyStates -> KeyStates]]
  <2>1. ASSUME NEW i \in 1..n, NEW st \in KeyStates PROVE Set(i, st) \in KeyStates
    BY <1>0, SetKeyFits DEF KeyList
  <2> HIDE DEF Set
  <2> QED
    BY <2>1
<1>2. \A i \in 1..n : \A st \in KeyStates : step[i][st] = Set(i, st)
  <2> HIDE DEF Set
  <2> QED
    OBVIOUS
<1> HIDE DEF step
<1>3. PICK f \in [0..n -> KeyStates] : f[0] = NoKeys /\ \A i \in 1..n : f[i] = step[i][f[i - 1]]
  BY <1>1, DefaultsFit, Steps
<1>4. ASSUME NEW i \in 1..n PROVE f[i] = SetKey(f[i - 1], list[i].name, list[i].key)
  <2>1. i - 1 \in 0..n
    OBVIOUS
  <2>2. f[i] = Set(i, f[i - 1])
    <3> HIDE DEF Set
    <3> QED
      BY <1>2, <1>3, <2>1
  <2> QED
    BY <2>2
<1>5. Walk(f)
  <2>1. ASSUME NEW i \in 0..n
        PROVE  f[i] = (IF i = 0 THEN [keys |-> DefaultKeys, list |-> <<>>]
                       ELSE SetKey(f[i - 1], list[i].name, list[i].key))
    <3>1. CASE i = 0
      BY <1>3, <3>1 DEF NoKeys
    <3>2. CASE i # 0
      <4>1. i \in 1..n
        BY <3>2
      <4> QED
        BY <1>4, <3>2, <4>1
    <3> QED
      BY <3>1, <3>2
  <2> QED
    BY <1>3, <2>1
<1>6. Walk(after)
  <2> HIDE DEF Walk
  <2> QED
    BY <1>5
<1>7. SetHashListKey(list) = after[n]
  BY <1>0 DEF SetHashListKey
<1> HIDE DEF after
<1>8. /\ after[0] = NoKeys
      /\ \A i \in 1..n : after[i] = SetKey(after[i - 1], list[i].name, list[i].key)
  <2>1. \A i \in 0..n : after[i] = (IF i = 0 THEN [keys |-> DefaultKeys, list |-> <<>>]
                                    ELSE SetKey(after[i - 1], list[i].name, list[i].key))
    BY <1>6
  <2>2. 0 \in 0..n /\ \A i \in 1..n : i \in 0..n /\ i # 0
    OBVIOUS
  <2> QED
    BY <2>1, <2>2 DEF NoKeys
<1>9. \A i \in 0..n : after[i] = f[i]
  <2> DEFINE Off == {i \in 0..n : after[i] # f[i]}
  <2>1. SUFFICES ASSUME Off # {} PROVE FALSE
    OBVIOUS
  <2>2. Off \in SUBSET Nat
    OBVIOUS
  <2>3. PICK i \in Off : \A j \in Off : i <= j
    <3> HIDE DEF Off
    <3> QED
      BY <2>1, <2>2, LeastExists
  <2>4. i # 0
    BY <2>3, <1>3, <1>8
  <2>5. i \in 1..n /\ i - 1 \in 0..n /\ ~(i <= i - 1)
    BY <2>3, <2>4
  <2>6. after[i - 1] = f[i - 1]
    BY <2>3, <2>5
  <2>7. after[i] = f[i]
    BY <1>4, <1>8, <2>5, <2>6
  <2> QED
    BY <2>3, <2>7
<1>10. Keyed(f, list) /\ n \in 0..n
  BY <1>0, <1>3, <1>4 DEF Keyed
<1> QED
  BY <1>0, <1>7, <1>9, <1>10

\* One entry more.
LEMMA OneKeyMore ==
  ASSUME NEW list, KeyList(list), NEW e, e.key \in Key, NEW more, IsList(more), Len(more) = Len(list) + 1,
         \A i \in 1..Len(list) : more[i] = list[i], more[Len(more)] = e
  PROVE  KeyList(more) /\ SetHashListKey(more) = SetKey(SetHashListKey(list), e.name, e.key)
<1>1. PICK n \in Nat : n = Len(list)
  BY DEF KeyList, IsList
<1>2. KeyList(more)
  <2>1. ASSUME NEW i \in 1..Len(more) PROVE more[i].key \in Key
    <3>1. i = n + 1 \/ i \in 1..n
      BY <1>1
    <3> QED
      BY <1>1, <3>1 DEF KeyList
  <2> QED
    BY <2>1 DEF KeyList
<1>3. PICK f : Keyed(f, list) /\ SetHashListKey(list) = f[n]
  BY <1>1, KeysAreSet
<1>4. PICK g : Keyed(g, more) /\ SetHashListKey(more) = g[n + 1]
  BY <1>1, <1>2, KeysAreSet
<1>5. f[0] = NoKeys /\ \A i \in 1..n : f[i] = SetKey(f[i - 1], list[i].name, list[i].key)
  BY <1>1, <1>3 DEF Keyed
<1>6. g[0] = NoKeys /\ \A i \in 1..(n + 1) : g[i] = SetKey(g[i - 1], more[i].name, more[i].key)
  BY <1>1, <1>4 DEF Keyed
<1> DEFINE Off == {i \in 0..n : f[i] # g[i]}
<1>7. Off = {}
  <2>1. SUFFICES ASSUME Off # {} PROVE FALSE
    OBVIOUS
  <2>2. Off \in SUBSET Nat
    OBVIOUS
  <2>3. PICK i \in Off : \A j \in Off : i <= j
    <3> HIDE DEF Off
    <3> QED
      BY <2>1, <2>2, LeastExists
  <2>4. i # 0
    BY <2>3, <1>5, <1>6
  <2>5. i \in 1..n /\ i \in 1..(n + 1) /\ i - 1 \in 0..n /\ ~(i <= i - 1)
    BY <2>3, <2>4
  <2>6. f[i - 1] = g[i - 1] /\ list[i] = more[i]
    BY <1>1, <2>3, <2>5
  <2>7. f[i] = g[i]
    BY <1>5, <1>6, <2>5, <2>6
  <2> QED
    BY <2>3, <2>7
<1>8. n \in 0..n /\ n + 1 \in 1..(n + 1) /\ (n + 1) - 1 = n
  OBVIOUS
<1>9. g[n + 1] = SetKey(g[n], more[n + 1].name, more[n + 1].key) /\ f[n] = g[n]
  BY <1>6, <1>7, <1>8
<1> QED
  BY <1>1, <1>2, <1>3, <1>4, <1>9

\* The key list mdzip stores, set again, by mdzip for the blocks and by mdunzip, gives
\* the keys it was stored for, and the same key list.
LEMMA KeysComeBack ==
  ASSUME NEW list, KeyList(list)
  PROVE  /\ SetHashListKey(list) \in KeyStates
         /\ KeyList(SetHashListKey(list).list)
         /\ SetHashListKey(SetHashListKey(list).list) = SetHashListKey(list)
<1>1. PICK n \in Nat : n = Len(list)
  BY DEF KeyList, IsList
<1>2. PICK f : Keyed(f, list) /\ SetHashListKey(list) = f[n]
  BY <1>1, KeysAreSet
<1>3. f \in [0..n -> KeyStates] /\ f[0] = NoKeys /\ \A i \in 1..n : f[i] = SetKey(f[i - 1], list[i].name, list[i].key)
  BY <1>1, <1>2 DEF Keyed
<1>4. ASSUME NEW i \in 0..n PROVE f[i] \in KeyStates /\ KeyList(f[i].list)
  <2>1. f[i] \in KeyStates /\ f[i].list \in Seq(StoredKey)
    BY <1>3 DEF KeyStates
  <2>2. PICK l \in Seq(StoredKey) : l = f[i].list
    BY <2>1
  <2>3. IsList(l) /\ \A j \in 1..Len(l) : l[j] \in StoredKey
    BY SeqIsList
  <2>4. KeyList(l)
    BY <2>3 DEF KeyList, StoredKey
  <2> QED
    BY <2>1, <2>2, <2>4
<1> DEFINE Off == {i \in 0..n : SetHashListKey(f[i].list) # f[i]}
<1>5. Off = {}
  <2>1. SUFFICES ASSUME Off # {} PROVE FALSE
    OBVIOUS
  <2>2. Off \in SUBSET Nat
    OBVIOUS
  <2>3. PICK i \in Off : \A j \in Off : i <= j
    <3> HIDE DEF Off
    <3> QED
      BY <2>1, <2>2, LeastExists
  <2>4. i # 0
    <3>1. KeyList(<<>>) /\ Len(<<>>) = 0
      BY NothingWeighs DEF KeyList
    <3>2. PICK g : Keyed(g, <<>>) /\ SetHashListKey(<<>>) = g[0]
      BY <3>1, KeysAreSet
    <3>3. SetHashListKey(<<>>) = NoKeys /\ NoKeys.list = <<>>
      BY <3>2 DEF Keyed, NoKeys
    <3> QED
      BY <1>3, <2>3, <3>3
  <2>5. i \in 1..n /\ i \in 0..n /\ i - 1 \in 0..n /\ ~(i <= i - 1)
    BY <2>3, <2>4
  <2>6. PICK st \in KeyStates, given \in Key : st = f[i - 1] /\ given = list[i].key
    BY <1>1, <1>4, <2>5 DEF KeyList
  <2>10. PICK name : name = list[i].name
    OBVIOUS
  <2>11. f[i] = SetKey(st, name, given)
    BY <1>3, <2>5, <2>6, <2>10
  <2>7. SetHashListKey(st.list) = st /\ KeyList(st.list)
    BY <1>4, <2>3, <2>5, <2>6
  <2>8. CASE name \notin KeyNames
    <3>1. f[i] = st
      BY <2>8, <2>11 DEF SetKey
    <3> QED
      BY <2>3, <2>7, <3>1
  <2>9. CASE name \in KeyNames
    <3>1. PICK key \in Key : /\ SetKey(st, name, key) = f[i]
                             /\ f[i].list = Append(st.list, [name |-> name, key |-> key])
      <4>1. PICK key \in Key : key = Entry(name, given, st.keys[name])
        BY <2>9, SetKeyAgain
      <4> QED
        BY <2>9, <2>11, <4>1, SetKeyAgain
    <3>2. PICK l, more, e : l = st.list /\ more = f[i].list /\ e = [name |-> name, key |-> key]
      OBVIOUS
    <3>3. e.name = name /\ e.key = key /\ KeyList(l) /\ IsList(l) /\ more = Append(l, e)
      BY <2>7, <3>1, <3>2 DEF KeyList
    <3>4. IsList(more) /\ Len(more) = Len(l) + 1 /\ (\A j \in 1..Len(l) : more[j] = l[j]) /\ more[Len(more)] = e
      BY <3>3, Appended
    <3>5. SetHashListKey(more) = SetKey(SetHashListKey(l), name, key)
      BY <3>3, <3>4, OneKeyMore
    <3>6. SetHashListKey(f[i].list) = f[i]
      BY <2>7, <3>1, <3>2, <3>5
    <3> QED
      BY <2>3, <3>6
  <2> QED
    BY <2>8, <2>9
<1>6. n \in 0..n
  OBVIOUS
<1> QED
  BY <1>2, <1>4, <1>5, <1>6

----------------------------------------------------------------------------
(* Widths: what is written for a list of digests, a block and a container. *)
Sizes(names) == [i \in DOMAIN names |-> CalcHashBlockSize(names[i])]
Weights(items) == [i \in DOMAIN items |-> items[i].w]
Items(items) == IsList(items) /\ Naturals(Weights(items)) /\ Len(Weights(items)) = Len(items)

LEMMA DigestsTakeBytes ==
  ASSUME NEW names \in Seq(Registered)
  PROVE  /\ DigestBytes(names) \in Nat
         /\ DigestBytes(names) = 0 => names = <<>>
<1>1. PICK n \in Nat : n = Len(names) /\ DOMAIN names = 1..n
  BY LenProperties
<1>2. PICK a : a = Sizes(names)
  OBVIOUS
<1>3. a = [i \in 1..n |-> CalcHashBlockSize(names[i])]
  BY <1>1, <1>2 DEF Sizes
<1>4. IsList(a) /\ Len(a) = n
  <2>1. a = [i \in 1..n |-> a[i]]
    BY <1>3
  <2> QED
    BY <2>1, ListOf
<1>5. \A i \in 1..n : a[i] \in Nat \ {0}
  <2>1. \A i \in 1..n : names[i] \in Registered
    BY <1>1
  <2>2. \A i \in 1..n : a[i] = CalcHashBlockSize(names[i])
    BY <1>3
  <2> QED
    BY <2>1, <2>2, SizesArePositive
<1>6. Naturals(a)
  BY <1>4, <1>5 DEF Naturals
<1>7. PICK f : Running(f, a) /\ Total(a) = f[n]
  BY <1>4, <1>6, RunningSum
<1>8. f \in [0..n -> Nat] /\ \A i \in 1..n : f[i] = f[i - 1] + a[i]
  BY <1>4, <1>7 DEF Running
<1>9. n \in 0..n
  OBVIOUS
<1>10. ASSUME n > 0 PROVE f[n] # 0
  <2>1. n \in 1..n /\ n - 1 \in 0..n
    BY <1>10
  <2>2. f[n] = f[n - 1] + a[n] /\ a[n] \in Nat \ {0} /\ f[n - 1] \in Nat
    BY <1>5, <1>8, <2>1
  <2> QED
    BY <2>2
<1>11. DigestBytes(names) = Total(a)
  BY <1>2 DEF DigestBytes, Sizes
<1>12. names = <<>> \/ n > 0
  BY <1>1, EmptySeq
<1> QED
  BY <1>7, <1>8, <1>9, <1>10, <1>11, <1>12

\* Digests take the bytes of their names, whatever they are digests of.
LEMMA DigestsWidth ==
  ASSUME NEW names \in Seq(Registered), NEW keys, NEW data
  PROVE  Items(Digests(names, keys, data)) /\ Width(Digests(names, keys, data)) = DigestBytes(names)
<1>1. PICK n \in Nat : n = Len(names) /\ DOMAIN names = 1..n
  BY LenProperties
<1> DEFINE D == Digests(names, keys, data)
           Value(i) == <<names[i], KeysOf(names[i], keys), data[i]>>
<1>2. D = [i \in 1..n |-> It(CalcHashBlockSize(names[i]), Value(i))]
  BY <1>1 DEF Digests
<1> HIDE DEF D, Value
<1>3. IsList(D) /\ Len(D) = n /\ DOMAIN D = 1..n
  <2>1. D = [i \in 1..n |-> D[i]]
    BY <1>2
  <2> QED
    BY <1>2, <2>1, ListOf
<1>4. Weights(D) = Sizes(names)
  <2>1. \A i \in 1..n : D[i].w = CalcHashBlockSize(names[i])
    <3>1. \A x, y : It(x, y).w = x
      BY DEF It
    <3>2. \A i \in 1..n : D[i] = It(CalcHashBlockSize(names[i]), Value(i))
      BY <1>2
    <3> QED
      BY <3>1, <3>2
  <2> QED
    BY <1>1, <1>3, <2>1 DEF Weights, Sizes
<1>5. Naturals(Sizes(names)) /\ Len(Sizes(names)) = n
  <2>1. PICK a : a = Sizes(names)
    OBVIOUS
  <2>2. a = [i \in 1..n |-> CalcHashBlockSize(names[i])]
    BY <1>1, <2>1 DEF Sizes
  <2>3. a = [i \in 1..n |-> a[i]]
    BY <2>2
  <2>4. IsList(a) /\ Len(a) = n
    BY <2>3, ListOf
  <2>5. \A i \in 1..n : a[i] \in Nat
    <3>1. \A i \in 1..n : names[i] \in Registered
      BY <1>1
    <3> QED
      BY <2>2, <3>1, SizesArePositive
  <2> QED
    BY <2>1, <2>4, <2>5 DEF Naturals
<1>6. Width(D) = DigestBytes(names)
  BY <1>4 DEF Width, DigestBytes, Weights, Sizes
<1> QED
  BY <1>3, <1>4, <1>5, <1>6 DEF Items, D

\* One item more.
LEMMA OneItemMore ==
  ASSUME NEW items, Items(items), NEW w \in Nat, NEW v
  PROVE  Items(Append(items, It(w, v))) /\ Width(Append(items, It(w, v))) = Width(items) + w
<1>1. PICK n \in Nat : n = Len(items)
  BY DEF Items, IsList
<1>2. PICK x : x = It(w, v) /\ x.w = w
  <2>1. It(w, v).w = w
    BY DEF It
  <2> QED
    BY <2>1
<1>3. PICK more : more = Append(items, x)
  OBVIOUS
<1>4. IsList(more) /\ Len(more) = n + 1 /\ (\A i \in 1..n : more[i] = items[i]) /\ more[n + 1] = x
  BY <1>1, <1>3, Appended DEF Items
<1>5. DOMAIN more = 1..(n + 1) /\ DOMAIN items = 1..n
  BY <1>1, <1>4 DEF IsList, Items
<1>6. PICK b : b = Weights(more)
  OBVIOUS
<1>7. b = [i \in 1..(n + 1) |-> more[i].w]
  BY <1>5, <1>6 DEF Weights
<1>8. IsList(b) /\ Len(b) = n + 1
  <2>1. b = [i \in 1..(n + 1) |-> b[i]]
    BY <1>7
  <2> QED
    BY <2>1, ListOf
<1>9. \A i \in 1..n : b[i] = Weights(items)[i]
  <2>1. \A i \in 1..n : i \in 1..(n + 1)
    OBVIOUS
  <2>2. \A i \in 1..n : Weights(items)[i] = items[i].w
    BY <1>5 DEF Weights
  <2> QED
    BY <1>4, <1>7, <2>1, <2>2
<1>10. b[n + 1] = w
  BY <1>2, <1>4, <1>7
<1>11. Naturals(Weights(items)) /\ Len(Weights(items)) = n
  BY <1>1 DEF Items
<1>12. Naturals(b) /\ Total(b) = Total(Weights(items)) + w
  BY <1>8, <1>9, <1>10, <1>11, TotalGrows
<1>13. Width(more) = Total(b) /\ Width(items) = Total(Weights(items))
  BY <1>6 DEF Width, Weights
<1> QED
  BY <1>2, <1>3, <1>4, <1>6, <1>8, <1>12, <1>13 DEF Items

LEMMA AddedItem ==
  ASSUME NEW items, IsList(items), NEW x
  PROVE  items \o <<x>> = Append(items, x) /\ items \o <<>> = items
<1> DEFINE T == {items[i] : i \in 1..Len(items)} \cup {x}
<1>1. items \in Seq(T) /\ x \in T
  <2>1. \A i \in 1..Len(items) : items[i] \in T
    OBVIOUS
  <2>2. x \in T
    OBVIOUS
  <2> HIDE DEF T
  <2>3. Len(items) \in Nat /\ items \in [1..Len(items) -> T]
    BY <2>1 DEF IsList
  <2> QED
    BY <2>2, <2>3
<1> HIDE DEF T
<1> QED
  BY <1>1, AppendIsConcat, ConcatEmptySeq

LEMMA Tuples == \A a, b : Append(<<>>, a) = <<a>> /\ Append(Append(<<>>, a), b) = <<a, b>>
<1>1. ASSUME NEW a, NEW b PROVE Append(<<>>, a) = <<a>> /\ Append(<<a>>, b) = <<a, b>>
  <2>1. <<a>> \in Seq({a, b}) /\ Len(<<a>>) = 1 /\ <<a>>[1] = a
    OBVIOUS
  <2>2. <<a, b>> \in Seq({a, b}) /\ Len(<<a, b>>) = 2 /\ <<a, b>>[1] = a /\ <<a, b>>[2] = b
    OBVIOUS
  <2>3. PICK one, two : one = <<a>> /\ two = <<a, b>>
    OBVIOUS
  <2>4. IsList(one) /\ IsList(two)
    BY <2>1, <2>2, <2>3, SeqIsList
  <2>5. PICK none : none = <<>>
    OBVIOUS
  <2>6. PICK s, t : s = Append(none, a) /\ t = Append(one, b)
    OBVIOUS
  <2>7. IsList(none) /\ Len(none) = 0
    BY <2>5, NothingWeighs
  <2>8. IsList(s) /\ Len(s) = 1 /\ s[1] = a
    <3>1. IsList(Append(none, a)) /\ Len(Append(none, a)) = Len(none) + 1 /\ Append(none, a)[Len(none) + 1] = a
      BY <2>7, Appended
    <3>2. Len(none) + 1 = 1
      BY <2>7
    <3> QED
      BY <2>6, <3>1, <3>2
  <2>9. IsList(t) /\ Len(t) = 2 /\ t[1] = a /\ t[2] = b
    <3>1. /\ IsList(Append(one, b)) /\ Len(Append(one, b)) = Len(one) + 1 /\ Append(one, b)[Len(one) + 1] = b
          /\ \A i \in 1..Len(one) : Append(one, b)[i] = one[i]
      BY <2>4, Appended
    <3>2. Len(one) = 1 /\ Len(one) + 1 = 2 /\ one[1] = a /\ 1 \in 1..1
      BY <2>1, <2>3
    <3> QED
      BY <2>6, <3>1, <3>2
  <2>10. s = one
    BY <2>1, <2>3, <2>4, <2>8 DEF IsList
  <2>11. t = two
    <3>1. Len(two) = 2 /\ \A i \in 1..2 : t[i] = two[i]
      BY <2>2, <2>3, <2>9
    <3> QED
      BY <2>4, <2>9, <3>1, SameList
  <2> QED
    BY <2>3, <2>5, <2>6, <2>10, <2>11
<1> QED
  BY <1>1

\* The container so far.
Container(ws) == IsList(ws) /\ \A k \in 1..Len(ws) : Items(ws[k])
WrittenOf(ws) == Total([k \in DOMAIN ws |-> Width(ws[k])])

LEMMA ItemsWeigh == \A items : Items(items) => Width(items) \in Nat
<1>1. ASSUME NEW items, Items(items) PROVE Width(items) \in Nat
  <2>1. PICK a : a = Weights(items) /\ Naturals(a)
    BY <1>1 DEF Items
  <2>2. PICK f : Running(f, a) /\ Total(a) = f[Len(a)]
    BY <2>1, RunningSum
  <2>3. Len(a) \in 0..Len(a)
    BY <2>1 DEF Naturals, IsList
  <2>4. Total(a) \in Nat
    BY <2>2, <2>3 DEF Running
  <2> QED
    BY <2>1, <2>4 DEF Width, Weights
<1> QED
  BY <1>1

LEMMA OneWriteMore ==
  ASSUME NEW ws, Container(ws), NEW items, Items(items)
  PROVE  /\ Container(Append(ws, items)) /\ Len(Append(ws, items)) = Len(ws) + 1
         /\ WrittenOf(Append(ws, items)) = WrittenOf(ws) + Width(items)
         /\ WrittenOf(ws) \in Nat /\ Width(items) \in Nat
         /\ \A i \in 1..Len(ws) : Append(ws, items)[i] = ws[i]
         /\ Append(ws, items)[Len(ws) + 1] = items
<1>1. PICK n \in Nat : n = Len(ws) /\ DOMAIN ws = 1..n
  BY DEF Container, IsList
<1>2. PICK more : more = Append(ws, items)
  OBVIOUS
<1>3. IsList(more) /\ Len(more) = n + 1 /\ (\A i \in 1..n : more[i] = ws[i]) /\ more[n + 1] = items
  BY <1>1, <1>2, Appended DEF Container
<1>4. DOMAIN more = 1..(n + 1)
  BY <1>3 DEF IsList
<1>5. PICK a, b : a = [k \in 1..n |-> Width(ws[k])] /\ b = [k \in 1..(n + 1) |-> Width(more[k])]
  OBVIOUS
<1>6. IsList(a) /\ Len(a) = n /\ IsList(b) /\ Len(b) = n + 1
  <2>1. a = [k \in 1..n |-> a[k]] /\ b = [k \in 1..(n + 1) |-> b[k]]
    BY <1>5
  <2> QED
    BY <2>1, ListOf
<1>7. Naturals(a)
  <2>1. \A k \in 1..n : a[k] = Width(ws[k])
    BY <1>5
  <2>2. \A k \in 1..n : Width(ws[k]) \in Nat
    BY <1>1, ItemsWeigh DEF Container
  <2> QED
    BY <1>6, <2>1, <2>2 DEF Naturals
<1>8. \A i \in 1..n : b[i] = a[i]
  <2>1. \A i \in 1..n : i \in 1..(n + 1)
    OBVIOUS
  <2> QED
    BY <1>3, <1>5, <2>1
<1>9. b[n + 1] = Width(items) /\ Width(items) \in Nat
  BY <1>3, <1>5, ItemsWeigh
<1>10. Total(b) = Total(a) + Width(items) /\ Total(a) \in Nat
  BY <1>6, <1>7, <1>8, <1>9, TotalGrows
<1>11. WrittenOf(ws) = Total(a) /\ WrittenOf(more) = Total(b)
  BY <1>1, <1>4, <1>5 DEF WrittenOf
<1>12. Container(more)
  <2>1. ASSUME NEW k \in 1..(n + 1) PROVE Items(more[k])
    <3>1. k \in 1..n \/ k = n + 1
      OBVIOUS
    <3> QED
      BY <1>1, <1>3, <3>1 DEF Container
  <2> QED
    BY <1>3, <2>1 DEF Container
<1> QED
  BY <1>1, <1>2, <1>3, <1>9, <1>10, <1>11, <1>12

LEMMA NothingWritten == Container(<<>>) /\ WrittenOf(<<>>) = 0 /\ Items(<<>>) /\ Width(<<>>) = 0
<1>1. \A i : i \notin DOMAIN <<>>
  OBVIOUS
<1>2. Weights(<<>>) = <<>> /\ [k \in DOMAIN <<>> |-> Width(<<>>[k])] = <<>>
  BY <1>1 DEF Weights
<1> QED
  BY <1>2, NothingWeighs DEF Container, WrittenOf, Items, Width, Weights

----------------------------------------------------------------------------
(* The invariant.                                                          *)
Known == SetHashListKey(cmd.keylist)

\* What the header says once it is made.
HeaderMade ==
  /\ hdr.blocksize = Blocksize(cmd) /\ hdr.modsize = cmd.modsize
  /\ hdr.fl \in Seq(Registered) /\ hdr.bl \in Seq(Registered)
  /\ hdr.keylist = Known.list /\ hdr.fkeys = Known.keys /\ hdr.bkeys = Known.keys

\* What mdzip writes for a block, which is what its readers expect up to 32 bytes.
RecordBytes == DigestBytes(hdr.bl) + 1 + modByteSize(cmd.modsize)

\* Every write is where its readers look for it.
LaidOut ==
  \/ Len(written) = 0 /\ Written = 0
  \/ Len(written) = 1 /\ Written = HeaderEnd
  \/ /\ Len(written) >= 2
     /\ written[2] = Digests(hdr.fl, hdr.fkeys, FileData)
     /\ (Len(written) = 2 \/ cmd.modsize # 0) => Written = FileHashEnd + (Len(written) - 2) * RecordBytes

ZipInv ==
  /\ cmd \in Commands /\ zpc \in {"start", "file", "blocks", "written", "closed"}
  /\ hdr.fkeys \in KeyTables /\ hdr.bkeys \in KeyTables
  /\ Container(written) /\ disk \in 0..Written
  /\ zpc = "start" => written = <<>>
  /\ zpc # "start" => HeaderMade /\ LaidOut
  /\ zpc = "file" => Len(written) = 1
  /\ zpc = "blocks" => Len(written) >= 2 /\ (cmd.modsize = 0 => Len(written) = 2)
  /\ zpc # "closed" => disk = 0

\* Blocks come out in order, and the reader's keys are those of the digests.
ReadInv ==
  /\ upc \in {"off", "blocks", "validate", "exit", "done", "panic", "stuck"}
  /\ ukeys \in KeyTables /\ verdict \in {"none", "validated"}
  /\ upc # "off" => zpc = "closed"
  /\ IsList(out) /\ Len(out) <= Len(cmd.data)
  /\ \A i \in 1..Len(out) : out[i] = cmd.data[i].id
  /\ upc = "off" => out = <<>>
  /\ upc \in {"blocks", "validate"} =>
       hdr.blocksize # 0 /\ hdr.bl # <<>> /\ ukeys = Known.keys /\ FileHashEnd <= disk /\ ~cmd.list
  /\ upc = "validate" => cmd.val
  /\ upc = "validate" \/ (upc = "done" /\ ~cmd.list) => Len(out) = Len(cmd.data)

GoInv == ZipInv /\ ReadInv /\ FailsOnlyWhenCut

LEMMA WrittenIs == Written = WrittenOf(written) /\ Written' = WrittenOf(written')
BY DEF Written, WrittenOf

LEMMA CommandKnown ==
  ASSUME NEW c \in Commands
  PROVE  /\ KeyList(c.keylist) /\ Blocksize(c) \in Nat /\ c.modsize \in Nat /\ c.filesize \in Nat
         /\ Len(c.data) \in Nat /\ DOMAIN c.data = 1..Len(c.data)
         /\ Blocksize(c) > 0 =>
              /\ Len(c.data) = calculateFileBlocks(c.filesize, Blocksize(c))
              /\ \A b \in 1..Len(c.data) : c.data[b].exp \in Nat /\ c.data[b].exp < 8 * Blocksize(c)
<1>1. /\ c.keylist \in Seq([name : STRING, key : [id : STRING, len : Nat]])
      /\ c.filesize \in Nat /\ c.blocksize \in Nat /\ c.modsize \in Nat
      /\ c.data \in Seq([id : STRING, exp : Nat])
      /\ Blocksize(c) > 0 =>
           /\ Len(c.data) = calculateFileBlocks(c.filesize, Blocksize(c))
           /\ \A b \in DOMAIN c.data : c.data[b].exp < 8 * Blocksize(c)
  BY GoMdzAssumption
<1>2. KeyList(c.keylist)
  <2>1. PICK l \in Seq([name : STRING, key : [id : STRING, len : Nat]]) : l = c.keylist
    BY <1>1
  <2>2. IsList(l) /\ \A i \in 1..Len(l) : l[i] \in [name : STRING, key : [id : STRING, len : Nat]]
    BY SeqIsList
  <2>3. \A i \in 1..Len(l) : l[i].key \in Key
    BY <2>2 DEF Key
  <2> QED
    BY <2>1, <2>2, <2>3 DEF KeyList
<1>3. PICK d \in Seq([id : STRING, exp : Nat]) : d = c.data
  BY <1>1
<1>4. IsList(d) /\ DOMAIN d = 1..Len(d) /\ \A i \in 1..Len(d) : d[i] \in [id : STRING, exp : Nat]
  <2>1. IsList(d) /\ \A i \in 1..Len(d) : d[i] \in [id : STRING, exp : Nat]
    BY SeqIsList
  <2>2. DOMAIN d = 1..Len(d)
    BY LenProperties
  <2> QED
    BY <2>1, <2>2
<1>5. \A i \in 1..Len(d) : d[i].exp \in Nat
  BY <1>4
<1>6. Blocksize(c) \in Nat
  BY <1>1 DEF Blocksize
<1> QED
  BY <1>1, <1>2, <1>3, <1>4, <1>5, <1>6 DEF IsList

LEMMA KnownFits == ASSUME cmd \in Commands
                   PROVE  /\ Known.keys \in KeyTables /\ KeyList(Known.list)
                          /\ SetHashListKey(Known.list) = Known
<1>1. KeyList(cmd.keylist)
  BY CommandKnown
<1> QED
  BY <1>1, KeysComeBack DEF Known, KeyStates

LEMMA GoInit == Init => GoInv
<1> SUFFICES ASSUME Init PROVE GoInv
  OBVIOUS
<1> USE DEF Init
<1>1. DefaultKeys \in KeyTables
  BY DefaultsFit
<1>2. hdr.fkeys \in KeyTables /\ hdr.bkeys \in KeyTables /\ ukeys \in KeyTables
  BY <1>1
<1>3. Container(written) /\ Written = 0
  BY NothingWritten, WrittenIs
<1>4. IsList(out) /\ Len(out) = 0
  BY NothingWeighs
<1>5. Len(cmd.data) \in Nat
  BY CommandKnown
<1>6. ZipInv
  BY <1>2, <1>3 DEF ZipInv
<1>7. ReadInv
  BY <1>2, <1>4, <1>5 DEF ReadInv
<1>8. FailsOnlyWhenCut
  BY DEF FailsOnlyWhenCut
<1> QED
  BY <1>6, <1>7, <1>8 DEF GoInv

----------------------------------------------------------------------------
(* mdzip.                                                                  *)
LEMMA Numbers ==
  ASSUME NEW m \in Nat
  PROVE  modByteSize(m) \in Nat
BY DEF modByteSize

LEMMA BytesOfList == ASSUME HeaderMade, cmd \in Commands
                     PROVE  /\ DigestBytes(hdr.fl) \in Nat /\ DigestBytes(hdr.bl) \in Nat /\ RecordBytes \in Nat
                            /\ HeaderEnd \in Nat /\ FileHashEnd = HeaderEnd + DigestBytes(hdr.fl)
                            /\ HeaderEnd > 0 /\ RecordBytes > 0
<1>1. DigestBytes(hdr.fl) \in Nat /\ DigestBytes(hdr.bl) \in Nat
  BY DigestsTakeBytes DEF HeaderMade
<1>2. modByteSize(cmd.modsize) \in Nat
  BY CommandKnown, Numbers
<1>3. TextBytes \in Nat
  BY GoMdzAssumption
<1> QED
  BY <1>1, <1>2, <1>3 DEF RecordBytes, HeaderEnd, FileHashEnd

LEMMA HeaderIsMade == ZipInv /\ EncodeFileHeader => ZipInv'
<1> SUFFICES ASSUME ZipInv, EncodeFileHeader PROVE ZipInv'
  OBVIOUS
<1>1. /\ cmd' = cmd /\ cmd \in Commands /\ disk' = disk /\ zpc = "start"
      /\ zpc' \in {"file", "written"} /\ disk = 0
      /\ \/ zpc' = "file" /\ written' = <<<<It(48, "attributes"), It(TextBytes, "names")>>>>
         \/ zpc' = "written" /\ written' = <<>>
  BY DEF EncodeFileHeader, ZipInv
<1>2. PICK file, block : file = SetHashListKey(cmd.keylist) /\ block = SetHashListKey(file.list)
  OBVIOUS
<1>3. file = Known /\ block = Known /\ Known.keys \in KeyTables
  BY <1>1, <1>2, KnownFits DEF Known
<1>4. hdr' = [filesize |-> cmd.filesize, blocksize |-> Blocksize(cmd), modsize |-> cmd.modsize, fl |-> FileList,
              bl |-> BlockList, keylist |-> block.list, fkeys |-> file.keys, bkeys |-> block.keys]
  BY <1>2 DEF EncodeFileHeader
<1>5. /\ hdr'.blocksize = Blocksize(cmd) /\ hdr'.modsize = cmd.modsize /\ hdr'.fl = FileList /\ hdr'.bl = BlockList
      /\ hdr'.keylist = Known.list /\ hdr'.fkeys = Known.keys /\ hdr'.bkeys = Known.keys
  BY <1>3, <1>4
<1>6. HeaderMade'
  <2>1. Known' = Known /\ Blocksize(cmd)' = Blocksize(cmd)
    BY <1>1 DEF Known, Blocksize
  <2> QED
    BY <1>1, <1>5, <2>1, ListsAreRegistered DEF HeaderMade
<1>7. Container(written') /\ Written' \in Nat /\ LaidOut'
  <2>1. CASE written' = <<>>
    BY <2>1, NothingWritten, WrittenIs DEF LaidOut
  <2>2. CASE written' = <<<<It(48, "attributes"), It(TextBytes, "names")>>>>
    <3>1. TextBytes \in Nat
      BY GoMdzAssumption
    <3>2. PICK first : first = Append(<<>>, It(48, "attributes"))
      OBVIOUS
    <3>3. Items(first) /\ Width(first) = 0 + 48
      BY <3>2, NothingWritten, OneItemMore
    <3>4. PICK both : both = Append(first, It(TextBytes, "names"))
      OBVIOUS
    <3>5. Items(both) /\ Width(both) = 48 + TextBytes
      BY <3>1, <3>3, <3>4, OneItemMore
    <3>6. both = <<It(48, "attributes"), It(TextBytes, "names")>>
      BY <3>2, <3>4, Tuples
    <3>7. written' = Append(<<>>, both)
      BY <2>2, <3>6, Tuples
    <3>8. /\ Container(written') /\ Len(written') = 1
          /\ WrittenOf(written') = 0 + Width(both)
      <4>1. PICK ws : ws = <<>>
        OBVIOUS
      <4>2. Container(ws) /\ Len(ws) = 0 /\ WrittenOf(ws) = 0
        BY <4>1, NothingWritten, NothingWeighs
      <4>3. /\ Container(Append(ws, both)) /\ Len(Append(ws, both)) = Len(ws) + 1
            /\ WrittenOf(Append(ws, both)) = WrittenOf(ws) + Width(both)
        BY <3>5, <4>2, OneWriteMore
      <4> QED
        BY <3>7, <4>1, <4>2, <4>3
    <3>9. Written' = HeaderEnd /\ HeaderEnd' = HeaderEnd /\ HeaderEnd \in Nat
      BY <3>1, <3>5, <3>8, WrittenIs DEF HeaderEnd
    <3> QED
      BY <3>8, <3>9 DEF LaidOut
  <2> QED
    BY <1>1, <2>1, <2>2
<1>8. zpc' = "file" => Len(written') = 1
  BY <1>1
<1> QED
  BY <1>1, <1>3, <1>5, <1>6, <1>7, <1>8 DEF ZipInv

\* A write more: nothing of the header and the lists changes.
LEMMA SameHeader ==
  ASSUME HeaderMade, cmd' = cmd, hdr' = hdr
  PROVE  /\ HeaderMade' /\ RecordBytes' = RecordBytes /\ HeaderEnd' = HeaderEnd /\ FileHashEnd' = FileHashEnd
         /\ FileData' = FileData /\ Known' = Known
         /\ \A names, keys, data : Digests(names, keys, data)' = Digests(names, keys, data)
<1>1. Known' = Known /\ Blocksize(cmd)' = Blocksize(cmd)
  BY DEF Known, Blocksize
<1> QED
  BY <1>1 DEF HeaderMade, RecordBytes, HeaderEnd, FileHashEnd, FileData, WholeFile

LEMMA FileIsEncoded == ZipInv /\ mdencodeFile => ZipInv'
<1> SUFFICES ASSUME ZipInv, mdencodeFile PROVE ZipInv'
  OBVIOUS
<1>1. PICK items : items = Digests(hdr.fl, hdr.fkeys, FileData)
  OBVIOUS
<1>2. /\ zpc = "file" /\ zpc' \in {"blocks", "written"} /\ cmd' = cmd /\ hdr' = hdr /\ disk' = disk
      /\ written' = Append(written, items)
  BY <1>1 DEF mdencodeFile
<1>3. HeaderMade /\ LaidOut /\ Len(written) = 1 /\ Container(written) /\ disk = 0 /\ cmd \in Commands
  BY <1>2 DEF ZipInv
<1>4. Items(items) /\ Width(items) = DigestBytes(hdr.fl)
  BY <1>1, <1>3, DigestsWidth DEF HeaderMade
<1>5. /\ Container(written') /\ Len(written') = 2 /\ written'[2] = items
      /\ Written' = Written + DigestBytes(hdr.fl)
  <2>1. PICK ws : ws = written
    OBVIOUS
  <2>2. /\ Container(Append(ws, items)) /\ Len(Append(ws, items)) = Len(ws) + 1
        /\ WrittenOf(Append(ws, items)) = WrittenOf(ws) + Width(items)
        /\ Append(ws, items)[Len(ws) + 1] = items
    BY <1>3, <1>4, <2>1, OneWriteMore
  <2>3. WrittenOf(written') = WrittenOf(written) + Width(items)
    BY <1>2, <2>1, <2>2
  <2>4. Len(written') = 2 /\ written'[2] = items
    <3>1. PICK n : n = Len(ws)
      OBVIOUS
    <3>2. n = 1 /\ n + 1 = 2
      BY <1>3, <2>1, <3>1
    <3> QED
      BY <1>2, <2>1, <2>2, <3>1, <3>2
  <2>5. Container(written')
    BY <1>2, <2>1, <2>2
  <2> QED
    BY <1>4, <2>3, <2>4, <2>5, WrittenIs
<1>6. Written = HeaderEnd
  BY <1>3 DEF LaidOut
<1>7. Written' = FileHashEnd /\ FileHashEnd \in Nat /\ RecordBytes \in Nat
  BY <1>3, <1>5, <1>6, BytesOfList
<1>8. HeaderMade' /\ LaidOut'
  <2>1. Written' = FileHashEnd + (2 - 2) * RecordBytes
    BY <1>7
  <2>2. (Digests(hdr.fl, hdr.fkeys, FileData))' = items
    BY <1>1, <1>2, <1>3, SameHeader
  <2> QED
    BY <1>2, <1>3, <1>5, <2>1, <2>2, SameHeader DEF LaidOut
<1> QED
  BY <1>2, <1>3, <1>5, <1>7, <1>8 DEF ZipInv

\* A block's entry has the bytes its readers take for one of up to 32 bytes.
LEMMA BlockWidth ==
  ASSUME HeaderMade, cmd \in Commands, NEW b
  PROVE  Items(EncodeBlock(b)) /\ (cmd.modsize # 0 => Width(EncodeBlock(b)) = RecordBytes)
<1>1. PICK names, data : names = hdr.bl /\ data = [i \in DOMAIN hdr.bl |-> WholeFile[b]]
  OBVIOUS
<1>2. PICK digests : digests = Digests(names, hdr.bkeys, data)
  OBVIOUS
<1>3. Items(digests) /\ Width(digests) = DigestBytes(names)
  BY <1>1, <1>2, DigestsWidth DEF HeaderMade
<1>4. PICK e, r : e = cmd.data[b].exp % 256 /\ r = WholeFile[b]
  OBVIOUS
<1>5. ExponentBytes(formatBlockSize) = 1
  BY DEF ExponentBytes, formatBlockSize
<1>6. PICK more : more = Append(digests, It(1, e))
  OBVIOUS
<1>7. Items(more) /\ Width(more) = DigestBytes(names) + 1
  BY <1>3, <1>6, OneItemMore
<1>8. PICK m \in Nat : m = modByteSize(cmd.modsize)
  BY CommandKnown, Numbers
<1>9. PICK all : all = Append(more, It(m, r))
  OBVIOUS
<1>10. Items(all) /\ Width(all) = DigestBytes(names) + 1 + m
  BY <1>7, <1>9, OneItemMore
<1>11. digests \o <<It(1, e)>> = more /\ more \o <<>> = more /\ more \o <<It(m, r)>> = all
  BY <1>3, <1>6, <1>7, <1>9, AddedItem DEF Items
<1>12. EncodeBlock(b) = (digests \o <<It(1, e)>>) \o (IF cmd.modsize = 0 THEN <<>> ELSE <<It(m, r)>>)
  BY <1>1, <1>2, <1>4, <1>5, <1>8 DEF EncodeBlock
<1>13. EncodeBlock(b) = IF cmd.modsize = 0 THEN more ELSE all
  BY <1>11, <1>12
<1> QED
  BY <1>1, <1>7, <1>8, <1>10, <1>13 DEF RecordBytes

LEMMA OneMore == \A q, R \in Nat : (q + 1) * R = q * R + R /\ q * R \in Nat
BY Z3

LEMMA BlockIsEncoded == ZipInv /\ mdencodeFileBlock => ZipInv'
<1> SUFFICES ASSUME ZipInv, mdencodeFileBlock PROVE ZipInv'
  OBVIOUS
<1>1. PICK items : items = EncodeBlock(Len(written) - 1)
  OBVIOUS
<1>2. /\ zpc = "blocks" /\ zpc' \in {"blocks", "written"} /\ cmd' = cmd /\ hdr' = hdr /\ disk' = disk
      /\ written' = Append(written, items) /\ (cmd.modsize = 0 => zpc' = "written")
  BY <1>1 DEF mdencodeFileBlock
<1>3. HeaderMade /\ LaidOut /\ Len(written) >= 2 /\ Container(written) /\ disk = 0 /\ cmd \in Commands
  BY <1>2 DEF ZipInv
<1>4. cmd.modsize = 0 => Len(written) = 2
  BY <1>2 DEF ZipInv
<1>5. PICK n \in Nat : n = Len(written) /\ n >= 2
  BY <1>3 DEF Container, IsList
<1>6. Items(items) /\ (cmd.modsize # 0 => Width(items) = RecordBytes)
  BY <1>1, <1>3, BlockWidth
<1>7. PICK ws, more : ws = written /\ more = Append(ws, items)
  OBVIOUS
<1>8. /\ Container(more) /\ Len(more) = n + 1
      /\ WrittenOf(more) = WrittenOf(ws) + Width(items) /\ WrittenOf(ws) \in Nat /\ Width(items) \in Nat
      /\ \A i \in 1..n : more[i] = ws[i]
  BY <1>3, <1>5, <1>6, <1>7, OneWriteMore
<1>9. written' = more /\ Written = WrittenOf(ws) /\ Written' = WrittenOf(more)
  BY <1>2, <1>7, WrittenIs
<1>10. written'[2] = written[2]
  <2>1. 2 \in 1..n
    BY <1>5
  <2> QED
    BY <1>7, <1>8, <1>9, <2>1
<1>11. written[2] = Digests(hdr.fl, hdr.fkeys, FileData)
  BY <1>3, <1>5 DEF LaidOut
<1>12. cmd.modsize # 0 => Written' = FileHashEnd + ((n + 1) - 2) * RecordBytes
  <2>1. SUFFICES ASSUME cmd.modsize # 0 PROVE Written' = FileHashEnd + ((n + 1) - 2) * RecordBytes
    OBVIOUS
  <2>2. Written = FileHashEnd + (n - 2) * RecordBytes
    BY <1>3, <1>5, <2>1 DEF LaidOut
  <2>3. PICK R \in Nat, F \in Nat : R = RecordBytes /\ F = FileHashEnd
    BY <1>3, BytesOfList
  <2>4. PICK q \in Nat : q = n - 2
    BY <1>5
  <2>5. (n + 1) - 2 = q + 1
    BY <1>5, <2>4
  <2>6. (q + 1) * R = q * R + R /\ q * R \in Nat
    BY OneMore
  <2>7. PICK p \in Nat : p = q * R
    BY <2>6
  <2>8. Written = F + p
    BY <2>2, <2>3, <2>4, <2>7
  <2>9. Written' = (F + p) + R
    BY <1>6, <1>8, <1>9, <2>1, <2>3, <2>8
  <2>10. ((n + 1) - 2) * R = p + R
    BY <2>5, <2>6, <2>7
  <2> QED
    BY <2>3, <2>9, <2>10
<1>13. HeaderMade' /\ LaidOut'
  <2>1. (Digests(hdr.fl, hdr.fkeys, FileData))' = Digests(hdr.fl, hdr.fkeys, FileData)
    BY <1>2, <1>3, SameHeader
  <2>2. HeaderMade' /\ FileHashEnd' = FileHashEnd /\ RecordBytes' = RecordBytes
    BY <1>2, <1>3, SameHeader
  <2>3. Len(written') = n + 1 /\ n + 1 >= 2 /\ n + 1 # 2
    BY <1>5, <1>8, <1>9
  <2>4. written'[2] = (Digests(hdr.fl, hdr.fkeys, FileData))'
    BY <1>10, <1>11, <2>1
  <2>5. cmd'.modsize # 0 => Written' = FileHashEnd' + (Len(written') - 2) * RecordBytes'
    BY <1>2, <1>12, <2>2, <2>3
  <2> QED
    BY <2>2, <2>3, <2>4, <2>5 DEF LaidOut
<1>14. Written' \in Nat
  BY <1>8, <1>9
<1>15. Len(written') >= 2 /\ (zpc' = "blocks" => cmd'.modsize # 0)
  BY <1>2, <1>5, <1>8, <1>9
<1> QED
  BY <1>2, <1>3, <1>8, <1>9, <1>13, <1>14, <1>15 DEF ZipInv

\* The disk fills up, or mdzip is stopped.
LEMMA ZipperEnds == ZipInv /\ (EndOfFile \/ Kill) => ZipInv'
<1> SUFFICES ASSUME ZipInv, EndOfFile \/ Kill PROVE ZipInv'
  OBVIOUS
<1>1. /\ cmd' = cmd /\ hdr' = hdr /\ written' = written /\ zpc' = "closed" /\ zpc # "start"
      /\ disk' \in 0..Written \/ disk' = Written
  BY DEF EndOfFile, Kill
<1>2. Container(written) /\ HeaderMade /\ LaidOut /\ cmd \in Commands
  BY <1>1 DEF ZipInv
<1>3. Written \in Nat /\ Written' = Written
  <2>1. Written' = Written
    BY <1>1 DEF Written
  <2>2. disk \in 0..Written
    BY DEF ZipInv
  <2>3. LaidOut => Written \in Nat
    <3>1. PICK ws : ws = written
      OBVIOUS
    <3>2. WrittenOf(ws) \in Nat
      BY <1>2, <3>1, NothingWritten, OneWriteMore
    <3> QED
      BY <3>1, <3>2, WrittenIs
  <2> QED
    BY <1>2, <2>1, <2>3
<1>4. HeaderMade' /\ LaidOut'
  BY <1>1, <1>2, <1>3, SameHeader DEF LaidOut
<1> QED
  BY <1>1, <1>2, <1>3, <1>4 DEF ZipInv

----------------------------------------------------------------------------
(* mdlist and mdunzip.                                                     *)
LEMMA SameContainer ==
  ASSUME zipVars' = zipVars
  PROVE  /\ cmd' = cmd /\ zpc' = zpc /\ hdr' = hdr /\ written' = written /\ disk' = disk
         /\ Known' = Known /\ FileHashEnd' = FileHashEnd /\ Whole' = Whole /\ ZipInv' = ZipInv
<1>1. cmd' = cmd /\ zpc' = zpc /\ hdr' = hdr /\ written' = written /\ disk' = disk
  BY DEF zipVars
<1>2. Known' = Known /\ FileHashEnd' = FileHashEnd /\ Written' = Written /\ RecordBytes' = RecordBytes
  BY <1>1 DEF Known, FileHashEnd, Written, RecordBytes, HeaderEnd
<1>3. Whole' = Whole
  BY <1>1, <1>2 DEF Whole, Blocks
<1>4. HeaderMade' = HeaderMade /\ LaidOut' = LaidOut
  <2>1. Blocksize(cmd)' = Blocksize(cmd) /\ (Digests(hdr.fl, hdr.fkeys, FileData))' = Digests(hdr.fl, hdr.fkeys, FileData)
    BY <1>1 DEF Blocksize, FileData, WholeFile
  <2> QED
    BY <1>1, <1>2, <2>1 DEF HeaderMade, LaidOut, HeaderEnd
<1>5. ZipInv' = ZipInv
  BY <1>1, <1>2, <1>4 DEF ZipInv
<1> QED
  BY <1>1, <1>2, <1>3, <1>5

LEMMA BlocksCounted ==
  ASSUME cmd \in Commands, HeaderMade, hdr.blocksize # 0
  PROVE  Blocks = 1..Len(cmd.data) /\ Cardinality(Blocks) = Len(cmd.data) /\ Len(cmd.data) \in Nat
<1>1. Blocksize(cmd) > 0 /\ hdr.blocksize = Blocksize(cmd)
  BY CommandKnown DEF HeaderMade
<1>2. Len(cmd.data) = calculateFileBlocks(cmd.filesize, hdr.blocksize) /\ Len(cmd.data) \in Nat
  BY <1>1, CommandKnown
<1>3. Blocks = 1..Len(cmd.data)
  BY <1>2 DEF Blocks
<1>4. PICK n \in Nat : n = Len(cmd.data)
  BY <1>2
<1>5. Cardinality(1..n) = n
  BY FS_Interval
<1> QED
  BY <1>2, <1>3, <1>4, <1>5

LEMMA Multiples == \A b, n, R \in Nat : b <= n => b * R <= n * R /\ b * R \in Nat /\ n * R \in Nat
BY Z3

\* In a whole container of blocks of up to 32 bytes every block is where it is looked for.
LEMMA NothingMissing ==
  ASSUME ZipInv, Whole, hdr.blocksize \in 1..32, cmd.modsize # 0
  PROVE  /\ ~(disk < FileHashEnd) /\ ~(disk < HeaderEnd)
         /\ hdr.bl # <<>> => ~(disk < BlockEnd(Cardinality(Blocks))) /\ \A b \in Blocks : ~(disk < BlockEnd(b))
<1>0. hdr.blocksize # 0 /\ hdr.blocksize <= 32
  OBVIOUS
<1>1. zpc = "closed" /\ disk = Written /\ Len(written) = 2 + (IF hdr.bl = <<>> THEN 0 ELSE Cardinality(Blocks))
  BY <1>0 DEF Whole
<1>2. HeaderMade /\ LaidOut /\ cmd \in Commands
  BY <1>1 DEF ZipInv
<1>3. PICK n \in Nat : n = Len(cmd.data) /\ Blocks = 1..n /\ Cardinality(Blocks) = n
  BY <1>0, <1>2, BlocksCounted
<1>4. PICK R \in Nat, F \in Nat, H \in Nat, L \in Nat :
        R = RecordBytes /\ F = FileHashEnd /\ H = HeaderEnd /\ L = DigestBytes(hdr.fl) /\ F = H + L
  BY <1>2, BytesOfList
<1>5. PICK k \in Nat : k = (IF hdr.bl = <<>> THEN 0 ELSE n)
  BY <1>3
<1>6. Len(written) = 2 + k
  BY <1>1, <1>3, <1>5
<1>7. disk = F + k * R
  <2>1. Written = FileHashEnd + (Len(written) - 2) * RecordBytes
    BY <1>2, <1>6 DEF LaidOut
  <2>2. Len(written) - 2 = k
    BY <1>6
  <2> QED
    BY <1>1, <1>4, <2>1, <2>2
<1>8. BlockBytes = R
  <2>1. ExponentBytes(hdr.blocksize) = 1 /\ hdr.modsize = cmd.modsize
    BY <1>0, <1>2 DEF ExponentBytes, HeaderMade
  <2> QED
    BY <1>4, <2>1 DEF BlockBytes, RecordBytes
<1>9. \A b : BlockEnd(b) = F + b * R
  BY <1>4, <1>8 DEF BlockEnd
<1>10. PICK p \in Nat : p = k * R
  BY <1>5, Multiples
<1>11. ASSUME hdr.bl # <<>>, NEW b \in 0..n PROVE ~(disk < BlockEnd(b))
  <2>1. k = n /\ b <= n
    BY <1>5, <1>11
  <2>2. b * R <= p /\ b * R \in Nat
    BY <1>10, <2>1, Multiples
  <2>3. PICK m \in Nat : m = b * R
    BY <2>2
  <2>4. BlockEnd(b) = F + m /\ m <= p
    BY <1>9, <2>2, <2>3
  <2> QED
    BY <1>7, <1>10, <2>4
<1>12. ~(disk < FileHashEnd) /\ ~(disk < HeaderEnd)
  BY <1>4, <1>7, <1>10
<1>13. n \in 0..n /\ \A b \in 1..n : b \in 0..n
  OBVIOUS
<1> QED
  BY <1>3, <1>11, <1>12, <1>13

\* Nothing was read yet, or a program has ended.
LEMMA ListReads == GoInv /\ mdlist => GoInv'
<1> SUFFICES ASSUME GoInv, mdlist PROVE GoInv'
  OBVIOUS
<1>1. /\ zipVars' = zipVars /\ ukeys' = ukeys /\ out' = out /\ verdict' = verdict
      /\ zpc = "closed" /\ upc = "off" /\ cmd.list
      /\ \/ /\ upc' = "panic"
            /\ disk < FileHashEnd \/ (hdr.bl # <<>> /\ (hdr.blocksize = 0 \/ disk < BlockEnd(Cardinality(Blocks))))
         \/ upc' = "done"
  BY DEF mdlist, Panic
<1>2. ZipInv /\ ReadInv /\ ZipInv'
  BY <1>1, SameContainer DEF GoInv
<1>3. /\ cmd' = cmd /\ zpc' = zpc /\ hdr' = hdr /\ Whole' = Whole
  BY <1>1, SameContainer
<1>4. ReadInv'
  BY <1>1, <1>2, <1>3 DEF ReadInv
<1>5. FailsOnlyWhenCut'
  <2>1. SUFFICES ASSUME upc' = "panic", Whole, hdr.blocksize # 0, ~(hdr.blocksize > 32), cmd.modsize # 0 PROVE FALSE
    BY <1>1, <1>3 DEF FailsOnlyWhenCut
  <2>2. hdr.blocksize \in 1..32
    <3>1. hdr.blocksize \in Nat
      BY <1>1, <1>2, CommandKnown DEF ZipInv, HeaderMade
    <3> QED
      BY <2>1, <3>1
  <2>3. ~(disk < FileHashEnd) /\ (hdr.bl # <<>> => ~(disk < BlockEnd(Cardinality(Blocks))))
    BY <1>2, <2>1, <2>2, NothingMissing
  <2> QED
    BY <1>1, <2>1, <2>3
<1> QED
  BY <1>2, <1>4, <1>5 DEF GoInv

LEMMA BlockSizes == \A size \in Nat : size \in 1..32 \/ size > 32 \/ size = 0
OBVIOUS

\* A program that failed did so over one of the named containers, or one cut short.
LEMMA Failures ==
  ASSUME ZipInv, zpc = "closed",
         Whole /\ hdr.blocksize \in 1..32 /\ cmd.modsize # 0 /\ ~(hdr.fl = <<>> /\ cmd.val) => upc \notin {"panic", "stuck"}
  PROVE  FailsOnlyWhenCut
<1>1. hdr.blocksize \in Nat
  BY CommandKnown DEF ZipInv, HeaderMade
<1>2. hdr.blocksize \in 1..32 \/ hdr.blocksize > 32 \/ hdr.blocksize = 0
  BY <1>1, BlockSizes
<1> QED
  BY <1>2 DEF FailsOnlyWhenCut

LEMMA HeaderReads == GoInv /\ DecodeHeader => GoInv'
<1> SUFFICES ASSUME GoInv, DecodeHeader PROVE GoInv'
  OBVIOUS
<1>1. /\ zipVars' = zipVars /\ out' = out /\ verdict' = verdict /\ zpc = "closed" /\ upc = "off" /\ ~cmd.list
      /\ \/ /\ upc' = "panic" /\ ukeys' = ukeys
            /\ disk < HeaderEnd \/ disk < FileHashEnd \/ hdr.blocksize = 0
         \/ upc' = "exit" /\ ukeys' = ukeys
         \/ /\ upc' = "blocks" /\ ukeys' = ReaderKeys(hdr.keylist)
            /\ ~(disk < FileHashEnd) /\ hdr.blocksize # 0 /\ hdr.bl # <<>>
  BY DEF DecodeHeader, Panic
<1>2. ZipInv /\ ReadInv /\ ZipInv'
  BY <1>1, SameContainer DEF GoInv
<1>3. /\ cmd' = cmd /\ zpc' = zpc /\ hdr' = hdr /\ disk' = disk
      /\ Whole' = Whole /\ Known' = Known /\ FileHashEnd' = FileHashEnd
  BY <1>1, SameContainer
<1>4. HeaderMade /\ cmd \in Commands /\ disk \in 0..Written
  BY <1>1, <1>2 DEF ZipInv
<1>5. ReaderKeys(hdr.keylist) = Known.keys /\ Known.keys \in KeyTables
  BY <1>4, KnownFits DEF ReaderKeys, HeaderMade
<1>6. ~(disk < FileHashEnd) => FileHashEnd <= disk
  <2>1. PICK F \in Nat : F = FileHashEnd
    BY <1>4, BytesOfList
  <2>2. disk \in Int
    BY <1>4
  <2> QED
    BY <2>1, <2>2
<1>7. ReadInv'
  <2>1. /\ upc' \in {"panic", "exit", "blocks"} /\ ukeys' \in KeyTables
        /\ upc' = "blocks" => ukeys' = Known.keys /\ FileHashEnd <= disk /\ hdr.blocksize # 0 /\ hdr.bl # <<>>
    BY <1>1, <1>2, <1>5, <1>6 DEF ReadInv
  <2> QED
    BY <1>1, <1>2, <1>3, <2>1 DEF ReadInv
<1>8. FailsOnlyWhenCut'
  <2>1. ASSUME Whole, hdr.blocksize \in 1..32, cmd.modsize # 0 PROVE upc' \notin {"panic", "stuck"}
    <3>1. ~(disk < FileHashEnd) /\ ~(disk < HeaderEnd)
      BY <1>2, <2>1, NothingMissing
    <3>2. hdr.blocksize # 0
      BY <2>1
    <3> QED
      BY <1>1, <3>1, <3>2
  <2>2. (/\ ZipInv /\ zpc = "closed"
         /\ Whole /\ hdr.blocksize \in 1..32 /\ cmd.modsize # 0 /\ ~(hdr.fl = <<>> /\ cmd.val) => upc \notin {"panic", "stuck"})'
    BY <1>1, <1>2, <1>3, <2>1
  <2>3. (ZipInv /\ zpc = "closed" /\ (Whole /\ hdr.blocksize \in 1..32 /\ cmd.modsize # 0 /\ ~(hdr.fl = <<>> /\ cmd.val) => upc \notin {"panic", "stuck"})
           => FailsOnlyWhenCut)'
    BY Failures, PTL
  <2> QED
    BY <2>2, <2>3
<1> QED
  BY <1>2, <1>7, <1>8 DEF GoInv

LEMMA BlockReads == GoInv /\ DecodeBlock => GoInv'
<1> SUFFICES ASSUME GoInv, DecodeBlock PROVE GoInv'
  OBVIOUS
<1>1. PICK b : b = Len(out) + 1
  OBVIOUS
<1>2. PICK agree \in BOOLEAN :
        agree = (/\ ExponentBytes(hdr.blocksize) = ExponentBytes(formatBlockSize)
                 /\ \A s \in ToSet(hdr.bl) : KeysOf(s, ukeys) = KeysOf(s, hdr.bkeys)
                 /\ cmd.data[b].exp < 256)
  OBVIOUS
<1>3. /\ zipVars' = zipVars /\ ukeys' = ukeys /\ verdict' = verdict /\ upc = "blocks" /\ b \in Blocks
      /\ \/ upc' = "panic" /\ out' = out /\ disk < BlockEnd(b)
         \/ upc' = upc /\ out' = Append(out, WholeFile[b])
         \/ upc' = "stuck" /\ out' = out /\ ~agree
  BY <1>1, <1>2 DEF DecodeBlock, Panic
<1>4. ZipInv /\ ReadInv /\ ZipInv' /\ zpc = "closed"
  BY <1>3, SameContainer DEF GoInv, ReadInv
<1>5. /\ cmd' = cmd /\ zpc' = zpc /\ hdr' = hdr /\ disk' = disk
      /\ Whole' = Whole /\ Known' = Known /\ FileHashEnd' = FileHashEnd
  BY <1>3, SameContainer
<1>6. HeaderMade /\ cmd \in Commands
  BY <1>4 DEF ZipInv
<1>7. hdr.blocksize # 0 /\ hdr.bl # <<>> /\ ukeys = Known.keys /\ FileHashEnd <= disk /\ ~cmd.list
  BY <1>3, <1>4 DEF ReadInv
<1>8. PICK n \in Nat : n = Len(cmd.data) /\ Blocks = 1..n /\ DOMAIN cmd.data = 1..n
  BY <1>6, <1>7, BlocksCounted, CommandKnown
<1>9. b \in 1..n /\ IsList(out) /\ WholeFile[b] = cmd.data[b].id
  BY <1>3, <1>4, <1>8 DEF ReadInv, WholeFile
<1>10. PICK m \in Nat : m = Len(out) /\ b = m + 1
  BY <1>1, <1>9 DEF IsList
<1>11. IsList(out') /\ Len(out') <= n /\ \A i \in 1..Len(out') : out'[i] = cmd.data[i].id
  <2>1. IsList(out) /\ m <= n /\ \A i \in 1..m : out[i] = cmd.data[i].id
    BY <1>4, <1>8, <1>10 DEF ReadInv
  <2>2. CASE out' = out
    BY <1>10, <2>1, <2>2
  <2>3. CASE out' = Append(out, WholeFile[b])
    <3>1. PICK l, x, more : l = out /\ x = WholeFile[b] /\ more = Append(l, x)
      OBVIOUS
    <3>2. IsList(more) /\ Len(more) = m + 1 /\ (\A i \in 1..m : more[i] = l[i]) /\ more[m + 1] = x
      BY <1>10, <2>1, <3>1, Appended
    <3>3. out' = more
      BY <2>3, <3>1
    <3>4. m + 1 <= n
      BY <1>9, <1>10
    <3>5. ASSUME NEW i \in 1..(m + 1) PROVE more[i] = cmd.data[i].id
      <4>1. i \in 1..m \/ i = m + 1
        OBVIOUS
      <4> QED
        BY <1>9, <1>10, <2>1, <3>1, <3>2, <4>1
    <3> QED
      BY <3>2, <3>3, <3>4, <3>5
  <2> QED
    BY <1>3, <2>2, <2>3
<1>12. ReadInv'
  <2>1. upc' \in {"panic", "blocks", "stuck"} /\ ukeys' \in KeyTables /\ verdict' \in {"none", "validated"}
    BY <1>3, <1>4 DEF ReadInv
  <2> QED
    BY <1>4, <1>5, <1>7, <1>3, <1>8, <1>11, <2>1 DEF ReadInv
<1>13. FailsOnlyWhenCut'
  <2>1. ASSUME Whole, hdr.blocksize \in 1..32, cmd.modsize # 0 PROVE upc' \notin {"panic", "stuck"}
    <3>1. agree
      <4>1. ExponentBytes(hdr.blocksize) = ExponentBytes(formatBlockSize)
        BY <2>1 DEF ExponentBytes, formatBlockSize
      <4>2. ukeys = hdr.bkeys
        BY <1>6, <1>7 DEF HeaderMade
      <4>3. cmd.data[b].exp < 256
        <5>0. PICK size \in 1..32 : size = hdr.blocksize
          BY <2>1
        <5>3. PICK c : c = Blocksize(cmd)
          OBVIOUS
        <5>4. c = size
          BY <1>6, <5>0, <5>3 DEF HeaderMade
        <5>1. Blocksize(cmd) = size /\ Blocksize(cmd) > 0
          BY <5>0, <5>3, <5>4
        <5>2. cmd.data[b].exp \in Nat /\ cmd.data[b].exp < 8 * Blocksize(cmd)
          BY <1>6, <1>8, <1>9, <5>1, CommandKnown
        <5> QED
          BY <5>1, <5>2
      <4> QED
        BY <1>2, <4>1, <4>2, <4>3
    <3>2. ~(disk < BlockEnd(b))
      BY <1>3, <1>4, <1>7, <2>1, NothingMissing
    <3> QED
      BY <1>3, <3>1, <3>2
  <2>2. (/\ ZipInv /\ zpc = "closed"
         /\ Whole /\ hdr.blocksize \in 1..32 /\ cmd.modsize # 0 /\ ~(hdr.fl = <<>> /\ cmd.val) => upc \notin {"panic", "stuck"})'
    BY <1>4, <1>5, <2>1
  <2>3. (ZipInv /\ zpc = "closed" /\ (Whole /\ hdr.blocksize \in 1..32 /\ cmd.modsize # 0 /\ ~(hdr.fl = <<>> /\ cmd.val) => upc \notin {"panic", "stuck"})
           => FailsOnlyWhenCut)'
    BY Failures, PTL
  <2> QED
    BY <2>2, <2>3
<1> QED
  BY <1>4, <1>12, <1>13 DEF GoInv

LEMMA BlocksEnd == GoInv /\ EndDecode => GoInv'
<1> SUFFICES ASSUME GoInv, EndDecode PROVE GoInv'
  OBVIOUS
<1>1. /\ zipVars' = zipVars /\ ukeys' = ukeys /\ verdict' = verdict /\ out' = out /\ upc = "blocks"
      /\ Len(out) = Cardinality(Blocks)
      /\ (cmd.val /\ upc' = "validate") \/ upc' = "done"
  BY DEF EndDecode
<1>2. ZipInv /\ ReadInv /\ ZipInv' /\ zpc = "closed"
  BY <1>1, SameContainer DEF GoInv, ReadInv
<1>3. /\ cmd' = cmd /\ zpc' = zpc /\ hdr' = hdr /\ disk' = disk /\ Known' = Known /\ FileHashEnd' = FileHashEnd
  BY <1>1, SameContainer
<1>4. HeaderMade /\ cmd \in Commands
  BY <1>2 DEF ZipInv
<1>5. hdr.blocksize # 0 /\ hdr.bl # <<>> /\ ukeys = Known.keys /\ FileHashEnd <= disk /\ ~cmd.list
  BY <1>1, <1>2 DEF ReadInv
<1>6. Len(out) = Len(cmd.data)
  BY <1>1, <1>4, <1>5, BlocksCounted
<1>7. ReadInv'
  <2>1. upc' \in {"validate", "done"} /\ (upc' = "validate" => cmd.val)
    BY <1>1
  <2> QED
    BY <1>1, <1>2, <1>3, <1>5, <1>6, <2>1 DEF ReadInv
<1>8. FailsOnlyWhenCut'
  BY <1>1 DEF FailsOnlyWhenCut
<1> QED
  BY <1>2, <1>7, <1>8 DEF GoInv

\* What was written is the file once as many blocks as it has are.
LEMMA OutIsBeginning ==
  ASSUME ReadInv, cmd \in Commands
  PROVE  /\ IsList(out) /\ IsList(WholeFile) /\ Len(WholeFile) = Len(cmd.data) /\ Len(out) <= Len(WholeFile)
         /\ \A i \in 1..Len(out) : out[i] = WholeFile[i]
         /\ Len(out) = Len(cmd.data) => out = WholeFile
<1>1. PICK n \in Nat : n = Len(cmd.data) /\ DOMAIN cmd.data = 1..n
  BY CommandKnown
<1>2. PICK file : file = WholeFile
  OBVIOUS
<1>3. file = [b \in 1..n |-> cmd.data[b].id]
  BY <1>1, <1>2 DEF WholeFile
<1>4. IsList(file) /\ Len(file) = n
  <2>1. file = [b \in 1..n |-> file[b]]
    BY <1>3
  <2> QED
    BY <2>1, ListOf
<1>5. PICK m \in Nat : m = Len(out) /\ m <= n /\ IsList(out) /\ \A i \in 1..m : out[i] = cmd.data[i].id
  BY <1>1 DEF ReadInv, IsList
<1>6. \A i \in 1..m : out[i] = file[i]
  BY <1>3, <1>5
<1>7. m = n => out = file
  BY <1>4, <1>5, <1>6, SameList
<1> QED
  BY <1>1, <1>2, <1>4, <1>5, <1>6, <1>7

\* File signatures that are read were written.
LEMMA DigestsWereWritten ==
  ASSUME ZipInv, zpc = "closed", FileHashEnd <= disk, hdr.fl # <<>>
  PROVE  written[2] = Digests(hdr.fl, Known.keys, FileData)
<1>1. HeaderMade /\ LaidOut /\ cmd \in Commands /\ disk \in 0..Written /\ hdr.fkeys = Known.keys
  BY DEF ZipInv, HeaderMade
<1>2. DigestBytes(hdr.fl) # 0
  BY <1>1, DigestsTakeBytes DEF HeaderMade
<1>3. PICK F \in Nat, H \in Nat, L \in Nat : F = FileHashEnd /\ H = HeaderEnd /\ L = DigestBytes(hdr.fl) /\ F = H + L /\ H > 0
  BY <1>1, BytesOfList
<1>4. F > H /\ F > 0
  BY <1>2, <1>3
<1>5. disk \in Int /\ F <= disk
  BY <1>1, <1>3
<1>6. Written # 0 /\ Written # H
  <2>1. CASE Written = 0
    BY <1>1, <1>4, <1>5, <2>1
  <2>2. CASE Written = H
    BY <1>1, <1>3, <1>4, <1>5, <2>2
  <2> QED
    BY <2>1, <2>2
<1>7. Len(written) # 1 /\ Len(written) # 0
  BY <1>1, <1>3, <1>6 DEF LaidOut
<1> QED
  BY <1>1, <1>7 DEF LaidOut

LEMMA FileValidates == GoInv /\ PostValidate => GoInv'
<1> SUFFICES ASSUME GoInv, PostValidate PROVE GoInv'
  OBVIOUS
<1>1. /\ zipVars' = zipVars /\ ukeys' = ukeys /\ out' = out /\ upc = "validate"
      /\ \/ hdr.fl = <<>> /\ upc' = "panic" /\ verdict' = verdict
         \/ /\ hdr.fl # <<>> /\ upc' = "done"
            /\ verdict' = IF Digests(hdr.fl, ukeys, OutputData) = written[2] THEN "validated" ELSE "failed"
  BY DEF PostValidate, Panic
<1>2. ZipInv /\ ReadInv /\ ZipInv' /\ zpc = "closed"
  BY <1>1, SameContainer DEF GoInv, ReadInv
<1>3. /\ cmd' = cmd /\ zpc' = zpc /\ hdr' = hdr /\ disk' = disk
      /\ Whole' = Whole /\ Known' = Known /\ FileHashEnd' = FileHashEnd
  BY <1>1, SameContainer
<1>4. HeaderMade /\ cmd \in Commands
  BY <1>2 DEF ZipInv
<1>5. ukeys = Known.keys /\ FileHashEnd <= disk /\ Len(out) = Len(cmd.data) /\ cmd.val
  BY <1>1, <1>2 DEF ReadInv
<1>6. hdr.fl # <<>> => verdict' = "validated"
  <2>1. OutputData = FileData
    BY <1>2, <1>4, <1>5, OutIsBeginning DEF OutputData, FileData
  <2>2. hdr.fl # <<>> => written[2] = Digests(hdr.fl, Known.keys, FileData)
    BY <1>2, <1>5, DigestsWereWritten
  <2> QED
    BY <1>1, <1>5, <2>1, <2>2
<1>7. ReadInv'
  <2>1. upc' \in {"panic", "done"} /\ verdict' \in {"none", "validated"}
    BY <1>1, <1>2, <1>6 DEF ReadInv
  <2> QED
    BY <1>1, <1>2, <1>3, <1>5, <2>1 DEF ReadInv
<1>8. FailsOnlyWhenCut'
  <2>1. upc' = "panic" => hdr.fl = <<>> /\ cmd.val
    BY <1>1, <1>5
  <2> QED
    BY <1>1, <1>3, <2>1 DEF FailsOnlyWhenCut
<1> QED
  BY <1>2, <1>7, <1>8 DEF GoInv

----------------------------------------------------------------------------
(* The theorems.                                                           *)
LEMMA GoStep == GoInv /\ [Next]_vars => GoInv'
<1> SUFFICES ASSUME GoInv, [Next]_vars PROVE GoInv'
  OBVIOUS
<1>1. CASE Encoding
  <2>1. ZipInv'
    BY <1>1, HeaderIsMade, FileIsEncoded, BlockIsEncoded, ZipperEnds DEF GoInv, Encoding
  <2>2. unzipVars' = unzipVars /\ zpc # "closed" /\ cmd' = cmd
    BY <1>1 DEF Encoding, EncodeFileHeader, mdencodeFile, mdencodeFileBlock, EndOfFile, Kill
  <2>3. upc = "off" /\ upc' = "off" /\ ukeys' = ukeys /\ out' = out /\ verdict' = verdict
    BY <2>2 DEF GoInv, ReadInv, unzipVars
  <2>4. ReadInv' /\ FailsOnlyWhenCut'
    BY <2>2, <2>3 DEF GoInv, ReadInv, FailsOnlyWhenCut
  <2> QED
    BY <2>1, <2>4 DEF GoInv
<1>2. CASE Decoding
  BY <1>2, ListReads, HeaderReads, BlockReads, BlocksEnd, FileValidates DEF Decoding
<1>3. CASE UNCHANGED vars
  <2>1. zipVars' = zipVars /\ upc' = upc /\ ukeys' = ukeys /\ out' = out /\ verdict' = verdict
    BY <1>3 DEF vars, unzipVars
  <2>2. /\ cmd' = cmd /\ zpc' = zpc /\ hdr' = hdr /\ disk' = disk
        /\ Whole' = Whole /\ Known' = Known /\ FileHashEnd' = FileHashEnd /\ ZipInv' = ZipInv
    BY <2>1, SameContainer
  <2>3. ReadInv' /\ FailsOnlyWhenCut'
    BY <2>1, <2>2 DEF GoInv, ReadInv, FailsOnlyWhenCut
  <2> QED
    BY <2>2, <2>3 DEF GoInv
<1> QED
  BY <1>1, <1>2, <1>3 DEF Next

\* The inductive invariant: a container so far has every write where its readers look
\* for it, and the keys mdunzip works out are those the digests were computed with.
THEOREM GoContainerInvariance == Spec => []GoInv
BY GoInit, GoStep, PTL DEF Spec

\* Every variable keeps its type: the contexts of HighwayHash and SipHash get keys of the
\* one length they take, from any key list (SetHashListKey in mdHashContextList.go).
THEOREM GoContainerTyping == Spec => []TypeOK
<1>1. ASSUME GoInv PROVE TypeOK
  <2>1. ZipInv /\ ReadInv
    BY <1>1 DEF GoInv
  <2>2. \A keys \in {ukeys, hdr.fkeys, hdr.bkeys} :
          (\A s \in HighWay : keys[s].len = 64) /\ (\A s \in Sip : keys[s].len = 32)
    BY <2>1 DEF ZipInv, ReadInv, KeyTables
  <2> QED
    BY <2>1, <2>2 DEF ZipInv, ReadInv, TypeOK
<1> QED
  BY <1>1, GoContainerInvariance, PTL

\* Whatever becomes of the container, mdunzip writes a beginning of the file, all of it
\* when it ends in its own time, and its validation never fails its own output
\* (DecodeFile and PostValidate of mdUnzipFile.go).
THEOREM BeginningIsWritten == Spec => []WritesABeginning
<1>1. ASSUME GoInv PROVE WritesABeginning
  <2>1. ZipInv /\ ReadInv /\ cmd \in Commands
    BY <1>1 DEF GoInv, ZipInv
  <2>2. /\ IsList(out) /\ IsList(WholeFile) /\ Len(WholeFile) = Len(cmd.data) /\ Len(out) <= Len(WholeFile)
        /\ \A i \in 1..Len(out) : out[i] = WholeFile[i]
        /\ Len(out) = Len(cmd.data) => out = WholeFile
    BY <2>1, OutIsBeginning
  <2>3. IsPrefix(out, WholeFile)
    <3>1. PICK m \in Nat : m = Len(out)
      BY <2>2 DEF IsList
    <3>2. PICK file : file = WholeFile
      OBVIOUS
    <3>3. SubSeq(out, 1, m) = [i \in 1..m |-> out[i]] /\ SubSeq(file, 1, m) = [i \in 1..m |-> file[i]]
      BY SMT
    <3> QED
      BY <2>2, <3>1, <3>2, <3>3 DEF IsPrefix
  <2>4. upc = "done" /\ ~cmd.list => out = WholeFile
    BY <2>1, <2>2 DEF ReadInv
  <2>5. verdict # "failed"
    BY <2>1 DEF ReadInv
  <2> QED
    BY <2>3, <2>4, <2>5 DEF WritesABeginning
<1> QED
  BY <1>1, GoContainerInvariance, PTL

\* mdlist and mdunzip panic or wait without end only over a container cut short, but for
\* blocks of more than 32 bytes or none, no modulus, and validation without file
\* signatures.
THEOREM OnlyCutContainersFail == Spec => []FailsOnlyWhenCut
<1>1. GoInv => FailsOnlyWhenCut
  BY DEF GoInv
<1> QED
  BY <1>1, GoContainerInvariance, PTL

=============================================================================
