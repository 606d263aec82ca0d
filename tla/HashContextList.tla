--------------------------- MODULE HashContextList ---------------------------
(***************************************************************************)
(* The signature registry of the C++ programs and the methods that hash,   *)
(* store, load and compare a list of signatures (class mdHashContextList). *)
(* Every method is a loop over the list with a switch of 46 cases.  What   *)
(* the cases decide is how many bytes a method moves and whether the       *)
(* signature's key takes part; each method is therefore a function of the  *)
(* signature, written from its own switch.  Nothing here makes the switches *)
(* agree with each other or with the registry: Mdz.tla composes them, and  *)
(* its properties fail when they do not.                                   *)
(***************************************************************************)
EXTENDS Integers, Sequences, FiniteSets

----------------------------------------------------------------------------
(* The registry: name, digest bytes, key bytes, in the order of the enum.  *)
mdHashlist ==
  << <<"cit64", 8, 8>>, <<"crc32", 4, 4>>, <<"crc64", 8, 8>>, <<"edn224", 28, 0>>,
     <<"fast32", 4, 4>>, <<"fast64", 8, 8>>, <<"fnv32", 4, 0>>, <<"fnv32a", 4, 0>>,
     <<"fnv64", 8, 0>>, <<"fnv64a", 8, 0>>, <<"has160", 20, 0>>, <<"hw40", 5, 32>>,
     <<"hw64", 8, 32>>, <<"md2", 16, 0>>, <<"md4", 16, 0>>, <<"md5", 16, 0>>,
     <<"md6", 20, 0>>, <<"md62", 20, 0>>, <<"met641", 8, 4>>, <<"met642", 8, 4>>,
     <<"mx3", 8, 8>>, <<"png", 8, 4>>, <<"ripe128", 16, 0>>, <<"ripe160", 20, 0>>,
     <<"ripe256", 32, 0>>, <<"ripe320", 40, 0>>, <<"sea64", 8, 8>>, <<"sip32", 4, 16>>,
     <<"sip322", 4, 16>>, <<"sip40", 5, 16>>, <<"sip48", 6, 16>>, <<"sip64", 8, 16>>,
     <<"sip128", 16, 16>>, <<"sha1_64", 8, 0>>, <<"sha1_128", 16, 0>>, <<"sha1", 20, 0>>,
     <<"sha256", 32, 0>>, <<"sha384", 48, 0>>, <<"sha512", 64, 0>>, <<"spk32", 4, 4>>,
     <<"spk64", 8, 8>>, <<"tgr", 24, 0>>, <<"xxh32", 4, 4>>, <<"xxh64", 8, 8>>,
     <<"whp", 64, 0>>, <<"wy64", 8, 48>> >>

\* Where a signature stands in the registry, as the constructor's name map has it.
hclmap == [s \in {mdHashlist[i][1] : i \in DOMAIN mdHashlist} |->
             CHOOSE i \in DOMAIN mdHashlist : mdHashlist[i][1] = s]

hashblocksize == [s \in DOMAIN hclmap |-> mdHashlist[hclmap[s]][2]]
hashkeysize == [s \in DOMAIN hclmap |-> mdHashlist[hclmap[s]][3]]

----------------------------------------------------------------------------
(* The list of a run: numbers out of range and repetitions are dropped, the *)
(* order is kept; a name the registry lacks is reported and skipped.       *)
Fresh(list) == {i \in DOMAIN list : \A h \in 1..(i - 1) : list[h] # list[i]}

\* What is left of a list at some of its places.
SubList(list, places) ==
  [k \in 1..Cardinality(places) |->
     list[CHOOSE i \in places : Cardinality({h \in places : h <= i}) = k]]

setVectorHL(numbers) ==
  LET registered == SubList(numbers, {i \in Fresh(numbers) : numbers[i] \in DOMAIN mdHashlist})
  IN  [i \in DOMAIN registered |-> mdHashlist[registered[i]][1]]

setVectorHLstring(names) ==
  LET known == SubList(names, {i \in DOMAIN names : names[i] \in DOMAIN hclmap})
  IN  setVectorHL([i \in DOMAIN known |-> hclmap[known[i]]])

\* The sum of a sequence of numbers.
Total(numbers) ==
  LET sum[n \in 0..Len(numbers)] == IF n = 0 THEN 0 ELSE sum[n - 1] + numbers[n]
  IN  sum[Len(numbers)]

\* The bytes of the colon-separated names of a list.
getHLvectorsStringNames(list) ==
  Total([i \in DOMAIN list |-> Len(list[i])]) + (IF list = <<>> THEN 0 ELSE Len(list) - 1)

calcBlockSize(list) == Total([i \in DOMAIN list |-> hashblocksize[list[i]]])
calcBlockKeySize(list) == Total([i \in DOMAIN list |-> hashkeysize[list[i]]])

----------------------------------------------------------------------------
(* Keys: the bytes each case loads and stores (none when it only breaks).  *)
\* pengyhash moves eight bytes although its seed and its registry entry have four.
readKeyList ==
  [s \in DOMAIN hclmap |->
     CASE s \in {"crc32", "fast32", "met641", "met642", "spk32", "xxh32"} -> 4
       [] s \in {"cit64", "crc64", "fast64", "mx3", "png", "sea64", "spk64", "xxh64"} -> 8
       [] s \in {"sip32", "sip322", "sip40", "sip48", "sip64", "sip128"} -> 16
       [] s \in {"hw40", "hw64"} -> 32
       [] s = "wy64" -> 8 + 40
       [] s \in {"edn224", "fnv32", "fnv32a", "fnv64", "fnv64a", "has160", "md2", "md4",
                  "md5", "md6", "md62", "ripe128", "ripe160", "ripe256", "ripe320",
                  "sha1_64", "sha1_128", "sha1", "sha256", "sha384", "sha512", "tgr",
                  "whp"} -> 0]

writeKeyList ==
  [s \in DOMAIN hclmap |->
     CASE s \in {"edn224", "fnv32", "fnv32a", "fnv64", "fnv64a", "has160", "md2", "md4",
                  "md5", "md6", "md62", "ripe128", "ripe160", "ripe256", "ripe320",
                  "sha1_64", "sha1_128", "sha1", "sha256", "sha384", "sha512", "tgr",
                  "whp"} -> 0
       [] s \in {"crc32", "fast32", "met641", "met642", "spk32", "xxh32"} -> 4
       [] s \in {"cit64", "crc64", "fast64", "mx3", "png", "sea64", "spk64", "xxh64"} -> 8
       [] s \in {"sip32", "sip322", "sip40", "sip48", "sip64", "sip128"} -> 16
       [] s \in {"hw40", "hw64"} -> 32
       [] s = "wy64" -> 8 + 40]

\* The signatures whose key --randbh replaces: md62 has a key and keeps it.
randomizeKeyList ==
  {"cit64", "crc32", "crc64", "fast32", "fast64", "hw40", "hw64", "met641", "met642", "mx3", "png",
   "sea64", "sip32", "sip322", "sip40", "sip48", "sip64", "sip128", "spk32", "spk64", "xxh32",
   "xxh64", "wy64"}

\* The signatures whose key --inc and --dec move from block to block.
incrementBlockKeyList == {"sip40", "sip48"}

----------------------------------------------------------------------------
(* Digests: the bytes each case moves.  Where the code writes hashblocksize *)
(* the width comes from the registry, elsewhere from the field's C type.   *)
\* Mutant: the short SipHashes are read as they are computed.
readBlockHashListWhole ==
  [s \in DOMAIN hclmap |-> IF s \in {"sip32", "sip322", "sip40", "sip48"} THEN 16 ELSE hashblocksize[s]]

readBlockHashList ==
  [s \in DOMAIN hclmap |->
     CASE s \in {"edn224", "has160", "hw40", "md2", "md4", "md5", "md6", "md62", "mx3",
                  "png", "ripe128", "ripe160", "ripe256", "ripe320", "sip32", "sip322",
                  "sip40", "sip48", "sip128", "sha1_64", "sha1_128", "sha1", "sha256",
                  "sha384", "sha512", "tgr", "whp"} -> hashblocksize[s]
       [] s \in {"crc32", "fast32", "fnv32", "fnv32a", "spk32", "xxh32"} -> 4
       [] s \in {"cit64", "crc64", "fast64", "fnv64", "fnv64a", "hw64", "met641",
                  "met642", "sea64", "sip64", "spk64", "xxh64", "wy64"} -> 8]

\* The short SHA-1 forms are cut from the full digest before they are written.
writeBlockHashList ==
  [s \in DOMAIN hclmap |->
     CASE s \in {"crc32", "fast32", "fnv32", "fnv32a", "spk32", "xxh32"} -> 4
       [] s \in {"cit64", "crc64", "fast64", "fnv64", "fnv64a", "hw64", "met641",
                  "met642", "sea64", "sip64", "spk64", "xxh64", "wy64"} -> 8
       [] s \in {"edn224", "has160", "hw40", "md2", "md4", "md5", "md6", "md62", "mx3",
                  "png", "ripe128", "ripe160", "ripe256", "ripe320", "sip32", "sip322",
                  "sip40", "sip48", "sip128", "sha1_64", "sha1_128", "sha1", "sha256",
                  "sha384", "sha512", "tgr", "whp"} -> hashblocksize[s]]

\* A digest register: whose it is, the key it was computed with (NoKey: none or
\* a constant one), of which data, and how many of its bytes were computed.
NoKey == -1
Register(s, row, key, data) ==
  [sig |-> s, key |-> IF row.takes = "key" THEN key ELSE NoKey, data |-> data, bytes |-> row.bytes]
Keyed(n) == [takes |-> "key", bytes |-> n]
Unkeyed(n) == [takes |-> "data", bytes |-> n]

setByteBlockHashList ==
  [s \in DOMAIN hclmap |->
     CASE s \in {"crc32", "fast32", "spk32", "xxh32"} -> Keyed(4)
       [] s \in {"cit64", "crc64", "fast64", "hw40", "hw64", "met641", "met642", "mx3",
                  "png", "sea64", "sip64", "spk64", "xxh64", "wy64"} -> Keyed(8)
       [] s \in {"sip32", "sip322", "sip40", "sip48", "sip128"} -> Keyed(16)
       [] s \in {"fnv32", "fnv32a"} -> Unkeyed(4)
       [] s \in {"fnv64", "fnv64a"} -> Unkeyed(8)
       [] s \in {"md2", "md4", "md5", "ripe128"} -> Unkeyed(16)
       [] s \in {"has160", "md6", "md62", "ripe160", "sha1_64", "sha1_128", "sha1"} -> Unkeyed(20)
       [] s = "tgr" -> Unkeyed(24)
       [] s = "edn224" -> Unkeyed(28)
       [] s \in {"ripe256", "sha256"} -> Unkeyed(32)
       [] s = "ripe320" -> Unkeyed(40)
       [] s = "sha384" -> Unkeyed(48)
       [] s \in {"sha512", "whp"} -> Unkeyed(64)]

\* Over a whole file both MD6 cases compute MD5: 16 bytes of a 20-byte register.
setFileHashList ==
  [s \in DOMAIN hclmap |->
     CASE s \in {"crc32", "fast32", "spk32", "xxh32"} -> Keyed(4)
       [] s \in {"cit64", "crc64", "fast64", "hw40", "hw64", "met641", "met642", "mx3",
                  "png", "sea64", "sip64", "spk64", "xxh64", "wy64"} -> Keyed(8)
       [] s \in {"sip32", "sip322", "sip40", "sip48", "sip128"} -> Keyed(16)
       [] s \in {"fnv32", "fnv32a"} -> Unkeyed(4)
       [] s \in {"fnv64", "fnv64a"} -> Unkeyed(8)
       [] s \in {"md2", "md4", "md5", "md6", "md62", "ripe128"} -> Unkeyed(16)
       [] s \in {"has160", "ripe160", "sha1_64", "sha1_128", "sha1"} -> Unkeyed(20)
       [] s = "tgr" -> Unkeyed(24)
       [] s = "edn224" -> Unkeyed(28)
       [] s \in {"ripe256", "sha256"} -> Unkeyed(32)
       [] s = "ripe320" -> Unkeyed(40)
       [] s = "sha384" -> Unkeyed(48)
       [] s \in {"sha512", "whp"} -> Unkeyed(64)]

\* Mutant: the registers are compared as they are computed, not as they are stored.
compareBlockHashListWhole == setByteBlockHashList

\* Whether the candidate's digest takes the key, and the bytes that must agree.
compareBlockHashList ==
  [s \in DOMAIN hclmap |->
     CASE s \in {"crc32", "fast32", "spk32", "xxh32"} -> Keyed(4)
       [] s \in {"cit64", "crc64", "fast64", "hw64", "met641", "met642", "mx3", "png",
                  "sea64", "sip64", "spk64", "xxh64", "wy64"} -> Keyed(8)
       [] s = "sip128" -> Keyed(16)
       [] s \in {"fnv32", "fnv32a"} -> Unkeyed(4)
       [] s \in {"fnv64", "fnv64a", "sha1_64"} -> Unkeyed(8)
       [] s \in {"md2", "md4", "md5", "sha1_128"} -> Unkeyed(16)
       [] s \in {"has160", "md6", "md62", "ripe160", "sha1"} -> Unkeyed(20)
       [] s = "sha256" -> Unkeyed(32)
       [] s = "sha384" -> Unkeyed(48)
       [] s \in {"sha512", "whp"} -> Unkeyed(64)
       [] s \in {"hw40", "sip32", "sip322", "sip40", "sip48"} -> Keyed(hashblocksize[s])
       [] s \in {"edn224", "ripe128", "ripe256", "ripe320", "tgr"} -> Unkeyed(hashblocksize[s])]

\* Mutant: the registers of a file are compared as they are computed.
compareFileHashListWhole == setFileHashList

compareFileHashList ==
  [s \in DOMAIN hclmap |->
     CASE s \in {"crc32", "fast32", "sip32", "sip322", "spk32", "xxh32"} -> Keyed(4)
       [] s = "sip40" -> Keyed(5)
       [] s = "sip48" -> Keyed(6)
       [] s = "sip128" -> Keyed(16)
       [] s \in {"cit64", "crc64", "fast64", "hw64", "met641", "met642", "mx3", "png",
                  "sea64", "sip64", "spk64", "xxh64", "wy64"} -> Keyed(8)
       [] s \in {"fnv32", "fnv32a"} -> Unkeyed(4)
       [] s \in {"fnv64", "fnv64a", "sha1_64"} -> Unkeyed(8)
       [] s \in {"md2", "md4", "md5", "ripe128", "sha1_128"} -> Unkeyed(16)
       [] s \in {"has160", "md6", "md62", "ripe160", "sha1"} -> Unkeyed(20)
       [] s = "tgr" -> Unkeyed(24)
       [] s = "edn224" -> Unkeyed(28)
       [] s \in {"ripe256", "sha256"} -> Unkeyed(32)
       [] s = "ripe320" -> Unkeyed(40)
       [] s = "sha384" -> Unkeyed(48)
       [] s \in {"sha512", "whp"} -> Unkeyed(64)
       [] s = "hw40" -> Keyed(hashblocksize[s])]

\* What comparing a stored register with the digest of some data can answer: bytes
\* compared beyond those computed hold whatever the stack held, so either answer.
Compare(reg, row, key, data) ==
  IF reg.data # data \/ reg.key # (IF row.takes = "key" THEN key ELSE NoKey) THEN {FALSE}
  ELSE IF row.bytes <= reg.bytes THEN {TRUE} ELSE BOOLEAN
=============================================================================
