------------------------- MODULE HashContextListNew -------------------------
(***************************************************************************)
(* The later copy of the registry and of class mdHashContextList, which    *)
(* mdzipsip47, mdunzipsip47 and mdtest are built with.  It adds hw48        *)
(* (Highway Hash cut to 48 bits) to the enum, to the registry and to every *)
(* switch, and holds one list per object instead of three.  Each method is *)
(* the old one with the case of hw48, as the two files differ.             *)
(***************************************************************************)
EXTENDS Integers, Sequences, SequencesExt, FiniteSets

Old == INSTANCE HashContextList

\* hw48 stands between hw40 and hw64: the numbers of all later signatures move by one.
mdHashlist == InsertAt(Old!mdHashlist, 13, <<"hw48", 6, 32>>)

hclmap == [s \in {mdHashlist[i][1] : i \in DOMAIN mdHashlist} |->
             CHOOSE i \in DOMAIN mdHashlist : mdHashlist[i][1] = s]

hashblocksize == [s \in DOMAIN hclmap |-> mdHashlist[hclmap[s]][2]]
hashkeysize == [s \in DOMAIN hclmap |-> mdHashlist[hclmap[s]][3]]

setVectorHL(numbers) ==
  LET registered == Old!SubList(numbers, {i \in Old!Fresh(numbers) : numbers[i] \in DOMAIN mdHashlist})
  IN  [i \in DOMAIN registered |-> mdHashlist[registered[i]][1]]

setVectorHLstring(names) ==
  LET known == Old!SubList(names, {i \in DOMAIN names : names[i] \in DOMAIN hclmap})
  IN  setVectorHL([i \in DOMAIN known |-> hclmap[known[i]]])

getHLvectorsStringNames(list) == Old!getHLvectorsStringNames(list)

calcBlockSize(list) == Old!Total([i \in DOMAIN list |-> hashblocksize[list[i]]])
calcBlockKeySize(list) == Old!Total([i \in DOMAIN list |-> hashkeysize[list[i]]])

----------------------------------------------------------------------------
\* A switch of the old class with one more case.
WithHw48(outcome, switch) == [s \in DOMAIN hclmap |-> IF s = "hw48" THEN outcome ELSE switch[s]]

readKeyList == WithHw48(32, Old!readKeyList)
writeKeyList == WithHw48(32, Old!writeKeyList)
randomizeKeyList == Old!randomizeKeyList \cup {"hw48"}

\* The Highway hashes are not among the keys that move from block to block.
incrementBlockKeyList == Old!incrementBlockKeyList

readBlockHashList == WithHw48(hashblocksize["hw48"], Old!readBlockHashList)
writeBlockHashList == WithHw48(hashblocksize["hw48"], Old!writeBlockHashList)
setByteBlockHashList == WithHw48(Old!Keyed(8), Old!setByteBlockHashList)
setFileHashList == WithHw48(Old!Keyed(8), Old!setFileHashList)
compareBlockHashList == WithHw48(Old!Keyed(hashblocksize["hw48"]), Old!compareBlockHashList)
compareFileHashList == WithHw48(Old!Keyed(hashblocksize["hw48"]), Old!compareFileHashList)
=============================================================================
