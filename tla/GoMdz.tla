------------------------------- MODULE GoMdz -------------------------------
(***************************************************************************)
(* The container of the Go programs mdzip, mdlist and mdunzip.  mdzip       *)
(* writes unbuffered and looks at no error; mdunzip and mdlist load the    *)
(* whole container and take it apart by offsets, so that what is missing   *)
(* is a slice out of range: they panic where the C++ readers repeat        *)
(* themselves.  The goroutines of a block are one outcome here, the block  *)
(* or a wait without end (GoUnzip.tla is about their races).               *)
(*                                                                         *)
(* A file is a sequence of writes, each a width and a value, and disk is   *)
(* how many of their bytes are there.  Digests do not collide.             *)
(***************************************************************************)
EXTENDS Integers, Sequences, SequencesExt, FiniteSets

CONSTANTS
  Commands,    \* the command lines and input files tried
  hlist,       \* the registry, a sequence of names and digest bytes
  TextBytes    \* the bytes of path, name and lists: the attributes say how many

VARIABLES
  cmd,       \* the command line of mdzip, its input file, the flags of mdunzip
  zpc,       \* where mdzip is
  hdr,       \* what it made of the command line: lists, sizes, keys
  written,   \* what it has written: the header, the file's digests, the blocks
  disk,      \* how many bytes of that are on the disk
  upc,       \* where mdunzip or mdlist is
  ukeys,     \* the keys mdunzip hashes with
  out,       \* the blocks mdunzip has written
  verdict    \* what its validation says

zipVars == <<cmd, zpc, hdr, written, disk>>
unzipVars == <<upc, ukeys, out, verdict>>
vars == <<zipVars, unzipVars>>

----------------------------------------------------------------------------
(* Signature lists: a string of zeros and ones, or numbers <<n>> and ranges *)
(* <<n, m>>, counted from one, where zero is one too; doubles are dropped. *)
Names(indices) ==
  LET names[n \in 0..Len(hlist)] ==
        IF n = 0 THEN <<>>
        ELSE names[n - 1] \o (IF n - 1 \in indices THEN <<hlist[n][1]>> ELSE <<>>)
  IN  names[Len(hlist)]

CreateHashBlockListBinary(digits) == Names({i - 1 : i \in {i \in DOMAIN digits : digits[i] = 1}})

CreateHashBlockListCSV(tokens) ==
  LET Number(n) == IF n > 0 THEN n - 1 ELSE 0
      Span(n, m) == IF n > 0 THEN (n - 1)..(m - 1) ELSE n..m
  IN  Names(UNION {IF Len(t) = 1 THEN {Number(t[1])} ELSE Span(t[1], t[2]) : t \in ToSet(tokens)})

CreateHashBlockList(list) ==
  IF list.csv THEN CreateHashBlockListCSV(list.items) ELSE CreateHashBlockListBinary(list.items)

\* -uh gives both lists at once: of each digit one bit is the file's, one the block's.
SetQuaternian(digits, bits) == [csv |-> FALSE, items |-> [i \in DOMAIN digits |-> IF digits[i] \in bits THEN 1 ELSE 0]]
FileList == CreateHashBlockList(IF cmd.uh = <<>> THEN cmd.fh ELSE SetQuaternian(cmd.uh, {1, 3}))
BlockList == CreateHashBlockList(IF cmd.uh = <<>> THEN cmd.bh ELSE SetQuaternian(cmd.uh, {2, 3}))

CalcHashBlockSize(name) == hlist[CHOOSE i \in DOMAIN hlist : hlist[i][1] = name][2]

----------------------------------------------------------------------------
(* Signature keys: an identity and a length in characters.                 *)
Plain ==
  {"aes8", "ax1", "ax2", "ct64", "fh32", "fh64", "jn64", "mar32", "me32", "me64", "me128", "mm32",
   "murmur3", "spk32", "spk64", "t1ha", "xxh32", "xxhash", "wy"}
Blake == {"blake2s_128", "blake2s_256"}
HighWay == {"hw32", "hw64", "hw128", "hw256"}
Sip == {"sip64", "sip128"}
KeyNames == Plain \cup Blake \cup HighWay \cup Sip

DefaultKeys ==
  [s \in KeyNames |-> [id |-> "default", len |-> CASE s \in HighWay -> 64 [] s \in Sip -> 32 [] OTHER -> 22]]

\* Mutant: a shorter key is taken as it is.
FilledShort(given, before, length) == IF given.len \in 2..length THEN given ELSE before

\* A key of the length its hash takes is used, a shorter one filled up with zeros, any
\* other left alone: what stood there stays.
Filled(given, before, length) ==
  IF given.len = length THEN given
  ELSE IF given.len \in 2..(length - 1) THEN [given EXCEPT !.len = length] ELSE before

Entry(name, given, before) ==
  CASE name \in Plain -> given
    [] name \in Blake -> IF given.len >= 16 THEN given ELSE before
    [] name \in HighWay -> Filled(given, before, 64)
    [] name \in Sip -> Filled(given, before, 32)

\* The keys set so far and the key list to store, after one more entry: what a known one
\* came to is stored, an unknown one is left out.
SetKey(before, name, given) ==
  LET key == Entry(name, given, before.keys[name])
  IN  IF name \notin KeyNames THEN before
      ELSE [keys |-> [before.keys EXCEPT ![name] = key],
            list |-> Append(before.list, [name |-> name, key |-> key])]

SetHashListKey(list) ==
  LET after[n \in 0..Len(list)] ==
        IF n = 0 THEN [keys |-> DefaultKeys, list |-> <<>>]
        ELSE SetKey(after[n - 1], list[n].name, list[n].key)
  IN  after[Len(list)]

\* The keys a signature's context is made with; making one for a BLAKE2s key longer
\* than the hash allows ends the program.
KeysOf(name, keys) ==
  IF name = "ax" THEN {<<k, keys[k]>> : k \in {"ax1", "ax2"}}
  ELSE IF name \in KeyNames THEN {<<name, keys[name]>>} ELSE {}
CreateHashListMap(names, keys) == \A s \in ToSet(names) \cap Blake : keys[s].len <= 32

----------------------------------------------------------------------------
(* The layout.                                                             *)
calculateFileBlocks(fileSize, blockSize) ==
  (fileSize \div blockSize) + (IF fileSize % blockSize = 0 THEN 0 ELSE 1)

\* A file shorter than a block is one block.
Blocksize(c) == IF c.filesize < c.blocksize THEN c.filesize ELSE c.blocksize

modByteSize(modSize) ==
  IF modSize % 8 = 0 THEN modSize \div 8 ELSE IF modSize <= 8 THEN 1 ELSE (modSize \div 8) + 1

ExponentBytes(blockSize) == IF blockSize <= 32 THEN 1 ELSE 4

It(width, value) == [w |-> width, v |-> value]
Total(numbers) ==
  LET sum[n \in 0..Len(numbers)] == IF n = 0 THEN 0 ELSE sum[n - 1] + numbers[n]
  IN  sum[Len(numbers)]
Width(items) == Total([i \in DOMAIN items |-> items[i].w])
Written == Total([k \in DOMAIN written |-> Width(written[k])])
Digests(names, keys, data) ==
  [i \in DOMAIN names |-> It(CalcHashBlockSize(names[i]), <<names[i], KeysOf(names[i], keys), data[i]>>)]

Blocks == 1..calculateFileBlocks(cmd.filesize, hdr.blocksize)
WholeFile == [b \in DOMAIN cmd.data |-> cmd.data[b].id]

----------------------------------------------------------------------------
(* mdzip.                                                                  *)
\* The file's contexts are made from the key list of the command line, the block's from
\* what that came to, and the header stores what the second time came to.
EncodeFileHeader ==
  LET fileKeys == SetHashListKey(cmd.keylist)
      blockKeys == SetHashListKey(fileKeys.list)
      contexts == CreateHashListMap(FileList, fileKeys.keys) /\ CreateHashListMap(BlockList, blockKeys.keys)
  IN  /\ zpc = "start"
      /\ zpc' = IF contexts THEN "file" ELSE "written"
      /\ hdr' = [filesize |-> cmd.filesize, blocksize |-> Blocksize(cmd), modsize |-> cmd.modsize, fl |-> FileList,
                 bl |-> BlockList, keylist |-> blockKeys.list, fkeys |-> fileKeys.keys, bkeys |-> blockKeys.keys]
      /\ written' = IF contexts THEN <<<<It(48, "attributes"), It(TextBytes, "names")>>>> ELSE <<>>
      /\ UNCHANGED <<cmd, disk, unzipVars>>

\* Every context copies the file from the same handle: the first one gets the file, the
\* others what is left of it.
FileData == [i \in DOMAIN hdr.fl |-> IF i = 1 THEN WholeFile ELSE <<>>]
mdencodeFile ==
  /\ zpc = "file"
  /\ written' = Append(written, Digests(hdr.fl, hdr.fkeys, FileData))
  /\ zpc' = IF hdr.blocksize > 0 /\ hdr.bl # <<>> THEN "blocks" ELSE "written"
  /\ UNCHANGED <<cmd, hdr, disk, unzipVars>>

\* The formatter took its block size from a mdzip that had not set one yet.
formatBlockSize == 0

\* A modulus of no bits leaves the remainder unset, and writing it is a nil pointer.
EncodeBlock(b) ==
  Digests(hdr.bl, hdr.bkeys, [i \in DOMAIN hdr.bl |-> WholeFile[b]])
    \o <<It(ExponentBytes(formatBlockSize), cmd.data[b].exp % 256)>>
    \o (IF cmd.modsize = 0 THEN <<>> ELSE <<It(modByteSize(cmd.modsize), WholeFile[b])>>)

mdencodeFileBlock ==
  /\ zpc = "blocks"
  /\ written' = Append(written, EncodeBlock(Len(written) - 1))
  /\ zpc' = IF Len(written) - 1 = Cardinality(Blocks) \/ cmd.modsize = 0 THEN "written" ELSE "blocks"
  /\ UNCHANGED <<cmd, hdr, disk, unzipVars>>

\* The disk may have filled up under any write, and mdzip may be stopped at any time.
EndOfFile ==
  /\ zpc = "written"
  /\ disk' \in 0..Written
  /\ zpc' = "closed"
  /\ UNCHANGED <<cmd, hdr, written, unzipVars>>

Kill ==
  /\ zpc \in {"file", "blocks"}
  /\ disk' = Written
  /\ zpc' = "closed"
  /\ UNCHANGED <<cmd, hdr, written, unzipVars>>

----------------------------------------------------------------------------
(* mdlist and mdunzip: the offsets they compute.                           *)
DigestBytes(names) == Total([i \in DOMAIN names |-> CalcHashBlockSize(names[i])])
HeaderEnd == 48 + TextBytes
FileHashEnd == HeaderEnd + DigestBytes(hdr.fl)
BlockBytes ==
  DigestBytes(hdr.bl) + ExponentBytes(hdr.blocksize) + modByteSize(hdr.modsize)
BlockEnd(b) == FileHashEnd + (b * BlockBytes)

Panic == upc' = "panic" /\ UNCHANGED <<zipVars, ukeys, out, verdict>>

\* mdlist prints the file's digests before it looks whether there are block signatures.
mdlist ==
  /\ zpc = "closed" /\ upc = "off" /\ cmd.list
  /\ IF disk < FileHashEnd THEN Panic
     ELSE IF hdr.bl # <<>> /\ (hdr.blocksize = 0 \/ disk < BlockEnd(Cardinality(Blocks))) THEN Panic
     ELSE upc' = "done" /\ UNCHANGED <<zipVars, ukeys, out, verdict>>

\* Mutant: the contexts are made before the keys are set.
ReaderKeysLate(keylist) == DefaultKeys

ReaderKeys(keylist) == SetHashListKey(keylist).keys

DecodeHeader ==
  /\ zpc = "closed" /\ upc = "off" /\ ~cmd.list
  /\ IF disk < HeaderEnd THEN Panic
     ELSE IF hdr.bl = <<>> THEN upc' = "exit" /\ UNCHANGED <<zipVars, ukeys, out, verdict>>
     ELSE IF disk < FileHashEnd \/ hdr.blocksize = 0 THEN Panic
     ELSE /\ upc' = "blocks" /\ ukeys' = ReaderKeys(hdr.keylist)
          /\ UNCHANGED <<zipVars, out, verdict>>

\* The goroutines find a block whose exponent, remainder and digests are those they were
\* given, and with any others main waits for them forever.
DecodeBlock ==
  LET b == Len(out) + 1
      aligned == ExponentBytes(hdr.blocksize) = ExponentBytes(formatBlockSize)
      keysAgree == \A s \in ToSet(hdr.bl) : KeysOf(s, ukeys) = KeysOf(s, hdr.bkeys)
  IN  /\ upc = "blocks" /\ b \in Blocks
      /\ IF disk < BlockEnd(b) THEN Panic
         ELSE IF aligned /\ keysAgree /\ cmd.data[b].exp < 256
         THEN out' = Append(out, WholeFile[b]) /\ UNCHANGED <<zipVars, upc, ukeys, verdict>>
         ELSE upc' = "stuck" /\ UNCHANGED <<zipVars, ukeys, out, verdict>>

EndDecode ==
  /\ upc = "blocks" /\ Len(out) = Cardinality(Blocks)
  /\ upc' = IF cmd.val THEN "validate" ELSE "done"
  /\ UNCHANGED <<zipVars, ukeys, out, verdict>>

\* Mutant: the output is opened again for every signature.
OutputDataReopened == [i \in DOMAIN hdr.fl |-> out]

\* The validation too copies from one handle.
OutputData == [i \in DOMAIN hdr.fl |-> IF i = 1 THEN out ELSE <<>>]

\* Without file signatures the list of their names has one, the empty one, and no context.
PostValidate ==
  /\ upc = "validate"
  /\ IF hdr.fl = <<>> THEN Panic
     ELSE /\ verdict' = IF Digests(hdr.fl, ukeys, OutputData) = written[2] THEN "validated" ELSE "failed"
          /\ upc' = "done"
          /\ UNCHANGED <<zipVars, ukeys, out>>

----------------------------------------------------------------------------
\* What the flags let through, and a file of as many blocks as are counted, none of them
\* with an exponent past its bits (logN).
ASSUME GoMdzAssumption ==
  /\ hlist \in Seq(STRING \X (Nat \ {0})) /\ TextBytes \in Nat
  /\ \A c \in Commands :
       /\ c.keylist \in Seq([name : STRING, key : [id : STRING, len : Nat]])
       /\ c.filesize \in Nat /\ c.blocksize \in Nat /\ c.modsize \in Nat
       /\ c.data \in Seq([id : STRING, exp : Nat])
       /\ Blocksize(c) > 0 =>
            /\ Len(c.data) = calculateFileBlocks(c.filesize, Blocksize(c))
            /\ \A b \in DOMAIN c.data : c.data[b].exp < 8 * Blocksize(c)

Init ==
  /\ cmd \in Commands
  /\ zpc = "start" /\ written = <<>> /\ disk = 0
  /\ hdr = [filesize |-> 0, blocksize |-> 0, modsize |-> 0, fl |-> <<>>, bl |-> <<>>, keylist |-> <<>>,
            fkeys |-> DefaultKeys, bkeys |-> DefaultKeys]
  /\ upc = "off" /\ ukeys = DefaultKeys /\ out = <<>> /\ verdict = "none"

Encoding == EncodeFileHeader \/ mdencodeFile \/ mdencodeFileBlock \/ EndOfFile \/ Kill
Decoding == mdlist \/ DecodeHeader \/ DecodeBlock \/ EndDecode \/ PostValidate
Next == Encoding \/ Decoding
Spec == Init /\ [][Next]_vars

----------------------------------------------------------------------------
\* State variables keep to their sets; the keys of the HighwayHash and SipHash contexts,
\* which take no other, have 32 and 16 bytes.
TypeOK ==
  /\ cmd \in Commands /\ zpc \in {"start", "file", "blocks", "written", "closed"}
  /\ disk \in 0..Written
  /\ upc \in {"off", "blocks", "validate", "exit", "done", "panic", "stuck"}
  /\ \A keys \in {ukeys, hdr.fkeys, hdr.bkeys} :
       (\A s \in HighWay : keys[s].len = 64) /\ (\A s \in Sip : keys[s].len = 32)
  /\ Len(out) <= Len(cmd.data) /\ verdict \in {"none", "validated", "failed"}

\* Whatever becomes of a container, mdunzip writes a beginning of the input file, all of
\* it when it ends in its own time, and never fails its own output.
WritesABeginning ==
  /\ IsPrefix(out, WholeFile)
  /\ upc = "done" /\ ~cmd.list => out = WholeFile
  /\ verdict # "failed"

\* The container is whole: mdzip got to its end and every byte arrived.
Whole == zpc = "closed" /\ disk = Written
           /\ Len(written) = 2 + (IF hdr.blocksize = 0 \/ hdr.bl = <<>> THEN 0 ELSE Cardinality(Blocks))

\* mdlist and mdunzip panic or wait forever only over a container cut short, but for
\* four cases: blocks of more than 32 bytes or of none, no modulus, and a validation
\* without file signatures.
FailsOnlyWhenCut ==
  upc \in {"panic", "stuck"} /\ Whole =>
    \/ hdr.blocksize > 32 \/ hdr.blocksize = 0
    \/ cmd.modsize = 0
    \/ hdr.fl = <<>> /\ cmd.val
=============================================================================
