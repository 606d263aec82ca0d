-------------------------------- MODULE Mdz --------------------------------
(***************************************************************************)
(* The container of the C++ programs, from the command line of the zipper  *)
(* to the output of the unzipper: mdzip and mdzipsip40 (one format),       *)
(* mdzipsip47 (packed exponents) and mdzipnh (no header).  A zipper writes *)
(* a prefix and one record per block and never looks whether a write       *)
(* succeeded; an unzipper reads them back with the same widths, or what it *)
(* thinks they are, and hands each block's digests, exponent and remainder *)
(* to the modulus scan.  The scan is an outcome here: MdUnzip.tla and      *)
(* ModularWalk.tla are about how it comes to be.                           *)
(*                                                                         *)
(* A file is the sequence of writes, each a width in bytes and a value; a  *)
(* block's contents are an identity and what is calculated of it: its      *)
(* exponent, its remainder, which other blocks may share, and whether it   *)
(* is zeros.  Digests do not collide.  A read of other than the width      *)
(* written is Torn.                                                        *)
(***************************************************************************)
EXTENDS MdCommon, ModExpBitstream, SequencesExt, FiniteSets

Old == INSTANCE HashContextList
New == INSTANCE HashContextListNew

CONSTANTS
  Commands,     \* the command lines and input files tried
  Options,      \* the unzipper's options tried, and whether its output exists already
  RandomKeys,   \* what the random generator may return for a key
  DefaultKey    \* the key a register starts with

VARIABLES
  cmd,      \* the zipper's command line and input file
  run,      \* what main and mdzipfile make of it: lists, block size, remainder bytes
  wpc,      \* where the zipper is
  key,      \* the zipper's block keys
  sent,     \* what it has written: the prefix, then one record per block
  cut,      \* where the disk filled up, <<record, writes of it that arrived>>
  unzip,    \* the unzipper's program and mode
  rpc,      \* where the unzipper is
  rkey,     \* its block keys
  exps,     \* the exponents it unpacked from the prefix (sip47)
  got,      \* the records it has read
  out,      \* the blocks it has written
  verdict   \* what it says of the file at the end

zipVars == <<cmd, run, wpc, key, sent, cut>>
unzipVars == <<unzip, rpc, rkey, exps, got, out, verdict>>
vars == <<zipVars, unzipVars>>

Never == <<0, 0>>   \* the disk has not filled up
Junk == <<"junk">>      \* a digest's memory never written
Unset == -1             \* and a remainder's

----------------------------------------------------------------------------
(* Command lines: what main of each zipper hands to mdzipfile.             *)
FAST64 == Old!hclmap["fast64"]
SIP40 == Old!hclmap["sip40"]

\* The comma list and the blank-separated list of one kind, joined in that order.
Joined(csv, ints, signum) ==
  LET a == splitRange(csv, signum)  b == splitRange(ints, signum)
  IN  IF Invalid \in {a, b} THEN Invalid ELSE a \o b

mdzipMain(c) ==
  LET list == Joined(c.bhs, c.bh, Len(Old!mdHashlist))
  IN  [fh |-> Joined(c.fhs, c.fh, Len(Old!mdHashlist)), bh |-> IF list = <<>> THEN <<FAST64>> ELSE list,
       blocksize |-> c.blocksize, modsize |-> c.modsize]

sip40Main(c) ==
  [fh |-> Joined(c.fhs, c.fh, Len(Old!mdHashlist)), bh |-> <<SIP40>>, blocksize |-> 11, modsize |-> 32]

sip47Main(c) ==
  LET block == CASE c.hw48 -> "hw48" [] c.sip48 -> "sip48" [] OTHER -> "sip40"
  IN  [fh |-> Joined(c.fhs, c.fh, Len(New!mdHashlist)), bh |-> <<New!hclmap[block]>>,
       blocksize |-> 10, modsize |-> IF block = "sip40" THEN 32 ELSE 24]

nhMain(c) == [fh |-> <<>>, bh |-> <<FAST64>>, blocksize |-> 14, modsize |-> 32]

Main(c) ==
  CASE c.tool = "mdzip" -> mdzipMain(c)
    [] c.tool = "mdzipsip40" -> sip40Main(c)
    [] c.tool = "mdzipsip47" -> sip47Main(c)
    [] c.tool = "mdzipnh" -> nhMain(c)

\* mdzipfile: a file shorter than a block is one block of its own size, except
\* without a header, where the block size is not stored and stays what it was.
Run(c) ==
  LET m == Main(c)
      size == IF c.tool # "mdzipnh" /\ c.filesize < m.blocksize THEN c.filesize ELSE m.blocksize
      List(numbers) == IF c.tool = "mdzipsip47" THEN New!setVectorHL(numbers) ELSE Old!setVectorHL(numbers)
  IN  [fl |-> List(m.fh), bl |-> List(m.bh), blocksize |-> size, modsize |-> m.modsize,
       count |-> CalcFileBlocks(c.filesize, size)]

\* --dec and --inc are told to the unzipper by the version; --inc wins.
incKey == IF cmd.inc THEN INC ELSE IF cmd.dec THEN DEC ELSE NOINC
Version == CASE incKey = INC -> 112 [] incKey = DEC -> 111 [] OTHER -> 101
\* Mutant: the versions of --inc and --dec are taken for each other.
IncKeyOfSwapped(version) == CASE version = 112 -> DEC [] version = 111 -> INC [] OTHER -> NOINC

IncKeyOf(version) == CASE version = 111 -> DEC [] version = 112 -> INC [] OTHER -> NOINC

----------------------------------------------------------------------------
(* The registry a program is built with.                                   *)
Sip47 == cmd.tool = "mdzipsip47"
WriteKey == IF Sip47 THEN New!writeKeyList ELSE Old!writeKeyList
WriteDigest == IF Sip47 THEN New!writeBlockHashList ELSE Old!writeBlockHashList
HashBlock == IF Sip47 THEN New!setByteBlockHashList ELSE Old!setByteBlockHashList
HashFile == IF Sip47 THEN New!setFileHashList ELSE Old!setFileHashList
Randomized == IF Sip47 THEN New!randomizeKeyList ELSE Old!randomizeKeyList
Incremented == IF Sip47 THEN New!incrementBlockKeyList ELSE Old!incrementBlockKeyList
NameBytes(list) == IF Sip47 THEN New!getHLvectorsStringNames(list) ELSE Old!getHLvectorsStringNames(list)
CompareBlock == IF Sip47 THEN New!compareBlockHashList ELSE Old!compareBlockHashList
CompareFile == IF Sip47 THEN New!compareFileHashList ELSE Old!compareFileHashList
ReadKey == IF Sip47 THEN New!readKeyList ELSE Old!readKeyList
ReadDigest == IF Sip47 THEN New!readBlockHashList ELSE Old!readBlockHashList
FromNames(names) == IF Sip47 THEN New!setVectorHLstring(names) ELSE Old!setVectorHLstring(names)
DigestBytes(list) == IF Sip47 THEN New!calcBlockSize(list) ELSE Old!calcBlockSize(list)
KeyBytes(list) == IF Sip47 THEN New!calcBlockKeySize(list) ELSE Old!calcBlockKeySize(list)

----------------------------------------------------------------------------
(* The zippers.                                                            *)
It(width, value) == [w |-> width, v |-> value]
Width(items) == Old!Total([i \in DOMAIN items |-> items[i].w])
Values(items) == [i \in DOMAIN items |-> items[i].v]

Blocks == 1..run.count
Contents(b) == <<cmd.data[b].id>>
WholeFile == [b \in Blocks |-> cmd.data[b].id]
Exponents == [b \in Blocks |-> cmd.data[b].exp]
SizeOf(b) == IF b = run.count THEN CalcFileBlocksRemainder(cmd.filesize, run.blocksize) ELSE run.blocksize
modsizeBytes == calcModulusBytes(run.modsize)

\* The keys a register starts with; --randbh draws new ones for the keyed signatures.
DefaultKeys(list) == [s \in Range(list) |-> DefaultKey]
BlockKeys ==
  IF cmd.rand
  THEN {k \in [Range(run.bl) -> RandomKeys \cup {DefaultKey}] :
          \A s \in Range(run.bl) : s \in Randomized <=> k[s] \in RandomKeys}
  ELSE {DefaultKeys(run.bl)}

Digests(list, row, keys, data) ==
  LET Stored(s) == [row[s] EXCEPT !.bytes = Least({@, WriteDigest[s]})]
  IN  [i \in DOMAIN list |->
         It(WriteDigest[list[i]], Old!Register(list[i], Stored(list[i]), keys[list[i]], data))]

\* The key list has the number of name bytes before it, zero when there is none.
mdzipHeader(keys) ==
  <<It(8, Version), It(8, cmd.filesize), It(8, run.blocksize), It(4, run.modsize),
    It(4, NameBytes(run.fl)), It(NameBytes(run.fl), run.fl),
    It(4, NameBytes(run.bl)), It(NameBytes(run.bl), run.bl)>>
    \o Digests(run.fl, HashFile, DefaultKeys(run.fl), WholeFile)
    \o <<It(4, IF cmd.rand THEN NameBytes(run.bl) ELSE 0)>>
    \o (IF cmd.rand THEN [i \in DOMAIN run.bl |-> It(WriteKey[run.bl[i]], keys[run.bl[i]])] ELSE <<>>)

sip40Header(keys) == mdzipHeader(keys)

Format == calcMinMaxExponent(Exponents)

sip47Header(keys) ==
  mdzipHeader(keys) \o <<It(1, Format), It(calcBitstreamSize(run.count, Format), Stream(Exponents))>>

nhHeader(keys) == <<It(8, cmd.filesize), It(8, keys["fast64"])>>

Prefix(keys) ==
  CASE cmd.tool = "mdzip" -> mdzipHeader(keys)
    [] cmd.tool = "mdzipsip40" -> sip40Header(keys)
    [] cmd.tool = "mdzipsip47" -> sip47Header(keys)
    [] cmd.tool = "mdzipnh" -> nhHeader(keys)

\* One turn of the block loop: the signatures with the keys moved to this block,
\* then the exponent and the remainder of the modulus.
KeysAt(keys, b, inc) ==
  [s \in DOMAIN keys |-> IF s \in Incremented THEN incrementBlockNum(keys[s], b - 1, inc) ELSE keys[s]]
BlockDigests(b, keys) == Digests(run.bl, HashBlock, keys, Contents(b))
ExponentBytes(blocksize) == IF blocksize > 32 THEN 4 ELSE 1
Exponent(b) == It(ExponentBytes(run.blocksize),
                  IF run.blocksize > 32 THEN cmd.data[b].exp ELSE cmd.data[b].exp % 256)
Remainder(b) == It(modsizeBytes, cmd.data[b].rem)

mdzipBlock(b, keys) == BlockDigests(b, keys) \o <<Exponent(b), Remainder(b)>>
sip40Block(b, keys) == mdzipBlock(b, keys)
sip47Block(b, keys) == BlockDigests(b, keys) \o <<Remainder(b)>>
nhBlock(b, keys) == mdzipBlock(b, keys)

Block(b, keys) ==
  CASE cmd.tool = "mdzip" -> mdzipBlock(b, keys)
    [] cmd.tool = "mdzipsip40" -> sip40Block(b, keys)
    [] cmd.tool = "mdzipsip47" -> sip47Block(b, keys)
    [] cmd.tool = "mdzipnh" -> nhBlock(b, keys)

\* Nothing looks at the stream until the file is closed, and then only to print: once
\* the disk is full the writes go on and nothing more arrives.
Write(items) ==
  /\ sent' = Append(sent, items)
  /\ \/ cut' = cut
     \/ /\ cut = Never
        /\ \E n \in 0..(Len(items) - 1) : cut' = <<Len(sent) + 1, n>>

WriteHeader ==
  /\ wpc = "header"
  /\ key' \in BlockKeys
  /\ Write(Prefix(key'))
  /\ wpc' = "blocks"
  /\ UNCHANGED <<cmd, run, unzipVars>>

\* In format 7 writeBitstream follows a pointer nobody set; when that kills the
\* zipper, what was still in the stream's buffer is lost with it.
CrashInStream ==
  /\ wpc = "header" /\ Sip47 /\ Format = 7
  /\ key' \in BlockKeys
  /\ sent' = <<Prefix(key')>>
  /\ \E n \in 0..(Len(sent'[1]) - 1) : cut' = <<1, n>>
  /\ wpc' = "closed"
  /\ UNCHANGED <<cmd, run, unzipVars>>

WriteBlock ==
  /\ wpc = "blocks" /\ Len(sent) <= run.count
  /\ key' = KeysAt(key, Len(sent), incKey)
  /\ Write(Block(Len(sent), key'))
  /\ wpc' = IF Len(sent) = run.count THEN "closed" ELSE "blocks"
  /\ UNCHANGED <<cmd, run, unzipVars>>

----------------------------------------------------------------------------
(* The container on the disk.                                              *)
Kept(k) == IF k \notin DOMAIN sent \/ (cut # Never /\ k > cut[1]) THEN 0
           ELSE IF cut # Never /\ k = cut[1] THEN cut[2] ELSE Len(sent[k])
OnDisk(k, i) == i <= Kept(k)
Arrived(k) == SubSeq(sent[k], 1, Kept(k))
Intact(k) == Kept(k) = Len(sent[k])
DiskBytes == Old!Total([k \in DOMAIN sent |-> Width(Arrived(k))])
Complete == wpc = "closed" /\ DiskBytes = Old!Total([k \in DOMAIN sent |-> Width(sent[k])])
              /\ Len(sent) = run.count + 1

\* What a field read from the prefix gives: its value, or what the variable held.
Field(i, initial) == IF OnDisk(1, i) THEN sent[1][i].v ELSE initial

\* The places of the prefix that depend on the number of file signatures.
KeySizeAt == 9 + Len(run.fl)
KeyAt(i) == KeySizeAt + i
FormatAt == Len(sent[1]) - 1
StreamAt == Len(sent[1])

\* What an unzipper takes from the prefix; without a header all but the size and the
\* key is built in.  A prefix that ends before the signature names is garbage.
NoHeader == cmd.tool = "mdzipnh"
Garbled == ~NoHeader /\ ~OnDisk(1, 8)
Header ==
  IF NoHeader
  THEN [version |-> 101, filesize |-> sent[1][1].v, blocksize |-> 14, modsize |-> 32,
        fl |-> <<>>, bl |-> <<"fast64">>, keysize |-> 0]
  ELSE [version |-> sent[1][1].v, filesize |-> sent[1][2].v, blocksize |-> sent[1][3].v,
        modsize |-> sent[1][4].v, fl |-> FromNames(sent[1][6].v), bl |-> FromNames(sent[1][8].v),
        keysize |-> Field(KeySizeAt, 0)]
blockcount == CalcFileBlocks(Header.filesize, Header.blocksize)
format == Field(FormatAt, 0)

\* The keys of the blocks: those of the list when it names any, else the default ones.
readKeys ==
  IF NoHeader THEN [s \in {"fast64"} |-> sent[1][2].v]
  ELSE [s \in Range(Header.bl) |->
          LET i == CHOOSE i \in DOMAIN Header.bl : Header.bl[i] = s
          IN  IF Header.keysize > 0 /\ ReadKey[s] > 0 THEN Field(KeyAt(i), DefaultKey) ELSE DefaultKey]

\* The widths the prefix and a block are read with.
DigestWidths(list) == [i \in DOMAIN list |-> ReadDigest[list[i]]]
PrefixWidths ==
  IF NoHeader THEN <<8, 8>>
  ELSE <<8, 8, 8, 4, 4, Field(5, 0), 4, Field(7, 0)>> \o DigestWidths(Header.fl) \o <<4>>
         \o (IF Header.keysize > 0 THEN [i \in DOMAIN Header.bl |-> ReadKey[Header.bl[i]]] ELSE <<>>)
         \o (IF Sip47 THEN <<1, calcBitstreamSize(blockcount, format)>> ELSE <<>>)
BlockWidths ==
  DigestWidths(Header.bl) \o (IF Sip47 THEN <<>> ELSE <<ExponentBytes(Header.blocksize)>>)
    \o <<calcModulusBytes(Header.modsize)>>
TornAt(k, widths) ==
  \E i \in 1..Kept(k) : i \notin DOMAIN widths \/ widths[i] # sent[k][i].w

----------------------------------------------------------------------------
(* The unzippers.  Each program is its own copy of the same steps.         *)
Programs(tool) ==
  CASE tool \in {"mdzip", "mdzipsip40"} -> {"mdunzip", "mdunzipsip40"}
    [] tool = "mdzipsip47" -> {"mdunzipsip47"}
    [] tool = "mdzipnh" -> {"mdunzipnh"}

\* main: --valmdzip and nothing else; --list alone lists; --list --unzip does both.
Jobs(o) ==
  IF o.valmdzip THEN <<"validate">>
  ELSE (IF o.list THEN <<"list">> ELSE <<>>) \o (IF ~o.list \/ o.unzip THEN <<"unzip">> ELSE <<>>)

Launch(program, o) ==
  /\ rpc = "off" /\ wpc = "closed" /\ sent # <<>> /\ program \in Programs(cmd.tool)
  /\ unzip' = [program |-> program, jobs |-> Jobs(o), val |-> o.val, over |-> o.over \/ ~o.exists,
               single |-> o.threads = 1]
  /\ rpc' = "main"
  /\ UNCHANGED <<zipVars, rkey, exps, got, out, verdict>>

mdunzipMain(o) == Launch("mdunzip", o)
sip40UnzipMain(o) == Launch("mdunzipsip40", o)
sip47UnzipMain(o) == Launch("mdunzipsip47", o)
nhUnzipMain(o) == Launch("mdunzipnh", [o EXCEPT !.val = FALSE])

\* The next job of a program, when the file is not below the size it accepts.
NextJob(program, job) ==
  /\ rpc = "main" /\ unzip.program = program
  /\ unzip.jobs # <<>> /\ unzip.jobs[1] = job
Refuse(program, job, least) ==
  /\ NextJob(program, job)
  /\ DiskBytes < least \/ (job = "unzip" /\ ~unzip.over)
  /\ verdict' = "refused"
  /\ unzip' = [unzip EXCEPT !.jobs = Tail(@)]
  /\ UNCHANGED <<zipVars, rpc, rkey, exps, got, out>>
Accepted(program, job, least) ==
  NextJob(program, job) /\ DiskBytes >= least /\ (job = "unzip" => unzip.over)
Crash == rpc' = "garbled" /\ UNCHANGED <<zipVars, unzip, rkey, exps, got, out, verdict>>

\* validateMDzip adds up what the header promises and compares with the file's size.
NamedBytes == Field(5, 0) + Field(7, 0) + DigestBytes(Header.fl)
BlockBytes == DigestBytes(Header.bl) + calcModulusBytes(Header.modsize)
ExponentTable == blockcount * ExponentBytes(Header.blocksize)
mdunzipSum == 40 + NamedBytes + KeyBytes(Header.bl) + (blockcount * BlockBytes) + ExponentTable
sip40Sum == mdunzipSum
\* Mutant: the byte of the format is not counted.
sip47SumShort == 40 + NamedBytes + (IF Header.keysize > 0 THEN KeyBytes(Header.bl) ELSE 0)
                   + calcBitstreamSize(blockcount, format) + (blockcount * BlockBytes)

sip47Sum == 40 + NamedBytes + (IF Header.keysize > 0 THEN KeyBytes(Header.bl) ELSE 0)
              + 1 + calcBitstreamSize(blockcount, format) + (blockcount * BlockBytes)
nhSum == 16 + (blockcount * BlockBytes) + ExponentTable

Validate(program, least, sum) ==
  /\ Accepted(program, "validate", least)
  /\ IF Garbled THEN Crash
     ELSE /\ verdict' = IF sum = DiskBytes THEN "accepted" ELSE "rejected"
          /\ unzip' = [unzip EXCEPT !.jobs = Tail(@)]
          /\ UNCHANGED <<zipVars, rpc, rkey, exps, got, out>>

mdunzipValidate == Validate("mdunzip", 48, mdunzipSum)
sip40Validate == Validate("mdunzipsip40", 48, sip40Sum)
sip47Validate == Validate("mdunzipsip47", 48, sip47Sum)
nhValidate == Validate("mdunzipnh", 21, nhSum)

\* The header as mdlist and mdunzipfile read it, up to the first block.
ReadHeader(program, job, least) ==
  /\ Accepted(program, job, least)
  /\ IF Garbled THEN Crash
     ELSE /\ rpc' = IF TornAt(1, PrefixWidths) THEN "torn" ELSE job
          /\ rkey' = readKeys
          /\ exps' = IF ~Sip47 THEN <<>>
                     ELSE [b \in 1..blockcount |->
                             IF OnDisk(1, StreamAt)
                             THEN ReadExponent(sent[1][StreamAt].v, format, blockcount, b) ELSE Torn]
          /\ got' = <<>> /\ out' = <<>>
          /\ UNCHANGED <<zipVars, unzip, verdict>>

mdunzipListHeader == ReadHeader("mdunzip", "list", 48)
sip40ListHeader == ReadHeader("mdunzipsip40", "list", 48)
sip47ListHeader == ReadHeader("mdunzipsip47", "list", 48)
nhListHeader == ReadHeader("mdunzipnh", "list", 21)
mdunzipHeader == ReadHeader("mdunzip", "unzip", 48)
sip40UnzipHeader == ReadHeader("mdunzipsip40", "unzip", 48)
sip47UnzipHeader == ReadHeader("mdunzipsip47", "unzip", 48)
nhUnzipHeader == ReadHeader("mdunzipnh", "unzip", 24)

\* The reads of a turn of the block loop.  A read past the end of the file changes
\* nothing, so registers, exponent and remainder keep what the last turn read.
Initial(i) ==
  IF i <= Len(Header.bl) THEN [sig |-> Header.bl[i], key |-> Old!NoKey, data |-> Junk, bytes |-> 0]
  ELSE IF i = Len(BlockWidths) THEN Unset ELSE 0
ReadBlock(b) ==
  LET before == IF got = <<>> THEN [i \in DOMAIN BlockWidths |-> Initial(i)] ELSE got[b - 1].fields
      fields == [i \in DOMAIN BlockWidths |-> IF OnDisk(b + 1, i) THEN sent[b + 1][i].v ELSE before[i]]
  IN  [fields |-> fields, exp |-> IF Sip47 THEN exps[b] ELSE fields[Len(Header.bl) + 1]]

\* With a modulus of one the walk of block b starts above zeros: at the exponent's floor
\* for the first block, and for a later one unless there is a thread count to align to.
Passed(b, x, exponent) ==
  Header.modsize = 1 /\ cmd.data[x].zeros /\ exponent # 0 /\ (b = 1 \/ unzip.single)

\* What the modulus scan makes of the block's fields.  The candidates have the expected
\* size and the remainder read, and any at all when none ever was; a match answers to
\* every signature.  A candidate with the exponent read is certain to come up, one with
\* another may, as the floor is aligned downwards and the ceiling hardly ever looked at;
\* without signatures the first to come up matches.  If none does, nothing is written.
Wrong == "wrong"
Scan(b, rec, keys) ==
  LET remainder == rec.fields[Len(rec.fields)]
      Answers(i, x) ==
        LET s == Header.bl[i]
        IN  Old!Compare(rec.fields[i], CompareBlock[s], keys[s], Contents(x))
      MayMatch(x) ==
        /\ SizeOf(x) = SizeOf(b) /\ remainder \in {cmd.data[x].rem, Unset} /\ ~Passed(b, x, rec.exp)
        /\ \A i \in DOMAIN Header.bl : TRUE \in Answers(i, x)
      MustMatch(x) ==
        /\ MayMatch(x) /\ remainder # Unset /\ cmd.data[x].exp = rec.exp
        /\ \A i \in DOMAIN Header.bl : FALSE \notin Answers(i, x)
  IN  {Contents(x) : x \in {x \in Blocks : MayMatch(x)}}
        \cup (IF Header.bl = <<>> THEN {<<Wrong>>}
              ELSE IF \E x \in Blocks : MustMatch(x) THEN {} ELSE {<<>>})

Turn(program, job) ==
  /\ rpc = job /\ unzip.program = program /\ Len(got) < blockcount
  /\ LET b == Len(got) + 1
         rec == ReadBlock(b)
     IN  IF TornAt(b + 1, BlockWidths)
         THEN /\ rpc' = "torn"
              /\ got' = Append(got, [fields |-> <<>>, exp |-> Torn])
              /\ UNCHANGED <<rkey, out>>
         ELSE /\ got' = Append(got, rec)
              /\ rkey' = KeysAt(rkey, b, IncKeyOf(Header.version))
              /\ IF job = "unzip" THEN \E block \in Scan(b, rec, rkey') : out' = out \o block
                 ELSE out' = out
              /\ rpc' = rpc
  /\ UNCHANGED <<zipVars, unzip, exps, verdict>>

mdunzipListBlock == Turn("mdunzip", "list")
sip40ListBlock == Turn("mdunzipsip40", "list")
sip47ListBlock == Turn("mdunzipsip47", "list")
nhListBlock == Turn("mdunzipnh", "list")
mdunzipBlock == Turn("mdunzip", "unzip")
sip40UnzipBlock == Turn("mdunzipsip40", "unzip")
sip47UnzipBlock == Turn("mdunzipsip47", "unzip")
nhUnzipBlock == Turn("mdunzipnh", "unzip")

\* After the last block; --val compares the file signatures with the file just written.
FileVerdicts ==
  LET fl == Header.fl
      Register(i) == Field(8 + i, [sig |-> fl[i], key |-> Old!NoKey, data |-> Junk, bytes |-> 0])
      Answers(i) == Old!Compare(Register(i), CompareFile[fl[i]], DefaultKey, out)
  IN  (IF \A i \in DOMAIN fl : TRUE \in Answers(i) THEN {"validates"} ELSE {})
        \cup (IF \E i \in DOMAIN fl : FALSE \in Answers(i) THEN {"failed"} ELSE {})

End(program) ==
  /\ rpc \in {"list", "unzip"} /\ unzip.program = program /\ Len(got) = blockcount
  /\ verdict' \in (IF rpc = "unzip" /\ unzip.val THEN FileVerdicts ELSE {verdict})
  /\ unzip' = [unzip EXCEPT !.jobs = Tail(@)]
  /\ rpc' = "main"
  /\ UNCHANGED <<zipVars, rkey, exps, got, out>>

mdunzipEnd == End("mdunzip")
sip40UnzipEnd == End("mdunzipsip40")
sip47UnzipEnd == End("mdunzipsip47")
nhUnzipEnd == End("mdunzipnh")

Exit ==
  /\ rpc = "main" /\ unzip.jobs = <<>>
  /\ rpc' = "done"
  /\ UNCHANGED <<zipVars, unzip, rkey, exps, got, out, verdict>>

----------------------------------------------------------------------------
\* A command line that does not parse ends the zipper before it opens anything, and
\* an empty file before it writes anything.
Parses(c) == Main(c).fh # Invalid /\ Main(c).bh # Invalid

\* What the options' checks let through, and a file of as many blocks as are counted:
\* exponents within a block's bits, no remainder but zero of a modulus of one, and equal
\* blocks alike in all that is calculated of them.
SignatureOption(tokens) == tokens \in Seq(Seq(Nat) \ {<<>>})
CommandLine(c) ==
  /\ c.tool \in {"mdzip", "mdzipsip40", "mdzipsip47", "mdzipnh"}
  /\ SignatureOption(c.fhs) /\ SignatureOption(c.fh) /\ SignatureOption(c.bhs) /\ SignatureOption(c.bh)
  /\ c.blocksize \in Nat \ {0} /\ c.modsize \in Nat \ {0} /\ c.filesize \in Nat
InputFile(c) ==
  /\ Run(c).count \in 1..KeySpan /\ DOMAIN c.data = 1..Run(c).count
  /\ \A b \in DOMAIN c.data :
        LET d == c.data[b]
        IN  /\ d.exp \in 1..(8 * Run(c).blocksize) /\ d.rem \in Nat /\ d.id # "junk"
            /\ Run(c).modsize = 1 => d.rem = 0
            /\ d.zeros => d.exp = 1 /\ d.rem = 0
  /\ \A b, x \in DOMAIN c.data : c.data[b].id = c.data[x].id => c.data[b] = c.data[x]

ASSUME MdzAssumption ==
  /\ DefaultKey \in 0..(KeySpan - 1) /\ RandomKeys \subseteq 0..(KeySpan - 1)
  /\ \A c \in Commands : CommandLine(c) /\ (Parses(c) /\ c.filesize > 0 => InputFile(c))

\* Signatures have names; a name of the registry is a string of at least three characters.
ASSUME NamesAssumption == \A s \in DOMAIN New!hclmap : Len(s) \in Nat /\ Len(s) >= 3

Init ==
  /\ cmd \in {c \in Commands : Parses(c) /\ c.filesize > 0}
  /\ run = Run(cmd)
  /\ wpc = "header" /\ key = DefaultKeys(run.bl) /\ sent = <<>> /\ cut = Never
  /\ unzip = [program |-> "none", jobs |-> <<>>, val |-> FALSE, over |-> FALSE, single |-> FALSE]
  /\ rpc = "off" /\ rkey = [s \in {} |-> DefaultKey] /\ exps = <<>>
  /\ got = <<>> /\ out = <<>> /\ verdict = "none"

Zipping == WriteHeader \/ CrashInStream \/ WriteBlock
Launching == \E o \in Options : mdunzipMain(o) \/ sip40UnzipMain(o) \/ sip47UnzipMain(o) \/ nhUnzipMain(o)
Refused ==
  \E job \in {"validate", "list", "unzip"} :
    \/ \E program \in {"mdunzip", "mdunzipsip40", "mdunzipsip47"} : Refuse(program, job, 48)
    \/ Refuse("mdunzipnh", job, IF job = "unzip" THEN 24 ELSE 21)
Check == mdunzipValidate \/ sip40Validate \/ sip47Validate \/ nhValidate
List ==
  \/ mdunzipListHeader \/ sip40ListHeader \/ sip47ListHeader \/ nhListHeader
  \/ mdunzipListBlock \/ sip40ListBlock \/ sip47ListBlock \/ nhListBlock
Unzip ==
  \/ mdunzipHeader \/ sip40UnzipHeader \/ sip47UnzipHeader \/ nhUnzipHeader
  \/ mdunzipBlock \/ sip40UnzipBlock \/ sip47UnzipBlock \/ nhUnzipBlock
  \/ mdunzipEnd \/ sip40UnzipEnd \/ sip47UnzipEnd \/ nhUnzipEnd

Next == Zipping \/ Launching \/ Refused \/ Check \/ List \/ Unzip \/ Exit
Spec == Init /\ [][Next]_vars

----------------------------------------------------------------------------
\* State variables keep to their sets.
TypeOK ==
  /\ cmd \in Commands /\ run = Run(cmd)
  /\ wpc \in {"header", "blocks", "closed"} /\ rpc \in {"off", "main", "list", "unzip", "done", "torn", "garbled"}
  /\ key \in [Range(run.bl) -> 0..(KeySpan - 1)] /\ \A s \in DOMAIN rkey : rkey[s] \in 0..(KeySpan - 1)
  /\ Len(sent) <= run.count + 1 /\ Len(got) <= run.count /\ Len(out) <= run.count
  /\ verdict \in {"none", "refused", "accepted", "rejected", "validates", "failed"}

\* The zipper and the unzipper are a channel for the block records: width by width they
\* agree on where every field is (the switches of writeBlockHashList and
\* readBlockHashList, the exponent's and the remainder's width, the packed exponents of
\* sip47 in between), and past a cut a record repeats the one before.
Channel ==
  INSTANCE BlockChannel WITH
    sent <- [k \in 1..(Len(sent) - 1) |-> Values(sent[k + 1])],
    kept <- [k \in 1..(Len(sent) - 1) |-> Kept(k + 1)],
    got <- [n \in DOMAIN got |-> got[n].fields]
ChannelSpec == Channel!Spec

\* --valmdzip accepts a file exactly when it is all there, and no command refuses a
\* whole file for its size, when the key list the sum counts is the one in the file: it
\* is not when the block signatures have keys and --randbh was not given (mdzip and
\* mdzipsip40), and for png, whose registered key has half the bytes of the stored one.
ValidationIsExact ==
  LET stored == IF cmd.rand /\ ~NoHeader
                THEN Old!Total([i \in DOMAIN run.bl |-> WriteKey[run.bl[i]]]) ELSE 0
      counted == IF cmd.rand \/ cmd.tool # "mdzipsip47" THEN KeyBytes(run.bl) ELSE 0
  IN  run.bl # <<>> =>
        /\ (verdict \in {"accepted", "rejected"} /\ (NoHeader \/ stored = counted)) =>
             (verdict = "accepted" <=> Complete)
        /\ (verdict = "refused" /\ unzip.over) => ~Complete

\* The keys move in lockstep: a block's digest is checked under the key it was computed
\* with, although the zipper counts blocks as it writes and the unzipper as it reads,
\* whatever --inc and --dec do at the ends of the range of keys.
KeyLockstep ==
  rpc \in {"list", "unzip"} /\ got # <<>> /\ Intact(1) /\ Intact(Len(got) + 1) =>
    \A i \in DOMAIN run.bl :
      got[Len(got)].fields[i].key \in {Old!NoKey, rkey[run.bl[i]]}

\* Which exponents a container can carry: in blocks up to 32 bytes one byte of them, in
\* the packed form those of formats 2 to 6.
Carried(b) ==
  CASE Sip47 -> Format < 7
    [] run.blocksize > 32 -> TRUE
    [] OTHER -> cmd.data[b].exp < 256

\* The unzipper scans every block with the block's own exponent, whether it was stored
\* with the block or packed, relative to the least exponent, before all of them.
ExponentSurvives ==
  \A b \in DOMAIN got :
    Intact(1) /\ Intact(b + 1) /\ rpc # "torn" /\ Carried(b) => got[b].exp = cmd.data[b].exp

\* The blocks the scan passes: zeros, with --mod=1, as the first block or for one thread.
Lost(b) == cmd.data[b].zeros /\ run.modsize = 1 /\ (b = 1 \/ unzip.single)
OutPlace(b) == Cardinality({x \in 1..b : ~Lost(x)})

\* No read is of another width than the write, and unzipping gives the file back: of a
\* whole container all its blocks, of one cut off in the block table those whose records
\* are there, in order and each at its place among those not lost.  After them, and only
\* past a cut, may come the last of them again, or the block after it: where its digests
\* had still arrived, and its remainder is the one read last or none was ever read.
UnzipIsExact ==
  LET k == Cardinality({b \in Blocks : Intact(b + 1)})
      NextMatches ==
        /\ k < run.count /\ OnDisk(k + 2, Len(run.bl))
        /\ k = 0 \/ cmd.data[k + 1].rem = cmd.data[k].rem
  IN  /\ rpc # "torn"
      /\ (rpc = "unzip" /\ Len(got) = run.count /\ run.bl # <<>> /\ Intact(1)
            /\ \A b \in Blocks : Carried(b)) =>
           /\ Len(out) \in OutPlace(k)..(OutPlace(k) + run.count - k)
           /\ \A b \in 1..k : ~Lost(b) => out[OutPlace(b)] = WholeFile[b]
           /\ \A i \in (OutPlace(k) + 1)..Len(out) :
                \/ k > 0 /\ out[i] = WholeFile[k]
                \/ NextMatches /\ out[i] = WholeFile[k + 1]

\* --val tells the truth when there is a file signature: what it validates is the input
\* file, and what it fails is not, unless the signatures are not in the container or
\* one is MD6, over files four bytes shorter than what is compared.
ValVerdict ==
  run.fl # <<>> =>
    /\ verdict = "validates" => out = WholeFile
    /\ verdict = "failed" =>
         out # WholeFile \/ ~OnDisk(1, 8 + Len(run.fl)) \/ Range(run.fl) \cap {"md6", "md62"} # {}
=============================================================================
