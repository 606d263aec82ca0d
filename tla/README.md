# TLA+ models of mdencode's modulus scan tools

mdencode's zip tools store, for each block of a file, some hash signatures of
the block, its remainder modulo `2^mod - 1` and the exponent of the power of two
below it. Unzipping searches the numbers with that remainder between that power
and the next for one with the same signatures: the *modulus scan*. The scan is
shared out over threads. Two things are hard to get right there, and these models
are about both: how the threads share the numbers, the verdict and the buffers; and
how the zipper and the unzipper, two programs with nothing in common but a file,
come to agree on what is where in it, under which key a digest was computed, and
what to do when a part of the file is missing.

This directory models the C++ and the Go tools from their command lines to the
unzipped unzipped file, checks the models with TLC and proves theorems about them with TLAPS:
every safety property of every passing run is a theorem too.

## The system

| part | source | state it keeps | operations |
|---|---|---|---|
| match mutex (C++) | `mdzip_cpp/mdCore/mdMutex.h` | `isMatched`, `notFound`, `matchCount`, `lastThread` | `incNotFound`, `setMatched`, `resetMatched` under the lock; getters without |
| scan threads (C++) | `mdCore/modscanFile.h` | one `modscan` object for each thread number: `stop`, `stopped`, `blockInt`, `byteblock`, the hash context list | `setModscan`, `resetThread`, `decode`, `stopThread`, `isStoppedThread` |
| mdtest (C++) | `mdZip/mdTest.h` | the scan objects, one random block | `decodeRandomBlock` |
| mdunzip (C++) | `mdUnzip.cpp` | the scan objects, the block loop, the output file | `mdunzipfile`; `mdlist`, `validateMDzip` |
| other unzippers (C++) | `mdUnzipSimple.cpp`, `mdUnzipSip40.cpp`, `mdUnzipSip47.cpp`, `mdUnzip47.h` | as mdunzip | as mdunzip, each with its own layout, size check and built-in values |
| mdzip and the other zippers (C++) | `mdZip.cpp`, `mdZipSimple.cpp`, `mdZipSip40.cpp`, `mdZipSip47.cpp`, `mdZip47.h`, `mdCommon.h` | the container being written, the keys | header, key list, file digests; for each block digests, exponent, remainder |
| hash context lists (C++) | `mdHashContextList.h`, `mdHashContextListNew.h` | the list of a run, a register and a key for each signature | randomize, move, store, load, compute, compare: one switch of 46 or 47 cases each |
| exponent bitstream | `mdBitstream.h` | a bit vector of exponents and its format byte | pack, unpack, size |
| key increment | `mdIncrementKey.h`, `mdHashContextList.h` | the keys of the signatures | step every key with the block number, in zip and in unzip alike |
| Go mdunzip | `mdzip_go/mdUnzipFile`, `modScanFile` | scan objects made anew for each block, hash context lists made once, a `WaitGroup` | `DecodeFile`, `ModulusScanFileBytesOrig`, `StopScan`, `ResetMatchFound` |
| Go file mutex | `mdzip_go/mdUnzipMutex` | `filebuffer`, `isMatched` | `SetFileBuffer`, `GetFileBuffer`, `GetMatchStatus`, `ResetMutex` |
| Go hash context list | `decode/mdHashContextList` | the signatures to compare with, the hash objects | `SetBlockHash`, `CheckFileHashBlock` |
| Go mdtest | `testdecode_go/cmd/mdTestHC.go`, `modScanHC` | a buffered channel | `mddecode`, `setThread`, `RunDecode` |
| Go mdzip | `mdzip_go/mdZipFile`, `mdFormatBinary` | the container being written | signature lists and keys, header, file digests, one entry for each block |
| Go mdlist | `mdzip_go/cmd/mdlist.go` | none | take a container apart by offsets and print it |
| mdencode | `code/mdencode` | none beyond a loop over blocks | print, import and report block signatures |

How the parts meet: in C++ main configures the scan objects, creates a detached
thread on each, spins on `getIsMatched()`, and stops the threads by storing
`stop` in each object and spinning on `stopped`; a thread tells main about a
match or a give-up through the mutex, and hands its bytes over in the `byteblock`
of its object. In Go mdunzip main adds one to a `WaitGroup` for each block, and a
goroutine that matches publishes its bytes in the `FileMutex` and calls `Done`;
in Go mdtest every goroutine sends its outcome over a channel.

What is hard: every field main and a thread share in C++ is read outside the
lock; `setMatched` makes the verdict visible before the thread number; the thread
objects and the mutex are used again for every block; Go's goroutines are asked to
stop but not waited for, and share their hash state with their successors; the
conditions for ending (a count of give-ups, a closed channel, a `WaitGroup`) are
counters that an unexpected number of matches upsets; and the walk of a scan
object is configured in two different ways, which must meet the same block.

In the container: no C++ zipper looks whether a write succeeded before it closes the
file, and no C++ unzipper whether a read did, so that what is missing reads as what
was read before; the width of a field is decided in two or three switches over all
signatures that nothing forces to agree; keys move from block to block on both
sides; the Go unzipper computes offsets into a file it never measured.

## The modules

| module | models |
|---|---|
| `MdMutex` | the fields of `mdMutex` and an action for each critical section; `setMatched` is two, `SetVerdict` and `SetThread`, because main reads between them |
| `Modscan` | the scan objects and the runs of `decode()` on them, extending `MdMutex`. A run is a pair of a block and a thread number, with a program counter; runs of different blocks may share an object |
| `MdTest` | `decodeRandomBlock`, extending `Modscan` with one block |
| `MdUnzip` | the block loop of `mdunzipfile`, extending `Modscan` |
| `ModularWalk` | the integers behind a walk: `calcExponent`, the stored exponent, `setModscan`, `resetThread`, the advance and the ceiling |
| `GoUnzip` | `DecodeFile`, its goroutines, the `FileMutex` and the hash context lists |
| `MdTestHC` | the Go mdtest's channel |
| `MdCommon` | file blocks, remainder bytes, lists of numbers, the movement of a key |
| `HashContextList`, `HashContextListNew` | the two C++ registries: each method as the function of the signature its switch is |
| `ModExpBitstream` | the packed exponents of sip47 |
| `Mdz` | the four C++ zippers and the four C++ unzippers, extending `MdCommon` and `ModExpBitstream`, with an instance of each registry |
| `BlockChannel` | the abstract specification of a container: records in, the same records out; `Mdz` is checked and proved to implement it (`ChannelSpec`) |
| `GoMdz` | the Go mdzip, mdlist and mdunzip; `GoCommandLines` holds the command lines tried |
| `MdTest_proofs`, `MdUnzip_proofs`, `GoUnzip_proofs`, `MdTestHC_proofs`, `ModularWalk_proofs`, `BlockChannel_proofs`, `Mdz_proofs`, `GoMdz_proofs` | theorems about the module of that name; those about the packed exponents of `ModExpBitstream` begin `Mdz_proofs` |
| `MC*` | the instances TLC checks |

`Mdz` and `GoMdz` are about a file, `MdUnzip` and `GoUnzip` about the threads of a
block loop: the first take the scan of a block as one step with the outcomes the
second allow when nothing races, and `ModularWalk` says that the exponent and the
remainder a container holds are enough to find the block, unless it is zeros and the
modulus one (`ZerosAreLost`), the case `Scan` of `Mdz` leaves out (`Passed`).

### State and actions against the code

`Modscan` names a candidate `<<b, k>>`: the block the object was configured for
and the position in its walk, which stands for the number
`blockInt = start + k * M * T` of `ModularWalk`. `Hits` says which candidates have
the signatures of which block, `Ceiling` where the exponent ceiling of each walk
is. The actions of a run are the accesses of `decode()` to shared state, in
program order: the loop test on `stop` (`SeeRunning`, `SeeStop`), the export into
`byteblock` (`Export`), the comparison (`Match`, `Miss`, `MissBelowCeiling`,
`MissAboveCeiling`), `setMatched` (`PublishVerdict`, `PublishThread`),
`incNotFound` (`GiveUp`) and the stores of `stopped` (`StopEarly`, `Leave`).
Interleaving single accesses is what a data race amounts to here because the
Makefile of mdzip_cpp gives no optimisation level: each access is a load or a
store in program order. A build that optimises could, for one, move the loads of
main's spin loops out of the loops; that is not modelled.

The lock is not a variable: the lock is held exactly by a run between the two
halves of `setMatched`, the other critical sections being one step, so the actions
that take it are guarded by `MutexFree`.

`lastThread` is not set by the constructor: `MutexInit` lets it be any thread or
`Garbage`, every index outside the array. Reading the array there gives some bytes
or crashes mdunzip (`WriteBlock`, `BadIndex`).

`GoUnzip` has a scan object and a goroutine for each block and thread number, and
a hash context list for each thread number only. `HashReset` and `HashWrite` are
steps because two goroutines may call them on the same hash: a digest that got two
candidates is the digest of neither.

`MdTestHC` makes a whole `decode()` one step: two goroutines share nothing there
but the channel.

`Mdz` keeps a container as the sequence of its writes, each a width in bytes and a
value. `Init` is main's option parsing and `mdzipfile`'s set-up (`Run`); `WriteHeader`
and `WriteBlock` are the header and one turn of the block loop, and either may be the
one the disk fills up in (`Write`, `cut`), after which the writes go on and nothing
arrives. An unzipper reads with the widths *it* computes (`PrefixWidths`,
`BlockWidths`), from the header as it finds it; a read of another width than the
write gives `rpc = "torn"`, a header too short to hold the names `"garbled"`. A field
that is missing keeps what the variable held, that is, what the block before left
there (`ReadBlock`). A block of the file is an identity with what is calculated of it: its
exponent, its remainder, which other blocks may share, and whether it is zeros. `Scan`
gives what the modulus scan may write for the fields it was given: a block of the same
size with the remainder read that answers to the digests. One with the exponent read is
certain to be met; one with another may be, because the floor is aligned downwards and
the ceiling is hardly ever looked at. If no remainder was ever read, `modulusbytes` is as
it was allocated (`Unset`) and the walk any. Each unzipper's validation, listing and unzipping are actions of
its own, since each program is its own copy. A digest register is the signature, the
key and the data it was computed of and how many bytes were computed; comparing more
bytes than that may go either way (`Compare`).

`GoMdz` keeps the bytes on the disk (`disk`), which may be any number after a full
disk and whole writes after a kill: Go writes unbuffered. Its readers slice the file
they loaded at offsets computed from the header (`BlockEnd`) and panic out of range. A
key is an identity and a length, since what the code does with it depends on nothing
else (`Filled`, `SetHashListKey`).

History variables, which no action reads except to record: `gaveUp` (who called
`incNotFound`), `early` and `lagged` (below), `crowded` (blocks started while a
goroutine of an earlier block was still running), `steps`.

## What is checked

Run a configuration with `tlc -config <cfg> <module>`.

| run | instance | states | shows |
|---|---|---|---|
| `MCMdTestFound` | 3 threads; thread 1 meets the block, thread 0 a collision, thread 2 nothing | 22,188 | `mdtest` reports the block or the collision, from a buffer nobody writes any more, and ends |
| `MCMdTestAbsent` | 2 threads, neither meets the block | 1,434 | the give-ups add up; what can outlive the objects is the repeated store of `stopped` |
| `MCMdUnzip` | 2 threads, 3 blocks: met by both, by none, by one after a miss | 56,365 | the hand-over of objects and mutex from block to block |
| `MCMdUnzipWritten` | 1 block, met by thread 1 | | **violated**: `WrittenBlocksMatch` |
| `MCModularWalk` | 3 threads, moduli 1, 3 and 7, every pair of 6 bit blocks | 317,570 | the walks meet the block, below the ceiling, without overlapping |
| `MCModularWalkFull` | as above with an exponent too narrow by one value | | **violated**: `BlockBelowCeiling` |
| `MCGoUnzip` | 2 goroutines for each of 2 blocks | 135,146 | a block is harmed only by goroutines of an earlier block |
| `MCGoUnzipWritten` | the same | | **violated**: `WrittenBlocksMatch` |
| `MCMdTestHC` | 3 threads, the whole range | 1,482 | the channel protocol ends with the right answer |
| `MCMdTestHCPart` | 3 threads, of which 1 and 2 are launched | | **violated**: `Terminates` |
| `MCMdz` | 131 command lines of the four zippers, of which 129 make a container, cut at every write, read by every program and mode that takes the format | 106,063 | the container comes out as it went in, or as a beginning of it |
| `MCGoMdz` | 54 command lines of mdzip, cut at every byte | 12,215 | mdunzip writes a beginning of the file or panics |

### C++: mdtest

Main stops every thread and waits for `stopped` before it reads `lastThread` and
the buffer, so although it takes no lock it reads settled values:
`NamedThreadMatches`, `MismatchIsCollision`, `BuffersFrozen`. A give-up of the
last thread and a match of another cannot both decide (`VerdictIsFinal`,
`NotFoundMeansAbsent`) because a thread that matches never gives up, so that the
count cannot be complete. The objects are deleted while a thread may be between
its two stores of `stopped` (`modscanFile.h:184` and `195`), and nothing else can
be under way then: `DeleteRacesOnlyTheLastStore`. (That store is still one to
freed memory.)

### C++: mdunzip

mdunzip writes the block *before* it stops the threads. Two races are real:

* Main may read `lastThread` between the two stores of `setMatched`. It then
  writes the buffer of a thread that has not matched, or crashes on an index that
  was never set. `MCMdUnzipWritten` shows it; `early` records it.
* A thread that gives up stores `stopped` twice. Main may see the first, go
  through `resetThread` for the next block, and then the second store marks the
  new run as stopped: main no longer waits for it, and it goes on in the next
  block, where two runs walk one object and skip candidates. `lagged` records the
  configuration of an object an earlier run still had.

The passing run explores both and shows that everything that goes wrong comes
from one of the two: apart from them a verdict is always of the block main is at
(`VerdictIsOfThisBlock`), the bytes written have the block's signatures
(`WrittenIsRight`), what a hand-over can race with is that last store
(`HandOverRacesOnlyTheLastStore`), and mdunzip gets through the file
(`Terminates`). The order of the output survives even a lag (`BlocksInOrder`); a
block that is not found is left out, not padded.

### C++: the arithmetic

`OriginalAhead` is the invariant of the scan: until it is met, the block is ahead
on the walk of one thread. The exception is a block of zeros under `--mod=1`, where
the modulus and the floor are 1 and aligning leaves the floor there (`ZerosPassed`):
every thread starts above the block and walks on to the ceiling, so that mdunzip does
not find it. The model has no step after that, which is why its run checks no deadlock.
Elsewhere it holds for the first block, where `setModscan`
aligns the exponent floor to the modulus, and for the later ones, where
`resetThread` aligns it to the modulus times the thread count. `IterationsBounded`
is the bound the exponent is stored for. `BlockBelowCeiling` holds while the
exponent fits its width, and fails for the all-ones block of 32 bytes, whose
exponent 256 mdzip writes into a `uint8_t`: the threads give up on a walk that
starts below the block.

### Go: mdunzip

Main goes on to the next block without waiting for the goroutines it stopped.
`HarmOnlyByStragglers` shows that this is the only source of trouble for a block
that some goroutine meets: two matches for a block, the separate reads of status
and buffer, and the unlocked reset of `matchFound` do no harm to the block itself.
`MCGoUnzipWritten` shows what a straggler does: it compares with the next block's
signatures, or publishes late, and its buffer is written in place of the next
block. The same model reaches `main = "panic"` (two matches make the counter
negative) and a wait that does not end (a straggler spoils the only match of the
next block), which is why it does not check for deadlock and why
`CompletesUnlessCrowded` is as weak as it is.

### Go: mdtest

Over the whole range of threads, the goroutine that matched sends its result
before its own "Not found", and the count cannot be complete before main has seen
the result (`NotFoundIsTrue`). A send on the closed channel can still panic after
the result was printed, while main is leaving (`PanicOnlyAfterFound`). With
`-start` and `-end`, the count is compared with the number of all threads and main
waits forever (`MCMdTestHCPart`), unless no goroutine is left and the Go runtime takes
notice and aborts.

### C++: the container

`ChannelSpec` is the refinement: whatever the program, the signatures and the keys, a
zipper and an unzipper are a channel for block records that delivers every field that
arrived, and repeats the field of the record before where one did not
(`BlockChannel`). It fails if one of the 47 cases of one switch has another width, or
if the reader's idea of a width (exponents of one or four bytes, the short digests)
differs from the writer's. `UnzipIsExact` says what that amounts to. A whole container
gives the file back, with one exception: with `--mod=1` every thread starts above a block
of zeros, if it is the first or there is one thread, and mdunzip leaves that block out
(`mdUnzip.cpp:729`), so that every later one comes too early. A container cut in the
block table gives the blocks that are there, in order, and then, with nothing said, as
many more as there are to come or fewer: the last block again, or, if the cut fell after
the digests of the next block, that block, when its remainder is the one read last or
when none has ever been read. The exponent need not even be its own. `KeyLockstep`:
zipper and unzipper move a key by the same amounts, also past the ends of the range of
keys, where `incrementByteblock` loses the sign or a byte. `ExponentSurvives` and
`Carried` say which exponents a container can carry: below 256 in one byte, and in the
packed form only those of formats 2 to 6. In format 7, which spreads of 8, 16 and 32
fall into as well, the zipper follows a pointer that was never set, and may crash in
`WriteHeader` (`CrashInStream`).

`ValidationIsExact` is about `--valmdzip`, for which `docs/Usage_cpp.md:67` promises
that it validates the file. Its sum counts the key list of the block signatures
whether or not the file has one, so that mdunzip and mdunzipsip40 reject every whole
file with keyed block signatures written without `--randbh`, and with `png` one
written with it. The property excludes exactly these; elsewhere the file is accepted
if and only if it is complete.

`ValVerdict` is `--val`: what it validates is the input, and what it fails is not,
unless the file's digests are cut off or one is MD6, which over a file is an MD5 of
which four bytes too many are compared (`mdHashContextList.h:1199`).

### Go: the container

`WritesABeginning`: mdunzip writes a beginning of the file and never fails its own
output. The second and later file signatures hash nothing, because they copy from the
handle the first has read to the end, in mdzip and in mdunzip alike, so the verdict is
about the first only. `FailsOnlyWhenCut` lists what makes mdunzip or mdlist panic or
wait forever over a container that is whole:

* blocks above 32 bytes. `SetMdFormat` makes the formatter before the block size is
  known (`mdzip.go:128`, the size is set at `mdZipFile.go:203`), so that
  `mdFormatBinary.go:176` writes one byte of the exponent whatever the size, while
  `mdUnzipFile.go:356` and `mdlist.go:186` read four above 32. The default block size
  is 40, and `docs/mdzip_go.md:77` shows `-block=40`;
* no block size, or an empty file; `-mod=0`, where the remainder is a nil pointer;
* `-val` without file signatures.

### Bounds

`Horizon` bounds a walk: the position stays there. It is beyond every hit and every
ceiling of an instance, so nothing new happens after it. `LineBase` and `LineStep`
are the code's 100000000 and 1000000, scaled down to reach the ceiling check
after a few misses; `LineBound` is above every `LineCount`. Two threads are enough
for each race, three in mdtest let one match, one collide and one give up. Three
blocks give mdunzip each kind of hand-over. Six bits hold every relation of
floor, remainder, modulus and thread count: the walk steps by 3, 9 or 21 below 64, and
the modulus 1 is the one where floor and remainder meet at zero.

In the containers nothing depends on more than the block before, so two or three
blocks are enough; every signature of the registry is tried as block and as file
signature, alone, and in lists where the order matters. `KeySpan` and `Byte` are 2^128
and 256 scaled to 16 and 4, and `RandomKeys` are the two ends of the range, where keys
move past it; only the keys of sip40 and sip48 move. `TextBytes` and the excerpt of
the Go registry (`Registry`: each way a key is treated, and signatures without one)
keep the number of places to cut small. Files are chosen on either side of a block,
block sizes on either side of 32 bytes, exponents at 255 and 256 and in every format.
Four command lines are about remainders: a modulus of one with zeros as the first, a
middle and the last block, blocks with one remainder and the same or different exponents
under a modulus of one and a larger one. One thread or two unzip them.

### Fairness

Weak fairness of main and of each thread or goroutine: the operating system, or
the Go scheduler, runs a runnable one eventually. Waiting on the lock needs no
more, since a run leaves `setMatched` by itself. Nothing is assumed of races.

The two container models have no fairness and no liveness property: each program there
is sequential and reads and writes a bounded number of records. They check no deadlock,
because every program ends, or crashes, or, in Go, waits forever.

### Definitions made to be proved about

The switches of the two registries are `CASE` functions over the signatures, a case
for each width as in the code, because the provers take a `CASE` apart at once, and a
fold never. For the same reason `Names`, `Total` and `SetHashListKey` of `GoMdz` are
recursive functions: a theorem takes a value of theirs from its running prefixes,
which are shown to exist and to be the only ones.

## What is proved

Every safety property of every passing run, for every value of the constants that
satisfies the named assumptions. None of the proofs bounds the number of threads,
blocks, candidates, signatures, keys or bytes.

| module | theorems | what they cover |
|---|---|---|
| `MdTest_proofs` | `Invariance`, `TypeCorrectness`, `NamedThread`, `NotFound`, `Mismatch`, `LastStore`, `Verdict`, `Frozen` | every safety property of the two mdtest runs |
| `MdUnzip_proofs` | `UnzipInvariance`, `UnzipTyping`, `UnzipHandOver`, `UnzipVerdict`, `UnzipWritten`, `UnzipOrder` | every safety property of the mdunzip run |
| `GoUnzip_proofs` | `GoInvariance`, `GoTyping`, `GoHarm` | every safety property of the Go mdunzip run |
| `MdTestHC_proofs` | `HCTyping`, `HCNotFoundIsTrue`, `HCPanicOnlyAfterFound` | every safety property of the Go mdtest run |
| `ModularWalk_proofs` | `WalkInvariance`, `WalkTyping`, `WalkLosesNothing`, `ZerosAreLost`, `WalksShareTheWork`, `WalkOfFittingExponent`, `WalkBelowCeiling`, `WalkIsShort` | every safety property of the run of the arithmetic |
| `BlockChannel_proofs` | `ChannelPromise` | what a channel of records delivers |
| `Mdz_proofs` | `RoundTrip`, `NeverTorn`, `ContainerTyping`, `KeysKeepStep`, `ExponentsSurvive`, `UnzippingIsExact`, `ValidationHolds`, `VerdictIsTrue`, `ContainerIsChannel` | the packed exponents; every safety property of the C++ container and the refinement |
| `GoMdz_proofs` | `GoContainerInvariance`, `GoContainerTyping`, `BeginningIsWritten`, `OnlyCutContainersFail` | every safety property of the Go container |

The assumptions, each of which TLC evaluates on every instance:

* `ThreadCountAssumption`, `ScanAssumption`, `OriginalAssumption`, `GoAssumption`,
  `HCAssumption`: at least one thread and block, hits before the horizon, for mdtest a
  single block.
* `WalkAssumption`: threads, bits and blocks are positive, and so is every modulus size.
* `MdCommonAssumption`, `MdzAssumption`: keys are below the end of their range, and a
  command line has the options its program parses and a file of as many blocks as are
  counted, with exponents within the bits of a block and the remainder zero of a modulus of
  one; equal blocks have equal exponents and remainders, zeros the exponent one and the
  remainder zero.
* `NamesAssumption`: a signature's name has at least three characters. The prover has
  no theory of the length of a string; TLC reads it off the registry.
* `GoMdzAssumption`: the same of the Go command lines, and of the registry that it is a
  list of names and positive digest sizes.

`WalkBelowCeiling` and `WalkIsShort` have a hypothesis of their own, `BlocksFit`: the
bits of a block are below the range of the stored exponent. The code does not ensure
it for blocks of 32 bytes, which is what `MCModularWalkFull` shows;
`WalkOfFittingExponent` says without that hypothesis that the trouble is confined to
the blocks whose exponent was cut.

**mdtest.** `VerdictIsFinal` is not inductive: it needs that the count of
give-ups is the number of threads that gave up (`VerdictInv`), that a thread which
matched has not given up and will not (`RunInv`), and so that FOUND leaves the
count short of the thread count (`Counting`, `FoundWitness`). That the named thread
holds a matching candidate when main reads it needs that a matching run keeps its
buffer until it has ended (`RunInv`, `Named`), and that main is past the loop only
when all have stopped (`MainInv`). `NotFound` needs that a run skips no candidate:
all those it walked past are not hits (`Walked`), up to its ceiling when it gives
up (`Exhausted`). `StoppedRunLeaves` says that a run that stored `stopped` can only
store it again; `BuffersFrozen` and `DeleteRacesOnlyTheLastStore` follow from it.

**mdunzip.** The same over a block loop that never joins its threads. The invariant has
two halves. Until an object is configured under a run that still has it (`lagged`),
every run of an earlier block that is left can only store `stopped` on an object where
it is stored already and which main has not taken up for this block (`OldInv`), so
that an object that is taken up has none but its own run, and everything mdtest's
invariant says holds of this block's runs (`RunInv`, `VerdictInv`). After a lag only
typing and the order of the output are claimed. The bytes written are
right (`UnzipWritten`) because `named` is the thread of a finished `setMatched` unless
main read it early.

**Go mdunzip.** A block is *clean* if no goroutine of an earlier one was running when
main started it. The invariant (`CleanInv`) is that a clean block has the hash lists,
the `WaitGroup` and the `FileMutex` for itself: a list holds the block's signatures, a
digest is of the one candidate its goroutine fed it, so what is published meets the
block; and the counter at zero, which lets main go on, implies that somebody published.
That a clean block finds `isMatched` clear and the counter at zero needs that every
publication since the last reset is by a goroutine with its `Done` still to come
(`AddInv`), and that `Wait` and the panic below zero together bring the counter back to
zero between blocks (`CountInv`).

**Go mdtest.** Until main decides, give-ups counted plus those in the channel are the
goroutines that have ended (`CountInv`, a cardinality argument), and the finder's result
is in the channel before its give-up (`ResultFirst`); a complete count with the finder
ended would have had to read the result first.

**The arithmetic.** The invariant ties the fields of each scan object to the block it is
configured for: remainder and exponent are what mdzip stored of it (`Stored`), the
objects step by the modulus times the thread count (`Configured`), and `blockInt` is
`steps` such strides from the first candidate, a modulus further for each thread
(`OnWalk`); `OriginalAhead` is part of it, since a thread that advances has not met the
block. That the block is ahead of some thread is then a division: block and first
candidate leave the same remainder, so their distance is a multiple of the modulus, and
that multiple divided by the thread count names the thread. No two walks meet because
their starts are apart by a multiple of the modulus less than a stride. The prover knows
powers of two of a literal exponent only; that they double and grow, and that a number
lies below the power after its exponent, is obtained from the subsets of a set, of which
there are as many, and a least-counterexample argument in place of the induction it does
not have.

**Packed exponents.** Each of formats 2 to 6 has room for every distance of the spread it
is chosen for, the base is below every exponent packed, and the last exponent, which
takes no part in the base, is stored whole. The exponents are any below 128, more
than sip47's blocks of ten bytes have.

**The channel.** `ChannelPromise` is about the abstract specification: read to any
record, each field that arrived is the one sent, and one that did not is that of the
last record in which it did. A field that was never sent counts as cut off: the header
of a zipper that was stopped is read on, and the records it did not get to repeat the
last.

**The C++ container.** The two registries are compared first. For every signature the width
the zipper stores, the one the unzipper reads and the one it adds up are the same
number, so that for every list of signatures the widths a reader computes from a header
are those of the writes (the layout of the prefix and of a record). With them the
inductive invariant `CInv`: the run is one a command line makes (`RunOK`); what is
written is the prefix and whole records, with the keys of each record along the trail
of keys from the start key (`Zipped`); what is read is, field by field, what arrived or
what the field before held (`Reads`); the reader's keys are on the same trail
(`Lockstep`). `NeverTorn` and `KeysKeepStep` are read off it; `UnzippingIsExact` needs
in addition where in the output each block is, some being lost (`OutIs`), and that past
the cut every field is of the record that was cut off, if it arrived, or else of the one
before (`FieldIs`): the digests pin down which block can answer, and the remainder
whether the walk can meet it (`ScanWhole`, `ScanPastCut`). The refinement maps each write of a record to a send, each read to a
delivery, the start of each job to a restart, and all else to stutters, and is proved
action by action. The validation compares a size that is a sum over lists of
signatures; running sums, one for each weight a program counts with, show that the
difference from the bytes written is the key list exactly when the file has none, and
that a whole container is never shorter than the least size a command accepts, 48 bytes
or 24.

**The Go container.** `GoInv` says that every write lies where its readers look for it
(`LaidOut`): the header ends at `HeaderEnd`, the file digests at `FileHashEnd`, and a
block takes what mdzip writes for it, which is what the readers add up as long as
blocks have at most 32 bytes. The keys come back: setting the key list that came out of
`SetHashListKey` again changes nothing, whatever the first one did with keys too short,
too long or unknown, so that mdunzip hashes with the keys the block digests were made
with. It also says that the digest of the first file signature was made under the same
key, though from the key list of the command line; that a whole container lacks no byte
a reader slices; and that a block's exponent fits its byte, which with 32 bytes or less
it does. So nothing is left to fail but the four cases.

Only model-checked: liveness (`Terminates`, `EveryBlockMet`, `CompletesUnlessCrowded`
and the like), since fairness and `ENABLED` are beyond the prover.

## What is not modelled

* The hash functions: a comparison is membership of `Hits`.
* Exporting a number to bytes: the zero padding of short exports (`modscanFile.h:162`),
  and the size of the buffer an over-long candidate is exported into, which a walk past
  the last number of a block's size overruns.
* The deletion of the scan objects at the end of mdunzip (`mdUnzip.cpp:769`), against
  which a thread may still store `stopped` as in mdtest.
* The characters of arguments and of displays: an option is its parsed value.
* Digests that collide inside a container, and the contents of blocks beyond an
  identity, exponent, remainder and whether they are zeros. (Collisions in a scan are in `Hits`.)
* A C++ container cut in the middle of a write: a read of a part of a field leaves a
  mixture, which is never more than a digest, an exponent or a remainder wrong.
* An unzipper run on a container of another format: mdunzip reads the sip47 container
  as far as its header, and nothing in the file says which format it has.
* The registry of the Go tools beyond an excerpt, its generators of random keys, and
  the encoding of whole directories.
* Format 7 of the packed exponents beyond the pointer the zipper follows.
* mdencode's formatters, SQL import and reports: sequential printing and parsing.
* Random generation, logging, vendored code, and the older copies of the same programs
  (`testdecode_cpp`, the older Go scan).
* Optimising builds of the C++ tools.

## Plan

1. Done: the scan threads and their users, the arithmetic, mdtest proved.
2. Done: the containers of both languages with their readers, the registries, the
   bitstream, the abstract channel and the refinement; mdunzip, the Go mdunzip, the Go
   mdtest, the packed exponents and the channel proved.
3. Done: the arithmetic of the scan, the C++ container with its refinement to the
   channel and its validation, and the Go container proved.
4. What could follow: an abstract block decoder (a verdict once, from a thread that
   matched or from all that gave up) under `MdTest` and, up to the two races, `MdUnzip`,
   with the refinement proved.
