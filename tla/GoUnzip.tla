------------------------------ MODULE GoUnzip ------------------------------
(***************************************************************************)
(* The Go mdunzip: DecodeFile (mdzip_go/mdUnzipFile/mdUnzipFile.go), the   *)
(* goroutines it starts (modScanFile.go), the FileMutex they publish in    *)
(* (mdUnzipMutex.go) and the hash context lists they share                 *)
(* (mdHashContextList.go).                                                 *)
(*                                                                         *)
(* For each block main adds one to a WaitGroup, starts a goroutine for     *)
(* each thread number and waits.  A goroutine that matches publishes its   *)
(* buffer and calls Done; one that does not just returns.  Main then       *)
(* writes the published buffer, asks the goroutines to stop and goes on    *)
(* without waiting for them.  The scan object and its buffer are new for   *)
(* each block; the hash context list of a thread number is not, so a       *)
(* goroutine left over from one block feeds the same digests as its        *)
(* successor.                                                              *)
(***************************************************************************)
EXTENDS Integers, Sequences

CONSTANTS
  ThreadCount,   \* number of thread numbers
  BlockCount,    \* number of file blocks
  Horizon,       \* bound: every ceiling is at most this position
  Hits,          \* the <<b, t, k>> whose candidate has the signatures of block b
  Ceiling        \* position of the first candidate of <<b, t>> above 2^(exponent + 1)

Thread == 0 .. ThreadCount - 1
Block == 0 .. BlockCount - 1

ASSUME GoAssumption ==
  /\ ThreadCount \in Nat \ {0}
  /\ BlockCount \in Nat \ {0}
  /\ Horizon \in Nat \ {0}
  /\ Hits \subseteq Block \X Thread \X (0 .. Horizon - 1)
  /\ Ceiling \in [Block -> [Thread -> 1 .. Horizon]]

VARIABLES
  \* DecodeFile
  main, blk, next,
  written,          \* the output file: the buffers written for each block
  crowded,          \* history: the blocks started while an earlier goroutine ran
  \* the WaitGroup and the FileMutex
  counter, isMatched, filebuffer,
  \* the hash context list of each thread number
  hashBlockBytes,   \* the block whose signatures it holds
  digest,           \* the candidates written into the hash since its reset
  \* the scan object and the goroutine of each block and thread number
  stop, matchFound, position, pc

mainVars == <<main, blk, next, written, crowded>>
syncVars == <<counter, isMatched, filebuffer>>
hashVars == <<hashBlockBytes, digest>>
scanVars == <<stop, matchFound, position, pc>>
vars == <<mainVars, syncVars, hashVars, scanVars>>

MainLabels == {"add", "go", "wait", "write", "stop", "matchFound", "mutex", "done", "panic"}
Labels == {"none", "start", "reset", "hash", "compare", "look", "leave", "publish", "finish",
           "ended"}

NoBuffer == <<-1, 0, 0>>
NoBlock == -1

\* A candidate: the goroutine that tries it and its position in the walk.
Candidate == Block \X Thread \X (0 .. Horizon)

-----------------------------------------------------------------------------
(* The goroutines.  A panic, or the end of main, ends them all. *)

Running == main \notin {"done", "panic"}

Goto(b, t, label) == pc' = [pc EXCEPT ![b][t] = label]

At(b, t, label) == Running /\ pc[b][t] = label

\* The first statement of ModulusScanFileBytesOrig clears the stop flag.
Start(b, t) ==
  /\ At(b, t, "start")
  /\ stop' = [stop EXCEPT ![b][t] = FALSE]
  /\ Goto(b, t, "reset")
  /\ UNCHANGED <<mainVars, syncVars, hashVars, matchFound, position>>

\* CheckFileHashBlock: Reset, Write and Sum are calls on a shared hash.
HashReset(b, t) ==
  /\ At(b, t, "reset")
  /\ digest' = [digest EXCEPT ![t] = <<>>]
  /\ Goto(b, t, "hash")
  /\ UNCHANGED <<mainVars, syncVars, hashBlockBytes, stop, matchFound, position>>

\* Any two candidates give a digest of neither: more than two are kept as two.
HashWrite(b, t) ==
  /\ At(b, t, "hash")
  /\ digest' = [digest EXCEPT ![t] =
       IF Len(digest[t]) < 2 THEN Append(digest[t], <<b, t, position[b][t]>>) ELSE digest[t]]
  /\ Goto(b, t, "compare")
  /\ UNCHANGED <<mainVars, syncVars, hashBlockBytes, stop, matchFound, position>>

\* The digest is that of a candidate with the signatures the list holds.
Equal(t) ==
  \E h \in Hits : digest[t] = <<h>> /\ h[1] = hashBlockBytes[t]

Match(b, t) ==
  /\ At(b, t, "compare")
  /\ Equal(t)
  /\ matchFound' = [matchFound EXCEPT ![b][t] = TRUE]
  /\ Goto(b, t, "leave")
  /\ UNCHANGED <<mainVars, syncVars, hashVars, stop, position>>

Miss(b, t) ==
  /\ At(b, t, "compare")
  /\ ~Equal(t)
  /\ position' = [position EXCEPT ![b][t] = position[b][t] + 1]
  /\ Goto(b, t, "look")
  /\ UNCHANGED <<mainVars, syncVars, hashVars, stop, matchFound>>

\* After a miss: the ceiling, then the stop flag.
Look(b, t) ==
  /\ At(b, t, "look")
  /\ Goto(b, t, IF position[b][t] >= Ceiling[b][t] \/ stop[b][t] THEN "leave" ELSE "reset")
  /\ UNCHANGED <<mainVars, syncVars, hashVars, stop, matchFound, position>>

Leave(b, t) ==
  /\ At(b, t, "leave")
  /\ Goto(b, t, IF matchFound[b][t] THEN "publish" ELSE "ended")
  /\ UNCHANGED <<mainVars, syncVars, hashVars, stop, matchFound, position>>

SetFileBuffer(b, t) ==
  /\ At(b, t, "publish")
  /\ filebuffer' = <<b, t, position[b][t]>>
  /\ isMatched' = TRUE
  /\ Goto(b, t, "finish")
  /\ UNCHANGED <<mainVars, counter, hashVars, stop, matchFound, position>>

\* WaitGroup.Done panics when the counter becomes negative.
Done(b, t) ==
  /\ At(b, t, "finish")
  /\ counter' = counter - 1
  /\ main' = IF counter' < 0 THEN "panic" ELSE main
  /\ Goto(b, t, "ended")
  /\ UNCHANGED <<blk, next, written, crowded, isMatched, filebuffer, hashVars, stop, matchFound, position>>

Scan(b, t) ==
  \/ Start(b, t)
  \/ HashReset(b, t)
  \/ HashWrite(b, t)
  \/ Match(b, t)
  \/ Miss(b, t)
  \/ Look(b, t)
  \/ Leave(b, t)
  \/ SetFileBuffer(b, t)
  \/ Done(b, t)

-----------------------------------------------------------------------------
(* DecodeFile. *)

\* Mutant: one for each goroutine is added.
AddForEach ==
  /\ main = "add"
  /\ counter' = counter + ThreadCount
  /\ next' = 0
  /\ main' = "go"
  /\ UNCHANGED <<blk, written, crowded, isMatched, filebuffer, hashVars, scanVars>>

\* Mutant: nothing is added, so that nothing is waited for.
AddNothing ==
  /\ main = "add"
  /\ next' = 0
  /\ main' = "go"
  /\ UNCHANGED <<blk, written, crowded, counter, isMatched, filebuffer, hashVars, scanVars>>

Add ==
  /\ main = "add"
  /\ counter' = counter + 1
  /\ next' = 0
  /\ crowded' = IF \E b \in 0 .. blk - 1, t \in Thread : pc[b][t] # "ended"
                THEN crowded \cup {blk}
                ELSE crowded
  /\ main' = "go"
  /\ UNCHANGED <<blk, written, isMatched, filebuffer, hashVars, scanVars>>

\* Mutant: the list keeps the signatures of the block before.
GoWithoutBlockHash ==
  /\ main = "go"
  /\ next < ThreadCount
  /\ pc' = [pc EXCEPT ![blk][next] = "start"]
  /\ next' = next + 1
  /\ UNCHANGED <<main, blk, written, crowded, syncVars, hashVars, stop, matchFound, position>>

\* SetBlockHash on the shared list, and the go statement.
Go ==
  /\ main = "go"
  /\ next < ThreadCount
  /\ hashBlockBytes' = [hashBlockBytes EXCEPT ![next] = blk]
  /\ pc' = [pc EXCEPT ![blk][next] = "start"]
  /\ next' = next + 1
  /\ UNCHANGED <<main, blk, written, crowded, syncVars, digest, stop, matchFound, position>>

AllStarted ==
  /\ main = "go"
  /\ next = ThreadCount
  /\ main' = "wait"
  /\ UNCHANGED <<blk, next, written, crowded, syncVars, hashVars, scanVars>>

\* Wait returns, and the match status is read without the lock.
Wait ==
  /\ main = "wait"
  /\ counter = 0
  /\ next' = 0
  /\ main' = IF isMatched THEN "write" ELSE "stop"
  /\ UNCHANGED <<blk, written, crowded, syncVars, hashVars, scanVars>>

WriteFile ==
  /\ main = "write"
  /\ written' = Append(written, [block |-> blk, buffer |-> filebuffer])
  /\ main' = "stop"
  /\ UNCHANGED <<blk, next, crowded, syncVars, hashVars, scanVars>>

StopScan ==
  /\ main = "stop"
  /\ next < ThreadCount
  /\ stop' = [stop EXCEPT ![blk][next] = TRUE]
  /\ main' = "matchFound"
  /\ UNCHANGED <<blk, next, written, crowded, syncVars, hashVars, matchFound, position, pc>>

ResetMatchFound ==
  /\ main = "matchFound"
  /\ matchFound' = [matchFound EXCEPT ![blk][next] = FALSE]
  /\ next' = next + 1
  /\ main' = "stop"
  /\ UNCHANGED <<blk, written, crowded, syncVars, hashVars, stop, position, pc>>

AllStopped ==
  /\ main = "stop"
  /\ next = ThreadCount
  /\ main' = "mutex"
  /\ UNCHANGED <<blk, next, written, crowded, syncVars, hashVars, scanVars>>

ResetMutex ==
  /\ main = "mutex"
  /\ isMatched' = FALSE
  /\ filebuffer' = NoBuffer
  /\ IF blk + 1 < BlockCount
     THEN main' = "add" /\ blk' = blk + 1
     ELSE main' = "done" /\ UNCHANGED blk
  /\ UNCHANGED <<next, written, crowded, counter, hashVars, scanVars>>

Main ==
  \/ Add
  \/ Go
  \/ AllStarted
  \/ Wait
  \/ WriteFile
  \/ StopScan
  \/ ResetMatchFound
  \/ AllStopped
  \/ ResetMutex

Finished == ~Running /\ UNCHANGED vars

Init ==
  /\ main = "add"
  /\ blk = 0
  /\ next = 0
  /\ written = <<>>
  /\ crowded = {}
  /\ counter = 0
  /\ isMatched = FALSE
  /\ filebuffer = NoBuffer
  /\ hashBlockBytes = [t \in Thread |-> NoBlock]
  /\ digest = [t \in Thread |-> <<>>]
  /\ stop = [b \in Block |-> [t \in Thread |-> FALSE]]
  /\ matchFound = [b \in Block |-> [t \in Thread |-> FALSE]]
  /\ position = [b \in Block |-> [t \in Thread |-> 0]]
  /\ pc = [b \in Block |-> [t \in Thread |-> "none"]]

Next == Main \/ (\E b \in Block, t \in Thread : Scan(b, t)) \/ Finished

Spec == Init /\ [][Next]_vars

\* The Go scheduler runs every runnable goroutine eventually.
FairSpec ==
  /\ Spec
  /\ WF_vars(Main)
  /\ \A b \in Block, t \in Thread : WF_vars(Scan(b, t))

-----------------------------------------------------------------------------
TypeOK ==
  /\ main \in MainLabels
  /\ blk \in Block
  /\ next \in 0 .. ThreadCount
  /\ written \in Seq([block : Block, buffer : Candidate \cup {NoBuffer}])
  /\ crowded \subseteq Block
  /\ counter \in -1 .. 1
  /\ isMatched \in BOOLEAN
  /\ filebuffer \in Candidate \cup {NoBuffer}
  /\ hashBlockBytes \in [Thread -> Block \cup {NoBlock}]
  /\ digest \in [Thread -> Seq(Candidate)]
  /\ stop \in [Block -> [Thread -> BOOLEAN]]
  /\ matchFound \in [Block -> [Thread -> BOOLEAN]]
  /\ position \in [Block -> [Thread -> 0 .. Horizon]]
  /\ pc \in [Block -> [Thread -> Labels]]

Right(w) == w.buffer \in Hits /\ w.buffer[1] = w.block

\* A block that main has gone past.
Passed(b) == b < blk \/ main = "done"

\* A block is lost, or the bytes written for it are wrong, only if a goroutine
\* of an earlier block was still running when main started it: two goroutines
\* of the block itself that match, before or after main reads the status and
\* the buffer, do no harm to it.
HarmOnlyByStragglers ==
  \A b \in Block :
    Passed(b) => b \in crowded \/ \E i \in 1 .. Len(written) :
                                     written[i].block = b /\ Right(written[i])

\* Main gets through a file whose every block some goroutine meets, or a second
\* match of a block takes the WaitGroup below zero, as long as no goroutine of an
\* earlier block is still running when main starts one.
CompletesUnlessCrowded == <>(main \in {"done", "panic"} \/ crowded # {})

\* What the documentation says of a match: the bytes written for a block are
\* bytes that match its signatures.
WrittenBlocksMatch == \A i \in 1 .. Len(written) : Right(written[i])

============================================================================
