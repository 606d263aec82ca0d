------------------------------ MODULE MdUnzip ------------------------------
(***************************************************************************)
(* mdunzip: decode the blocks of an mdzip file one after the other, each   *)
(* with a parallel modulus scan (mdunzipfile in mdzip_cpp/mdUnzip.cpp).    *)
(*                                                                         *)
(* The scan objects and the mutex live for the whole file.  For each block *)
(* main configures every object, creates a detached thread on each, spins  *)
(* on the verdict, writes the buffer of the thread the mutex names to the  *)
(* output file, and only then stops the threads.                           *)
(***************************************************************************)
EXTENDS Modscan, Sequences

VARIABLES
  main,      \* where mdunzipfile is
  blk,       \* its block loop
  next,      \* its thread loops
  named,     \* threadMatchNumber
  early,     \* history: named was read before any run had stored lastThread
  lagged,    \* history: an object was configured while an earlier run still had it
  written    \* the output file: where the bytes of each written block come from

outVars == <<named, early, lagged, written>>
mainVars == <<main, blk, next, outVars>>
vars == <<scanVars, mainVars>>

MainLabels == {"configure", "register", "spawn", "await", "branch", "pick", "write",
               "stop", "join", "reset", "done", "crashed"}

Entry == [block : Block, thread : Thread \cup {Garbage},
          candidate : Candidate \cup {FreshBuffer}, raced : BOOLEAN]

-----------------------------------------------------------------------------
ConfigureThread ==
  /\ main = "configure"
  /\ next < ThreadCount
  /\ Configure(next, blk)
  /\ lagged' = (lagged \/ \E b \in 0 .. blk - 1 : Live(b, next))
  /\ main' = "register"
  /\ UNCHANGED <<mutexVars, buf, sig, runVars, blk, next, named, early, written>>

\* Copy the signatures of the block into the thread's hash context list.
CopyRegister ==
  /\ main = "register"
  /\ sig' = [sig EXCEPT ![next] = blk]
  /\ next' = next + 1
  /\ main' = "configure"
  /\ UNCHANGED <<mutexVars, stop, stopped, walk, buf, runVars, blk, outVars>>

AllConfigured ==
  /\ main = "configure"
  /\ next = ThreadCount
  /\ next' = 0
  /\ main' = "spawn"
  /\ UNCHANGED <<scanVars, blk, outVars>>

Spawn ==
  /\ main = "spawn"
  /\ next < ThreadCount
  /\ SpawnRun(blk, next)
  /\ next' = next + 1
  /\ UNCHANGED <<mutexVars, objVars, lineNum, gaveUp, main, blk, outVars>>

AllSpawned ==
  /\ main = "spawn"
  /\ next = ThreadCount
  /\ main' = "await"
  /\ UNCHANGED <<scanVars, blk, next, outVars>>

SeeVerdict ==
  /\ main = "await"
  /\ isMatched # SEARCHING
  /\ main' = "branch"
  /\ UNCHANGED <<scanVars, blk, next, outVars>>

\* The verdict is read a second time; a block not found is left out of the file.
SkipBlock ==
  /\ main = "branch"
  /\ isMatched = NOTFOUND
  /\ next' = 0
  /\ main' = "stop"
  /\ UNCHANGED <<scanVars, blk, outVars>>

BlockFound ==
  /\ main = "branch"
  /\ isMatched # NOTFOUND
  /\ main' = "pick"
  /\ UNCHANGED <<scanVars, blk, next, outVars>>

\* getMatchThread takes no lock.
PickThread ==
  /\ main = "pick"
  /\ named' = lastThread
  /\ early' = (matchCount = 0)
  /\ main' = "write"
  /\ UNCHANGED <<scanVars, blk, next, lagged, written>>

\* An index outside the array reads whatever lies there, or crashes.
WriteBlock ==
  /\ main = "write"
  /\ written' = Append(written,
       [block |-> blk, thread |-> named, raced |-> early \/ lagged,
        candidate |-> IF named \in Thread THEN buf[named] ELSE FreshBuffer])
  /\ next' = 0
  /\ main' = "stop"
  /\ UNCHANGED <<scanVars, blk, named, early, lagged>>

BadIndex ==
  /\ main = "write"
  /\ named \notin Thread
  /\ main' = "crashed"
  /\ UNCHANGED <<scanVars, blk, next, outVars>>

StopThread ==
  /\ main = "stop"
  /\ next < ThreadCount
  /\ stop' = [stop EXCEPT ![next] = TRUE]
  /\ main' = "join"
  /\ UNCHANGED <<mutexVars, stopped, walk, buf, sig, runVars, blk, next, outVars>>

\* Mutant: main does not wait for the thread.
SeeNothing ==
  /\ main = "join"
  /\ next' = next + 1
  /\ main' = "stop"
  /\ UNCHANGED <<scanVars, blk, outVars>>

SeeStopped ==
  /\ main = "join"
  /\ stopped[next]
  /\ next' = next + 1
  /\ main' = "stop"
  /\ UNCHANGED <<scanVars, blk, outVars>>

AllStopped ==
  /\ main = "stop"
  /\ next = ThreadCount
  /\ main' = "reset"
  /\ UNCHANGED <<scanVars, blk, next, outVars>>

NextBlock ==
  /\ main = "reset"
  /\ MutexFree
  /\ ResetMatched
  /\ next' = 0
  /\ IF blk + 1 < BlockCount
     THEN main' = "configure" /\ blk' = blk + 1
     ELSE main' = "done" /\ UNCHANGED blk
  /\ UNCHANGED <<objVars, runVars, outVars>>

Main ==
  \/ ConfigureThread
  \/ CopyRegister
  \/ AllConfigured
  \/ Spawn
  \/ AllSpawned
  \/ SeeVerdict
  \/ SkipBlock
  \/ BlockFound
  \/ PickThread
  \/ WriteBlock
  \/ BadIndex
  \/ StopThread
  \/ SeeStopped
  \/ AllStopped
  \/ NextBlock

\* A crash of the program ends its threads too.
Scan(b, t) == main # "crashed" /\ Decode(b, t) /\ UNCHANGED mainVars

Finished ==
  /\ \/ main = "crashed"
     \/ main = "done" /\ \A b \in Block, t \in Thread : ~Live(b, t)
  /\ UNCHANGED vars

Init ==
  /\ ScanInit
  /\ main = "configure"
  /\ blk = 0
  /\ next = 0
  /\ named = Garbage
  /\ early = FALSE
  /\ lagged = FALSE
  /\ written = <<>>

Next == Main \/ (\E b \in Block, t \in Thread : Scan(b, t)) \/ Finished

Spec == Init /\ [][Next]_vars

\* The operating system runs main and every thread until they block for good.
FairSpec ==
  /\ Spec
  /\ WF_vars(Main)
  /\ \A b \in Block, t \in Thread : WF_vars(Scan(b, t))

-----------------------------------------------------------------------------
TypeOK ==
  /\ ScanTypeOK
  /\ main \in MainLabels
  /\ blk \in Block
  /\ next \in 0 .. ThreadCount
  /\ named \in Thread \cup {Garbage}
  /\ early \in BOOLEAN
  /\ lagged \in BOOLEAN
  /\ written \in Seq(Entry)

\* The written bytes are a candidate that has the signatures of their block.
Right(w) ==
  /\ w.candidate[1] = w.block
  /\ <<w.block, w.thread, w.candidate[2]>> \in Hits

\* What isStoppedThread promises main: when main goes on to another block, all
\* that a run of an earlier block can have left to do to its object is the second
\* of its two stores of stopped.  The exception is what that store itself brings
\* about when it comes after main has configured the object: it marks the new run
\* as stopped, main no longer waits for it, and it runs on into the next block.
HandOverRacesOnlyTheLastStore ==
  ~lagged =>
    \A b \in 0 .. blk - 1, t \in Thread : Live(b, t) => pc[b][t] = "leaving" /\ stopped[t]

\* A verdict is acted on only for the block whose runs gave it: a FOUND comes
\* from a run of this block and a NOTFOUND from all of them, although the mutex
\* is the same for every block and its getters take no lock.
VerdictIsOfThisBlock ==
  ~lagged =>
    /\ isMatched = FOUND =>
         \E t \in Thread : pc[blk][t] \in {"matching", "leaving", "ended"} /\ Passes(t)
    /\ isMatched = NOTFOUND => gaveUp[blk] = Thread

\* However many threads match and however long main takes to stop them, what it
\* writes has the signatures of the block, except when main reads lastThread
\* between the two stores of setMatched or after a late store of stopped.
WrittenIsRight ==
  \A i \in 1 .. Len(written) : written[i].raced \/ Right(written[i])

\* The blocks are written in the order of the file and each at most once; a
\* block left out is one no thread meets below its ceiling.
BlocksInOrder ==
  /\ \A i, j \in 1 .. Len(written) : i < j => written[i].block < written[j].block
  /\ main \in {"configure", "done"} =>
       \A b \in 0 .. (IF main = "done" THEN blk ELSE blk - 1) :
         \/ lagged
         \/ \E i \in 1 .. Len(written) : written[i].block = b
         \/ \A t \in Thread : \A k \in 0 .. Ceiling[b][t] - 1 : <<b, t, k>> \notin Hits

\* Every block of the file is got through, unless a bad index crashes mdunzip or
\* a late store of stopped lets two runs walk one object.
Terminates == <>(main \in {"done", "crashed"} \/ lagged)

\* What the documentation says of a match: the bytes written for a block are
\* bytes that match its signatures.
WrittenBlocksMatch == \A i \in 1 .. Len(written) : Right(written[i])

============================================================================
