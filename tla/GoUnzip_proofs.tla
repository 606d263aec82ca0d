---------------------------- MODULE GoUnzip_proofs ----------------------------
(***************************************************************************)
(* Proofs about the Go mdunzip for every number of goroutines and blocks,  *)
(* every set of matching candidates and every ceiling: a block is written  *)
(* with bytes that match it unless a goroutine of an earlier block was     *)
(* still running when main started it.                                     *)
(***************************************************************************)
EXTENDS GoUnzip, TLAPS, SequenceTheorems

\* Wait lets main go on at zero, and Done below zero ends the program: no block leaves
\* anything in the WaitGroup for the next.
CountInv ==
  /\ main \in {"go", "wait"} => counter \in {0, 1}
  /\ main \notin {"go", "wait", "panic"} => counter = 0
  /\ main = "matchFound" => next < ThreadCount
  /\ main = "done" => blk = BlockCount - 1

\* A goroutine tries the candidates below its ceiling, and the one it stops at last.
WalkInv ==
  \A b \in Block, t \in Thread :
    /\ pc[b][t] \in {"none", "start", "reset", "hash", "compare"} => position[b][t] < Ceiling[b][t]
    /\ pc[b][t] = "none" => ~matchFound[b][t]

\* The goroutines main has not started yet.
Unstarted(b, t) == b > blk \/ (b = blk /\ (main = "add" \/ (main = "go" /\ t >= next)))
FutureInv == \A b \in Block, t \in Thread : Unstarted(b, t) => pc[b][t] = "none"

\* No block has been matched before it is started, but by a goroutine of an earlier one.
AddInv == main = "add" /\ isMatched => \E b \in 0 .. blk - 1, t \in Thread : pc[b][t] = "finish"

\* A goroutine of this block that matches has met the block.
Meets(t) == <<blk, t, position[blk][t]>> \in Hits

HashInv(t) ==
  /\ pc[blk][t] # "none" => hashBlockBytes[t] = blk
  /\ pc[blk][t] = "hash" => digest[t] = <<>>
  /\ pc[blk][t] = "compare" => digest[t] = << <<blk, t, position[blk][t]>> >>
  /\ pc[blk][t] \in {"none", "start", "reset", "hash", "compare", "look"} => ~matchFound[blk][t]
  /\ pc[blk][t] = "leave" /\ matchFound[blk][t] => Meets(t)
  /\ pc[blk][t] \in {"publish", "finish"} => Meets(t)

\* A block started with no goroutine of an earlier one running has the hash lists, the
\* WaitGroup and the FileMutex for itself.
Clean == main \in {"go", "wait", "write"} /\ blk \notin crowded
CleanInv ==
  Clean =>
    /\ \A b \in 0 .. blk - 1, t \in Thread : pc[b][t] = "ended"
    /\ \A t \in Thread : HashInv(t)
    /\ (\E t \in Thread : pc[blk][t] = "finish") \/ counter = 0 => isMatched
    /\ isMatched => filebuffer \in Hits /\ filebuffer[1] = blk
    /\ main = "write" => isMatched

\* The blocks main has dealt with.
Settled(b) == b < blk \/ (b = blk /\ main \in {"stop", "matchFound", "mutex", "done"})
WrittenInv ==
  \A b \in Block :
    Settled(b) => b \in crowded \/ \E i \in 1 .. Len(written) : written[i].block = b /\ Right(written[i])

IInv == TypeOK /\ CountInv /\ WalkInv /\ FutureInv /\ AddInv /\ CleanInv /\ WrittenInv

-----------------------------------------------------------------------------
LEMMA Sizes ==
  /\ ThreadCount \in Nat \ {0} /\ BlockCount \in Nat \ {0} /\ Horizon \in Nat \ {0}
  /\ 0 \in Block /\ Block \subseteq Nat /\ Thread \subseteq Nat
  /\ \A b \in Block, t \in Thread : Ceiling[b][t] \in 1 .. Horizon
BY GoAssumption DEF Block, Thread

\* The goroutines keep every variable in its type.
LEMMA ScanTyping ==
  ASSUME TypeOK, CountInv, WalkInv, NEW b \in Block, NEW t \in Thread, Scan(b, t)
  PROVE  TypeOK'
<1> USE Sizes DEF TypeOK, mainVars, syncVars, hashVars, At, Goto, Running
<1>p. position[b][t] \in 0 .. Horizon /\ <<b, t, position[b][t]>> \in Candidate
  <2>1. position \in [Block -> [Thread -> 0 .. Horizon]]
    OBVIOUS
  <2> HIDE Sizes DEF TypeOK
  <2>2. position[b][t] \in 0 .. Horizon
    BY <2>1
  <2> QED
    BY <2>2 DEF Candidate
<1>1. CASE Start(b, t)
  BY <1>1 DEF Start, Labels
<1>2. CASE HashReset(b, t)
  <2>0. <<>> \in Seq(Candidate)
    BY EmptySeq
  <2>1. digest' \in [Thread -> Seq(Candidate)]
    BY <1>2, <2>0 DEF HashReset
  <2>2. pc' \in [Block -> [Thread -> Labels]]
    BY <1>2 DEF HashReset, Labels
  <2> QED
    BY <1>2, <2>1, <2>2 DEF HashReset
<1>3. CASE HashWrite(b, t)
  <2>1. Append(digest[t], <<b, t, position[b][t]>>) \in Seq(Candidate)
    BY <1>p, AppendProperties
  <2>2. digest' \in [Thread -> Seq(Candidate)]
    BY <1>3, <2>1 DEF HashWrite
  <2> QED
    BY <1>3, <2>2 DEF HashWrite, Labels
<1>4. CASE Match(b, t)
  BY <1>4 DEF Match, Labels
<1>5. CASE Miss(b, t)
  <2>1. position[b][t] < Ceiling[b][t]
    BY <1>5 DEF Miss, WalkInv
  <2>2. position[b][t] + 1 \in 0 .. Horizon
    <3>1. Ceiling[b][t] \in 1 .. Horizon /\ Horizon \in Nat
      OBVIOUS
    <3> HIDE Sizes DEF TypeOK
    <3> QED
      BY <1>p, <2>1, <3>1
  <2>3. position' \in [Block -> [Thread -> 0 .. Horizon]]
    BY <1>5, <2>2 DEF Miss
  <2> QED
    BY <1>5, <2>3 DEF Miss, Labels
<1>6. CASE Look(b, t) \/ Leave(b, t)
  <2>0. PICK label \in Labels : pc' = [pc EXCEPT ![b][t] = label]
    BY <1>6 DEF Look, Leave, Labels
  <2>1. pc' \in [Block -> [Thread -> Labels]]
    BY <2>0
  <2> QED
    BY <1>6, <2>1 DEF Look, Leave
<1>7. CASE SetFileBuffer(b, t)
  <2>1. filebuffer' \in Candidate \cup {NoBuffer} /\ isMatched' \in BOOLEAN /\ pc' \in [Block -> [Thread -> Labels]]
    BY <1>p, <1>7 DEF SetFileBuffer, Labels
  <2> QED
    BY <1>7, <2>1 DEF SetFileBuffer
<1>8. CASE Done(b, t)
  <2>1. counter \in {0, 1}
    BY <1>8 DEF Done, CountInv
  <2>2. counter' \in -1 .. 1 /\ main' \in MainLabels
    BY <1>8, <2>1 DEF Done, MainLabels
  <2>3. pc' \in [Block -> [Thread -> Labels]]
    BY <1>8 DEF Done, Labels
  <2> QED
    BY <1>8, <2>2, <2>3 DEF Done
<1> QED
  BY <1>1, <1>2, <1>3, <1>4, <1>5, <1>6, <1>7, <1>8 DEF Scan

\* Main keeps every variable in its type.
LEMMA MainTyping ==
  ASSUME TypeOK, CountInv, Main
  PROVE  TypeOK'
<1> USE Sizes DEF TypeOK, syncVars, hashVars, scanVars, MainLabels
<1>1. CASE Add
  <2>1. counter' \in -1 .. 1
    BY <1>1 DEF Add, CountInv
  <2>2. crowded' \subseteq Block
    BY <1>1 DEF Add
  <2> QED
    BY <1>1, <2>1, <2>2 DEF Add
<1>2. CASE Go
  <2>1. next \in Thread /\ next + 1 \in 0 .. ThreadCount
    BY <1>2 DEF Go, Thread
  <2>2. hashBlockBytes' \in [Thread -> Block \cup {NoBlock}] /\ pc' \in [Block -> [Thread -> Labels]]
    BY <1>2, <2>1 DEF Go, Labels
  <2> QED
    BY <1>2, <2>1, <2>2 DEF Go
<1>3. CASE AllStarted \/ Wait \/ AllStopped
  <2>1. UNCHANGED <<blk, written, crowded, syncVars, hashVars, scanVars>> /\ next' \in 0 .. ThreadCount
    BY <1>3 DEF AllStarted, Wait, AllStopped
  <2>2. main' \in MainLabels
    BY <1>3 DEF AllStarted, Wait, AllStopped
  <2> QED
    BY <2>1, <2>2
<1>4. CASE WriteFile
  <2>1. [block |-> blk, buffer |-> filebuffer] \in [block : Block, buffer : Candidate \cup {NoBuffer}]
    OBVIOUS
  <2>2. written' \in Seq([block : Block, buffer : Candidate \cup {NoBuffer}])
    BY <1>4, <2>1, AppendProperties DEF WriteFile
  <2> QED
    BY <1>4, <2>2 DEF WriteFile
<1>5. CASE StopScan
  <2>1. stop' \in [Block -> [Thread -> BOOLEAN]]
    BY <1>5 DEF StopScan
  <2> QED
    BY <1>5, <2>1 DEF StopScan
<1>6. CASE ResetMatchFound
  <2>1. next + 1 \in 0 .. ThreadCount
    BY <1>6 DEF ResetMatchFound, CountInv
  <2>2. matchFound' \in [Block -> [Thread -> BOOLEAN]]
    BY <1>6 DEF ResetMatchFound
  <2> QED
    BY <1>6, <2>1, <2>2 DEF ResetMatchFound
<1>7. CASE ResetMutex
  <2>1. blk' \in Block
    BY <1>7 DEF ResetMutex, Block
  <2>2. main' \in MainLabels /\ isMatched' \in BOOLEAN /\ filebuffer' \in Candidate \cup {NoBuffer}
    BY <1>7 DEF ResetMutex
  <2> QED
    BY <1>7, <2>1, <2>2 DEF ResetMutex
<1> QED
  BY <1>1, <1>2, <1>3, <1>4, <1>5, <1>6, <1>7 DEF Main

-----------------------------------------------------------------------------
\* A step of a goroutine moves that goroutine alone.
LEMMA ScanFrame ==
  ASSUME TypeOK, NEW b \in Block, NEW t \in Thread, Scan(b, t)
  PROVE  /\ Running /\ UNCHANGED <<blk, next, written, crowded, hashBlockBytes>>
         /\ pc[b][t] \notin {"none", "ended"} /\ pc'[b][t] # "none"
         /\ \A c \in Block, u \in Thread : c # b \/ u # t =>
              pc'[c][u] = pc[c][u] /\ position'[c][u] = position[c][u] /\ (matchFound'[c][u] <=> matchFound[c][u])
         /\ \A u \in Thread \ {t} : digest'[u] = digest[u]
<1> USE DEF TypeOK, mainVars, syncVars, hashVars, At, Goto, Labels
<1>1. CASE Start(b, t)
  BY <1>1 DEF Start
<1>2. CASE HashReset(b, t)
  BY <1>2 DEF HashReset
<1>3. CASE HashWrite(b, t)
  BY <1>3 DEF HashWrite
<1>4. CASE Match(b, t)
  BY <1>4 DEF Match
<1>5. CASE Miss(b, t)
  BY <1>5 DEF Miss
<1>6. CASE Look(b, t) \/ Leave(b, t)
  BY <1>6 DEF Look, Leave
<1>7. CASE SetFileBuffer(b, t)
  BY <1>7 DEF SetFileBuffer
<1>8. CASE Done(b, t)
  BY <1>8 DEF Done
<1> QED
  BY <1>1, <1>2, <1>3, <1>4, <1>5, <1>6, <1>7, <1>8 DEF Scan

\* Every step of a goroutine but its Done leaves main and the WaitGroup alone.
LEMMA ScanMain ==
  ASSUME NEW b \in Block, NEW t \in Thread, Scan(b, t), ~Done(b, t)
  PROVE  main' = main /\ counter' = counter
BY DEF Scan, Start, HashReset, HashWrite, Match, Miss, Look, Leave, SetFileBuffer, mainVars, syncVars

LEMMA ScanCount ==
  ASSUME TypeOK, CountInv, NEW b \in Block, NEW t \in Thread, Scan(b, t)
  PROVE  CountInv'
<1>1. UNCHANGED <<blk, next>> /\ Running
  BY ScanFrame
<1>2. CASE Done(b, t)
  <2>1. counter \in {0, 1} /\ counter' = counter - 1 /\ main' = IF counter' < 0 THEN "panic" ELSE main
    BY <1>2 DEF Done, CountInv, At, Running
  <2> QED
    BY <1>1, <2>1 DEF CountInv
<1>3. CASE ~Done(b, t)
  BY <1>1, <1>3, ScanMain DEF CountInv
<1> QED
  BY <1>2, <1>3

LEMMA ScanWalk ==
  ASSUME TypeOK, WalkInv, NEW b \in Block, NEW t \in Thread, Scan(b, t)
  PROVE  WalkInv'
<1>1. ASSUME NEW c \in Block, NEW u \in Thread, c # b \/ u # t
      PROVE  /\ pc'[c][u] \in {"none", "start", "reset", "hash", "compare"} => position'[c][u] < Ceiling[c][u]
             /\ pc'[c][u] = "none" => ~matchFound'[c][u]
  BY <1>1, ScanFrame DEF WalkInv
<1>2. pc'[b][t] # "none"
  BY ScanFrame
<1>3. pc'[b][t] \in {"start", "reset", "hash", "compare"} => position'[b][t] < Ceiling[b][t]
  <2> USE Sizes DEF TypeOK, hashVars, At, Goto, WalkInv
  <2>1. CASE Start(b, t)
    BY <2>1 DEF Start
  <2>2. CASE HashReset(b, t) \/ HashWrite(b, t)
    BY <2>2 DEF HashReset, HashWrite
  <2>3. CASE Match(b, t) \/ Miss(b, t)
    BY <2>3 DEF Match, Miss
  <2>4. CASE Look(b, t)
    <3>1. pc'[b][t] = (IF position[b][t] >= Ceiling[b][t] \/ stop[b][t] THEN "leave" ELSE "reset")
          /\ position' = position
      BY <2>4 DEF Look
    <3>2. position[b][t] \in Int /\ Ceiling[b][t] \in Int
      OBVIOUS
    <3> QED
      BY <3>1, <3>2
  <2>5. CASE Leave(b, t) \/ SetFileBuffer(b, t) \/ Done(b, t)
    <3>1. PICK label \in {"publish", "finish", "ended"} : pc' = [pc EXCEPT ![b][t] = label]
      BY <2>5 DEF Leave, SetFileBuffer, Done
    <3>2. pc'[b][t] = label
      BY <3>1
    <3> QED
      BY <3>2
  <2> QED
    BY <2>1, <2>2, <2>3, <2>4, <2>5 DEF Scan
<1> QED
  BY <1>1, <1>2, <1>3 DEF WalkInv

LEMMA ScanFuture ==
  ASSUME TypeOK, FutureInv, NEW b \in Block, NEW t \in Thread, Scan(b, t)
  PROVE  FutureInv'
<1>1. UNCHANGED <<blk, next>> /\ (main' = "panic" \/ main' = main)
  BY ScanFrame, ScanMain DEF Done
<1>2. ASSUME NEW c \in Block, NEW u \in Thread, Unstarted(c, u)'
      PROVE  pc'[c][u] = "none"
  <2>1. pc[c][u] = "none"
    BY <1>1, <1>2 DEF FutureInv, Unstarted
  <2>2. c # b \/ u # t
    BY <2>1, ScanFrame
  <2> QED
    BY <2>1, <2>2, ScanFrame
<1> QED
  BY <1>2 DEF FutureInv

LEMMA ScanWritten ==
  ASSUME TypeOK, WrittenInv, NEW b \in Block, NEW t \in Thread, Scan(b, t)
  PROVE  WrittenInv'
<1>1. UNCHANGED <<blk, written, crowded>> /\ (main' = "panic" \/ main' = main)
  BY ScanFrame, ScanMain DEF Done
<1> QED
  BY <1>1 DEF WrittenInv, Settled, Right

\* A match published after the FileMutex was reset is one whose Done is still to come.
LEMMA ScanAdd ==
  ASSUME TypeOK, CountInv, FutureInv, AddInv, NEW b \in Block, NEW t \in Thread, Scan(b, t)
  PROVE  AddInv'
<1> SUFFICES ASSUME main' = "add", isMatched'
             PROVE  \E c \in 0 .. blk' - 1, u \in Thread : pc'[c][u] = "finish"
  BY DEF AddInv
<1>1. main = "add" /\ UNCHANGED blk /\ blk \in Nat /\ b \in Nat
  BY ScanFrame, ScanMain, Sizes DEF Done, TypeOK
<1>2. b \in 0 .. blk - 1
  <2>1. pc[b][t] # "none"
    BY ScanFrame
  <2> QED
    BY <1>1, <2>1 DEF FutureInv, Unstarted
<1>3. ~Done(b, t)
  <2>1. counter = 0
    BY <1>1 DEF CountInv
  <2>2. SUFFICES ASSUME Done(b, t) PROVE FALSE
    OBVIOUS
  <2>3. counter' = counter - 1 /\ main' = IF counter' < 0 THEN "panic" ELSE main
    BY <2>2 DEF Done
  <2>4. main' = "add"
    OBVIOUS
  <2> QED
    BY <2>1, <2>3, <2>4
<1>4. CASE SetFileBuffer(b, t)
  <2>1. pc'[b][t] = "finish"
    BY <1>4 DEF SetFileBuffer, Goto, TypeOK
  <2> QED
    BY <1>1, <1>2, <2>1
<1>5. CASE ~SetFileBuffer(b, t)
  <2>1. isMatched' = isMatched /\ pc[b][t] # "finish"
    BY <1>3, <1>5 DEF Scan, Start, HashReset, HashWrite, Match, Miss, Look, Leave, syncVars, At
  <2>2. PICK c \in 0 .. blk - 1, u \in Thread : pc[c][u] = "finish"
    BY <1>1, <2>1 DEF AddInv
  <2>3. c \in Block /\ (c # b \/ u # t)
    <3>1. blk \in Block
      BY DEF TypeOK
    <3>2. c \in Block
      BY <3>1, Sizes DEF Block
    <3> QED
      BY <2>1, <2>2, <3>2
  <2> QED
    BY <1>1, <2>2, <2>3, ScanFrame
<1> QED
  BY <1>4, <1>5

-----------------------------------------------------------------------------
\* A hash fed the one candidate is equal to the list's digests only if the candidate has them.
LEMMA EqualMeets ==
  ASSUME NEW t \in Thread, digest[t] = << <<blk, t, position[blk][t]>> >>, Equal(t)
  PROVE  Meets(t)
<1>1. PICK h \in Hits : digest[t] = <<h>>
  BY DEF Equal
<1>2. digest[t][1] = h /\ digest[t][1] = <<blk, t, position[blk][t]>>
  BY <1>1
<1> QED
  BY <1>1, <1>2 DEF Meets

\* A goroutine of a block that has the hash lists for itself.
LEMMA OwnHash ==
  ASSUME TypeOK, NEW t \in Thread, Scan(blk, t), HashInv(t)
  PROVE  HashInv(t)'
<1> USE DEF TypeOK, At, Goto, hashVars, mainVars, syncVars, HashInv
<1>0. blk \in Block /\ blk' = blk /\ hashBlockBytes' = hashBlockBytes
  BY ScanFrame
<1>1. CASE Start(blk, t)
  <2>1. pc[blk][t] = "start" /\ pc'[blk][t] = "reset" /\ UNCHANGED <<digest, matchFound, position>>
    BY <1>0, <1>1 DEF Start
  <2> QED
    BY <1>0, <2>1
<1>2. CASE HashReset(blk, t)
  <2>1. /\ pc[blk][t] = "reset" /\ pc'[blk][t] = "hash" /\ digest'[t] = <<>>
        /\ UNCHANGED <<matchFound, position>>
    BY <1>0, <1>2 DEF HashReset
  <2> QED
    BY <1>0, <2>1
<1>3. CASE HashWrite(blk, t)
  <2>1. /\ pc[blk][t] = "hash" /\ pc'[blk][t] = "compare"
        /\ digest'[t] = (IF Len(digest[t]) < 2 THEN Append(digest[t], <<blk, t, position[blk][t]>>) ELSE digest[t])
        /\ UNCHANGED <<matchFound, position>>
    BY <1>0, <1>3 DEF HashWrite
  <2>2. digest[t] = <<>>
    BY <2>1
  <2>3. digest'[t] = << <<blk, t, position[blk][t]>> >>
    BY <2>1, <2>2
  <2> QED
    BY <1>0, <2>1, <2>3
<1>4. CASE Match(blk, t)
  <2>1. /\ pc[blk][t] = "compare" /\ pc'[blk][t] = "leave" /\ Equal(t) /\ UNCHANGED <<digest, position>>
    BY <1>0, <1>4 DEF Match
  <2>2. Meets(t)
    BY <2>1, EqualMeets
  <2> QED
    BY <1>0, <2>1, <2>2 DEF Meets
<1>5. CASE Miss(blk, t)
  <2>1. pc[blk][t] = "compare" /\ pc'[blk][t] = "look" /\ UNCHANGED <<digest, matchFound>>
    BY <1>0, <1>5 DEF Miss
  <2> QED
    BY <1>0, <2>1
<1>6. CASE Look(blk, t)
  <2>1. pc[blk][t] = "look" /\ pc'[blk][t] \in {"leave", "reset"} /\ UNCHANGED <<digest, matchFound>>
    BY <1>0, <1>6 DEF Look
  <2> QED
    BY <1>0, <2>1
<1>7. CASE Leave(blk, t)
  <2>1. /\ pc[blk][t] = "leave" /\ pc'[blk][t] = (IF matchFound[blk][t] THEN "publish" ELSE "ended")
        /\ UNCHANGED <<digest, matchFound, position>>
    BY <1>0, <1>7 DEF Leave
  <2> QED
    BY <1>0, <2>1 DEF Meets
<1>8. CASE SetFileBuffer(blk, t) \/ Done(blk, t)
  <2>1. /\ pc[blk][t] \in {"publish", "finish"} /\ pc'[blk][t] \in {"finish", "ended"}
        /\ UNCHANGED <<digest, matchFound, position>>
    BY <1>0, <1>8 DEF SetFileBuffer, Done
  <2> QED
    BY <1>0, <2>1 DEF Meets
<1> QED
  BY <1>1, <1>2, <1>3, <1>4, <1>5, <1>6, <1>7, <1>8 DEF Scan

\* A block that main started with no other goroutine running stays clean.
LEMMA ScanClean ==
  ASSUME TypeOK, CountInv, FutureInv, CleanInv, NEW b \in Block, NEW t \in Thread, Scan(b, t)
  PROVE  CleanInv'
<1> SUFFICES ASSUME Clean'
             PROVE  /\ \A c \in 0 .. blk' - 1, u \in Thread : pc'[c][u] = "ended"
                    /\ \A u \in Thread : HashInv(u)'
                    /\ (\E u \in Thread : pc'[blk'][u] = "finish") \/ counter' = 0 => isMatched'
                    /\ isMatched' => filebuffer' \in Hits /\ filebuffer'[1] = blk'
                    /\ main' = "write" => isMatched'
  BY DEF CleanInv
<1>0. UNCHANGED <<blk, next, crowded, hashBlockBytes>> /\ blk \in Block /\ pc[b][t] \notin {"none", "ended"}
  BY ScanFrame DEF TypeOK
<1>1. main' = main /\ Clean
  BY <1>0, ScanMain DEF Done, Clean
<1>2. /\ \A c \in 0 .. blk - 1, u \in Thread : pc[c][u] = "ended"
      /\ \A u \in Thread : HashInv(u)
  BY <1>1 DEF CleanInv
<1>3. b = blk
  <2>1. b \in Nat /\ blk \in Nat /\ (b < blk => b \in 0 .. blk - 1) /\ ~(b > blk)
    BY <1>0, Sizes DEF FutureInv, Unstarted
  <2> QED
    BY <1>0, <1>2, <2>1
<1>4. ASSUME NEW c \in 0 .. blk - 1, NEW u \in Thread
      PROVE  pc'[c][u] = "ended"
  <2>1. c \in Block /\ c # b
    BY <1>0, <1>3, Sizes DEF Block
  <2> QED
    BY <1>2, <2>1, ScanFrame
<1>5. ASSUME NEW u \in Thread \ {t}
      PROVE  HashInv(u)'
  <2>1. /\ pc'[blk][u] = pc[blk][u] /\ position'[blk][u] = position[blk][u]
        /\ (matchFound'[blk][u] <=> matchFound[blk][u]) /\ digest'[u] = digest[u]
    BY <1>0, <1>3, ScanFrame
  <2> QED
    BY <1>0, <1>2, <2>1 DEF HashInv, Meets
<1>6. HashInv(t)'
  BY <1>2, <1>3, OwnHash
<1>7. /\ (\E u \in Thread : pc'[blk][u] = "finish") \/ counter' = 0 => isMatched'
      /\ isMatched' => filebuffer' \in Hits /\ filebuffer'[1] = blk
      /\ main = "write" => isMatched'
  <2>1. /\ (\E u \in Thread : pc[blk][u] = "finish") \/ counter = 0 => isMatched
        /\ isMatched => filebuffer \in Hits /\ filebuffer[1] = blk
        /\ main = "write" => isMatched
    BY <1>1 DEF CleanInv
  <2>2. CASE SetFileBuffer(b, t)
    <3>1. isMatched' /\ filebuffer' = <<blk, t, position[blk][t]>> /\ Meets(t)
      BY <1>2, <1>3, <2>2 DEF SetFileBuffer, HashInv, At
    <3> QED
      BY <3>1 DEF Meets
  <2>3. CASE Done(b, t)
    <3>1. isMatched /\ UNCHANGED <<isMatched, filebuffer>>
      BY <1>3, <2>1, <2>3 DEF Done, At
    <3> QED
      BY <2>1, <3>1
  <2>4. CASE ~SetFileBuffer(b, t) /\ ~Done(b, t)
    <3>1. UNCHANGED <<isMatched, filebuffer, counter>>
      BY <2>4 DEF Scan, Start, HashReset, HashWrite, Match, Miss, Look, Leave, syncVars
    <3>2. pc'[b][t] # "finish"
      <4> USE DEF TypeOK, Goto
      <4>1. CASE Start(b, t) \/ HashReset(b, t) \/ HashWrite(b, t) \/ Match(b, t) \/ Miss(b, t)
        BY <4>1 DEF Start, HashReset, HashWrite, Match, Miss
      <4>2. CASE Look(b, t) \/ Leave(b, t)
        BY <4>2 DEF Look, Leave
      <4> QED
        BY <2>4, <4>1, <4>2 DEF Scan
    <3>3. ASSUME NEW u \in Thread, pc'[blk][u] = "finish"
          PROVE  pc[blk][u] = "finish"
      BY <1>0, <1>3, <3>2, <3>3, ScanFrame
    <3> QED
      BY <2>1, <3>1, <3>3
  <2> QED
    BY <2>2, <2>3, <2>4
<1> QED
  BY <1>0, <1>1, <1>4, <1>5, <1>6, <1>7

-----------------------------------------------------------------------------
\* The steps of main.
LEMMA MainCount ==
  ASSUME TypeOK, CountInv, Main
  PROVE  CountInv'
<1> USE Sizes DEF TypeOK, syncVars, hashVars, scanVars, CountInv
<1>1. CASE Add
  <2>1. counter = 0 /\ counter' = counter + 1 /\ main' = "go"
    BY <1>1 DEF Add
  <2> QED
    BY <2>1
<1>2. CASE Go \/ AllStarted
  <2>1. main = "go" /\ main' \in {"go", "wait"} /\ counter' = counter
    BY <1>2 DEF Go, AllStarted
  <2> QED
    BY <2>1
<1>3. CASE Wait \/ WriteFile \/ AllStopped
  <2>1. counter = 0 /\ counter' = 0 /\ main' \in {"write", "stop", "mutex"}
    BY <1>3 DEF Wait, WriteFile, AllStopped
  <2> QED
    BY <2>1
<1>4. CASE StopScan \/ ResetMatchFound
  <2>1. counter = 0 /\ counter' = 0 /\ main' \in {"matchFound", "stop"}
    BY <1>4 DEF StopScan, ResetMatchFound
  <2>2. main' = "matchFound" => next < ThreadCount /\ next' = next
    BY <1>4 DEF StopScan, ResetMatchFound
  <2> QED
    BY <2>1, <2>2
<1>5. CASE ResetMutex
  <2>1. counter = 0 /\ counter' = 0 /\ main' \in {"add", "done"}
    BY <1>5 DEF ResetMutex
  <2>2. main' = "done" => blk' = BlockCount - 1
    BY <1>5 DEF ResetMutex, Block
  <2> QED
    BY <2>1, <2>2
<1> QED
  BY <1>1, <1>2, <1>3, <1>4, <1>5 DEF Main

\* But for Go, which starts a goroutine, main moves none of them.
LEMMA MainFrame ==
  ASSUME Main, ~Go
  PROVE  UNCHANGED <<hashVars, position, pc>>
BY DEF Main, Add, AllStarted, Wait, WriteFile, StopScan, ResetMatchFound, AllStopped, ResetMutex,
       hashVars, scanVars

\* Go starts a goroutine that was not yet started.
LEMMA GoFrame ==
  ASSUME TypeOK, FutureInv, Go
  PROVE  /\ next \in Thread /\ next' = next + 1 /\ blk \in Block /\ pc[blk][next] = "none"
         /\ main = "go" /\ UNCHANGED <<main, blk, written, crowded, syncVars, digest, matchFound, position>>
         /\ hashBlockBytes'[next] = blk /\ pc'[blk][next] = "start"
         /\ \A u \in Thread \ {next} : hashBlockBytes'[u] = hashBlockBytes[u]
         /\ \A c \in Block, u \in Thread : c # blk \/ u # next => pc'[c][u] = pc[c][u]
<1> USE Sizes DEF TypeOK
<1>1. next \in Thread /\ blk \in Block
  BY DEF Go, Thread
<1>2. pc[blk][next] = "none"
  <2>1. Unstarted(blk, next)
    BY <1>1 DEF Go, Unstarted
  <2> QED
    BY <1>1, <2>1 DEF FutureInv
<1> QED
  BY <1>1, <1>2 DEF Go

LEMMA MainWalk ==
  ASSUME TypeOK, FutureInv, WalkInv, Main
  PROVE  WalkInv'
<1>1. CASE Go
  <2>1. position[blk][next] < Ceiling[blk][next]
    BY <1>1, GoFrame DEF WalkInv
  <2> QED
    BY <1>1, <2>1, GoFrame DEF WalkInv
<1>2. CASE ~Go
  <2>1. UNCHANGED <<position, pc>>
    BY <1>2, MainFrame
  <2>2. ASSUME NEW b \in Block, NEW t \in Thread, ~matchFound[b][t]
        PROVE  ~matchFound'[b][t]
    <3>1. CASE ResetMatchFound
      BY <2>2, <3>1 DEF ResetMatchFound, TypeOK
    <3>2. CASE ~ResetMatchFound
      <4>1. UNCHANGED matchFound
        BY <1>2, <3>2 DEF Main, Add, AllStarted, Wait, WriteFile, StopScan, AllStopped, ResetMutex, scanVars
      <4> QED
        BY <2>2, <4>1
    <3> QED
      BY <3>1, <3>2
  <2> QED
    BY <2>1, <2>2 DEF WalkInv
<1> QED
  BY <1>1, <1>2

LEMMA MainFuture ==
  ASSUME TypeOK, FutureInv, Main
  PROVE  FutureInv'
<1> SUFFICES ASSUME NEW c \in Block, NEW u \in Thread, Unstarted(c, u)'
             PROVE  pc'[c][u] = "none"
  BY DEF FutureInv
<1> USE Sizes
<1>0. c \in Nat /\ u \in Nat /\ blk \in Nat /\ next \in Nat
  BY DEF TypeOK
<1>1. CASE Go
  <2>1. c # blk \/ u # next
    BY <1>0, <1>1, GoFrame DEF Unstarted
  <2>2. Unstarted(c, u)
    BY <1>0, <1>1, GoFrame DEF Unstarted
  <2> QED
    BY <1>1, <2>1, <2>2, GoFrame DEF FutureInv
<1>2. CASE ~Go
  <2>1. UNCHANGED pc
    BY <1>2, MainFrame
  <2>2. Unstarted(c, u)
    <3>1. CASE Add
      BY <1>0, <3>1 DEF Add, Unstarted
    <3>2. CASE ResetMutex
      BY <1>0, <3>2 DEF ResetMutex, Unstarted
    <3>3. CASE AllStarted \/ Wait \/ WriteFile \/ StopScan \/ ResetMatchFound \/ AllStopped
      <4>1. main' \notin {"add", "go"} /\ blk' = blk
        BY <3>3 DEF AllStarted, Wait, WriteFile, StopScan, ResetMatchFound, AllStopped
      <4> QED
        BY <4>1 DEF Unstarted
    <3> QED
      BY <1>2, <3>1, <3>2, <3>3 DEF Main
  <2> QED
    BY <2>1, <2>2 DEF FutureInv
<1> QED
  BY <1>1, <1>2

LEMMA MainAdd ==
  ASSUME Main
  PROVE  AddInv'
BY DEF AddInv, Main, Add, Go, AllStarted, Wait, WriteFile, StopScan, ResetMatchFound, AllStopped, ResetMutex

\* A block is started clean, unless a goroutine of an earlier one is running, and is
\* written from its own match.
LEMMA MainClean ==
  ASSUME TypeOK, CountInv, WalkInv, FutureInv, AddInv, CleanInv, Main
  PROVE  CleanInv'
<1> SUFFICES ASSUME Clean'
             PROVE  /\ \A c \in 0 .. blk' - 1, u \in Thread : pc'[c][u] = "ended"
                    /\ \A u \in Thread : HashInv(u)'
                    /\ (\E u \in Thread : pc'[blk'][u] = "finish") \/ counter' = 0 => isMatched'
                    /\ isMatched' => filebuffer' \in Hits /\ filebuffer'[1] = blk'
                    /\ main' = "write" => isMatched'
  BY DEF CleanInv
<1>0. blk \in Block
  BY DEF TypeOK
<1>1. CASE Add
  <2>1. /\ main = "add" /\ main' = "go" /\ counter' = counter + 1
        /\ UNCHANGED <<blk, isMatched, pc, matchFound, position>>
    BY <1>1 DEF Add, scanVars
  <2>2. \A c \in 0 .. blk - 1, u \in Thread : pc[c][u] = "ended"
    BY <1>1, <2>1 DEF Add, Clean
  <2>3. ~isMatched
    BY <2>1, <2>2 DEF AddInv
  <2>4. counter' = 1
    BY <2>1 DEF CountInv
  <2>5. \A u \in Thread : pc[blk][u] = "none" /\ ~matchFound[blk][u]
    BY <1>0, <2>1 DEF FutureInv, Unstarted, WalkInv
  <2>6. \A u \in Thread : HashInv(u)'
    BY <2>1, <2>5 DEF HashInv
  <2> QED
    BY <2>1, <2>2, <2>3, <2>4, <2>5, <2>6
<1>2. CASE Go
  <2>1. Clean /\ UNCHANGED <<main, blk, counter, isMatched, filebuffer>>
    BY <1>2, GoFrame DEF Clean, syncVars
  <2>2. ASSUME NEW c \in 0 .. blk - 1, NEW u \in Thread
        PROVE  pc'[c][u] = "ended"
    <3>1. c \in Block /\ c # blk
      BY <1>0, Sizes DEF Block
    <3>2. pc[c][u] = "ended"
      BY <2>1 DEF CleanInv
    <3> QED
      BY <1>2, <3>1, <3>2, GoFrame
  <2>3. ASSUME NEW u \in Thread, u = next
        PROVE  HashInv(u)'
    <3>1. pc[blk][u] = "none" /\ ~matchFound[blk][u]
      BY <1>2, <1>0, <2>3, GoFrame DEF WalkInv
    <3>2. pc'[blk'][u] = "start" /\ hashBlockBytes'[u] = blk' /\ ~matchFound'[blk'][u]
      BY <1>2, <2>3, <3>1, GoFrame
    <3> QED
      BY <3>2 DEF HashInv
  <2>4. ASSUME NEW u \in Thread \ {next}
        PROVE  HashInv(u)'
    <3>1. HashInv(u)
      BY <2>1 DEF CleanInv
    <3>2. /\ pc'[blk][u] = pc[blk][u] /\ hashBlockBytes'[u] = hashBlockBytes[u]
          /\ UNCHANGED <<blk, digest, matchFound, position>>
      BY <1>2, <1>0, GoFrame
    <3> QED
      BY <3>1, <3>2 DEF HashInv, Meets
  <2> QED
    <3>1. main' # "write" /\ blk' = blk
      BY <1>2, <2>1, GoFrame
    <3>2. (\E u \in Thread : pc'[blk][u] = "finish") => \E u \in Thread : pc[blk][u] = "finish"
      BY <1>0, <1>2, GoFrame
    <3>3. \A u \in Thread : HashInv(u)'
      BY <2>3, <2>4
    <3>4. /\ (\E u \in Thread : pc[blk][u] = "finish") \/ counter = 0 => isMatched
          /\ isMatched => filebuffer \in Hits /\ filebuffer[1] = blk
      BY <2>1 DEF CleanInv
    <3> QED
      BY <2>1, <2>2, <3>1, <3>2, <3>3, <3>4
<1>3. CASE AllStarted \/ Wait
  <2>1. UNCHANGED <<blk, crowded, counter, isMatched, filebuffer, hashVars, scanVars>> /\ Clean
    BY <1>3 DEF AllStarted, Wait, Clean, syncVars
  <2>2. main' = "write" => isMatched
    BY <1>3 DEF AllStarted, Wait
  <2>3. \A u \in Thread : HashInv(u)'
    BY <2>1 DEF CleanInv, HashInv, Meets, hashVars, scanVars
  <2> QED
    BY <2>1, <2>2, <2>3 DEF CleanInv, scanVars
<1>4. CASE WriteFile \/ StopScan \/ ResetMatchFound \/ AllStopped \/ ResetMutex
  BY <1>4 DEF WriteFile, StopScan, ResetMatchFound, AllStopped, ResetMutex, Clean
<1> QED
  BY <1>1, <1>2, <1>3, <1>4 DEF Main

\* Main passes a clean block only after writing it.
LEMMA MainWritten ==
  ASSUME TypeOK, CountInv, CleanInv, WrittenInv, Main
  PROVE  WrittenInv'
<1> DEFINE WrittenNext(b) == \E i \in 1 .. Len(written') : written'[i].block = b /\ Right(written'[i])
<1> SUFFICES ASSUME NEW b \in Block, b < blk' \/ (b = blk' /\ main' \in {"stop", "matchFound", "mutex", "done"}),
                    b \notin crowded'
             PROVE  WrittenNext(b)
  BY DEF WrittenInv, Settled, Right
<1>0. b \notin crowded /\ b \in Nat /\ blk \in Nat
  BY Sizes DEF TypeOK, Main, Add, Go, AllStarted, Wait, WriteFile, StopScan, ResetMatchFound, AllStopped, ResetMutex
<1>1. CASE WriteFile
  <2> DEFINE entry == [block |-> blk, buffer |-> filebuffer]
  <2>1. main = "write" /\ UNCHANGED blk /\ written' = Append(written, entry)
    BY <1>1 DEF WriteFile
  <2>2. /\ Len(written') = Len(written) + 1 /\ Len(written) \in Nat
        /\ written'[Len(written) + 1] = entry
        /\ \A i \in 1 .. Len(written) : written'[i] = written[i]
    <3>1. written \in Seq([block : Block, buffer : Candidate \cup {NoBuffer}]) /\ entry \in [block : Block, buffer : Candidate \cup {NoBuffer}]
      BY DEF TypeOK
    <3> HIDE DEF entry
    <3> QED
      BY <2>1, <3>1, AppendProperties
  <2>3. CASE b = blk
    <3>1. filebuffer \in Hits /\ filebuffer[1] = blk
      BY <1>0, <2>1, <2>3 DEF CleanInv, Clean
    <3>2. entry.block = b /\ Right(entry)
      BY <2>3, <3>1 DEF Right
    <3> HIDE DEF entry
    <3> QED
      BY <2>2, <3>2
  <2>4. CASE b < blk
    <3>1. PICK i \in 1 .. Len(written) : written[i].block = b /\ Right(written[i])
      BY <1>0, <2>4 DEF WrittenInv, Settled
    <3>2. i \in 1 .. Len(written') /\ written'[i] = written[i]
      BY <2>2
    <3> QED
      BY <3>1, <3>2
  <2> QED
    BY <1>0, <2>1, <2>3, <2>4
<1>2. CASE ~WriteFile
  <2>1. UNCHANGED written
    BY <1>2 DEF Main, Add, Go, AllStarted, Wait, StopScan, ResetMatchFound, AllStopped, ResetMutex
  <2>2. Settled(b)
    <3>1. CASE Wait
      <4>1. main = "wait" /\ counter = 0 /\ UNCHANGED blk /\ main' = IF isMatched THEN "write" ELSE "stop"
        BY <3>1 DEF Wait
      <4>2. b # blk
        BY <1>0, <4>1 DEF CleanInv, Clean
      <4> QED
        BY <4>1, <4>2 DEF Settled
    <3>2. CASE ResetMutex
      <4>1. main = "mutex" /\ b <= blk
        BY <1>0, <3>2 DEF ResetMutex
      <4> QED
        BY <1>0, <4>1 DEF Settled
    <3>3. CASE Add \/ Go \/ AllStarted
      BY <3>3 DEF Add, Go, AllStarted, Settled
    <3>4. CASE StopScan \/ ResetMatchFound \/ AllStopped
      BY <3>4 DEF StopScan, ResetMatchFound, AllStopped, Settled
    <3> QED
      BY <1>2, <3>1, <3>2, <3>3, <3>4 DEF Main
  <2> QED
    BY <1>0, <2>1, <2>2 DEF WrittenInv
<1> QED
  BY <1>1, <1>2

-----------------------------------------------------------------------------
LEMMA InvInit == Init => IInv
<1> SUFFICES ASSUME Init PROVE IInv
  OBVIOUS
<1> USE Sizes DEF Init
<1>1. TypeOK
  <2>1. <<>> \in Seq([block : Block, buffer : Candidate \cup {NoBuffer}]) /\ <<>> \in Seq(Candidate)
    BY EmptySeq
  <2>2. written \in Seq([block : Block, buffer : Candidate \cup {NoBuffer}]) /\ digest \in [Thread -> Seq(Candidate)]
    BY <2>1
  <2> QED
    BY <2>2 DEF TypeOK, MainLabels, Labels
<1>2. CountInv /\ FutureInv /\ AddInv /\ CleanInv
  BY DEF CountInv, FutureInv, AddInv, CleanInv, Clean
<1>3. WalkInv
  BY DEF WalkInv
<1>4. WrittenInv
  BY DEF WrittenInv, Settled
<1> QED
  BY <1>1, <1>2, <1>3, <1>4 DEF IInv

LEMMA InvStep == IInv /\ [Next]_vars => IInv'
<1> SUFFICES ASSUME IInv, [Next]_vars PROVE IInv'
  OBVIOUS
<1> USE DEF IInv
<1>1. CASE Main
  BY <1>1, MainTyping, MainCount, MainWalk, MainFuture, MainAdd, MainClean, MainWritten
<1>2. ASSUME NEW b \in Block, NEW t \in Thread, Scan(b, t)
      PROVE  IInv'
  BY <1>2, ScanTyping, ScanCount, ScanWalk, ScanFuture, ScanAdd, ScanClean, ScanWritten
<1>3. CASE UNCHANGED vars
  <2> USE <1>3 DEF vars, mainVars, syncVars, hashVars, scanVars
  <2>1. TypeOK' /\ CountInv' /\ FutureInv' /\ AddInv'
    BY DEF TypeOK, CountInv, FutureInv, Unstarted, AddInv
  <2>2. WalkInv'
    BY DEF WalkInv
  <2>3. CleanInv'
    BY DEF CleanInv, Clean, HashInv, Meets
  <2>4. WrittenInv'
    BY DEF WrittenInv, Settled, Right
  <2> QED
    BY <2>1, <2>2, <2>3, <2>4
<1> QED
  BY <1>1, <1>2, <1>3 DEF Next, Finished

\* The invariant of the Go mdunzip: what a goroutine, the WaitGroup, the FileMutex and
\* the hash lists shared between blocks can be while main is at each of its steps.
THEOREM GoInvariance == Spec => []IInv
<1> QED
  BY InvInit, InvStep, PTL DEF Spec

\* Every variable of the Go mdunzip keeps its type; the WaitGroup in particular never
\* goes below -1 nor above 1, however many goroutines of a block match.
THEOREM GoTyping == Spec => []TypeOK
<1>1. IInv => TypeOK
  BY DEF IInv
<1> QED
  BY <1>1, GoInvariance, PTL

\* A block that main has gone past is written with bytes that match it, unless a
\* goroutine of an earlier block was still running when main started it: DecodeFile's
\* unsynchronised reads of the FileMutex, and the second match of the same block, do no
\* harm by themselves.
THEOREM GoHarm == Spec => []HarmOnlyByStragglers
<1>1. IInv => HarmOnlyByStragglers
  <2> SUFFICES ASSUME IInv, NEW b \in Block, Passed(b)
               PROVE  b \in crowded \/ \E i \in 1 .. Len(written) : written[i].block = b /\ Right(written[i])
    BY DEF HarmOnlyByStragglers
  <2>1. Settled(b)
    BY Sizes DEF IInv, TypeOK, CountInv, Passed, Settled, Block
  <2> QED
    BY <2>1 DEF IInv, WrittenInv
<1> QED
  BY <1>1, GoInvariance, PTL

=============================================================================
