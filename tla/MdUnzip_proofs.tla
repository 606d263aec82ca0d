---------------------------- MODULE MdUnzip_proofs ----------------------------
(***************************************************************************)
(* Proofs about mdunzip for every number of threads and blocks, every set  *)
(* of matching candidates and every ceiling.                               *)
(*                                                                         *)
(* The scan objects and the mutex are handed from block to block without a *)
(* join.  As long as no object was configured under a run that still had   *)
(* it, a run of an earlier block can only repeat its last store on an      *)
(* object main has not taken up yet, so that the block main is at sees     *)
(* none but its own runs.                                                  *)
(***************************************************************************)
EXTENDS MdUnzip, TLAPS, FiniteSetTheorems, SequenceTheorems

\* The objects main has taken up for its block, and those with its signatures.
Configured(t) == (main = "configure" => t < next) /\ (main = "register" => t <= next)
Registered(t) == main \in {"configure", "register"} => t < next

\* No thread runs on a block before main has configured every object for it.
FutureInv ==
  \A b \in Block, t \in Thread :
    b > blk \/ (b = blk /\ main \in {"configure", "register"}) =>
      pc[b][t] = "none" /\ t \notin gaveUp[b]

\* What is left of a run of an earlier block is a store of what the object already says.
OldInv(t) ==
  \A b \in 0 .. blk - 1 : Live(b, t) => ~Configured(t) /\ pc[b][t] = "leaving" /\ stopped[t]

\* A run tries the candidates of its block in order and skips none.
Walked(t) ==
  /\ pc[blk][t] \in {"none", "scan", "export", "compare"} =>
       \A k \in 0 .. walk[t][2] - 1 : <<blk, t, k>> \notin Hits
  /\ pc[blk][t] = "compare" => buf[t] = walk[t]

Exhausted(b, t) == \A k \in 0 .. Ceiling[b][t] - 1 : <<b, t, k>> \notin Hits

\* What the label of a run of this block says about its object.
RunInv(t) ==
  Configured(t) =>
    /\ walk[t][1] = blk
    /\ Registered(t) => sig[t] = blk
    /\ Walked(t)
    /\ pc[blk][t] \in {"matched", "matching"} => Passes(t)
    /\ pc[blk][t] = "missed" => Exhausted(blk, t)
    /\ pc[blk][t] \in {"missed", "matched", "matching"} => t \notin gaveUp[blk]
    /\ t \in gaveUp[blk] => Exhausted(blk, t) /\ pc[blk][t] \in {"early", "leaving", "ended"}
    /\ stopped[t] => pc[blk][t] \in {"leaving", "ended"}

\* A thread of this block that has finished setMatched.
HasMatched(t) ==
  /\ t \in Thread
  /\ pc[blk][t] \in {"leaving", "ended"}
  /\ t \notin gaveUp[blk]
  /\ Passes(t)

\* The counts and the verdict of the mutex are those of this block, until it is reset after
\* the last.
VerdictInv ==
  /\ main = "done" => isMatched = SEARCHING /\ matchCount = 0
  /\ main # "done" => notFound = Cardinality(gaveUp[blk])
  /\ isMatched = FOUND => HasMatched(lastThread) \/ \E t \in Thread : pc[blk][t] = "matching"
  /\ isMatched = NOTFOUND => gaveUp[blk] = Thread
  /\ matchCount # 0 => HasMatched(lastThread)
  /\ main = "write" /\ ~early => HasMatched(named)

MainInv ==
  /\ main \in {"register", "join"} => next < ThreadCount
  /\ main \in {"stop", "join"} => \A t \in 0 .. next - 1 : stopped[t]
  /\ main \in {"reset", "done"} => \A t \in Thread : stopped[t]

\* Blocks main has dealt with.
Settled(b) == b < blk \/ (b = blk /\ main \in {"stop", "join", "reset", "done"})

WrittenInv ==
  /\ \A i \in 1 .. Len(written) : Settled(written[i].block) /\ (written[i].raced \/ Right(written[i]))
  /\ \A i, j \in 1 .. Len(written) : i < j => written[i].block < written[j].block
  /\ \A b \in Block :
       Settled(b) =>
         \/ lagged
         \/ \E i \in 1 .. Len(written) : written[i].block = b
         \/ \A t \in Thread : Exhausted(b, t)

ScanInv == (\A t \in Thread : OldInv(t) /\ RunInv(t)) /\ VerdictInv

IInv == TypeOK /\ FutureInv /\ MainInv /\ WrittenInv /\ (lagged \/ ScanInv)

-----------------------------------------------------------------------------
LEMMA Sizes == ThreadCount \in Nat \ {0} /\ BlockCount \in Nat \ {0} /\ 0 \in Block /\ Block \subseteq Nat
BY ThreadCountAssumption, ScanAssumption DEF Block

\* The scan threads keep every variable in its type.
LEMMA ScanTyping ==
  ASSUME ScanTypeOK, NEW b \in Block, NEW t \in Thread, Decode(b, t)
  PROVE  ScanTypeOK'
<1> USE Sizes DEF ScanTypeOK
<1>1. CASE Export(b, t)
  BY <1>1 DEF Export, Goto, Labels, mutexVars, MutexTypeOK
<1>2. CASE SeeStop(b, t) \/ SeeRunning(b, t)
  <2>1. PICK label \in Labels : pc' = [pc EXCEPT ![b][t] = label]
    BY <1>2 DEF SeeStop, SeeRunning, Goto, Labels
  <2>2. pc' \in [Block -> [Thread -> Labels]]
    BY <2>1
  <2>3. UNCHANGED <<mutexVars, objVars, lineNum, gaveUp>>
    BY <1>2 DEF SeeStop, SeeRunning
  <2> QED
    BY <2>2, <2>3 DEF mutexVars, objVars, MutexTypeOK
<1>3. CASE Match(b, t)
  BY <1>3 DEF Match, Goto, Labels, mutexVars, objVars, MutexTypeOK
<1>4. CASE Miss(b, t)
  BY <1>4, ScanAssumption DEF Miss, Goto, Labels, mutexVars, MutexTypeOK, Advance, UpTo, Candidate
<1>5. CASE MissBelowCeiling(b, t)
  BY <1>5, ScanAssumption DEF MissBelowCeiling, Goto, Labels, mutexVars, MutexTypeOK, Advance, UpTo, Candidate
<1>6. CASE MissAboveCeiling(b, t)
  BY <1>6, ScanAssumption DEF MissAboveCeiling, Goto, Labels, mutexVars, objVars, MutexTypeOK
<1>7. CASE PublishVerdict(b, t)
  BY <1>7 DEF PublishVerdict, Goto, Labels, SetVerdict, objVars, MutexTypeOK
<1>8. CASE PublishThread(b, t)
  BY <1>8 DEF PublishThread, Goto, Labels, SetThread, objVars, MutexTypeOK
<1>9. CASE GiveUp(b, t)
  BY <1>9 DEF GiveUp, Goto, Labels, IncNotFound, objVars, MutexTypeOK
<1>10. CASE StopEarly(b, t)
  BY <1>10 DEF StopEarly, Goto, Labels, mutexVars, MutexTypeOK
<1>11. CASE Leave(b, t)
  BY <1>11 DEF Leave, Goto, Labels, mutexVars, MutexTypeOK
<1> QED
  BY <1>1, <1>2, <1>3, <1>4, <1>5, <1>6, <1>7, <1>8, <1>9, <1>10, <1>11 DEF Decode

\* Main keeps every variable in its type.
LEMMA MainTyping ==
  ASSUME TypeOK, MainInv, Main
  PROVE  TypeOK'
<1> USE Sizes DEF TypeOK
<1>0. ScanTypeOK /\ next \in 0 .. ThreadCount /\ blk \in Block
  OBVIOUS
<1>1. CASE ConfigureThread
  <2>1. next \in Thread
    BY <1>1 DEF ConfigureThread, Thread
  <2>2. <<blk, 0>> \in Candidate
    BY ScanAssumption DEF Candidate
  <2>3. ScanTypeOK'
    BY <1>1, <2>1, <2>2 DEF ConfigureThread, Configure, ScanTypeOK, mutexVars, runVars, MutexTypeOK
  <2>4. lagged' \in BOOLEAN
    BY <1>1 DEF ConfigureThread
  <2> QED
    BY <1>1, <2>3, <2>4 DEF ConfigureThread, MainLabels
<1>2. CASE CopyRegister
  <2>1. next \in Thread /\ next + 1 \in 0 .. ThreadCount
    BY <1>2 DEF CopyRegister, Thread, MainInv
  <2>2. ScanTypeOK'
    BY <1>2, <2>1 DEF CopyRegister, ScanTypeOK, mutexVars, runVars, MutexTypeOK
  <2> QED
    BY <1>2, <2>1, <2>2 DEF CopyRegister, MainLabels, outVars
<1>3. CASE Spawn
  <2>1. next \in Thread /\ next + 1 \in 0 .. ThreadCount
    BY <1>3 DEF Spawn, Thread
  <2>2. ScanTypeOK'
    BY <1>3, <2>1 DEF Spawn, SpawnRun, Goto, Labels, ScanTypeOK, mutexVars, objVars, MutexTypeOK
  <2> QED
    BY <1>3, <2>1, <2>2 DEF Spawn, MainLabels, outVars
<1>4. CASE StopThread
  <2>1. next \in Thread
    BY <1>4 DEF StopThread, Thread
  <2>2. ScanTypeOK'
    BY <1>4, <2>1 DEF StopThread, ScanTypeOK, mutexVars, runVars, MutexTypeOK
  <2> QED
    BY <1>4, <2>2 DEF StopThread, MainLabels, outVars
<1>5. CASE NextBlock
  <2>1. ScanTypeOK'
    <3>1. 0 \in Thread
      BY DEF Thread
    <3>2. MutexTypeOK'
      BY <1>5, <3>1 DEF NextBlock, ResetMatched, MutexTypeOK
    <3> QED
      BY <1>5, <3>2 DEF NextBlock, ScanTypeOK, objVars, runVars
  <2>2. blk' \in Block
    BY <1>5 DEF NextBlock, Block
  <2>3. main' \in MainLabels /\ next' \in 0 .. ThreadCount
    BY <1>5 DEF NextBlock, MainLabels
  <2>4. named' \in Thread \cup {Garbage} /\ written' \in Seq(Entry)
    BY <1>5 DEF NextBlock, outVars
  <2>5. early' \in BOOLEAN /\ lagged' \in BOOLEAN
    BY <1>5 DEF NextBlock, outVars
  <2> QED
    BY <2>1, <2>2, <2>3, <2>4, <2>5
<1>6. CASE WriteBlock
  <2>1. (IF named \in Thread THEN buf[named] ELSE FreshBuffer) \in Candidate \cup {FreshBuffer}
    BY DEF ScanTypeOK
  <2>2. (early \/ lagged) \in BOOLEAN
    OBVIOUS
  <2>3. [block |-> blk, thread |-> named, raced |-> early \/ lagged,
         candidate |-> IF named \in Thread THEN buf[named] ELSE FreshBuffer] \in Entry
    BY <2>1, <2>2 DEF Entry
  <2>4. written' \in Seq(Entry)
    BY <1>6, <2>3, AppendProperties DEF WriteBlock
  <2>5. ScanTypeOK'
    BY <1>6 DEF WriteBlock, scanVars, mutexVars, objVars, runVars, ScanTypeOK, MutexTypeOK
  <2>6. main' \in MainLabels /\ next' \in 0 .. ThreadCount /\ UNCHANGED <<blk, named, early, lagged>>
    BY <1>6 DEF WriteBlock, MainLabels
  <2> QED
    BY <2>4, <2>5, <2>6
<1>7. CASE AllConfigured \/ AllSpawned \/ SeeVerdict \/ SkipBlock \/ BlockFound \/ PickThread \/ BadIndex
           \/ SeeStopped \/ AllStopped
  <2>1. UNCHANGED scanVars /\ UNCHANGED <<blk, written, lagged>>
    BY <1>7 DEF AllConfigured, AllSpawned, SeeVerdict, SkipBlock, BlockFound, PickThread, BadIndex,
                SeeStopped, AllStopped, outVars
  <2>2. main' \in MainLabels
    BY <1>7 DEF AllConfigured, AllSpawned, SeeVerdict, SkipBlock, BlockFound, PickThread, BadIndex,
                SeeStopped, AllStopped, MainLabels
  <2>3. next' \in 0 .. ThreadCount
    BY <1>7 DEF AllConfigured, AllSpawned, SeeVerdict, SkipBlock, BlockFound, PickThread, BadIndex,
                SeeStopped, AllStopped, MainInv
  <2>4. named' \in Thread \cup {Garbage}
    BY <1>7 DEF AllConfigured, AllSpawned, SeeVerdict, SkipBlock, BlockFound, PickThread, BadIndex,
                SeeStopped, AllStopped, outVars, ScanTypeOK, MutexTypeOK
  <2>5. early' \in BOOLEAN
    BY <1>7 DEF AllConfigured, AllSpawned, SeeVerdict, SkipBlock, BlockFound, PickThread, BadIndex,
                SeeStopped, AllStopped, outVars
  <2>6. ScanTypeOK'
    BY <2>1 DEF scanVars, mutexVars, objVars, runVars, ScanTypeOK, MutexTypeOK
  <2> QED
    BY <2>1, <2>2, <2>3, <2>4, <2>5, <2>6
<1> QED
  BY <1>1, <1>2, <1>3, <1>4, <1>5, <1>6, <1>7 DEF Main

LEMMA TypingStep == TypeOK /\ MainInv /\ [Next]_vars => TypeOK'
<1> SUFFICES ASSUME TypeOK, MainInv, [Next]_vars
             PROVE  TypeOK'
  OBVIOUS
<1>1. ASSUME NEW b \in Block, NEW t \in Thread, Scan(b, t)
      PROVE  TypeOK'
  BY <1>1, ScanTyping DEF Scan, mainVars, outVars, TypeOK
<1>2. CASE UNCHANGED vars
  BY <1>2 DEF vars, scanVars, mutexVars, objVars, runVars, mainVars, outVars, TypeOK, ScanTypeOK, MutexTypeOK
<1> QED
  BY <1>1, <1>2, MainTyping DEF Next, Finished

-----------------------------------------------------------------------------
\* A step of a run touches nothing but that run and its object, and takes back neither
\* stopped nor the end of another run.
LEMMA DecodeFrame ==
  ASSUME ScanTypeOK, NEW b \in Block, NEW t \in Thread, Decode(b, t)
  PROVE  /\ pc[b][t] # "none"
         /\ sig' = sig
         /\ \A c \in Block, u \in Thread : c # b \/ u # t => pc'[c][u] = pc[c][u]
         /\ \A u \in Thread : stopped[u] => stopped'[u]
         /\ \A u \in Thread \ {t} : stopped'[u] = stopped[u] /\ walk'[u] = walk[u] /\ buf'[u] = buf[u]
         /\ \A c \in Block, u \in Thread : c # b \/ u # t => (u \in gaveUp'[c] <=> u \in gaveUp[c])
<1> USE DEF ScanTypeOK, Goto, objVars
<1>1. CASE Export(b, t) \/ SeeStop(b, t) \/ SeeRunning(b, t) \/ Match(b, t)
  BY <1>1 DEF Export, SeeStop, SeeRunning, Match
<1>2. CASE Miss(b, t) \/ MissBelowCeiling(b, t) \/ MissAboveCeiling(b, t)
  BY <1>2 DEF Miss, MissBelowCeiling, MissAboveCeiling, Advance
<1>3. CASE PublishVerdict(b, t) \/ PublishThread(b, t)
  BY <1>3 DEF PublishVerdict, PublishThread
<1>4. CASE GiveUp(b, t)
  BY <1>4 DEF GiveUp
<1>5. CASE StopEarly(b, t) \/ Leave(b, t)
  <2>1. PICK label \in Labels : pc' = [pc EXCEPT ![b][t] = label]
    BY <1>5 DEF StopEarly, Leave, Labels
  <2>2. pc[b][t] # "none" /\ sig' = sig /\ walk' = walk /\ buf' = buf /\ gaveUp' = gaveUp
        /\ stopped' = [stopped EXCEPT ![t] = TRUE]
    BY <1>5 DEF StopEarly, Leave
  <2>3. stopped'[t] /\ \A u \in Thread \ {t} : stopped'[u] = stopped[u]
    BY <2>2
  <2>4. \A c \in Block, u \in Thread : c # b \/ u # t => pc'[c][u] = pc[c][u]
    BY <2>1
  <2> QED
    BY <2>2, <2>3, <2>4
<1> QED
  BY <1>1, <1>2, <1>3, <1>4, <1>5 DEF Decode

\* Only a run that has been spawned steps.
LEMMA OnlySpawnedRuns ==
  ASSUME TypeOK, FutureInv, NEW b \in Block, NEW t \in Thread, Decode(b, t)
  PROVE  b < blk \/ (b = blk /\ main \notin {"configure", "register"})
<1>1. pc[b][t] # "none"
  BY DecodeFrame DEF TypeOK
<1>2. b \in Int /\ blk \in Int
  BY Sizes DEF TypeOK
<1> QED
  BY <1>1, <1>2 DEF FutureInv

\* The steps of a run and the loops of main.
LEMMA DecodeFuture ==
  ASSUME TypeOK, FutureInv, NEW b \in Block, NEW t \in Thread, Scan(b, t)
  PROVE  FutureInv'
<1>1. Decode(b, t) /\ UNCHANGED <<main, blk>>
  BY DEF Scan, mainVars
<1>2. ASSUME NEW c \in Block, NEW u \in Thread, c > blk \/ (c = blk /\ main \in {"configure", "register"})
      PROVE  pc'[c][u] = "none" /\ u \notin gaveUp'[c]
  <2>1. pc[c][u] = "none" /\ u \notin gaveUp[c]
    BY <1>2 DEF FutureInv
  <2>2. c # b \/ u # t
    BY <1>1, <2>1, DecodeFrame DEF TypeOK
  <2> QED
    BY <1>1, <2>1, <2>2, DecodeFrame DEF TypeOK
<1> QED
  BY <1>1, <1>2 DEF FutureInv

LEMMA DecodeMain ==
  ASSUME TypeOK, MainInv, NEW b \in Block, NEW t \in Thread, Scan(b, t)
  PROVE  MainInv'
<1>1. Decode(b, t) /\ UNCHANGED <<main, next>>
  BY DEF Scan, mainVars
<1>2. \A u \in Thread : stopped[u] => stopped'[u]
  BY <1>1, DecodeFrame DEF TypeOK
<1>3. (0 .. next - 1) \subseteq Thread
  BY Sizes DEF TypeOK, Thread
<1> QED
  BY <1>1, <1>2, <1>3 DEF MainInv

LEMMA DecodeWritten ==
  ASSUME WrittenInv, NEW b \in Block, NEW t \in Thread, Scan(b, t)
  PROVE  WrittenInv'
BY DEF WrittenInv, Scan, mainVars, outVars, Settled, Right, Exhausted

\* What is known of an object and of its run depends only on their own state.
LEMMA RunFrame ==
  ASSUME NEW u \in Thread, OldInv(u), RunInv(u), blk \in Block, ScanTypeOK,
         UNCHANGED <<main, next, blk>>,
         \A c \in Block : pc'[c][u] = pc[c][u],
         stopped'[u] = stopped[u], walk'[u] = walk[u], buf'[u] = buf[u], sig'[u] = sig[u],
         u \in gaveUp'[blk] <=> u \in gaveUp[blk]
  PROVE  OldInv(u)' /\ RunInv(u)'
<1>1. (0 .. blk - 1) \subseteq Block
  BY Sizes DEF Block
<1>2. OldInv(u)'
  BY <1>1 DEF OldInv, Live, Configured
<1>3. Configured(u)' <=> Configured(u)
  BY DEF Configured
<1>4. Registered(u)' <=> Registered(u)
  BY DEF Registered
<1>5. (Walked(u)' <=> Walked(u)) /\ (Passes(u)' <=> Passes(u))
  BY DEF Walked, Passes
<1>6. RunInv(u)'
  BY <1>3, <1>4, <1>5 DEF RunInv, Exhausted
<1> QED
  BY <1>2, <1>6

\* A run of an earlier block ends, and changes nothing else.
LEMMA OldRunLeaves ==
  ASSUME IInv, ScanInv, NEW b \in 0 .. blk - 1, NEW t \in Thread, Decode(b, t)
  PROVE  /\ pc' = [pc EXCEPT ![b][t] = "ended"]
         /\ UNCHANGED <<mutexVars, stop, stopped, walk, buf, sig, lineNum, gaveUp>>
         /\ ~Configured(t) /\ stopped[t]
<1>0. TypeOK /\ b \in Block
  BY Sizes DEF IInv, TypeOK, Block
<1>1. Live(b, t)
  BY DEF Live, Decode, Export, SeeStop, SeeRunning, Match, Miss, MissBelowCeiling, MissAboveCeiling,
         PublishVerdict, PublishThread, GiveUp, StopEarly, Leave
<1>2. pc[b][t] = "leaving" /\ stopped[t] /\ ~Configured(t)
  BY <1>1 DEF ScanInv, OldInv
<1>3. Leave(b, t)
  BY <1>2 DEF Decode, Export, SeeStop, SeeRunning, Match, Miss, MissBelowCeiling, MissAboveCeiling,
              PublishVerdict, PublishThread, GiveUp, StopEarly
<1>4. stopped' = stopped
  BY <1>0, <1>2, <1>3 DEF Leave, TypeOK, ScanTypeOK
<1> QED
  BY <1>2, <1>3, <1>4 DEF Leave, Goto, mutexVars

\* So the block main is at does not notice it.
LEMMA OldStep ==
  ASSUME IInv, ScanInv, NEW b \in 0 .. blk - 1, NEW t \in Thread, Scan(b, t)
  PROVE  ScanInv'
<1>0. TypeOK /\ b \in Block /\ blk \in Block /\ b # blk
  BY Sizes DEF IInv, TypeOK, Block
<1>1. Decode(b, t) /\ UNCHANGED <<main, blk, next, named, early>>
  BY DEF Scan, mainVars, outVars
<1>2. /\ pc' = [pc EXCEPT ![b][t] = "ended"]
      /\ UNCHANGED <<mutexVars, stop, stopped, walk, buf, sig, lineNum, gaveUp>>
      /\ ~Configured(t)
  BY <1>1, OldRunLeaves
<1>3. pc'[blk] = pc[blk]
  BY <1>0, <1>2 DEF TypeOK, ScanTypeOK
<1>4. ASSUME NEW u \in Thread
      PROVE  OldInv(u)' /\ RunInv(u)'
  <2>0. OldInv(u) /\ RunInv(u)
    BY DEF ScanInv
  <2>1. (Walked(u)' <=> Walked(u)) /\ (Passes(u)' <=> Passes(u)) /\ (Configured(u)' <=> Configured(u))
        /\ (Registered(u)' <=> Registered(u))
    BY <1>1, <1>2, <1>3 DEF Walked, Passes, Configured, Registered
  <2>2. RunInv(u)'
    BY <1>1, <1>2, <1>3, <2>0, <2>1 DEF RunInv, Exhausted
  <2>3. OldInv(u)'
    <3>1. ASSUME NEW c \in 0 .. blk - 1, Live(c, u)'
          PROVE  Live(c, u) /\ pc'[c][u] = pc[c][u]
      <4>1. c \in Block
        BY <1>0, Sizes DEF Block
      <4> QED
        BY <1>0, <1>2, <3>1, <4>1 DEF Live, TypeOK, ScanTypeOK
    <3> QED
      BY <1>1, <1>2, <2>0, <2>1, <3>1 DEF OldInv
  <2> QED
    BY <2>2, <2>3
<1>5. ASSUME NEW u
      PROVE  HasMatched(u)' <=> HasMatched(u)
  BY <1>1, <1>2, <1>3 DEF HasMatched, Passes
<1>6. VerdictInv'
  BY <1>1, <1>2, <1>3, <1>5 DEF ScanInv, VerdictInv, mutexVars
<1> QED
  BY <1>4, <1>6 DEF ScanInv

-----------------------------------------------------------------------------
\* While its object holds the candidate the run is at, the comparison is the test of that
\* position against Hits.
LEMMA CompareIsHit ==
  ASSUME TypeOK, NEW t \in Thread, buf[t] = walk[t], walk[t][1] = blk, sig[t] = blk
  PROVE  /\ walk[t][2] \in 0 .. Horizon
         /\ Passes(t) <=> <<blk, t, walk[t][2]>> \in Hits
<1>1. walk[t] \in Block \X (0 .. Horizon)
  BY DEF TypeOK, ScanTypeOK, Candidate
<1> QED
  BY <1>1 DEF Passes

\* A step of a run of this block keeps what is known of that run.
LEMMA OwnRunStep ==
  ASSUME TypeOK, NEW t \in Thread, Decode(blk, t), RunInv(t), OldInv(t),
         main \notin {"configure", "register"}, UNCHANGED <<main, next, blk>>
  PROVE  OldInv(t)' /\ RunInv(t)'
<1> USE DEF TypeOK, ScanTypeOK, Goto, objVars
<1>0. Configured(t) /\ Registered(t) /\ Configured(t)' /\ Registered(t)'
  BY DEF Configured, Registered
<1>1. /\ walk[t][1] = blk /\ sig[t] = blk /\ walk[t] \in Block \X (0 .. Horizon)
  BY <1>0 DEF RunInv, Candidate
<1>2. OldInv(t)'
  <2>1. ASSUME NEW c \in 0 .. blk - 1, Live(c, t)'
        PROVE  FALSE
    <3>1. c \in Block /\ c # blk
      BY Sizes DEF Block
    <3>2. pc'[c][t] = pc[c][t]
      BY <3>1, DecodeFrame
    <3> QED
      BY <1>0, <2>1, <3>2 DEF OldInv, Live
  <2> QED
    BY <2>1 DEF OldInv
<1>3. RunInv(t)'
  <2> USE <1>0, <1>1 DEF RunInv, Walked
  <2>1. CASE Export(blk, t)
    BY <2>1 DEF Export, Exhausted
  <2>2. CASE SeeStop(blk, t) \/ SeeRunning(blk, t)
    <3>1. /\ pc[blk][t] = "scan" /\ pc'[blk][t] \in {"leaving", "export"}
          /\ UNCHANGED <<stopped, walk, buf, sig, gaveUp>>
      BY <2>2 DEF SeeStop, SeeRunning
    <3> QED
      BY <3>1 DEF Exhausted
  <2>3. CASE Match(blk, t)
    BY <2>3 DEF Match, Exhausted, Passes
  <2>4. CASE Miss(blk, t) \/ MissBelowCeiling(blk, t)
    <3>1. /\ pc[blk][t] = "compare" /\ ~Passes(t)
          /\ walk' = [walk EXCEPT ![t] = <<walk[t][1], UpTo(Horizon, walk[t][2])>>]
          /\ pc' = [pc EXCEPT ![blk][t] = "scan"]
          /\ UNCHANGED <<stopped, buf, sig, gaveUp>>
      BY <2>4 DEF Miss, MissBelowCeiling, Advance
    <3>2. <<blk, t, walk[t][2]>> \notin Hits /\ walk[t][2] \in 0 .. Horizon
      BY <3>1, CompareIsHit
    <3>3. walk'[t][2] - 1 <= walk[t][2] /\ walk'[t][2] \in 0 .. Horizon /\ walk'[t][1] = blk
      <4>1. walk'[t] = <<blk, UpTo(Horizon, walk[t][2])>>
        BY <3>1
      <4>2. walk'[t][1] = blk /\ walk'[t][2] = UpTo(Horizon, walk[t][2])
        BY <4>1
      <4>3. Horizon \in Nat
        BY ScanAssumption
      <4> HIDE DEF TypeOK, ScanTypeOK, RunInv, Walked
      <4> QED
        BY <3>2, <4>2, <4>3 DEF UpTo
    <3>4. \A k \in 0 .. walk'[t][2] - 1 : <<blk, t, k>> \notin Hits
      <4>1. \A k \in 0 .. walk[t][2] - 1 : <<blk, t, k>> \notin Hits
        BY <3>1
      <4>2. \A k \in 0 .. walk'[t][2] - 1 : k \in 0 .. walk[t][2] - 1 \/ k = walk[t][2]
        <5> HIDE DEF TypeOK, ScanTypeOK, RunInv, Walked
        <5> QED
          BY <3>2, <3>3
      <4> QED
        BY <4>1, <4>2, <3>2
    <3>5. pc'[blk][t] = "scan" /\ stopped' = stopped /\ sig' = sig /\ gaveUp' = gaveUp
      BY <3>1
    <3> QED
      BY <3>1, <3>3, <3>4, <3>5
  <2>5. CASE MissAboveCeiling(blk, t)
    <3>1. /\ pc[blk][t] = "compare" /\ ~Passes(t) /\ AboveCeiling(t)
          /\ pc' = [pc EXCEPT ![blk][t] = "missed"]
          /\ UNCHANGED <<stopped, walk, buf, sig, gaveUp>>
      BY <2>5 DEF MissAboveCeiling
    <3>2. <<blk, t, walk[t][2]>> \notin Hits /\ walk[t][2] \in 0 .. Horizon
      BY <3>1, CompareIsHit
    <3>3. Ceiling[blk][t] <= walk[t][2] /\ Ceiling[blk][t] \in Int
      <4>1. Ceiling[blk][t] \in 0 .. Horizon + 1 /\ Horizon \in Nat
        BY ScanAssumption
      <4>2. walk[t][2] >= Ceiling[blk][t]
        BY <3>1 DEF AboveCeiling
      <4> HIDE DEF TypeOK, ScanTypeOK, RunInv, Walked
      <4> QED
        BY <3>2, <4>1, <4>2
    <3>4. Exhausted(blk, t)
      BY <3>1, <3>2, <3>3 DEF Exhausted
    <3> QED
      BY <3>1, <3>4 DEF Exhausted
  <2>6. CASE PublishVerdict(blk, t) \/ PublishThread(blk, t)
    <3>1. /\ pc[blk][t] \in {"matched", "matching"} /\ pc'[blk][t] \in {"matching", "leaving"}
          /\ UNCHANGED <<stopped, walk, buf, sig, gaveUp>>
      BY <2>6 DEF PublishVerdict, PublishThread
    <3>2. Passes(t)' <=> Passes(t)
      BY <3>1 DEF Passes
    <3> QED
      BY <3>1, <3>2 DEF Exhausted
  <2>7. CASE GiveUp(blk, t)
    BY <2>7 DEF GiveUp, Exhausted
  <2>8. CASE StopEarly(blk, t) \/ Leave(blk, t)
    BY <2>8 DEF StopEarly, Leave, Exhausted
  <2> QED
    BY <2>1, <2>2, <2>3, <2>4, <2>5, <2>6, <2>7, <2>8 DEF Decode
<1> QED
  BY <1>2, <1>3

\* Every thread has given up exactly when the count of give-ups is the number of threads.
LEMMA Counting ==
  ASSUME NEW S \in SUBSET Thread
  PROVE  /\ IsFiniteSet(S)
         /\ Cardinality(S) \in Nat
         /\ Cardinality(S) = ThreadCount => S = Thread
         /\ \A t \in Thread \ S : Cardinality(S \cup {t}) = Cardinality(S) + 1
<1>1. IsFiniteSet(Thread) /\ Cardinality(Thread) = ThreadCount
  BY FS_Interval, ThreadCountAssumption DEF Thread
<1>2. IsFiniteSet(S) /\ (Cardinality(S) = ThreadCount => S = Thread)
  BY <1>1, FS_Subset
<1>3. Cardinality(S) \in Nat
  BY <1>2, FS_CardinalityType
<1>4. ASSUME NEW t \in Thread \ S
      PROVE  Cardinality(S \cup {t}) = Cardinality(S) + 1
  BY <1>2, FS_AddElement
<1> QED
  BY <1>2, <1>3, <1>4

\* A thread that has matched stays so, whichever run of this block steps.
LEMMA MatchIsKept ==
  ASSUME TypeOK, NEW t \in Thread, Decode(blk, t), UNCHANGED <<main, next, blk>>,
         NEW u, HasMatched(u)
  PROVE  HasMatched(u)'
<1>1. u \in Thread /\ blk \in Block /\ pc[blk][u] \in {"leaving", "ended"} /\ u \notin gaveUp[blk] /\ Passes(u)
  BY DEF HasMatched, TypeOK
<1>2. CASE u # t
  <2>1. pc'[blk][u] = pc[blk][u] /\ buf'[u] = buf[u] /\ sig'[u] = sig[u] /\ (u \in gaveUp'[blk] <=> u \in gaveUp[blk])
    BY <1>1, <1>2, DecodeFrame DEF TypeOK
  <2> QED
    BY <1>1, <2>1 DEF HasMatched, Passes
<1>3. CASE u = t
  <2>1. Leave(blk, t)
    BY <1>1, <1>3 DEF Decode, Export, SeeStop, SeeRunning, Match, Miss, MissBelowCeiling, MissAboveCeiling,
                      PublishVerdict, PublishThread, GiveUp, StopEarly
  <2> QED
    BY <1>1, <1>3, <2>1 DEF Leave, Goto, HasMatched, Passes, TypeOK, ScanTypeOK
<1> QED
  BY <1>2, <1>3

\* FOUND leaves some thread that has not given up and never will.
LEMMA FoundWitness ==
  ASSUME TypeOK, \A u \in Thread : RunInv(u), VerdictInv, isMatched = FOUND,
         main \notin {"configure", "register"}
  PROVE  \E u \in Thread : u \notin gaveUp[blk] /\ pc[blk][u] \in {"matching", "leaving", "ended"}
<1>1. CASE HasMatched(lastThread)
  BY <1>1 DEF HasMatched
<1>2. ASSUME NEW u \in Thread, pc[blk][u] = "matching"
      PROVE  u \notin gaveUp[blk]
  BY <1>2 DEF RunInv, Configured
<1> QED
  BY <1>1, <1>2 DEF VerdictInv

\* A step of a run of this block keeps what is known of the verdict.
LEMMA OwnVerdictStep ==
  ASSUME TypeOK, MainInv, \A u \in Thread : RunInv(u), VerdictInv, NEW t \in Thread, Decode(blk, t),
         main \notin {"configure", "register"}, UNCHANGED <<main, next, blk, named, early>>
  PROVE  VerdictInv'
<1>0. blk \in Block /\ pc \in [Block -> [Thread -> Labels]] /\ gaveUp \in [Block -> SUBSET Thread] /\ ScanTypeOK
  BY DEF TypeOK, ScanTypeOK
<1>k. \A u : HasMatched(u) => HasMatched(u)'
  BY MatchIsKept
<1>a. RunInv(t) /\ Configured(t)
  BY DEF Configured
<1>b. pc[blk][t] \in {"matched", "matching", "missed"} => main # "done"
  BY <1>a DEF MainInv, RunInv
<1>1. CASE SeeStop(blk, t) \/ SeeRunning(blk, t) \/ Match(blk, t) \/ Export(blk, t) \/ Miss(blk, t)
           \/ MissBelowCeiling(blk, t) \/ MissAboveCeiling(blk, t) \/ StopEarly(blk, t) \/ Leave(blk, t)
  <2>1. UNCHANGED mutexVars /\ gaveUp' = gaveUp /\ pc[blk][t] # "matching"
    BY <1>1 DEF SeeStop, SeeRunning, Match, Export, Miss, MissBelowCeiling, MissAboveCeiling, StopEarly, Leave,
                objVars
  <2>2. \A u \in Thread : pc[blk][u] = "matching" => pc'[blk][u] = "matching"
    BY <1>0, <2>1, DecodeFrame
  <2> QED
    BY <1>k, <2>1, <2>2 DEF VerdictInv, mutexVars
<1>2. CASE PublishVerdict(blk, t)
  <2>1. isMatched # NOTFOUND
    BY <1>2, <1>a DEF PublishVerdict, RunInv, VerdictInv
  <2>2. /\ isMatched' = FOUND /\ UNCHANGED <<notFound, matchCount, lastThread, gaveUp>>
        /\ pc'[blk][t] = "matching"
    BY <1>0, <1>2 DEF PublishVerdict, SetVerdict, Goto
  <2>3. main # "done"
    BY <1>2, <1>b DEF PublishVerdict
  <2> QED
    BY <1>k, <2>1, <2>2, <2>3 DEF VerdictInv, FOUND, NOTFOUND
<1>3. CASE PublishThread(blk, t)
  <2>1. isMatched # NOTFOUND /\ Passes(t) /\ t \notin gaveUp[blk]
    BY <1>3, <1>a DEF PublishThread, RunInv, VerdictInv
  <2>2. /\ lastThread' = t /\ UNCHANGED <<isMatched, notFound, gaveUp, buf, sig>>
        /\ pc'[blk][t] = "leaving"
    BY <1>0, <1>3 DEF PublishThread, SetThread, Goto, objVars
  <2>3. HasMatched(lastThread)'
    BY <2>1, <2>2 DEF HasMatched, Passes
  <2>4. main # "done"
    BY <1>3, <1>b DEF PublishThread
  <2> QED
    BY <1>k, <2>1, <2>2, <2>3, <2>4 DEF VerdictInv
<1>4. CASE GiveUp(blk, t)
  <2>1. /\ pc[blk][t] = "missed" /\ t \notin gaveUp[blk]
        /\ gaveUp' = [gaveUp EXCEPT ![blk] = gaveUp[blk] \cup {t}]
        /\ IncNotFound
    BY <1>4, <1>a DEF GiveUp, RunInv
  <2>2. gaveUp'[blk] = gaveUp[blk] \cup {t} /\ gaveUp[blk] \in SUBSET Thread /\ gaveUp'[blk] \in SUBSET Thread
    BY <1>0, <2>1
  <2>3. notFound' = Cardinality(gaveUp'[blk])
    BY <1>b, <2>1, <2>2, Counting DEF VerdictInv, IncNotFound
  <2>4. notFound' = ThreadCount => gaveUp'[blk] = Thread
    BY <2>2, <2>3, Counting
  <2>5. isMatched # NOTFOUND
    BY <2>1 DEF VerdictInv
  <2>6. isMatched = FOUND => notFound' # ThreadCount
    <3> SUFFICES ASSUME isMatched = FOUND, gaveUp'[blk] = Thread
                 PROVE  FALSE
      BY <2>4
    <3>1. PICK u \in Thread : u \notin gaveUp[blk] /\ pc[blk][u] \in {"matching", "leaving", "ended"}
      BY FoundWitness
    <3> QED
      BY <2>1, <2>2, <3>1
  <2>7. \A u \in Thread : pc[blk][u] = "matching" => pc'[blk][u] = "matching"
    BY <1>0, <2>1, DecodeFrame
  <2>8. UNCHANGED <<matchCount, lastThread, blk, main, early, named>>
    BY <2>1 DEF IncNotFound
  <2>9. isMatched' = IF notFound' = ThreadCount THEN NOTFOUND ELSE isMatched
    BY <2>1 DEF IncNotFound
  <2>10. isMatched' = FOUND => HasMatched(lastThread)' \/ \E u \in Thread : pc'[blk][u] = "matching"
    BY <1>k, <2>7, <2>8, <2>9 DEF VerdictInv, FOUND, NOTFOUND
  <2>11. isMatched' = NOTFOUND => gaveUp'[blk] = Thread
    BY <2>4, <2>5, <2>9
  <2>12. main # "done"
    BY <1>b, <2>1
  <2> QED
    BY <1>k, <2>3, <2>8, <2>10, <2>11, <2>12 DEF VerdictInv
<1> QED
  BY <1>1, <1>2, <1>3, <1>4 DEF Decode

\* A step of a run of this block.
LEMMA OwnStep ==
  ASSUME IInv, ScanInv, NEW t \in Thread, Scan(blk, t)
  PROVE  ScanInv'
<1>0. TypeOK /\ FutureInv /\ MainInv /\ VerdictInv /\ \A u \in Thread : OldInv(u) /\ RunInv(u)
  BY DEF IInv, ScanInv
<1>1. blk \in Block /\ ScanTypeOK /\ Decode(blk, t) /\ UNCHANGED <<main, blk, next, named, early>>
  BY <1>0 DEF Scan, mainVars, outVars, TypeOK
<1>2. main \notin {"configure", "register"}
  <2>1. ~(blk < blk)
    BY <1>1, Sizes
  <2> QED
    BY <1>0, <1>1, <2>1, OnlySpawnedRuns
<1>3. OldInv(t)' /\ RunInv(t)'
  BY <1>0, <1>1, <1>2, OwnRunStep
<1>4. ASSUME NEW u \in Thread \ {t}
      PROVE  OldInv(u)' /\ RunInv(u)'
  <2>1. /\ \A c \in Block : pc'[c][u] = pc[c][u]
        /\ stopped'[u] = stopped[u] /\ walk'[u] = walk[u] /\ buf'[u] = buf[u] /\ sig'[u] = sig[u]
        /\ u \in gaveUp'[blk] <=> u \in gaveUp[blk]
    BY <1>1, DecodeFrame
  <2> QED
    BY <1>0, <1>1, <2>1, RunFrame
<1>5. VerdictInv'
  BY <1>0, <1>1, <1>2, OwnVerdictStep
<1> QED
  BY <1>3, <1>4, <1>5 DEF ScanInv

-----------------------------------------------------------------------------
\* Main goes on without touching what the runs work with.
LEMMA QuietStep ==
  ASSUME IInv, ScanInv, UNCHANGED <<mutexVars, stopped, walk, buf, sig, pc, gaveUp, blk>>,
         main \notin {"configure", "register", "done"}, main' \notin {"configure", "register", "done"},
         main' = "write" /\ ~early' => HasMatched(named')
  PROVE  ScanInv'
<1>0. TypeOK /\ VerdictInv /\ \A u \in Thread : OldInv(u) /\ RunInv(u)
  BY DEF IInv, ScanInv
<1>1. \A u : (Passes(u)' <=> Passes(u)) /\ (Walked(u)' <=> Walked(u)) /\ (HasMatched(u)' <=> HasMatched(u))
  BY DEF Passes, Walked, HasMatched
<1>2. ASSUME NEW u \in Thread
      PROVE  OldInv(u)' /\ RunInv(u)'
  <2>1. Configured(u) /\ Registered(u) /\ Configured(u)' /\ Registered(u)'
    BY DEF Configured, Registered
  <2>2. RunInv(u)'
    BY <1>0, <1>1, <2>1 DEF RunInv, Exhausted
  <2>3. OldInv(u)'
    BY <1>0, <2>1 DEF OldInv, Live
  <2> QED
    BY <2>2, <2>3
<1>3. VerdictInv'
  BY <1>0, <1>1 DEF VerdictInv, mutexVars, HasMatched, Passes
<1> QED
  BY <1>2, <1>3 DEF ScanInv

\* Before the threads of a block are spawned none of them has matched.
LEMMA NoneHasMatched ==
  ASSUME TypeOK, FutureInv, main \in {"configure", "register"}
  PROVE  /\ \A u : ~HasMatched(u)
         /\ \A u \in Thread : pc[blk][u] = "none" /\ u \notin gaveUp[blk]
<1>1. \A u \in Thread : pc[blk][u] = "none" /\ u \notin gaveUp[blk]
  BY DEF TypeOK, FutureInv
<1> QED
  BY <1>1 DEF HasMatched

\* While main configures the objects the mutex stays as it was reset.
LEMMA MutexWaits ==
  ASSUME TypeOK, FutureInv, VerdictInv, main \in {"configure", "register"},
         UNCHANGED <<mutexVars, pc, gaveUp, blk>>, main' \in {"configure", "register", "spawn"}
  PROVE  VerdictInv'
<1>1. matchCount = 0 /\ isMatched # FOUND
  BY NoneHasMatched DEF VerdictInv
<1> QED
  BY <1>1 DEF VerdictInv, mutexVars

\* An object main configures and no earlier run still has is the block's alone.
LEMMA ConfigureStep ==
  ASSUME IInv, ScanInv, ConfigureThread, ~lagged'
  PROVE  ScanInv'
<1>0. TypeOK /\ ScanTypeOK /\ FutureInv /\ VerdictInv /\ \A u \in Thread : OldInv(u) /\ RunInv(u)
  BY DEF IInv, ScanInv, TypeOK
<1>1. /\ main = "configure" /\ main' = "register" /\ UNCHANGED <<mutexVars, buf, sig, pc, gaveUp, blk, next>>
      /\ stopped' = [stopped EXCEPT ![next] = FALSE]
      /\ walk' = [walk EXCEPT ![next] = <<blk, 0>>]
      /\ \A b \in 0 .. blk - 1 : ~Live(b, next)
  BY DEF ConfigureThread, Configure, runVars
<1>n. next \in Thread /\ Thread \subseteq Int
  BY <1>0, Sizes DEF ConfigureThread, TypeOK, Thread
<1>2. PICK n \in Thread : n = next /\ Thread \subseteq Int
  BY <1>n
<1>3. \A u \in Thread : pc[blk][u] = "none" /\ u \notin gaveUp[blk]
  BY <1>0, <1>1, NoneHasMatched
<1>4. VerdictInv'
  BY <1>0, <1>1, MutexWaits
<1>5. OldInv(n)' /\ RunInv(n)'
  <2>1. walk'[n] = <<blk, 0>> /\ ~stopped'[n] /\ ~Registered(n)'
    BY <1>0, <1>1, <1>2 DEF ScanTypeOK, Registered
  <2>2. Walked(n)'
    BY <1>1, <1>2, <1>3, <2>1 DEF Walked
  <2>3. RunInv(n)'
    BY <1>1, <1>2, <1>3, <2>1, <2>2 DEF RunInv
  <2>4. OldInv(n)'
    BY <1>1, <1>2 DEF OldInv, Live
  <2> QED
    BY <2>3, <2>4
<1>6. ASSUME NEW u \in Thread \ {n}
      PROVE  OldInv(u)' /\ RunInv(u)'
  <2>1. walk'[u] = walk[u] /\ stopped'[u] = stopped[u]
    BY <1>0, <1>1, <1>2 DEF ScanTypeOK
  <2>2. (Configured(u)' <=> Configured(u)) /\ (Registered(u)' <=> Registered(u))
    BY <1>1, <1>2 DEF Configured, Registered
  <2>3. (Walked(u)' <=> Walked(u)) /\ (Passes(u)' <=> Passes(u))
    BY <1>1, <2>1 DEF Walked, Passes
  <2>4. RunInv(u)'
    BY <1>0, <1>1, <2>1, <2>2, <2>3 DEF RunInv, Exhausted
  <2>5. OldInv(u)'
    BY <1>0, <1>1, <2>1, <2>2 DEF OldInv, Live
  <2> QED
    BY <2>4, <2>5
<1> QED
  BY <1>4, <1>5, <1>6 DEF ScanInv

\* The object gets the signatures of the block.
LEMMA RegisterStep ==
  ASSUME IInv, ScanInv, CopyRegister
  PROVE  ScanInv'
<1>0. TypeOK /\ ScanTypeOK /\ FutureInv /\ VerdictInv /\ \A u \in Thread : OldInv(u) /\ RunInv(u)
  BY DEF IInv, ScanInv, TypeOK
<1>1. /\ main = "register" /\ main' = "configure" /\ next' = next + 1
      /\ UNCHANGED <<mutexVars, stopped, walk, buf, pc, gaveUp, blk>>
      /\ sig' = [sig EXCEPT ![next] = blk]
  BY DEF CopyRegister, runVars
<1>2. next \in Thread /\ Thread \subseteq Int
  BY <1>0, <1>1, Sizes DEF IInv, MainInv, TypeOK, Thread
<1>3. \A u \in Thread : pc[blk][u] = "none" /\ u \notin gaveUp[blk]
  BY <1>0, <1>1, NoneHasMatched
<1>4. VerdictInv'
  BY <1>0, <1>1, MutexWaits
<1>5. ASSUME NEW u \in Thread
      PROVE  OldInv(u)' /\ RunInv(u)'
  <2>1. Configured(u)' <=> Configured(u)
    BY <1>1, <1>2 DEF Configured
  <2>2. Registered(u)' => sig'[u] = blk \/ (Registered(u) /\ sig'[u] = sig[u])
    BY <1>0, <1>1, <1>2 DEF Registered, ScanTypeOK
  <2>3. Walked(u)' <=> Walked(u)
    BY <1>1 DEF Walked
  <2>4. RunInv(u)'
    BY <1>0, <1>1, <1>3, <2>1, <2>2, <2>3 DEF RunInv
  <2>5. OldInv(u)'
    BY <1>0, <1>1, <2>1 DEF OldInv, Live
  <2> QED
    BY <2>4, <2>5
<1> QED
  BY <1>4, <1>5 DEF ScanInv

LEMMA ConfiguredStep ==
  ASSUME IInv, ScanInv, AllConfigured
  PROVE  ScanInv'
<1>0. TypeOK /\ FutureInv /\ VerdictInv /\ \A u \in Thread : OldInv(u) /\ RunInv(u)
  BY DEF IInv, ScanInv
<1>1. /\ main = "configure" /\ main' = "spawn" /\ next = ThreadCount
      /\ UNCHANGED <<mutexVars, stopped, walk, buf, sig, pc, gaveUp, blk>>
  BY DEF AllConfigured, scanVars, objVars, runVars
<1>2. VerdictInv'
  BY <1>0, <1>1, MutexWaits
<1>3. ASSUME NEW u \in Thread
      PROVE  OldInv(u)' /\ RunInv(u)'
  <2>1. u < next
    BY <1>1, Sizes DEF Thread
  <2>2. Configured(u) /\ Registered(u) /\ Configured(u)' /\ Registered(u)'
    BY <1>1, <2>1 DEF Configured, Registered
  <2>3. (Walked(u)' <=> Walked(u)) /\ (Passes(u)' <=> Passes(u))
    BY <1>1 DEF Walked, Passes
  <2>4. RunInv(u)'
    BY <1>0, <1>1, <2>2, <2>3 DEF RunInv, Exhausted
  <2>5. OldInv(u)'
    BY <1>0, <1>1, <2>2 DEF OldInv, Live
  <2> QED
    BY <2>4, <2>5
<1> QED
  BY <1>2, <1>3 DEF ScanInv

\* Spawning a thread starts its run at the first candidate.
LEMMA SpawnStep ==
  ASSUME IInv, ScanInv, Spawn
  PROVE  ScanInv'
<1>0. TypeOK /\ ScanTypeOK /\ blk \in Block /\ VerdictInv /\ \A u \in Thread : OldInv(u) /\ RunInv(u)
  BY DEF IInv, ScanInv, TypeOK
<1>1. /\ main = "spawn" /\ main' = "spawn" /\ pc[blk][next] = "none"
      /\ pc' = [pc EXCEPT ![blk][next] = "scan"]
      /\ UNCHANGED <<mutexVars, stopped, walk, buf, sig, gaveUp, blk>>
  BY DEF Spawn, SpawnRun, Goto, objVars
<1>2. next \in Thread
  BY <1>0, Sizes DEF Spawn, TypeOK, Thread
<1>3. ASSUME NEW u \in Thread
      PROVE  /\ Configured(u) /\ Registered(u) /\ Configured(u)' /\ Registered(u)'
             /\ Passes(u)' <=> Passes(u)
  BY <1>1 DEF Configured, Registered, Passes
<1>4. pc'[blk][next] = "scan" /\ \A u \in Thread \ {next} : pc'[blk][u] = pc[blk][u]
  BY <1>0, <1>1, <1>2 DEF ScanTypeOK
<1>5. ASSUME NEW u \in Thread
      PROVE  RunInv(u)'
  <2>1. CASE u = next
    BY <1>0, <1>1, <1>2, <1>3, <1>4, <2>1 DEF RunInv, Walked
  <2>2. CASE u # next
    <3>1. Walked(u)' <=> Walked(u)
      BY <1>1, <1>4, <2>2 DEF Walked
    <3> QED
      BY <1>0, <1>1, <1>3, <1>4, <2>2, <3>1 DEF RunInv, Exhausted
  <2> QED
    BY <2>1, <2>2
<1>6. ASSUME NEW u \in Thread
      PROVE  OldInv(u)'
  <2>1. ASSUME NEW c \in 0 .. blk - 1, Live(c, u)'
        PROVE  FALSE
    <3>1. c \in Block /\ c # blk
      BY <1>0, Sizes DEF Block
    <3>2. pc'[c][u] = pc[c][u]
      BY <1>0, <1>1, <3>1 DEF ScanTypeOK
    <3> QED
      BY <1>0, <1>3, <2>1, <3>2 DEF OldInv, Live
  <2> QED
    BY <1>1, <2>1 DEF OldInv
<1>7. ASSUME NEW u, HasMatched(u)
      PROVE  HasMatched(u)'
  BY <1>1, <1>4, <1>7 DEF HasMatched, Passes
<1>8. \A u \in Thread : pc[blk][u] = "matching" => pc'[blk][u] = "matching"
  BY <1>1, <1>4
<1>9. VerdictInv'
  BY <1>0, <1>1, <1>7, <1>8 DEF VerdictInv, mutexVars
<1> QED
  BY <1>5, <1>6, <1>9 DEF ScanInv

\* Main goes on to the next block after every run has said it stopped.
LEMMA NextBlockStep ==
  ASSUME IInv, ScanInv, NextBlock
  PROVE  ScanInv'
<1>0. TypeOK /\ FutureInv /\ MainInv /\ \A u \in Thread : OldInv(u) /\ RunInv(u)
  BY DEF IInv, ScanInv
<1>1. /\ main = "reset" /\ isMatched' = SEARCHING /\ notFound' = 0 /\ matchCount' = 0
      /\ UNCHANGED <<stopped, walk, buf, sig, pc, gaveUp>>
  BY DEF NextBlock, ResetMatched, objVars, runVars
<1>2. ASSUME NEW u \in Thread
      PROVE  /\ stopped[u] /\ Configured(u) /\ pc[blk][u] \in {"leaving", "ended"}
             /\ \A b \in 0 .. blk - 1 : ~Live(b, u)
  <2>1. stopped[u] /\ Configured(u)
    BY <1>0, <1>1 DEF MainInv, Configured
  <2> QED
    BY <1>0, <2>1 DEF RunInv, OldInv
<1>3. CASE blk + 1 < BlockCount
  <2>1. main' = "configure" /\ next' = 0 /\ blk' = blk + 1 /\ blk + 1 \in Block /\ blk \in Nat
    BY <1>0, <1>3, Sizes DEF NextBlock, TypeOK, Block
  <2>2. ASSUME NEW u \in Thread
        PROVE  ~Configured(u)' /\ pc[blk + 1][u] = "none" /\ u \notin gaveUp[blk + 1]
    BY <1>0, <2>1 DEF Configured, FutureInv, Thread
  <2>3. ASSUME NEW u \in Thread
        PROVE  OldInv(u)' /\ RunInv(u)'
    <3>1. ASSUME NEW b \in 0 .. blk' - 1, Live(b, u)'
          PROVE  pc'[b][u] = "leaving"
      <4>1. b \in 0 .. blk - 1 \/ b = blk
        BY <2>1
      <4>2. Live(b, u)
        BY <1>1, <3>1 DEF Live
      <4> QED
        BY <1>1, <1>2, <4>1, <4>2 DEF Live
    <3> QED
      BY <1>1, <1>2, <2>2, <3>1 DEF OldInv, RunInv
  <2>4. gaveUp[blk + 1] = {}
    BY <1>0, <2>1, <2>2 DEF TypeOK, ScanTypeOK
  <2>5. VerdictInv'
    <3>1. notFound' = Cardinality(gaveUp'[blk'])
      BY <1>1, <2>1, <2>4, FS_EmptySet
    <3> QED
      BY <1>1, <2>1, <3>1 DEF VerdictInv, SEARCHING, FOUND, NOTFOUND
  <2> QED
    BY <2>3, <2>5 DEF ScanInv
<1>4. CASE ~(blk + 1 < BlockCount)
  <2>1. main' = "done" /\ blk' = blk
    BY <1>4 DEF NextBlock
  <2>2. ASSUME NEW u \in Thread
        PROVE  OldInv(u)' /\ RunInv(u)'
    <3>1. Configured(u)' /\ Registered(u)' /\ Registered(u)
      BY <1>1, <2>1 DEF Configured, Registered
    <3>2. (Walked(u)' <=> Walked(u)) /\ (Passes(u)' <=> Passes(u))
      BY <1>1, <2>1 DEF Walked, Passes
    <3>3. RunInv(u)'
      BY <1>0, <1>1, <1>2, <2>1, <3>1, <3>2 DEF RunInv, Exhausted
    <3>4. OldInv(u)'
      BY <1>1, <1>2, <2>1 DEF OldInv, Live
    <3> QED
      BY <3>3, <3>4
  <2>3. VerdictInv'
    BY <1>1, <2>1 DEF VerdictInv, SEARCHING, FOUND, NOTFOUND
  <2> QED
    BY <2>2, <2>3 DEF ScanInv
<1> QED
  BY <1>3, <1>4

-----------------------------------------------------------------------------
\* A step of main keeps what is known of the runs, unless it takes an object from under one.
LEMMA MainScan ==
  ASSUME IInv, Main, ~lagged'
  PROVE  ScanInv'
<1>1. ~lagged /\ ScanInv
  <2>1. ~lagged
    BY DEF Main, ConfigureThread, CopyRegister, AllConfigured, Spawn, AllSpawned, SeeVerdict, SkipBlock,
           BlockFound, PickThread, WriteBlock, BadIndex, StopThread, SeeStopped, AllStopped, NextBlock, outVars
  <2> QED
    BY <2>1 DEF IInv
<1>2. CASE ConfigureThread \/ CopyRegister \/ AllConfigured \/ Spawn \/ NextBlock
  BY <1>1, <1>2, ConfigureStep, RegisterStep, ConfiguredStep, SpawnStep, NextBlockStep
<1>3. CASE PickThread
  <2>1. named' = lastThread /\ (~early' => matchCount # 0) /\ main = "pick" /\ main' = "write"
        /\ UNCHANGED <<mutexVars, stopped, walk, buf, sig, pc, gaveUp, blk>>
    BY <1>3 DEF PickThread, scanVars, objVars, runVars
  <2>2. ~early' => HasMatched(named')
    BY <1>1, <2>1 DEF ScanInv, VerdictInv
  <2> QED
    BY <1>1, <2>1, <2>2, QuietStep
<1>4. CASE AllSpawned \/ SeeVerdict \/ SkipBlock \/ BlockFound \/ WriteBlock \/ BadIndex \/ StopThread
           \/ SeeStopped \/ AllStopped
  <2>1. /\ UNCHANGED <<mutexVars, stopped, walk, buf, sig, pc, gaveUp, blk>>
        /\ main \notin {"configure", "register", "done"} /\ main' \notin {"configure", "register", "done", "write"}
    BY <1>4 DEF AllSpawned, SeeVerdict, SkipBlock, BlockFound, WriteBlock, BadIndex, StopThread, SeeStopped,
                AllStopped, scanVars, objVars, runVars
  <2> QED
    BY <1>1, <2>1, QuietStep
<1> QED
  BY <1>2, <1>3, <1>4 DEF Main

LEMMA MainFuture ==
  ASSUME IInv, Main
  PROVE  FutureInv'
<1>0. TypeOK /\ FutureInv /\ blk \in Block /\ ScanTypeOK
  BY DEF IInv, TypeOK
<1>1. CASE Spawn
  <2>1. main' = "spawn" /\ UNCHANGED <<blk, gaveUp>> /\ pc' = [pc EXCEPT ![blk][next] = "scan"]
    BY <1>1 DEF Spawn, SpawnRun, Goto
  <2>2. ASSUME NEW b \in Block, NEW t \in Thread, b > blk
        PROVE  pc'[b][t] = "none" /\ t \notin gaveUp'[b]
    <3>1. b # blk
      BY <1>0, <2>2, Sizes
    <3> QED
      BY <1>0, <2>1, <2>2, <3>1 DEF FutureInv, ScanTypeOK
  <2> QED
    BY <2>1, <2>2 DEF FutureInv
<1>2. CASE NextBlock
  <2>1. UNCHANGED <<pc, gaveUp>>
    BY <1>2 DEF NextBlock, runVars
  <2>2. (main' = "configure" /\ blk' = blk + 1) \/ (main' = "done" /\ blk' = blk)
    BY <1>2 DEF NextBlock
  <2>3. ASSUME NEW b \in Block, b > blk' \/ (b = blk' /\ main' \in {"configure", "register"})
        PROVE  b > blk
    BY <1>0, <2>2, <2>3, Sizes
  <2> QED
    BY <1>0, <2>1, <2>3 DEF FutureInv
<1>3. CASE ~Spawn /\ ~NextBlock
  <2>1. UNCHANGED <<pc, gaveUp, blk>> /\ (main' \in {"configure", "register"} => main \in {"configure", "register"})
    BY <1>3 DEF Main, ConfigureThread, CopyRegister, AllConfigured, AllSpawned, SeeVerdict, SkipBlock,
                BlockFound, PickThread, WriteBlock, BadIndex, StopThread, SeeStopped, AllStopped,
                scanVars, runVars
  <2> QED
    BY <1>0, <2>1 DEF FutureInv
<1> QED
  BY <1>1, <1>2, <1>3

LEMMA MainLoops ==
  ASSUME IInv, Main
  PROVE  MainInv'
<1>0. MainInv /\ next \in 0 .. ThreadCount
  BY DEF IInv, TypeOK
<1>1. CASE ConfigureThread
  BY <1>1 DEF ConfigureThread, MainInv
<1>2. CASE SkipBlock \/ WriteBlock
  <2>1. main' = "stop" /\ next' = 0 /\ stopped' = stopped
    BY <1>2 DEF SkipBlock, WriteBlock, scanVars, objVars
  <2>2. 0 .. next' - 1 = {}
    BY <2>1
  <2> QED
    BY <2>1, <2>2 DEF MainInv
<1>3. CASE StopThread
  BY <1>0, <1>3 DEF StopThread, MainInv
<1>4. CASE SeeStopped
  <2>1. /\ main = "join" /\ main' = "stop" /\ next' = next + 1 /\ stopped[next] /\ stopped' = stopped
    BY <1>4 DEF SeeStopped, scanVars, objVars
  <2>2. ASSUME NEW u \in 0 .. next' - 1
        PROVE  stopped[u]
    <3>1. u \in 0 .. next - 1 \/ u = next
      BY <1>0, <2>1, Sizes
    <3> QED
      BY <1>0, <2>1, <3>1 DEF MainInv
  <2> QED
    BY <2>1, <2>2 DEF MainInv
<1>5. CASE AllStopped
  <2>1. main = "stop" /\ next = ThreadCount /\ main' = "reset" /\ stopped' = stopped
    BY <1>5 DEF AllStopped, scanVars, objVars
  <2> QED
    BY <1>0, <2>1 DEF MainInv, Thread
<1>6. CASE NextBlock
  BY <1>0, <1>6 DEF NextBlock, MainInv, objVars
<1>7. CASE CopyRegister \/ AllConfigured \/ Spawn \/ AllSpawned \/ SeeVerdict \/ BlockFound \/ PickThread \/ BadIndex
  <2>1. main' \in {"configure", "spawn", "await", "branch", "pick", "write", "crashed"}
    BY <1>7 DEF CopyRegister, AllConfigured, Spawn, AllSpawned, SeeVerdict, BlockFound, PickThread, BadIndex
  <2> QED
    BY <2>1 DEF MainInv
<1> QED
  BY <1>1, <1>2, <1>3, <1>4, <1>5, <1>6, <1>7 DEF Main

-----------------------------------------------------------------------------
\* The bytes main writes for a block it found, and the blocks it leaves out.
LEMMA WriteStep ==
  ASSUME IInv, WriteBlock
  PROVE  WrittenInv'
<1> DEFINE w == [block |-> blk, thread |-> named, raced |-> early \/ lagged,
                 candidate |-> IF named \in Thread THEN buf[named] ELSE FreshBuffer]
           n == Len(written) + 1
           SettledNext(b) == b < blk' \/ (b = blk' /\ main' \in {"stop", "join", "reset", "done"})
<1>0. TypeOK /\ WrittenInv /\ written \in Seq(Entry) /\ blk \in Nat
  BY Sizes DEF IInv, TypeOK
<1>1. /\ main = "write" /\ main' = "stop" /\ written' = Append(written, w)
      /\ UNCHANGED <<blk, lagged>>
  BY DEF WriteBlock
<1>2. /\ Len(written) \in Nat /\ Len(written') = n /\ written'[n] = w
      /\ \A i \in 1 .. Len(written) : written'[i] = written[i]
  BY <1>0, <1>1
<1>3. \A i \in 1 .. n : i \in 1 .. Len(written) \/ i = n
  BY <1>2
<1>4. ASSUME NEW i \in 1 .. Len(written)
      PROVE  written[i].block \in Nat /\ written[i].block < blk
  <2>0. written[i] \in Entry
    BY <1>0, <1>2
  <2>1. written[i].block \in Nat
    BY <2>0, Sizes DEF Entry
  <2>2. Settled(written[i].block)
    BY <1>0 DEF WrittenInv
  <2> QED
    BY <1>1, <2>1, <2>2 DEF Settled
<1>5. w.raced \/ Right(w)
  <2> SUFFICES ASSUME ~early, ~lagged
               PROVE  Right(w)
    OBVIOUS
  <2>1. HasMatched(named) /\ \A u \in Thread : RunInv(u)
    BY <1>1 DEF IInv, ScanInv, VerdictInv
  <2>2. named \in Thread /\ Passes(named) /\ sig[named] = blk
    BY <1>1, <2>1 DEF HasMatched, RunInv, Configured, Registered
  <2>3. buf[named][1] = blk /\ <<blk, named, buf[named][2]>> \in Hits
    BY <2>2 DEF Passes
  <2>4. w.candidate = buf[named] /\ w.block = blk /\ w.thread = named
    BY <2>2
  <2> HIDE DEF w
  <2> QED
    BY <2>3, <2>4 DEF Right
<1>6. w.block = blk
  OBVIOUS
<1> HIDE DEF w, n
<1>7. ASSUME NEW i \in 1 .. Len(written')
      PROVE  SettledNext(written'[i].block) /\ (written'[i].raced \/ Right(written'[i]))
  <2>1. CASE i \in 1 .. Len(written)
    <3>1. written[i].raced \/ Right(written[i])
      BY <1>0, <2>1 DEF WrittenInv
    <3>2. written[i].block < blk
      BY <1>4, <2>1
    <3> QED
      BY <1>1, <1>2, <2>1, <3>1, <3>2
  <2>2. CASE i = n
    BY <1>1, <1>2, <1>5, <1>6, <2>2
  <2> QED
    BY <1>2, <1>3, <2>1, <2>2
<1>8. ASSUME NEW i \in 1 .. Len(written'), NEW j \in 1 .. Len(written'), i < j
      PROVE  written'[i].block < written'[j].block
  <2>1. i \in 1 .. Len(written)
    BY <1>2, <1>3, <1>8 DEF n
  <2>2. CASE j \in 1 .. Len(written)
    BY <1>0, <1>2, <1>8, <2>1, <2>2 DEF WrittenInv
  <2>3. CASE j = n
    BY <1>2, <1>4, <1>6, <2>1, <2>3
  <2> QED
    BY <1>2, <1>3, <2>2, <2>3
<1>9. ASSUME NEW b \in Block, Settled(b)'
      PROVE  lagged' \/ (\E i \in 1 .. Len(written') : written'[i].block = b) \/ \A t \in Thread : Exhausted(b, t)
  <2>1. CASE b = blk
    <3>1. n \in 1 .. Len(written') /\ written'[n].block = b
      BY <1>2, <1>6, <2>1 DEF n
    <3> QED
      BY <3>1
  <2>2. CASE b # blk
    <3>1. Settled(b)
      BY <1>1, <1>9, <2>2 DEF Settled
    <3>2. \A i \in 1 .. Len(written) : i \in 1 .. Len(written') /\ written'[i] = written[i]
      BY <1>2 DEF n
    <3> QED
      BY <1>0, <1>1, <3>1, <3>2 DEF WrittenInv
  <2> QED
    BY <2>1, <2>2
<1> QED
  BY <1>7, <1>8, <1>9 DEF WrittenInv, Right, Exhausted, Settled

LEMMA MainWritten ==
  ASSUME IInv, Main
  PROVE  WrittenInv'
<1> DEFINE SettledNext(b) == b < blk' \/ (b = blk' /\ main' \in {"stop", "join", "reset", "done"})
<1>0. TypeOK /\ WrittenInv /\ written \in Seq(Entry) /\ blk \in Nat /\ lagged \in BOOLEAN
  BY Sizes DEF IInv, TypeOK
<1>1. CASE WriteBlock
  BY <1>1, WriteStep
<1>2. CASE ~WriteBlock
  <2>0. written' = written
    BY <1>2 DEF Main, ConfigureThread, CopyRegister, AllConfigured, Spawn, AllSpawned, SeeVerdict, SkipBlock,
                BlockFound, PickThread, BadIndex, StopThread, SeeStopped, AllStopped, NextBlock, outVars
  <2>1. ASSUME lagged
        PROVE  lagged'
    BY <1>2, <2>1 DEF Main, ConfigureThread, CopyRegister, AllConfigured, Spawn, AllSpawned, SeeVerdict,
                SkipBlock, BlockFound, PickThread, BadIndex, StopThread, SeeStopped, AllStopped, NextBlock, outVars
  <2>2. ASSUME NEW b \in Nat, Settled(b)
        PROVE  SettledNext(b)
    BY <1>0, <1>2, <2>2 DEF Main, Settled, ConfigureThread, CopyRegister, AllConfigured, Spawn, AllSpawned,
          SeeVerdict, SkipBlock, BlockFound, PickThread, BadIndex, StopThread, SeeStopped, AllStopped, NextBlock
  <2>3. ASSUME NEW b \in Nat, SettledNext(b), ~Settled(b)
        PROVE  SkipBlock /\ b = blk
    BY <1>0, <1>2, <2>3 DEF Main, Settled, ConfigureThread, CopyRegister, AllConfigured, Spawn, AllSpawned,
          SeeVerdict, SkipBlock, BlockFound, PickThread, BadIndex, StopThread, SeeStopped, AllStopped, NextBlock
  <2>4. SkipBlock /\ ~lagged => \A t \in Thread : Exhausted(blk, t)
    <3> SUFFICES ASSUME SkipBlock, ~lagged, NEW t \in Thread
                 PROVE  Exhausted(blk, t)
      OBVIOUS
    <3>1. gaveUp[blk] = Thread /\ RunInv(t) /\ main = "branch"
      BY DEF SkipBlock, IInv, ScanInv, VerdictInv
    <3> QED
      BY <3>1 DEF RunInv, Configured
  <2>5. ASSUME NEW i \in 1 .. Len(written)
        PROVE  written[i].block \in Nat
    <3>1. written[i] \in Entry
      BY <1>0
    <3> QED
      BY <3>1, Sizes DEF Entry
  <2>6. ASSUME NEW b \in Block, SettledNext(b)
        PROVE  lagged' \/ (\E i \in 1 .. Len(written) : written[i].block = b) \/ \A t \in Thread : Exhausted(b, t)
    <3>0. b \in Nat
      BY Sizes
    <3>1. CASE Settled(b)
      BY <1>0, <2>1, <3>1 DEF WrittenInv
    <3>2. CASE ~Settled(b)
      BY <2>1, <2>3, <2>4, <2>6, <3>0, <3>2
    <3> QED
      BY <3>1, <3>2
  <2>7. \A i \in 1 .. Len(written) : SettledNext(written[i].block)
    <3> HIDE DEF SettledNext
    <3> QED
      BY <1>0, <2>2, <2>5 DEF WrittenInv
  <2> QED
    BY <1>0, <2>0, <2>1, <2>6, <2>7 DEF WrittenInv, Right, Exhausted, Settled
<1> QED
  BY <1>1, <1>2

-----------------------------------------------------------------------------
LEMMA InvInit == Init => IInv
<1> SUFFICES ASSUME Init
             PROVE  IInv
  OBVIOUS
<1> USE Sizes DEF Init, ScanInit, MutexInit
<1>1. TypeOK
  <2>1. <<0, 0>> \in Candidate /\ 0 \in 0 .. LineBound /\ 0 \in 0 .. ThreadCount
    BY ScanAssumption DEF Candidate
  <2>2. ScanTypeOK
    BY <2>1 DEF ScanTypeOK, MutexTypeOK, Labels
  <2>3. named \in Thread \cup {Garbage} /\ written \in Seq(Entry)
    OBVIOUS
  <2>4. early \in BOOLEAN /\ lagged \in BOOLEAN
    OBVIOUS
  <2> QED
    BY <2>1, <2>2, <2>3, <2>4 DEF TypeOK, MainLabels
<1>2. FutureInv /\ MainInv
  BY DEF FutureInv, MainInv
<1>3. WrittenInv
  <2>1. \A b \in Block : ~Settled(b)
    BY DEF Settled
  <2> QED
    BY <2>1 DEF WrittenInv
<1>4. ScanInv
  <2>1. \A t \in Thread : ~Configured(t)
    BY DEF Configured, Thread
  <2>2. \A t \in Thread : OldInv(t) /\ RunInv(t)
    BY <2>1 DEF OldInv, RunInv, Live
  <2>3. VerdictInv
    BY FS_EmptySet DEF VerdictInv, SEARCHING, NOTFOUND, FOUND
  <2> QED
    BY <2>2, <2>3 DEF ScanInv
<1> QED
  BY <1>1, <1>2, <1>3, <1>4 DEF IInv

LEMMA InvStep == IInv /\ [Next]_vars => IInv'
<1> SUFFICES ASSUME IInv, [Next]_vars
             PROVE  IInv'
  OBVIOUS
<1>1. TypeOK'
  BY TypingStep DEF IInv
<1>2. ASSUME NEW b \in Block, NEW t \in Thread, Scan(b, t)
      PROVE  IInv'
  <2>1. Decode(b, t) /\ lagged' = lagged
    BY <1>2 DEF Scan, mainVars, outVars
  <2>2. b \in 0 .. blk - 1 \/ b = blk
    BY <2>1, OnlySpawnedRuns, Sizes DEF IInv, TypeOK, Block
  <2>3. ScanInv => ScanInv'
    BY <1>2, <2>2, OldStep, OwnStep
  <2> QED
    BY <1>1, <1>2, <2>1, <2>3, DecodeFuture, DecodeMain, DecodeWritten DEF IInv
<1>3. CASE Main
  BY <1>1, <1>3, MainScan, MainFuture, MainLoops, MainWritten DEF IInv
<1>4. CASE UNCHANGED vars
  <2> USE <1>4 DEF vars, scanVars, mutexVars, objVars, runVars, mainVars, outVars
  <2>1. FutureInv' /\ MainInv'
    BY DEF IInv, FutureInv, MainInv
  <2>2. WrittenInv'
    BY DEF IInv, WrittenInv, Settled, Right, Exhausted
  <2>3. ScanInv => ScanInv'
    BY DEF ScanInv, OldInv, RunInv, VerdictInv, Live, Configured, Registered, Walked, Passes, Exhausted, HasMatched
  <2> QED
    BY <1>1, <2>1, <2>2, <2>3 DEF IInv
<1> QED
  BY <1>2, <1>3, <1>4 DEF Next, Finished

\* mdunzip keeps its inductive invariant.
THEOREM UnzipInvariance == Spec => []IInv
BY InvInit, InvStep, PTL DEF Spec

\* Every variable keeps its type, the two racy histories included.
THEOREM UnzipTyping == Spec => []TypeOK
BY UnzipInvariance, PTL DEF IInv

\* When main goes on to another block, all that a run of an earlier block can have left to
\* do is to repeat its store of stopped on an object that still says so.
THEOREM UnzipHandOver == Spec => []HandOverRacesOnlyTheLastStore
<1>1. IInv => HandOverRacesOnlyTheLastStore
  BY DEF IInv, ScanInv, OldInv, HandOverRacesOnlyTheLastStore
<1> QED
  BY <1>1, UnzipInvariance, PTL

\* The verdict main acts on was given by runs of the block main is at.
THEOREM UnzipVerdict == Spec => []VerdictIsOfThisBlock
<1>1. IInv => VerdictIsOfThisBlock
  <2> SUFFICES ASSUME IInv, ~lagged
               PROVE  /\ isMatched = FOUND =>
                           \E t \in Thread : pc[blk][t] \in {"matching", "leaving", "ended"} /\ Passes(t)
                      /\ isMatched = NOTFOUND => gaveUp[blk] = Thread
    BY DEF VerdictIsOfThisBlock
  <2>1. TypeOK /\ FutureInv /\ VerdictInv /\ \A t \in Thread : RunInv(t)
    BY DEF IInv, ScanInv
  <2>2. ASSUME NEW t \in Thread, pc[blk][t] = "matching"
        PROVE  Passes(t)
    <3>1. main \notin {"configure", "register"}
      BY <2>1, <2>2 DEF FutureInv, TypeOK
    <3> QED
      BY <2>1, <2>2, <3>1 DEF RunInv, Configured
  <2> QED
    BY <2>1, <2>2 DEF VerdictInv, HasMatched
<1> QED
  BY <1>1, UnzipInvariance, PTL

\* The bytes written for a block have its signatures, unless the thread number was read
\* between the two stores of setMatched or an object was taken from under a run.
THEOREM UnzipWritten == Spec => []WrittenIsRight
<1>1. IInv => WrittenIsRight
  BY DEF IInv, WrittenInv, WrittenIsRight
<1> QED
  BY <1>1, UnzipInvariance, PTL

\* The blocks come out in the order of the file, each at most once, and one that is left
\* out is one that no thread meets below its ceiling.
THEOREM UnzipOrder == Spec => []BlocksInOrder
<1>1. IInv => BlocksInOrder
  <2> SUFFICES ASSUME IInv, main \in {"configure", "done"},
                      NEW b \in 0 .. (IF main = "done" THEN blk ELSE blk - 1)
               PROVE  \/ lagged
                      \/ \E i \in 1 .. Len(written) : written[i].block = b
                      \/ \A t \in Thread : \A k \in 0 .. Ceiling[b][t] - 1 : <<b, t, k>> \notin Hits
    BY DEF BlocksInOrder, IInv, WrittenInv
  <2>1. b \in Block /\ Settled(b)
    BY Sizes DEF IInv, TypeOK, Block, Settled
  <2> QED
    BY <2>1 DEF IInv, WrittenInv, Exhausted
<1> QED
  BY <1>1, UnzipInvariance, PTL

=============================================================================
