---------------------------- MODULE MdTest_proofs ----------------------------
(***************************************************************************)
(* Proofs about mdtest for every number of threads, every set of matching  *)
(* candidates and every ceiling.                                           *)
(***************************************************************************)
EXTENDS MdTest, TLAPS, FiniteSetTheorems

\* mdtest scans a single block.
LEMMA SingleBlock ==
  /\ Block = {0}
  /\ 0 \in Block
  /\ ThreadCount \in Nat \ {0}
BY OriginalAssumption, ThreadCountAssumption DEF Block

\* The scan threads keep every variable in its type.
LEMMA ScanTyping ==
  ASSUME ScanTypeOK, NEW t \in Thread, Decode(0, t)
  PROVE  ScanTypeOK'
<1> USE SingleBlock DEF ScanTypeOK
<1>1. CASE Export(0, t)
  BY <1>1 DEF Export, Goto, Labels, mutexVars, MutexTypeOK
<1>2. CASE SeeStop(0, t) \/ SeeRunning(0, t)
  BY <1>2 DEF SeeStop, SeeRunning, Goto, Labels, mutexVars, objVars, MutexTypeOK
<1>3. CASE Match(0, t)
  BY <1>3 DEF Match, Goto, Labels, mutexVars, objVars, MutexTypeOK
<1>4. CASE Miss(0, t)
  BY <1>4, ScanAssumption DEF Miss, Goto, Labels, mutexVars, MutexTypeOK, Advance, UpTo, Candidate
<1>5. CASE MissBelowCeiling(0, t)
  BY <1>5, ScanAssumption DEF MissBelowCeiling, Goto, Labels, mutexVars, MutexTypeOK, Advance, UpTo, Candidate
<1>6. CASE MissAboveCeiling(0, t)
  BY <1>6, ScanAssumption DEF MissAboveCeiling, Goto, Labels, mutexVars, objVars, MutexTypeOK
<1>7. CASE PublishVerdict(0, t)
  BY <1>7 DEF PublishVerdict, Goto, Labels, SetVerdict, objVars, MutexTypeOK
<1>8. CASE PublishThread(0, t)
  BY <1>8 DEF PublishThread, Goto, Labels, SetThread, objVars, MutexTypeOK
<1>9. CASE GiveUp(0, t)
  BY <1>9 DEF GiveUp, Goto, Labels, IncNotFound, objVars, MutexTypeOK
<1>10. CASE StopEarly(0, t)
  BY <1>10 DEF StopEarly, Goto, Labels, mutexVars, MutexTypeOK
<1>11. CASE Leave(0, t)
  BY <1>11 DEF Leave, Goto, Labels, mutexVars, MutexTypeOK
<1> QED
  BY <1>1, <1>2, <1>3, <1>4, <1>5, <1>6, <1>7, <1>8, <1>9, <1>10, <1>11 DEF Decode

\* Type correctness of the whole program.
LEMMA TypingStep == TypeOK /\ [Next]_vars => TypeOK'
<1> SUFFICES ASSUME TypeOK, [Next]_vars
             PROVE  TypeOK'
  OBVIOUS
<1>1. ASSUME NEW t \in Thread, Scan(t)
      PROVE  TypeOK'
  BY <1>1, ScanTyping DEF Scan, mainVars, TypeOK
<1>2. CASE Spawn
  <2>1. next \in Thread /\ next + 1 \in 0 .. ThreadCount
    BY <1>2, SingleBlock DEF Spawn, TypeOK, Thread
  <2> QED
    BY <1>2, <2>1, SingleBlock
  DEF Spawn, SpawnRun, Goto, Labels, TypeOK, ScanTypeOK, mutexVars, objVars, MutexTypeOK, MainLabels
<1>3. CASE StopThread
  BY <1>3, SingleBlock
  DEF StopThread, TypeOK, ScanTypeOK, mutexVars, runVars, MutexTypeOK, MainLabels, Thread
<1>4. CASE SkipDecode \/ RunDecode \/ AllSpawned \/ SeeVerdict \/ SeeStopped \/ AllStopped
           \/ ReportNotFound \/ ReportMatch \/ Delete
  <2> USE SingleBlock DEF TypeOK, ScanTypeOK, MutexTypeOK, scanVars, mutexVars, objVars, runVars, MainLabels
  <2>1. CASE SkipDecode
    BY <2>1 DEF SkipDecode
  <2>2. CASE RunDecode
    BY <2>2 DEF RunDecode
  <2>3. CASE AllSpawned
    BY <2>3 DEF AllSpawned
  <2>4. CASE SeeVerdict
    BY <2>4 DEF SeeVerdict
  <2>5. CASE SeeStopped
    BY <2>5 DEF SeeStopped
  <2>6. CASE AllStopped
    BY <2>6 DEF AllStopped
  <2>7. CASE ReportNotFound
    BY <2>7 DEF ReportNotFound, Reports
  <2>8. CASE ReportMatch
    BY <2>8 DEF ReportMatch, Reports
  <2>9. CASE Delete
    BY <2>9 DEF Delete
  <2> QED
    BY <1>4, <2>1, <2>2, <2>3, <2>4, <2>5, <2>6, <2>7, <2>8, <2>9
<1>5. CASE UNCHANGED vars
  BY <1>5 DEF vars, scanVars, mutexVars, objVars, runVars, mainVars, TypeOK, ScanTypeOK, MutexTypeOK
<1> QED
  BY <1>1, <1>2, <1>3, <1>4, <1>5 DEF Next, Main, Finished

-----------------------------------------------------------------------------
\* A matching candidate is within the horizon.
LEMMA HitsAreCandidates ==
  \A b, t, k : <<b, t, k>> \in Hits => b \in Block /\ t \in Thread /\ k \in 0 .. Horizon
<1> SUFFICES ASSUME NEW b, NEW t, NEW k, <<b, t, k>> \in Hits
             PROVE  b \in Block /\ t \in Thread /\ k \in 0 .. Horizon
  OBVIOUS
<1>1. <<b, t, k>> \in Block \X Thread \X (0 .. Horizon - 1)
  BY ScanAssumption
<1>2. b \in Block /\ t \in Thread /\ k \in 0 .. Horizon - 1
  BY <1>1, Zenon
<1> QED
  BY <1>2, ScanAssumption

\* While its object holds the candidate the run is at, the comparison is the
\* test of that position against Hits.
LEMMA CompareIsHit ==
  ASSUME TypeOK, NEW t \in Thread, buf[t] = walk[t]
  PROVE  /\ walk[t][2] \in 0 .. Horizon
         /\ walk[t][1] = 0
         /\ Passes(t) <=> <<0, t, walk[t][2]>> \in Hits
<1>1. sig[t] = 0 /\ walk[t] \in Block \X (0 .. Horizon)
  BY SingleBlock DEF TypeOK, ScanTypeOK, Candidate
<1> QED
  BY <1>1, SingleBlock DEF Passes

\* What is known of a run depends only on its own state.
LEMMA RunFrame ==
  ASSUME NEW u \in Thread, RunInv(u),
         pc'[0][u] = pc[0][u], stopped'[u] = stopped[u], walk'[u] = walk[u],
         buf'[u] = buf[u], sig'[u] = sig[u], u \in gaveUp'[0] <=> u \in gaveUp[0]
  PROVE  RunInv(u)'
BY DEF RunInv, Walked, Passes, Exhausted

\* A step of one run keeps what is known of every run.
LEMMA RunStep ==
  ASSUME TypeOK, TypeOK', NEW t \in Thread, Decode(0, t), \A u \in Thread : RunInv(u)
  PROVE  \A u \in Thread : RunInv(u)'
<1> USE SingleBlock DEF TypeOK, ScanTypeOK
<1>1. \A u \in Thread \ {t} : RunInv(u)'
  <2>1. ASSUME NEW u \in Thread \ {t}
        PROVE  /\ pc'[0][u] = pc[0][u] /\ stopped'[u] = stopped[u] /\ walk'[u] = walk[u]
               /\ buf'[u] = buf[u] /\ sig'[u] = sig[u]
               /\ u \in gaveUp'[0] <=> u \in gaveUp[0]
    <3> USE DEF Goto, objVars
    <3>1. CASE Export(0, t) \/ SeeStop(0, t) \/ SeeRunning(0, t) \/ Match(0, t)
      BY <3>1 DEF Export, SeeStop, SeeRunning, Match
    <3>2. CASE Miss(0, t) \/ MissBelowCeiling(0, t) \/ MissAboveCeiling(0, t)
      BY <3>2 DEF Miss, MissBelowCeiling, MissAboveCeiling, Advance
    <3>3. CASE PublishVerdict(0, t) \/ PublishThread(0, t) \/ GiveUp(0, t)
      BY <3>3 DEF PublishVerdict, PublishThread, GiveUp
    <3>4. CASE StopEarly(0, t) \/ Leave(0, t)
      BY <3>4 DEF StopEarly, Leave
    <3> QED
      BY <3>1, <3>2, <3>3, <3>4 DEF Decode
  <2> QED
    BY <2>1, RunFrame
<1>2. RunInv(t)'
  <2> USE DEF Goto, objVars, RunInv, Walked
  <2>1. CASE Export(0, t)
    BY <2>1 DEF Export, Exhausted
  <2>2. CASE SeeStop(0, t) \/ SeeRunning(0, t)
    BY <2>2 DEF SeeStop, SeeRunning, Exhausted
  <2>3. CASE Match(0, t)
    BY <2>3 DEF Match, Exhausted, Passes
  <2>4. CASE Miss(0, t) \/ MissBelowCeiling(0, t)
    <3>1. /\ pc[0][t] = "compare" /\ ~Passes(t)
          /\ walk' = [walk EXCEPT ![t] = <<walk[t][1], UpTo(Horizon, walk[t][2])>>]
          /\ pc' = [pc EXCEPT ![0][t] = "scan"]
          /\ UNCHANGED <<stopped, buf, sig, gaveUp>>
      BY <2>4 DEF Miss, MissBelowCeiling, Advance
    <3>2. <<0, t, walk[t][2]>> \notin Hits /\ walk[t][2] \in 0 .. Horizon
      BY <3>1, CompareIsHit
    <3>3. walk'[t][2] - 1 <= walk[t][2] /\ walk'[t][2] \in 0 .. Horizon
      <4>1. walk'[t] = <<walk[t][1], UpTo(Horizon, walk[t][2])>>
        BY <3>1
      <4>2. walk'[t][2] = UpTo(Horizon, walk[t][2])
        BY <4>1
      <4>3. Horizon \in Nat
        BY ScanAssumption
      <4> HIDE DEF TypeOK, ScanTypeOK, RunInv, Walked
      <4> QED
        BY <3>2, <4>2, <4>3 DEF UpTo
    <3>4. \A k \in 0 .. walk'[t][2] - 1 : <<0, t, k>> \notin Hits
      <4>1. \A k \in 0 .. walk[t][2] - 1 : <<0, t, k>> \notin Hits
        BY <3>1
      <4>2. \A k \in 0 .. walk'[t][2] - 1 : k \in 0 .. walk[t][2] - 1 \/ k = walk[t][2]
        <5> HIDE DEF TypeOK, ScanTypeOK, RunInv, Walked
        <5> QED
          BY <3>2, <3>3
      <4> QED
        BY <4>1, <4>2, <3>2
    <3> QED
      BY <3>1, <3>4
  <2>5. CASE MissAboveCeiling(0, t)
    <3>1. /\ pc[0][t] = "compare" /\ ~Passes(t) /\ AboveCeiling(t)
          /\ pc' = [pc EXCEPT ![0][t] = "missed"]
          /\ UNCHANGED <<stopped, walk, buf, sig, gaveUp>>
      BY <2>5 DEF MissAboveCeiling
    <3>2. <<0, t, walk[t][2]>> \notin Hits /\ walk[t][2] \in 0 .. Horizon /\ walk[t][1] = 0
      BY <3>1, CompareIsHit
    <3>3. Ceiling[0][t] <= walk[t][2] /\ Ceiling[0][t] \in Int
      BY <3>1, <3>2, ScanAssumption DEF AboveCeiling
    <3>4. Exhausted(t)
      BY <3>1, <3>2, <3>3 DEF Exhausted
    <3> QED
      BY <3>1, <3>4 DEF Exhausted
  <2>6. CASE PublishVerdict(0, t) \/ PublishThread(0, t)
    BY <2>6 DEF PublishVerdict, PublishThread, Exhausted, Passes
  <2>7. CASE GiveUp(0, t)
    BY <2>7 DEF GiveUp, Exhausted
  <2>8. CASE StopEarly(0, t) \/ Leave(0, t)
    BY <2>8 DEF StopEarly, Leave, Exhausted
  <2> QED
    BY <2>1, <2>2, <2>3, <2>4, <2>5, <2>6, <2>7, <2>8 DEF Decode
<1> QED
  BY <1>1, <1>2

\* Every thread has given up exactly when the count of give-ups is the
\* number of threads.
LEMMA Counting ==
  ASSUME NEW S \in SUBSET Thread
  PROVE  /\ IsFiniteSet(S)
         /\ Cardinality(S) \in Nat
         /\ Cardinality(S) = ThreadCount => S = Thread
         /\ \A t \in Thread \ S : Cardinality(S \cup {t}) = Cardinality(S) + 1
<1>1. IsFiniteSet(Thread) /\ Cardinality(Thread) = ThreadCount
  BY FS_Interval, ThreadCountAssumption DEF Thread
<1>2. IsFiniteSet(S) /\ (Cardinality(S) = ThreadCount => S = Thread)
  BY <1>1, FS_Subset
<1>3. Cardinality(S) \in Nat
  BY <1>2, FS_CardinalityType
<1>4. ASSUME NEW t \in Thread \ S
      PROVE  Cardinality(S \cup {t}) = Cardinality(S) + 1
  BY <1>2, FS_AddElement
<1> QED
  BY <1>2, <1>3, <1>4

\* FOUND leaves some thread that has not given up and never will.
LEMMA FoundWitness ==
  ASSUME TypeOK, \A u \in Thread : RunInv(u), VerdictInv, isMatched = FOUND
  PROVE  \E u \in Thread : u \notin gaveUp[0] /\ pc[0][u] \in {"matching", "leaving", "ended"}
BY DEF VerdictInv, Named, RunInv

\* A step of one run keeps what is known of the verdict.
LEMMA VerdictStep ==
  ASSUME TypeOK, TypeOK', NEW t \in Thread, Decode(0, t),
         \A u \in Thread : RunInv(u), VerdictInv
  PROVE  VerdictInv' /\ (isMatched # SEARCHING => isMatched' = isMatched)
<1> USE SingleBlock DEF TypeOK, ScanTypeOK, SEARCHING, NOTFOUND, FOUND
<1>1. CASE Export(0, t)
  BY <1>1 DEF Export, Goto, mutexVars, VerdictInv, Named, Passes
<1>2. CASE SeeStop(0, t) \/ SeeRunning(0, t) \/ Match(0, t)
  BY <1>2 DEF SeeStop, SeeRunning, Match, Goto, objVars, mutexVars, VerdictInv, Named, Passes
<1>3. CASE Miss(0, t) \/ MissBelowCeiling(0, t) \/ MissAboveCeiling(0, t)
  BY <1>3 DEF Miss, MissBelowCeiling, MissAboveCeiling, Goto, objVars, mutexVars, VerdictInv, Named, Passes
<1>4. CASE PublishVerdict(0, t)
  <2>1. isMatched # NOTFOUND
    BY <1>4 DEF PublishVerdict, RunInv, VerdictInv
  <2> QED
    BY <1>4, <2>1 DEF PublishVerdict, SetVerdict, Goto, objVars, VerdictInv, MutexTypeOK
<1>5. CASE PublishThread(0, t)
  <2>1. isMatched # NOTFOUND
    BY <1>5 DEF PublishThread, RunInv, VerdictInv
  <2> QED
    BY <1>5, <2>1 DEF PublishThread, SetThread, Goto, objVars, VerdictInv, Named, Passes, RunInv
<1>6. CASE GiveUp(0, t)
  <2>1. /\ pc[0][t] = "missed" /\ t \notin gaveUp[0]
        /\ gaveUp' = [gaveUp EXCEPT ![0] = gaveUp[0] \cup {t}]
        /\ pc' = [pc EXCEPT ![0][t] = "early"]
        /\ IncNotFound
        /\ UNCHANGED <<buf, sig>>
    BY <1>6 DEF GiveUp, Goto, objVars, RunInv
  <2>2. gaveUp'[0] = gaveUp[0] \cup {t} /\ gaveUp[0] \in SUBSET Thread /\ gaveUp'[0] \in SUBSET Thread
    BY <2>1
  <2>3. notFound' = Cardinality(gaveUp'[0])
    BY <2>1, <2>2, Counting DEF VerdictInv, IncNotFound
  <2>4. notFound' = ThreadCount => gaveUp'[0] = Thread
    BY <2>2, <2>3, Counting
  <2>5. isMatched # NOTFOUND
    BY <2>1 DEF VerdictInv
  <2>6. isMatched = FOUND => notFound' # ThreadCount
    BY <2>1, <2>2, <2>4, FoundWitness
  <2>7. isMatched = FOUND => (Named \/ \E u \in Thread : pc[0][u] = "matching")'
    BY <2>1 DEF VerdictInv, Named, Passes, IncNotFound
  <2> QED
    BY <2>1, <2>3, <2>4, <2>5, <2>6, <2>7 DEF VerdictInv, IncNotFound, MutexTypeOK
<1>7. CASE StopEarly(0, t)
  BY <1>7 DEF StopEarly, Goto, mutexVars, VerdictInv, Named, Passes
<1>8. CASE Leave(0, t)
  BY <1>8 DEF Leave, Goto, mutexVars, VerdictInv, Named, Passes
<1> QED
  BY <1>1, <1>2, <1>3, <1>4, <1>5, <1>6, <1>7, <1>8 DEF Decode

-----------------------------------------------------------------------------
\* What a stopped run can still do: end.
LEMMA StoppedRunLeaves ==
  ASSUME NEW t \in Thread, RunInv(t), stopped[t], Decode(0, t)
  PROVE  Leave(0, t)
BY DEF RunInv, Decode, Export, SeeStop, SeeRunning, Match, Miss, MissBelowCeiling, MissAboveCeiling,
       PublishVerdict, PublishThread, GiveUp, StopEarly

\* A run that has said it stopped does not take it back.
LEMMA StoppedIsKept ==
  ASSUME TypeOK, NEW t \in Thread, Decode(0, t), NEW u \in Thread
  PROVE  /\ stopped[u] => stopped'[u]
         /\ u # t => pc'[0][u] = pc[0][u]
         /\ pc[0][t] # "none"
<1> USE SingleBlock DEF TypeOK, ScanTypeOK, Goto, objVars
<1>1. CASE Export(0, t) \/ SeeStop(0, t) \/ SeeRunning(0, t) \/ Match(0, t)
  BY <1>1 DEF Export, SeeStop, SeeRunning, Match
<1>2. CASE Miss(0, t) \/ MissBelowCeiling(0, t) \/ MissAboveCeiling(0, t)
  BY <1>2 DEF Miss, MissBelowCeiling, MissAboveCeiling
<1>3. CASE PublishVerdict(0, t) \/ PublishThread(0, t) \/ GiveUp(0, t)
  BY <1>3 DEF PublishVerdict, PublishThread, GiveUp
<1>4. CASE StopEarly(0, t) \/ Leave(0, t)
  BY <1>4 DEF StopEarly, Leave
<1> QED
  BY <1>1, <1>2, <1>3, <1>4 DEF Decode

\* A step of one run keeps what is known of main.
LEMMA MainStep ==
  ASSUME IInv, TypeOK', NEW t \in Thread, Scan(t)
  PROVE  MainInv'
<1> USE DEF IInv
<1>1. Decode(0, t) /\ UNCHANGED <<main, next, report, deleted>>
  BY DEF Scan, mainVars
<1>2. isMatched # SEARCHING => isMatched' # SEARCHING
  BY <1>1, VerdictStep
<1>3. /\ main = "ready" => FALSE
      /\ main \in {"stop", "join"} => \A u \in 0 .. next - 1 : stopped'[u]
      /\ main \in {"result", "delete"} => \A u \in Thread : stopped'[u]
      /\ main = "done" => \A u \in Thread : stopped'[u] \/ pc'[0][u] = "none"
  <2>1. next \in 0 .. ThreadCount /\ (0 .. next - 1) \subseteq Thread
    BY SingleBlock DEF TypeOK, Thread
  <2> QED
    BY <1>1, <2>1, StoppedIsKept DEF MainInv
<1>4. ASSUME report.kind # "none"
      PROVE  /\ Leave(0, t)
             /\ gaveUp' = gaveUp /\ lastThread' = lastThread
             /\ buf' = buf
             /\ Named => Named'
  <2>1. stopped[t] /\ Leave(0, t)
    BY <1>1, <1>4, StoppedIsKept, StoppedRunLeaves DEF MainInv
  <2> QED
    BY <2>1, SingleBlock DEF Leave, Goto, mutexVars, Named, Passes, TypeOK, ScanTypeOK
<1>5. report.kind # "none" => (NamedOriginal' <=> NamedOriginal)
  BY <1>4 DEF NamedOriginal
<1> QED
  BY <1>1, <1>2, <1>3, <1>4, <1>5 DEF MainInv

\* The initial states satisfy the invariant.
LEMMA InvInit == Init => IInv
<1> SUFFICES ASSUME Init
             PROVE  IInv
  OBVIOUS
<1> USE SingleBlock DEF Init, ScanInit, MutexInit
<1>1. TypeOK
  <2>1. ScanTypeOK
    <3>1. <<0, 0>> \in Candidate
      BY ScanAssumption DEF Candidate
    <3>2. 0 \in 0 .. LineBound
      BY ScanAssumption
    <3> QED
      BY <3>1, <3>2 DEF ScanTypeOK, MutexTypeOK, Labels
  <2>2. NoReport \in Reports
    BY DEF Reports, NoReport
  <2>3. main \in MainLabels /\ main # "join" /\ report \in Reports /\ deleted \in BOOLEAN
    BY <2>2 DEF MainLabels
  <2>4. next \in 0 .. ThreadCount
    OBVIOUS
  <2> QED
    BY <2>1, <2>3, <2>4 DEF TypeOK
<1>2. \A t \in Thread : RunInv(t)
  BY DEF RunInv, Walked
<1>3. VerdictInv
  BY FS_EmptySet DEF VerdictInv, SEARCHING, NOTFOUND, FOUND
<1>4. MainInv
  BY DEF MainInv, NoReport
<1> QED
  BY <1>1, <1>2, <1>3, <1>4 DEF IInv

\* What main does to the scan objects keeps what is known of runs and verdict.
LEMMA MainFrame ==
  ASSUME IInv, UNCHANGED <<mutexVars, stopped, walk, buf, sig, pc, gaveUp>>
  PROVE  (\A t \in Thread : RunInv(t)') /\ VerdictInv'
BY DEF IInv, mutexVars, RunInv, Walked, Passes, Exhausted, VerdictInv, Named

\* Spawning a thread starts its run at the first candidate.
LEMMA SpawnStep ==
  ASSUME IInv, TypeOK', Spawn
  PROVE  IInv'
<1> USE SingleBlock DEF IInv, TypeOK, ScanTypeOK
<1>1. /\ main = "spawn" /\ main' = "spawn" /\ report' = report /\ deleted' = deleted
      /\ next \in Thread /\ pc[0][next] = "none"
      /\ pc' = [pc EXCEPT ![0][next] = "scan"]
      /\ UNCHANGED <<mutexVars, stopped, walk, buf, sig, gaveUp>>
  BY DEF Spawn, SpawnRun, Goto, objVars, Thread
<1>2. ASSUME NEW t \in Thread
      PROVE  RunInv(t)'
  <2>1. CASE t = next
    BY <1>1, <2>1 DEF RunInv, Walked, Exhausted
  <2>2. CASE t # next
    BY <1>1, <2>2, RunFrame
  <2> QED
    BY <2>1, <2>2
<1>3. VerdictInv'
  BY <1>1 DEF VerdictInv, Named, Passes, mutexVars
<1>4. MainInv'
  BY <1>1 DEF MainInv
<1> QED
  BY <1>2, <1>3, <1>4

\* A loop of main that has not begun.
LEMMA NoPrefix == 0 .. 0 - 1 = {}
OBVIOUS

\* A loop of main that has dealt with the threads below n, and then with n.
LEMMA Prefixes ==
  ASSUME NEW n \in Nat, NEW done, \A u \in 0 .. n - 1 : done[u], done[n]
  PROVE  \A u \in 0 .. (n + 1) - 1 : done[u]
<1> SUFFICES ASSUME NEW u \in 0 .. (n + 1) - 1
             PROVE  done[u]
  OBVIOUS
<1>1. u \in 0 .. n - 1 \/ u = n
  OBVIOUS
<1> QED
  BY <1>1

\* A step of main that creates no thread.
LEMMA MainOnlyStep ==
  ASSUME IInv, TypeOK', Main, ~Spawn
  PROVE  IInv' /\ UNCHANGED <<mutexVars, stopped, walk, buf, sig, pc, gaveUp>>
<1> USE SingleBlock DEF IInv
<1>1. UNCHANGED <<mutexVars, stopped, walk, buf, sig, pc, gaveUp>>
  BY DEF Main, SkipDecode, RunDecode, AllSpawned, SeeVerdict, StopThread, SeeStopped, AllStopped,
         ReportNotFound, ReportMatch, Delete, scanVars, objVars, runVars
<1>2. (\A t \in Thread : RunInv(t)') /\ VerdictInv'
  BY <1>1, MainFrame
<1>3. NamedOriginal' <=> NamedOriginal
  BY <1>1 DEF NamedOriginal, mutexVars
<1>4. Named' <=> Named
  BY <1>1 DEF Named, Passes, mutexVars
<1>5. next \in Nat
  BY DEF TypeOK
<1>6. MainInv'
  <2> USE <1>1, <1>3, <1>4 DEF MainInv, mutexVars
  <2>1. CASE SkipDecode
    BY <2>1 DEF SkipDecode
  <2>2. CASE RunDecode \/ AllSpawned
    <3>1. /\ main \in {"ready", "spawn"} /\ main' \in {"spawn", "await"}
          /\ report' = report /\ deleted' = deleted
      BY <2>2 DEF RunDecode, AllSpawned
    <3> QED
      BY <3>1
  <2>3. CASE SeeVerdict
    <3>1. /\ main' = "stop" /\ next' = 0 /\ report' = report /\ deleted' = deleted
          /\ isMatched # SEARCHING /\ main = "await"
      BY <2>3 DEF SeeVerdict
    <3>2. \A u \in 0 .. next' - 1 : stopped'[u]
      BY <3>1, NoPrefix
    <3> QED
      BY <3>1, <3>2
  <2>4. CASE StopThread
    BY <2>4 DEF StopThread
  <2>5. CASE SeeStopped
    <3>1. /\ main = "join" /\ main' = "stop" /\ report' = report /\ deleted' = deleted
          /\ next' = next + 1 /\ stopped[next]
      BY <2>5 DEF SeeStopped
    <3>2. \A u \in 0 .. next - 1 : stopped[u]
      BY <3>1
    <3>3. \A u \in 0 .. (next + 1) - 1 : stopped[u]
      BY <1>5, <3>1, <3>2, Prefixes
    <3> QED
      BY <3>1, <3>3
  <2>6. CASE AllStopped
    <3>1. \A u \in Thread : stopped[u]
      BY <2>6 DEF AllStopped, Thread
    <3> QED
      BY <2>6, <3>1 DEF AllStopped
  <2>7. CASE ReportNotFound
    BY <2>7 DEF ReportNotFound, VerdictInv
  <2>8. CASE ReportMatch
    <3>1. isMatched = FOUND
      BY <2>8 DEF ReportMatch, TypeOK, ScanTypeOK, MutexTypeOK
    <3>2. Named
      BY <2>8, <3>1 DEF ReportMatch, VerdictInv, RunInv
    <3>3. /\ report'.thread = lastThread
          /\ report'.kind = IF NamedOriginal THEN "match" ELSE "mismatch"
      BY <2>8, <3>2 DEF ReportMatch, Named
    <3> QED
      BY <2>8, <3>1, <3>2, <3>3 DEF ReportMatch
  <2>9. CASE Delete
    BY <2>9 DEF Delete
  <2> QED
    BY <2>1, <2>2, <2>3, <2>4, <2>5, <2>6, <2>7, <2>8, <2>9 DEF Main
<1> QED
  BY <1>1, <1>2, <1>6

\* The invariant is inductive.
LEMMA InvStep == IInv /\ [Next]_vars => IInv'
<1> SUFFICES ASSUME IInv, [Next]_vars
             PROVE  IInv'
  OBVIOUS
<1>1. TypeOK'
  BY TypingStep DEF IInv
<1>2. ASSUME NEW t \in Thread, Scan(t)
      PROVE  IInv'
  <2>1. Decode(0, t)
    BY <1>2 DEF Scan
  <2> QED
    BY <1>1, <1>2, <2>1, RunStep, VerdictStep, MainStep DEF IInv
<1>3. CASE Main
  BY <1>1, <1>3, SpawnStep, MainOnlyStep
<1>4. CASE UNCHANGED vars
  BY <1>4, <1>1, MainFrame
  DEF vars, scanVars, mutexVars, objVars, runVars, mainVars, IInv, MainInv, NamedOriginal, Named, Passes
<1> QED
  BY <1>2, <1>3, <1>4 DEF Next, Finished

\* mdtest keeps its inductive invariant.
THEOREM Invariance == Spec => []IInv
BY InvInit, InvStep, PTL DEF Spec

\* Every variable keeps its type.
THEOREM TypeCorrectness == Spec => []TypeOK
BY Invariance, PTL DEF IInv

\* Once main has seen every thread stopped, the thread the mutex names holds a
\* candidate with the block's signatures.
THEOREM NamedThread == Spec => []NamedThreadMatches
<1>1. IInv => NamedThreadMatches
  BY DEF IInv, MainInv, VerdictInv, RunInv, Named, NamedThreadMatches
<1> QED
  BY <1>1, Invariance, PTL

\* "Not found" is never reported of a block that some thread meets below its
\* ceiling.
THEOREM NotFound == Spec => []NotFoundMeansAbsent
<1>1. IInv => NotFoundMeansAbsent
  BY DEF IInv, MainInv, RunInv, Exhausted, NotFoundMeansAbsent
<1> QED
  BY <1>1, Invariance, PTL

\* A reported mismatch is a signature collision, met by the thread reported.
THEOREM Mismatch == Spec => []MismatchIsCollision
<1>1. IInv => MismatchIsCollision
  <2> SUFFICES ASSUME IInv, report.kind \in {"mismatch", "bad index"}
               PROVE  \E k \in 0 .. Horizon :
                        /\ <<0, report.thread, k>> \in Hits
                        /\ ~(report.thread = Original[1] /\ k = Original[2])
    BY DEF MismatchIsCollision
  <2>1. report.thread = lastThread /\ Named /\ ~NamedOriginal
    BY DEF IInv, MainInv
  <2>2. lastThread \in Thread /\ buf[lastThread][1] = 0
        /\ <<0, lastThread, buf[lastThread][2]>> \in Hits
    BY <2>1, SingleBlock DEF Named, Passes, IInv, TypeOK, ScanTypeOK
  <2>3. buf[lastThread][2] \in 0 .. Horizon
    BY <2>2, HitsAreCandidates
  <2> QED
    BY <2>1, <2>2, <2>3 DEF NamedOriginal
<1> QED
  BY <1>1, Invariance, PTL

\* The verdict is given once.
THEOREM Verdict == Spec => VerdictIsFinal
<1>1. IInv /\ [Next]_vars => [isMatched # SEARCHING => isMatched' = isMatched]_vars
  <2> SUFFICES ASSUME IInv, [Next]_vars, isMatched # SEARCHING
               PROVE  isMatched' = isMatched
    OBVIOUS
  <2>1. ASSUME NEW t \in Thread, Scan(t)
        PROVE  isMatched' = isMatched
    BY <2>1, TypingStep, VerdictStep DEF Scan, IInv
  <2>2. CASE Main
    BY <2>2, TypingStep, MainOnlyStep DEF IInv, Spawn, mutexVars
  <2> QED
    BY <2>1, <2>2 DEF Next, Finished, vars, scanVars, mutexVars
<1> QED
  BY <1>1, Invariance, PTL DEF Spec, VerdictIsFinal

\* No scan buffer changes once main has seen every thread stopped.
THEOREM Frozen == Spec => BuffersFrozen
<1> DEFINE Froze == main \in {"result", "delete", "done"} => \A t \in Thread : buf'[t] = buf[t]
<1>1. IInv /\ [Next]_vars => [Froze]_vars
  <2> SUFFICES ASSUME IInv, [Next]_vars, main \in {"result", "delete", "done"}
               PROVE  buf' = buf
    BY DEF Froze
  <2>1. ASSUME NEW t \in Thread, Scan(t)
        PROVE  buf' = buf
    <3>1. Decode(0, t) /\ stopped[t]
      BY <2>1, StoppedIsKept DEF Scan, IInv, MainInv
    <3> QED
      BY <3>1, StoppedRunLeaves DEF IInv, Leave
  <2>2. CASE Main
    BY <2>2, TypingStep, MainOnlyStep DEF IInv, Spawn, objVars
  <2> QED
    BY <2>1, <2>2 DEF Next, Finished, vars, scanVars, objVars
<1> QED
  BY <1>1, Invariance, PTL DEF Spec, BuffersFrozen

\* What delete[] can race with is the last store of a thread's run.
THEOREM LastStore == Spec => []DeleteRacesOnlyTheLastStore
<1>1. IInv => DeleteRacesOnlyTheLastStore
  BY SingleBlock DEF IInv, MainInv, RunInv, Live, DeleteRacesOnlyTheLastStore
<1> QED
  BY <1>1, Invariance, PTL

============================================================================
