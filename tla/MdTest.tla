------------------------------- MODULE MdTest -------------------------------
(***************************************************************************)
(* mdtest: encode one random block and find it again with a parallel       *)
(* modulus scan (decodeRandomBlock in mdzip_cpp/mdZip/mdTest.h).           *)
(*                                                                         *)
(* Main creates one detached thread per scan object, spins on the verdict  *)
(* of the mutex, stops every thread and spins until each says it stopped,  *)
(* and only then asks the mutex which thread matched.                      *)
(***************************************************************************)
EXTENDS Modscan

CONSTANT Original   \* where the walk meets the random block: <<thread, position>>

ASSUME OriginalAssumption ==
  /\ BlockCount = 1
  /\ Original \in Thread \X (0 .. Horizon)

VARIABLES
  main,      \* where decodeRandomBlock is
  next,      \* its loop counter tnum
  report,    \* what it logs
  deleted    \* delete[] mst was executed

mainVars == <<main, next, report, deleted>>
vars == <<scanVars, mainVars>>

MainLabels == {"ready", "spawn", "await", "stop", "join", "result", "delete", "done"}

NoReport == [kind |-> "none", thread |-> Garbage]

Reports == [kind : {"none", "not found", "match", "mismatch", "bad index"},
            thread : Thread \cup {Garbage}]

-----------------------------------------------------------------------------
\* --skipdecode: everything is freed before a thread exists.
SkipDecode ==
  /\ main = "ready"
  /\ deleted' = TRUE
  /\ main' = "done"
  /\ UNCHANGED <<scanVars, next, report>>

RunDecode ==
  /\ main = "ready"
  /\ main' = "spawn"
  /\ UNCHANGED <<scanVars, next, report, deleted>>

Spawn ==
  /\ main = "spawn"
  /\ next < ThreadCount
  /\ SpawnRun(0, next)
  /\ next' = next + 1
  /\ UNCHANGED <<mutexVars, objVars, lineNum, gaveUp, main, report, deleted>>

AllSpawned ==
  /\ main = "spawn"
  /\ next = ThreadCount
  /\ main' = "await"
  /\ UNCHANGED <<scanVars, next, report, deleted>>

SeeVerdict ==
  /\ main = "await"
  /\ isMatched # SEARCHING
  /\ next' = 0
  /\ main' = "stop"
  /\ UNCHANGED <<scanVars, report, deleted>>

StopThread ==
  /\ main = "stop"
  /\ next < ThreadCount
  /\ stop' = [stop EXCEPT ![next] = TRUE]
  /\ main' = "join"
  /\ UNCHANGED <<mutexVars, stopped, walk, buf, sig, runVars, next, report, deleted>>

\* Mutant: main does not wait for the thread.
SeeNothing ==
  /\ main = "join"
  /\ next' = next + 1
  /\ main' = "stop"
  /\ UNCHANGED <<scanVars, report, deleted>>

SeeStopped ==
  /\ main = "join"
  /\ stopped[next]
  /\ next' = next + 1
  /\ main' = "stop"
  /\ UNCHANGED <<scanVars, report, deleted>>

AllStopped ==
  /\ main = "stop"
  /\ next = ThreadCount
  /\ main' = "result"
  /\ UNCHANGED <<scanVars, next, report, deleted>>

ReportNotFound ==
  /\ main = "result"
  /\ isMatched = NOTFOUND
  /\ report' = [kind |-> "not found", thread |-> Garbage]
  /\ main' = "delete"
  /\ UNCHANGED <<scanVars, next, deleted>>

\* memcmp of the matching thread's buffer with the random block.
NamedOriginal ==
  /\ lastThread = Original[1]
  /\ buf[lastThread][1] = 0
  /\ buf[lastThread][2] = Original[2]

ReportMatch ==
  /\ main = "result"
  /\ isMatched # NOTFOUND
  /\ report' =
       [kind |-> IF lastThread \notin Thread THEN "bad index"
                 ELSE IF NamedOriginal THEN "match" ELSE "mismatch",
        thread |-> lastThread]
  /\ main' = "delete"
  /\ UNCHANGED <<scanVars, next, deleted>>

Delete ==
  /\ main = "delete"
  /\ deleted' = TRUE
  /\ main' = "done"
  /\ UNCHANGED <<scanVars, next, report>>

Main ==
  \/ SkipDecode
  \/ RunDecode
  \/ Spawn
  \/ AllSpawned
  \/ SeeVerdict
  \/ StopThread
  \/ SeeStopped
  \/ AllStopped
  \/ ReportNotFound
  \/ ReportMatch
  \/ Delete

Scan(t) == Decode(0, t) /\ UNCHANGED mainVars

\* The program has returned and no thread is left.
Finished ==
  /\ main = "done"
  /\ \A t \in Thread : ~Live(0, t)
  /\ UNCHANGED vars

Init ==
  /\ ScanInit
  /\ main = "ready"
  /\ next = 0
  /\ report = NoReport
  /\ deleted = FALSE

Next == Main \/ (\E t \in Thread : Scan(t)) \/ Finished

Spec == Init /\ [][Next]_vars

\* The operating system runs main and every thread until they block for good.
FairSpec == Spec /\ WF_vars(Main) /\ \A t \in Thread : WF_vars(Scan(t))

-----------------------------------------------------------------------------
TypeOK ==
  /\ ScanTypeOK
  /\ main \in MainLabels
  /\ next \in 0 .. ThreadCount
  /\ main = "join" => next < ThreadCount
  /\ report \in Reports
  /\ deleted \in BOOLEAN

\* Once main has seen every thread stopped, the thread the mutex names is one
\* whose buffer passes the block's signatures: main reads lastThread and the
\* buffer without the lock, and a second matching thread may have replaced
\* lastThread since the verdict.
NamedThreadMatches ==
  main = "result" /\ isMatched = FOUND =>
    /\ lastThread \in Thread
    /\ Passes(lastThread)

\* "Not found" is reported only when no candidate up to the ceiling has the
\* block's signatures, so never for a block the walk meets below its ceiling,
\* however the give-ups of some threads and the match of another interleave.
NotFoundMeansAbsent ==
  report.kind = "not found" =>
    \A t \in Thread : \A k \in 0 .. Ceiling[0][t] - 1 : <<0, t, k>> \notin Hits

\* A mismatch is reported only for a signature collision: another candidate
\* of the walk that has the block's signatures too.
MismatchIsCollision ==
  report.kind \in {"mismatch", "bad index"} =>
    \E k \in 0 .. Horizon :
      /\ <<0, report.thread, k>> \in Hits
      /\ ~(report.thread = Original[1] /\ k = Original[2])

\* The verdict is given once: a late give-up does not turn FOUND into
\* NOTFOUND, nor a late match NOTFOUND into FOUND.
VerdictIsFinal ==
  [][isMatched # SEARCHING => isMatched' = isMatched]_vars

\* No buffer is written to after main has seen every thread stopped, so the
\* bytes it compares and logs are those that matched.
BuffersFrozen ==
  [][(main \in {"result", "delete", "done"}) =>
       \A t \in Thread : buf'[t] = buf[t]]_vars

\* mdtest ends: some thread matches or all give up, and each stops when told.
Terminates == <>(main = "done")

\* The objects are freed although a thread may still use its own; all that a
\* thread has left to do then is the second of its two stores of stopped: no
\* scan, comparison, call of the mutex or export races with delete[].
DeleteRacesOnlyTheLastStore ==
  deleted => \A t \in Thread : Live(0, t) => pc[0][t] = "leaving" /\ stopped[t]

-----------------------------------------------------------------------------
(***************************************************************************)
(* The inductive invariant behind the first three properties.              *)
(***************************************************************************)

\* A candidate compares equal with the signatures of the block exactly when it
\* is one of Hits; the run tries them in order and skips none.
Walked(t) ==
  /\ pc[0][t] \in {"none", "scan", "export", "compare"} =>
       \A k \in 0 .. walk[t][2] - 1 : <<0, t, k>> \notin Hits
  /\ pc[0][t] = "compare" => buf[t] = walk[t]

Exhausted(t) == \A k \in 0 .. Ceiling[0][t] - 1 : <<0, t, k>> \notin Hits

\* What the label of a run says about its object.
RunInv(t) ==
  /\ Walked(t)
  /\ pc[0][t] \in {"matched", "matching"} => Passes(t)
  /\ pc[0][t] = "missed" => Exhausted(t)
  /\ pc[0][t] \in {"missed", "matched", "matching"} => t \notin gaveUp[0]
  /\ t \in gaveUp[0] => Exhausted(t) /\ pc[0][t] \in {"early", "leaving", "ended"}
  /\ stopped[t] => pc[0][t] \in {"leaving", "ended"}

\* The thread lastThread names has finished setMatched.
Named ==
  /\ lastThread \in Thread
  /\ pc[0][lastThread] \in {"leaving", "ended"}
  /\ lastThread \notin gaveUp[0]
  /\ Passes(lastThread)

VerdictInv ==
  /\ notFound = Cardinality(gaveUp[0])
  /\ isMatched = FOUND => Named \/ \E t \in Thread : pc[0][t] = "matching"
  /\ isMatched = NOTFOUND => gaveUp[0] = Thread

MainInv ==
  /\ main = "ready" => \A t \in Thread : pc[0][t] = "none"
  /\ main \in {"stop", "join"} => \A t \in 0 .. next - 1 : stopped[t]
  /\ main \in {"result", "delete"} => \A t \in Thread : stopped[t]
  /\ main \in {"stop", "join", "result", "delete"} => isMatched # SEARCHING
  /\ main = "done" => \A t \in Thread : stopped[t] \/ pc[0][t] = "none"
  /\ deleted => main = "done"
  /\ report.kind # "none" => main \in {"delete", "done"}
  /\ report.kind = "not found" => gaveUp[0] = Thread
  /\ report.kind \in {"match", "mismatch"} =>
       report.thread = lastThread /\ Named
  /\ report.kind = "mismatch" => ~NamedOriginal
  /\ report.kind # "bad index"

IInv ==
  /\ TypeOK
  /\ \A t \in Thread : RunInv(t)
  /\ VerdictInv
  /\ MainInv

============================================================================
