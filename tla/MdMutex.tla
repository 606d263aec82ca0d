------------------------------ MODULE MdMutex ------------------------------
(***************************************************************************)
(* The match mutex shared by the scan threads of one C++ decoder           *)
(* (mdzip_cpp/mdCore/mdMutex.h): its fields, and one action per critical   *)
(* section.  The lock itself belongs to the threads (Modscan!MutexFree);   *)
(* the getters do not take it.                                             *)
(***************************************************************************)
EXTENDS Integers

CONSTANT ThreadCount   \* number of scan threads, the --threads argument

ASSUME ThreadCountAssumption == ThreadCount \in Nat \ {0}

VARIABLES isMatched, notFound, matchCount, lastThread

mutexVars == <<isMatched, notFound, matchCount, lastThread>>

Thread == 0 .. ThreadCount - 1

SEARCHING == 0
NOTFOUND  == 1
FOUND     == 2

\* Every index outside the array of scan objects, as one value.
Garbage == -1

\* The constructor does not initialise lastThread.
MutexInit ==
  /\ isMatched = SEARCHING
  /\ notFound = 0
  /\ matchCount = 0
  /\ lastThread \in Thread \cup {Garbage}

MutexTypeOK ==
  /\ isMatched \in {SEARCHING, NOTFOUND, FOUND}
  /\ notFound \in Nat
  /\ matchCount \in Nat
  /\ lastThread \in Thread \cup {Garbage}

\* Mutant: the first thread to give up decides for all.
IncNotFoundEarly ==
  /\ notFound' = notFound + 1
  /\ isMatched' = NOTFOUND
  /\ UNCHANGED <<matchCount, lastThread>>

\* Mutant: a give-up takes a verdict back.
IncNotFoundResets ==
  /\ notFound' = notFound + 1
  /\ isMatched' = IF notFound' = ThreadCount THEN NOTFOUND ELSE SEARCHING
  /\ UNCHANGED <<matchCount, lastThread>>

\* Mutant: the count is compared with one thread more.
IncNotFoundNever ==
  /\ notFound' = notFound + 1
  /\ isMatched' = IF notFound' = ThreadCount + 1 THEN NOTFOUND ELSE isMatched
  /\ UNCHANGED <<matchCount, lastThread>>

IncNotFound ==
  /\ notFound' = notFound + 1
  /\ isMatched' = IF notFound' = ThreadCount THEN NOTFOUND ELSE isMatched
  /\ UNCHANGED <<matchCount, lastThread>>

\* setMatched stores the verdict before the thread number: a getter, which
\* takes no lock, can see the first store without the second.
SetVerdict ==
  /\ isMatched' = FOUND
  /\ UNCHANGED <<notFound, matchCount, lastThread>>

\* Mutant: threads counted from one.
SetThreadNext(t) ==
  /\ lastThread' = t + 1
  /\ matchCount' = matchCount + 1
  /\ UNCHANGED <<isMatched, notFound>>

SetThread(t) ==
  /\ lastThread' = t
  /\ matchCount' = matchCount + 1
  /\ UNCHANGED <<isMatched, notFound>>

\* Mutant: the verdict is left as it was.
ResetCountsOnly ==
  /\ isMatched' = isMatched
  /\ lastThread' = 0
  /\ notFound' = 0
  /\ matchCount' = 0

ResetMatched ==
  /\ isMatched' = SEARCHING
  /\ lastThread' = 0
  /\ notFound' = 0
  /\ matchCount' = 0

============================================================================
