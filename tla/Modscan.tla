------------------------------ MODULE Modscan ------------------------------
(***************************************************************************)
(* The scan threads of the C++ decoders (mdzip_cpp/mdCore/modscanFile.h).  *)
(*                                                                         *)
(* There is one modscan object per thread number for the whole decode, and *)
(* one run of decode() on it per file block: a run is a block b and t.     *)
(* A run walks the candidates blockInt, blockInt + M*T, ... of its object; *)
(* a candidate is named by the block the object was configured for and its *)
(* position in that walk.  The arithmetic of the walk is the module        *)
(* ModularWalk; here only its shape matters: which positions pass         *)
(* the hash list (Hits) and where the exponent ceiling is (Ceiling).       *)
(*                                                                         *)
(* stop, stopped, blockInt, byteblock and the signature register are       *)
(* shared with main and no lock protects them.  The binaries are built     *)
(* without an optimisation level, so every access happens in program order *)
(* and the outcomes of a race are the interleavings of the accesses.       *)
(***************************************************************************)
EXTENDS MdMutex, FiniteSets

CONSTANTS
  BlockCount,   \* number of file blocks
  Horizon,      \* bound: the walk is followed up to this position, and stays there
  Hits,         \* the <<b, t, k>> whose candidate passes the signatures of block b
  Ceiling,      \* position of the first candidate of <<b, t>> above 2^(exponent + 1);
                \* Horizon + 1 when it is too far away to be met
  LineBase,     \* 100000000 in the code
  LineStep,     \* 1000000 in the code
  LineBound     \* bound: lineNum is counted up to here, and stays there

Block == 0 .. BlockCount - 1

ASSUME ScanAssumption ==
  /\ BlockCount \in Nat \ {0}
  /\ Horizon \in Nat \ {0}
  /\ Hits \subseteq Block \X Thread \X (0 .. Horizon - 1)
  /\ Ceiling \in [Block -> [Thread -> 0 .. Horizon + 1]]
  /\ LineBase \in Nat
  /\ LineStep \in Nat
  /\ LineBound \in Nat \ {0}

VARIABLES
  \* the modscan object of each thread number
  stop,      \* main asks the run to stop
  stopped,   \* the run says it has
  walk,      \* blockInt: the block it was configured for and how far it walked
  buf,       \* byteblock: the candidate last exported
  sig,       \* the block whose signatures the hash context list holds
  \* the runs
  pc,        \* where each run is
  lineNum,   \* the local of decode()
  gaveUp     \* history: the threads that called incNotFound for each block

objVars  == <<stop, stopped, walk, buf, sig>>
runVars  == <<pc, lineNum, gaveUp>>
scanVars == <<mutexVars, objVars, runVars>>

\* The number of misses between two looks at the ceiling.
LineCount(t) == LineBase + LineStep * (t + 1)

NoBlock == -1

Candidate == Block \X (0 .. Horizon)

\* new unsigned char[blocksize], not yet written.
FreshBuffer == <<NoBlock, 0>>

Labels == {"none", "scan", "export", "compare", "matched", "matching", "missed", "early",
           "leaving", "ended"}

\* A run that may still touch its object.
Live(b, t) == pc[b][t] \notin {"none", "ended"}

\* compareBlockHashList: the candidate in byteblock has the registered signatures.
Passes(t) ==
  /\ buf[t][1] = sig[t]
  /\ <<buf[t][1], t, buf[t][2]>> \in Hits

AboveCeiling(t) == walk[t][2] >= Ceiling[walk[t][1]][t]

MutexFree == \A b \in Block, t \in Thread : pc[b][t] # "matching"

-----------------------------------------------------------------------------
UpTo(bound, n) == IF n < bound THEN n + 1 ELSE n

Goto(b, t, label) == pc' = [pc EXCEPT ![b][t] = label]

\* blockInt += M * T.
Advance(t) == walk' = [walk EXCEPT ![t] = <<walk[t][1], UpTo(Horizon, walk[t][2])>>]

\* The loop test.
SeeRunning(b, t) ==
  /\ pc[b][t] = "scan"
  /\ ~stop[t]
  /\ Goto(b, t, "export")
  /\ UNCHANGED <<mutexVars, objVars, lineNum, gaveUp>>

SeeStop(b, t) ==
  /\ pc[b][t] = "scan"
  /\ stop[t]
  /\ Goto(b, t, "leaving")
  /\ UNCHANGED <<mutexVars, objVars, lineNum, gaveUp>>

\* The candidate is exported into the shared buffer.
Export(b, t) ==
  /\ pc[b][t] = "export"
  /\ buf' = [buf EXCEPT ![t] = walk[t]]
  /\ Goto(b, t, "compare")
  /\ UNCHANGED <<mutexVars, stop, stopped, walk, sig, lineNum, gaveUp>>

Match(b, t) ==
  /\ pc[b][t] = "compare"
  /\ Passes(t)
  /\ Goto(b, t, "matched")
  /\ UNCHANGED <<mutexVars, objVars, lineNum, gaveUp>>

\* A miss: the ceiling is looked at only once in LineCount misses.
Miss(b, t) ==
  /\ pc[b][t] = "compare"
  /\ ~Passes(t)
  /\ lineNum[b][t] <= LineCount(t)
  /\ Advance(t)
  /\ lineNum' = [lineNum EXCEPT ![b][t] = UpTo(LineBound, lineNum[b][t])]
  /\ Goto(b, t, "scan")
  /\ UNCHANGED <<mutexVars, stop, stopped, buf, sig, gaveUp>>

MissBelowCeiling(b, t) ==
  /\ pc[b][t] = "compare"
  /\ ~Passes(t)
  /\ lineNum[b][t] > LineCount(t)
  /\ ~AboveCeiling(t)
  /\ Advance(t)
  /\ lineNum' = [lineNum EXCEPT ![b][t] = 1]
  /\ Goto(b, t, "scan")
  /\ UNCHANGED <<mutexVars, stop, stopped, buf, sig, gaveUp>>

MissAboveCeiling(b, t) ==
  /\ pc[b][t] = "compare"
  /\ ~Passes(t)
  /\ lineNum[b][t] > LineCount(t)
  /\ AboveCeiling(t)
  /\ lineNum' = [lineNum EXCEPT ![b][t] = 0]
  /\ Goto(b, t, "missed")
  /\ UNCHANGED <<mutexVars, objVars, gaveUp>>

\* setMatched, in two steps because the getters do not take the lock.
PublishVerdict(b, t) ==
  /\ pc[b][t] = "matched"
  /\ MutexFree
  /\ SetVerdict
  /\ Goto(b, t, "matching")
  /\ UNCHANGED <<objVars, lineNum, gaveUp>>

PublishThread(b, t) ==
  /\ pc[b][t] = "matching"
  /\ SetThread(t)
  /\ Goto(b, t, "leaving")
  /\ UNCHANGED <<objVars, lineNum, gaveUp>>

GiveUp(b, t) ==
  /\ pc[b][t] = "missed"
  /\ MutexFree
  /\ IncNotFound
  /\ gaveUp' = [gaveUp EXCEPT ![b] = gaveUp[b] \cup {t}]
  /\ Goto(b, t, "early")
  /\ UNCHANGED <<objVars, lineNum>>

\* The first store of stopped, on the way out of the ceiling branch.
StopEarly(b, t) ==
  /\ pc[b][t] = "early"
  /\ stopped' = [stopped EXCEPT ![t] = TRUE]
  /\ Goto(b, t, "leaving")
  /\ UNCHANGED <<mutexVars, stop, walk, buf, sig, lineNum, gaveUp>>

\* Mutant: a run that ends without the store.
LeaveSilently(b, t) ==
  /\ pc[b][t] = "leaving"
  /\ Goto(b, t, "ended")
  /\ UNCHANGED <<mutexVars, objVars, lineNum, gaveUp>>

\* The store of stopped every run ends with.
Leave(b, t) ==
  /\ pc[b][t] = "leaving"
  /\ stopped' = [stopped EXCEPT ![t] = TRUE]
  /\ Goto(b, t, "ended")
  /\ UNCHANGED <<mutexVars, stop, walk, buf, sig, lineNum, gaveUp>>

Decode(b, t) ==
  \/ SeeRunning(b, t)
  \/ SeeStop(b, t)
  \/ Export(b, t)
  \/ Match(b, t)
  \/ Miss(b, t)
  \/ MissBelowCeiling(b, t)
  \/ MissAboveCeiling(b, t)
  \/ PublishVerdict(b, t)
  \/ PublishThread(b, t)
  \/ GiveUp(b, t)
  \/ StopEarly(b, t)
  \/ Leave(b, t)

-----------------------------------------------------------------------------
(* What main does to a scan object. *)

\* Mutant: the stop flag is left as it was.
ConfigureStopped(t, b) ==
  /\ stopped' = [stopped EXCEPT ![t] = FALSE]
  /\ walk' = [walk EXCEPT ![t] = <<b, 0>>]
  /\ UNCHANGED stop

\* setModscan and resetThread: start the walk of block b.
Configure(t, b) ==
  /\ stop' = [stop EXCEPT ![t] = FALSE]
  /\ stopped' = [stopped EXCEPT ![t] = FALSE]
  /\ walk' = [walk EXCEPT ![t] = <<b, 0>>]

\* A new thread running decode() on the object.
SpawnRun(b, t) ==
  /\ pc[b][t] = "none"
  /\ Goto(b, t, "scan")

\* Every object as setModscan leaves it for block 0.
ScanInit ==
  /\ MutexInit
  /\ stop = [t \in Thread |-> FALSE]
  /\ stopped = [t \in Thread |-> FALSE]
  /\ walk = [t \in Thread |-> <<0, 0>>]
  /\ buf = [t \in Thread |-> FreshBuffer]
  /\ sig = [t \in Thread |-> 0]
  /\ pc = [b \in Block |-> [t \in Thread |-> "none"]]
  /\ lineNum = [b \in Block |-> [t \in Thread |-> 0]]
  /\ gaveUp = [b \in Block |-> {}]

ScanTypeOK ==
  /\ MutexTypeOK
  /\ stop \in [Thread -> BOOLEAN]
  /\ stopped \in [Thread -> BOOLEAN]
  /\ walk \in [Thread -> Candidate]
  /\ buf \in [Thread -> Candidate \cup {FreshBuffer}]
  /\ sig \in [Thread -> Block]
  /\ pc \in [Block -> [Thread -> Labels]]
  /\ lineNum \in [Block -> [Thread -> 0 .. LineBound]]
  /\ gaveUp \in [Block -> SUBSET Thread]

============================================================================
