---------------------------- MODULE ModularWalk ----------------------------
(***************************************************************************)
(* The modular floor arithmetic of the C++ tools: what mdzip stores for a  *)
(* block (mdZip.cpp, mdCommon.h) and the numbers the scan objects of       *)
(* mdunzip try for it (setModscan, resetThread and decode in               *)
(* modscanFile.h).                                                         *)
(*                                                                         *)
(* The objects are configured by setModscan for the first block and by     *)
(* resetThread for the others.  resetThread keeps modulusInt, which        *)
(* setModscan has multiplied by the thread count, and aligns the exponent  *)
(* floor to that product instead of to the modulus.                        *)
(*                                                                         *)
(* This module is the walk whose positions the module Modscan counts.      *)
(***************************************************************************)
EXTENDS Integers

CONSTANTS
  ThreadCount,     \* number of scan threads
  ModSizes,        \* the --mod arguments
  BlockBits,       \* size of a block: its number is below 2^BlockBits
  ExponentBits,    \* width of the stored exponent: 8 in the code up to 32 bytes
  BlockCount       \* number of file blocks

ASSUME WalkAssumption ==
  /\ ThreadCount \in Nat \ {0}
  /\ ModSizes \subseteq Nat \ {0}
  /\ BlockBits \in Nat \ {0}
  /\ ExponentBits \in Nat \ {0}
  /\ BlockCount \in Nat \ {0}

VARIABLES
  phase,             \* what happens next to the block
  blk,               \* the block, from 0
  number,            \* the block as a bigint
  modsize,           \* of the file
  exponent,          \* what mdzip stored for the block
  remainder,
  modulusInt,        \* the fields of the scan objects
  modulusThreadInt,
  blockInt,
  steps              \* history: the candidates each run has gone past

vars == <<phase, blk, number, modsize, exponent, remainder, modulusInt, modulusThreadInt,
          blockInt, steps>>

Thread == 0 .. ThreadCount - 1

Phases == {"zip", "unzip", "scan", "done"}

-----------------------------------------------------------------------------
CalcModulusInt(m) == 2 ^ m - 1

\* calcExponent: the loop doubles before it compares, so 0, 1 and 2 have exponent 1.
CalcExponent(n) ==
  CHOOSE e \in 1 .. BlockBits :
    /\ n < 2 ^ (e + 1) - 1
    /\ \A d \in 1 .. e - 1 : n >= 2 ^ (d + 1) - 1

\* Mutant: the subtraction the code has commented out.
ConvertFloorReversed(floor, modint) == (floor % modint) - floor

\* Mutant: the floor is not aligned.
ConvertFloorUnaligned(floor, modint) == floor

\* convertFloorBase2: both of its branches subtract the remainder.
ConvertFloorBase2(floor, modint) == floor - (floor % modint)

\* Mutant: the scan starts at the remainder.
NoExponentFloor(modint) == 0

ExponentFloor(modint) == ConvertFloorBase2(CalcModulusInt(exponent), modint)

\* Mutant: the ceiling is the floor.
ModulusExpIntFloor == 2 ^ exponent

ModulusExpIntCeil == 2 ^ (exponent + 1)

ZipBlock(n) ==
  /\ phase = "zip"
  /\ number' = n
  /\ remainder' = n % CalcModulusInt(modsize)
  /\ exponent' = CalcExponent(n) % (2 ^ ExponentBits)
  /\ phase' = "unzip"
  /\ UNCHANGED <<blk, modsize, modulusInt, modulusThreadInt, blockInt, steps>>

\* Mutant: modulusInt is not multiplied by the thread count.
SetModscanOneStep ==
  /\ phase = "unzip"
  /\ blk = 0
  /\ LET modulus == CalcModulusInt(modsize)
     IN /\ modulusThreadInt' = [t \in Thread |-> t * modulus]
        /\ blockInt' = [t \in Thread |-> remainder + ExponentFloor(modulus) + t * modulus]
        /\ modulusInt' = modulus
  /\ steps' = [t \in Thread |-> 0]
  /\ phase' = "scan"
  /\ UNCHANGED <<blk, number, modsize, exponent, remainder>>

SetModscan ==
  /\ phase = "unzip"
  /\ blk = 0
  /\ LET modulus == CalcModulusInt(modsize)
     IN /\ modulusThreadInt' = [t \in Thread |-> t * modulus]
        /\ blockInt' = [t \in Thread |-> remainder + ExponentFloor(modulus) + t * modulus]
        /\ modulusInt' = modulus * ThreadCount
  /\ steps' = [t \in Thread |-> 0]
  /\ phase' = "scan"
  /\ UNCHANGED <<blk, number, modsize, exponent, remainder>>

\* Mutant: every thread starts where thread 0 does.
ResetThreadTogether ==
  /\ phase = "unzip"
  /\ blk > 0
  /\ blockInt' = [t \in Thread |-> remainder + ExponentFloor(modulusInt)]
  /\ steps' = [t \in Thread |-> 0]
  /\ phase' = "scan"
  /\ UNCHANGED <<blk, number, modsize, exponent, remainder, modulusInt, modulusThreadInt>>

ResetThread ==
  /\ phase = "unzip"
  /\ blk > 0
  /\ blockInt' =
       [t \in Thread |-> remainder + ExponentFloor(modulusInt) + modulusThreadInt[t]]
  /\ steps' = [t \in Thread |-> 0]
  /\ phase' = "scan"
  /\ UNCHANGED <<blk, number, modsize, exponent, remainder, modulusInt, modulusThreadInt>>

\* A candidate that is not the block, below the ceiling.
Advance(t) ==
  /\ phase = "scan"
  /\ blockInt[t] # number
  /\ blockInt[t] <= ModulusExpIntCeil
  /\ blockInt' = [blockInt EXCEPT ![t] = blockInt[t] + modulusInt]
  /\ steps' = [steps EXCEPT ![t] = steps[t] + 1]
  /\ UNCHANGED <<phase, blk, number, modsize, exponent, remainder, modulusInt, modulusThreadInt>>

MeetBlock(t) ==
  /\ phase = "scan"
  /\ blockInt[t] = number
  /\ IF blk + 1 < BlockCount
     THEN phase' = "zip" /\ blk' = blk + 1
     ELSE phase' = "done" /\ UNCHANGED blk
  /\ UNCHANGED <<number, modsize, exponent, remainder, modulusInt, modulusThreadInt,
                 blockInt, steps>>

Finished == phase = "done" /\ UNCHANGED vars

Init ==
  /\ phase = "zip"
  /\ blk = 0
  /\ number = 0
  /\ modsize \in ModSizes
  /\ exponent = 0
  /\ remainder = 0
  /\ modulusInt = 0
  /\ modulusThreadInt = [t \in Thread |-> 0]
  /\ blockInt = [t \in Thread |-> 0]
  /\ steps = [t \in Thread |-> 0]

Zip == \E n \in 0 .. 2 ^ BlockBits - 1 : ZipBlock(n)
ScanStep(t) == Advance(t) \/ MeetBlock(t)

Next == Zip \/ SetModscan \/ ResetThread \/ (\E t \in Thread : ScanStep(t)) \/ Finished

Spec == Init /\ [][Next]_vars

\* Main and every scan thread run until they block for good.
FairSpec ==
  /\ Spec
  /\ WF_vars(Zip \/ SetModscan \/ ResetThread)
  /\ \A t \in Thread : WF_vars(ScanStep(t))

-----------------------------------------------------------------------------
TypeOK ==
  /\ phase \in Phases
  /\ blk \in 0 .. BlockCount - 1
  /\ number \in 0 .. 2 ^ BlockBits - 1
  /\ modsize \in ModSizes
  /\ exponent \in 0 .. 2 ^ ExponentBits - 1
  /\ remainder \in Nat
  /\ modulusInt \in Nat
  /\ modulusThreadInt \in [Thread -> Nat]
  /\ blockInt \in [Thread -> Nat]
  /\ steps \in [Thread -> Nat]

\* The one block every walk starts past: zeros, whose exponent is one, with --mod=1,
\* which leaves the floor of one where it is.
ZerosPassed == number = 0 /\ modsize = 1 /\ (blk = 0 \/ ThreadCount = 1)

\* The scan loses no block but that one: whatever the threads have tried, one of them
\* still has the block on its walk, also when the floor is aligned by resetThread to
\* the modulus times the thread count and not to the modulus.
OriginalAhead ==
  phase = "scan" /\ ~ZerosPassed =>
    \E t \in Thread :
      /\ blockInt[t] <= number
      /\ (number - blockInt[t]) % modulusInt = 0

\* The threads share the candidates out: no two ever try the same number.
WalksAreDisjoint ==
  phase = "scan" =>
    \A t, u \in Thread : t # u => (blockInt[t] - blockInt[u]) % modulusInt # 0

\* No thread gives up on the ceiling before the block is met.
BlockBelowCeiling == phase = "scan" => number <= ModulusExpIntCeil

\* The exponent bounds the search: the block is met within as many candidates
\* of a thread as fit between the exponent's floor and ceiling, and two more.
IterationsBounded ==
  phase = "scan" =>
    \A t \in Thread :
      blockInt[t] <= number => steps[t] <= 2 ^ exponent \div modulusInt + 1

\* Every block of the file is met, unless the scan of one starts past it.
EveryBlockMet == <>(phase = "done" \/ (phase = "scan" /\ ZerosPassed))

============================================================================
