------------------------------ MODULE MdCommon ------------------------------
(***************************************************************************)
(* The arithmetic the C++ programs share: how a file is cut into blocks,   *)
(* how many bytes a remainder takes, how a list of signatures is named on  *)
(* the command line, and how a block key moves.                            *)
(***************************************************************************)
EXTENDS Integers, Sequences

CONSTANTS
  KeySpan,   \* the number of keys, 2^128 in the code
  Byte       \* the number of values of one byte, 256 in the code

ASSUME MdCommonAssumption == KeySpan \in Nat \ {0} /\ Byte \in Nat \ {0, 1}

CalcFileBlocks(filesize, blocksize) ==
  (filesize \div blocksize) + (IF filesize % blocksize = 0 THEN 0 ELSE 1)

CalcFileBlocksRemainder(filesize, blocksize) ==
  IF filesize % blocksize = 0 THEN blocksize ELSE filesize % blocksize

calcModulusBytes(modsize) ==
  IF modsize % 8 = 0 THEN modsize \div 8
  ELSE IF modsize < 8 THEN 1 ELSE (modsize \div 8) + 1

----------------------------------------------------------------------------
NOINC == 0
DEC == 1
INC == 2

\* Mutant: a difference below zero keeps its sign.
incrementByteblockSigned(key, blocknumber, incrementKey) ==
  IF incrementKey = DEC THEN key - blocknumber
  ELSE IF incrementKey = INC THEN key + blocknumber ELSE key

\* mpz_export drops the sign, so a key below the block number comes back as the
\* difference; a sum past the last key takes one byte more, and as the bytes are
\* exported from the most significant one the key keeps all of it but the last byte.
incrementByteblock(key, blocknumber, incrementKey) ==
  CASE incrementKey = DEC -> IF key >= blocknumber THEN key - blocknumber ELSE blocknumber - key
    [] incrementKey = INC -> IF key + blocknumber < KeySpan THEN key + blocknumber
                             ELSE (key + blocknumber) \div Byte
    [] OTHER -> key

\* The key of a block whose number is blocknumber, counted from zero: the first
\* block is hashed with the key as it stands.
incrementBlockNum(key, blocknumber, incKey) ==
  IF blocknumber >= 1 /\ incKey # NOINC THEN incrementByteblock(key, blocknumber, incKey) ELSE key

----------------------------------------------------------------------------
\* Signature numbers from the command line: numbers <<n>> and ranges <<first, last>>
\* in either direction; one number above the registry spoils the whole option.
Invalid == <<-1>>

Range1(first, last) ==
  IF first <= last THEN [i \in 1..(last - first + 1) |-> first + i - 1]
  ELSE [i \in 1..(first - last + 1) |-> first - i + 1]

splitRange(tokens, signum) ==
  LET list[n \in 0..Len(tokens)] ==
        IF n = 0 THEN <<>> ELSE list[n - 1] \o Range1(tokens[n][1], tokens[n][Len(tokens[n])])
  IN  IF \E n \in DOMAIN tokens : \E k \in DOMAIN tokens[n] : tokens[n][k] > signum
      THEN Invalid ELSE list[Len(tokens)]
=============================================================================
