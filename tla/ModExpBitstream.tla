-------------------------- MODULE ModExpBitstream --------------------------
(***************************************************************************)
(* The exponent bitstream of the sip47 container (class mdBitstream): the  *)
(* exponents of all blocks, packed before the block table.  The stream is  *)
(* a sequence of puts, each a width and a value cut to that width, and is  *)
(* read by gets of the same widths (the vendored Bitstream class).         *)
(***************************************************************************)
EXTENDS Integers, Sequences

Put(width, value) == [width |-> width, value |-> value % (2^width)]

\* What a get of some width returns at a place of the stream: the value put there
\* when the widths agree and garbage, Torn, otherwise.
Torn == -1
Get(stream, place, width) ==
  IF place \in DOMAIN stream /\ stream[place].width = width THEN stream[place].value ELSE Torn

----------------------------------------------------------------------------
Least(S) == CHOOSE x \in S : \A y \in S : x <= y
Greatest(S) == CHOOSE x \in S : \A y \in S : x >= y

\* The base of the packed exponents.  The last block, which may be short, has no say
\* in it; of a file of one block it is the initial 255, since nothing lowers it.
minExponentMinusLastBlock(exps) == Least({255} \cup {exps[b] : b \in 1..(Len(exps) - 1)})
maxExponent(exps) == Greatest({0} \cup {exps[b] : b \in DOMAIN exps})
diffExponent(exps) == maxExponent(exps) - minExponentMinusLastBlock(exps)

\* Mutant: every range is one too wide.
setDiffFormatWide(diff) ==
  CASE diff <= 4 -> 2
    [] 4 < diff /\ diff <= 8 -> 3
    [] 8 < diff /\ diff <= 16 -> 4
    [] 16 < diff /\ diff <= 32 -> 5
    [] 32 < diff /\ diff <= 64 -> 6
    [] OTHER -> 7

\* A spread of 8, 16 or 32 falls between two of the ranges and takes the full format.
setDiffFormat(diff) ==
  CASE diff <= 3 -> 2
    [] 3 < diff /\ diff <= 7 -> 3
    [] 8 < diff /\ diff <= 15 -> 4
    [] 16 < diff /\ diff <= 31 -> 5
    [] 32 < diff /\ diff <= 63 -> 6
    [] OTHER -> 7

calcMinMaxExponent(exps) == setDiffFormat(diffExponent(exps))

setBitstreamBitSize(format) == IF format \in 2..6 THEN format ELSE 7

\* The bytes of the stream: two seven-bit values are paid for beside the packed ones.
calcBitstreamSize(blockcount, format) ==
  LET bits == (blockcount * format) + (IF format < 7 THEN 14 ELSE 0)
  IN  (bits \div 8) + (IF bits % 8 > 0 THEN 1 ELSE 0)

\* Formats 2 to 6: the base, the distance of every exponent but the last from it, and
\* the last exponent as it is.
mdzipModExponentBitstream26(exps, format) ==
  LET base == minExponentMinusLastBlock(exps)
  IN  <<Put(7, base)>>
        \o [b \in 1..(Len(exps) - 1) |-> Put(setBitstreamBitSize(format), exps[b] - base)]
        \o <<Put(7, exps[Len(exps)])>>

\* Format 7 packs into a buffer of its own that hides the member of the same name:
\* writeBitstream then writes from the member, which points nowhere.
mdzipModExponentBitstream(exps) == [b \in DOMAIN exps |-> [width |-> 0, value |-> 0]]

Stream(exps) ==
  LET format == calcMinMaxExponent(exps)
  IN  IF format < 7 THEN mdzipModExponentBitstream26(exps, format)
      ELSE mdzipModExponentBitstream(exps)

\* The exponent the reader gets for a block, given the format byte and the block count.
ReadExponent(stream, format, blockcount, b) ==
  IF format = 7 THEN Get(stream, b, 7)
  ELSE IF b < blockcount
       THEN Get(stream, b + 1, setBitstreamBitSize(format)) + Get(stream, 1, 7)
       ELSE Get(stream, b + 1, 7)
=============================================================================
