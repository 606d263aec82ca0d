---------------------------- MODULE BlockChannel ----------------------------
(***************************************************************************)
(* What a container promises of its blocks, whichever program wrote it and *)
(* whatever its bytes look like: a block's record comes out with the       *)
(* fields that went in, in the order it went in.  Where the container was  *)
(* cut off a field repeats what the same field of the record before said,  *)
(* and nothing tells the reader.  A reader may start over.                 *)
(***************************************************************************)
EXTENDS Integers, Sequences

VARIABLES
  sent,   \* the records written, each a sequence of fields
  kept,   \* how many fields of each record arrived
  got     \* the records read

vars == <<sent, kept, got>>

Init == sent = <<>> /\ kept = <<>> /\ got = <<>>

\* After the first field that does not arrive none does.
Cut == \E k \in DOMAIN kept : kept[k] < Len(sent[k])
Send ==
  /\ got = <<>> /\ got' = got
  /\ Len(sent') = Len(sent) + 1 /\ SubSeq(sent', 1, Len(sent)) = sent
  /\ \E n \in 0..Len(sent'[Len(sent')]) : kept' = Append(kept, n) /\ (Cut => n = 0)

\* What memory held before the first record is anyone's guess.  A reader that was told
\* of more records than a killed writer sent reads those as cut off altogether.
Arrived(b) == IF b \in DOMAIN sent THEN kept[b] ELSE 0
Deliver ==
  LET b == Len(got) + 1
  IN  /\ UNCHANGED <<sent, kept>>
      /\ Len(got') = b /\ SubSeq(got', 1, b - 1) = got
      /\ b \in DOMAIN sent => DOMAIN got'[b] = DOMAIN sent[b]
      /\ \A i \in DOMAIN got'[b] :
           /\ i <= Arrived(b) => got'[b][i] = sent[b][i]
           /\ i > Arrived(b) /\ b > 1 => got'[b][i] = got[b - 1][i]

Restart == got' = <<>> /\ UNCHANGED <<sent, kept>>

Next == Send \/ Deliver \/ Restart
Spec == Init /\ [][Next]_vars
=============================================================================
