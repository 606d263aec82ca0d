-------------------------- MODULE BlockChannel_proofs --------------------------
(***************************************************************************)
(* What follows from the promise a container keeps of its blocks, for      *)
(* every number of records, of fields and every place a container can be   *)
(* cut off at.                                                             *)
(***************************************************************************)
EXTENDS BlockChannel, TLAPS

Record == 1..Len(got)

\* A record read has the fields of the one sent.
Shape ==
  /\ Len(got) \in Nat
  /\ \A b \in Record : b \in DOMAIN sent => DOMAIN got[b] = DOMAIN sent[b]

\* A field that arrived is read as it was sent.
Faithful ==
  \A b \in Record : \A i \in DOMAIN got[b] : i <= Arrived(b) => got[b][i] = sent[b][i]

\* A field that did not is read as the same field of any earlier record with nothing of
\* that field arrived in between.
Lost(c, b, i) == \A k \in c..b : i \in DOMAIN got[k] /\ (k > c => i > Arrived(k))
Repeats ==
  \A b \in Record : \A c \in 1..b : \A i \in DOMAIN got[b] :
    Lost(c, b, i) => got[b][i] = got[c][i]

IInv == Shape /\ Faithful /\ Repeats

LEMMA ChannelInit == Init => IInv
BY DEF Init, IInv, Shape, Faithful, Repeats, Record

\* A record read joins those read before it, which stay as they are.
LEMMA Delivered ==
  ASSUME Shape, Deliver
  PROVE  /\ Len(got') = Len(got) + 1 /\ UNCHANGED <<sent, kept>>
         /\ \A b \in Record : got'[b] = got[b]
<1>1. Len(got) \in Nat /\ SubSeq(got', 1, Len(got)) = got /\ Len(got') = Len(got) + 1 /\ UNCHANGED <<sent, kept>>
  BY DEF Deliver, Shape
<1>2. \A b \in Record : SubSeq(got', 1, Len(got))[b] = got'[b]
  BY <1>1 DEF Record
<1> QED
  BY <1>1, <1>2

LEMMA ChannelStep == IInv /\ [Next]_vars => IInv'
<1> SUFFICES ASSUME IInv, [Next]_vars PROVE IInv'
  OBVIOUS
<1> USE DEF IInv
<1>1. CASE Send
  <2>1. got' = <<>> /\ Len(got') = 0
    BY <1>1 DEF Send
  <2> QED
    BY <2>1 DEF Shape, Faithful, Repeats, Record
<1>2. CASE Deliver
  <2>r. PICK r \in Nat : r = Len(got) + 1
    BY DEF Shape
  <2>0. /\ Len(got) \in Nat /\ Len(got') = r /\ UNCHANGED <<sent, kept>>
        /\ \A b \in Record : got'[b] = got[b]
    BY <2>r, <1>2, Delivered DEF Shape
  <2>1. /\ r \in DOMAIN sent => DOMAIN got'[r] = DOMAIN sent[r]
        /\ \A i \in DOMAIN got'[r] :
             /\ i <= Arrived(r) => got'[r][i] = sent[r][i]
             /\ i > Arrived(r) /\ r > 1 => got'[r][i] = got[r - 1][i]
    BY <2>r, <1>2 DEF Deliver
  <2>2. /\ \A b \in Record' : b \in Record \/ b = r
        /\ \A b \in Nat : Arrived(b)' = Arrived(b)
        /\ \A b \in Record' : b \in Nat
    BY <2>r, <2>0 DEF Record, Arrived
  <2>3. Shape'
    BY <2>r, <2>0, <2>1, <2>2 DEF Shape
  <2>4. Faithful'
    BY <2>r, <2>0, <2>1, <2>2 DEF Faithful
  <2>5. Repeats'
    <3>0. ASSUME NEW b \in Record', NEW c \in 1..b, NEW i, Lost(c, b, i)'
          PROVE  \A k \in c..b : k \in Nat /\ i \in DOMAIN got'[k] /\ (k > c => i > Arrived(k))
      <4>1. \A k \in c..b : k \in Nat /\ i \in DOMAIN got'[k] /\ (k > c => i > Arrived(k)')
        BY <2>2, <3>0 DEF Lost
      <4> QED
        BY <2>2, <4>1
    <3>1. ASSUME NEW b \in Record, NEW c \in 1..b, NEW i \in DOMAIN got'[b], Lost(c, b, i)'
          PROVE  got'[b][i] = got'[c][i]
      <4>0. b \in Record' /\ c \in Record /\ \A k \in c..b : k \in Record
        BY <2>r, <2>0, <3>1 DEF Record
      <4>1. Lost(c, b, i)
        BY <2>r, <2>0, <3>0, <3>1, <4>0 DEF Lost
      <4>2. i \in DOMAIN got[b] /\ got[b][i] = got[c][i]
        BY <2>r, <2>0, <3>1, <4>1 DEF Repeats
      <4> QED
        BY <2>r, <2>0, <3>1, <4>0, <4>2
    <3>2. ASSUME NEW c \in 1..r, NEW i \in DOMAIN got'[r], Lost(c, r, i)', c # r
          PROVE  got'[r][i] = got'[c][i]
      <4>1. /\ r - 1 \in Record /\ r \in c..r /\ c \in 1..(r - 1) /\ c \in Record /\ r \in Record'
            /\ r > c /\ r > 1 /\ \A k \in c..(r - 1) : k \in c..r /\ k \in Record
        BY <2>r, <2>0, <3>2 DEF Record
      <4>2. \A k \in c..r : k \in Nat /\ i \in DOMAIN got'[k] /\ (k > c => i > Arrived(k))
        BY <3>0, <3>2, <4>1
      <4>3. Lost(c, r - 1, i) /\ i \in DOMAIN got[r - 1]
        <5>1. \A k \in c..(r - 1) : i \in DOMAIN got[k] /\ (k > c => i > Arrived(k))
          BY <2>r, <2>0, <4>1, <4>2
        <5>2. r - 1 \in c..(r - 1)
          BY <2>r, <2>0, <4>1 DEF Record
        <5> QED
          BY <5>1, <5>2 DEF Lost
      <4>4. got[r - 1][i] = got[c][i]
        BY <4>1, <4>3 DEF Repeats
      <4>5. got'[r][i] = got[r - 1][i]
        BY <2>1, <3>2, <4>1, <4>2
      <4> QED
        BY <2>r, <2>0, <4>1, <4>4, <4>5
    <3> QED
      <4>1. ASSUME NEW b \in Record', NEW c \in 1..b, NEW i \in DOMAIN got'[b], Lost(c, b, i)'
            PROVE  got'[b][i] = got'[c][i]
        BY <2>2, <3>1, <3>2, <4>1
      <4> QED
        BY <4>1 DEF Repeats
  <2> QED
    BY <2>3, <2>4, <2>5
<1>3. CASE Restart
  <2>1. got' = <<>> /\ Len(got') = 0
    BY <1>3 DEF Restart
  <2> QED
    BY <2>1 DEF Shape, Faithful, Repeats, Record
<1>4. CASE UNCHANGED vars
  BY <1>4 DEF vars, Shape, Faithful, Repeats, Record, Lost, Arrived
<1> QED
  BY <1>1, <1>2, <1>3, <1>4 DEF Next

\* What a container promises through any number of records and of passes over it
\* (mdlist, then mdunzip): a record read has the fields of the one sent, a field that
\* arrived is the one sent, and one that did not, since a full disk cut the file off and
\* no reader looks whether a read failed, is that of the last record it arrived in.
THEOREM ChannelPromise == Spec => [](Shape /\ Faithful /\ Repeats)
<1> QED
  BY ChannelInit, ChannelStep, PTL DEF Spec, IInv

=============================================================================
