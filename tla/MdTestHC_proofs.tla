--------------------------- MODULE MdTestHC_proofs ---------------------------
(***************************************************************************)
(* Proofs about the Go mdtest for every number of threads, whichever of    *)
(* them meets the block and whatever part of them is launched: the count   *)
(* of "Not found" is complete only when no result was sent.                *)
(***************************************************************************)
EXTENDS MdTestHC, TLAPS, FiniteSetTheorems, SequenceTheorems

NotFounds(messages) == {i \in 1 .. Len(messages) : messages[i] = "notfound"}
Ended == {t \in Thread : pc[t] = "ended"}

\* A goroutine is launched once.
LaunchInv ==
  main \in {"flags", "launch"} =>
    \A t \in Thread : main = "flags" \/ t >= next => pc[t] = "none"

\* Until main has decided, every goroutine that has ended is counted or still waits in
\* the channel to be counted.
CountInv ==
  /\ closed <=> reported # "nothing"
  /\ reported = "nothing" => cl - 1 + Cardinality(NotFounds(channel)) = Cardinality(Ended)
  /\ reported = "notfound" => Ended = Thread

\* The result goes into the channel before the finder's own "Not found".
ResultFirst ==
  finder \in Thread /\ pc[finder] \in {"notfound", "ended"} /\ reported # "found" =>
    \E i \in 1 .. Len(channel) :
      /\ channel[i] = "found"
      /\ pc[finder] = "ended" => \E j \in NotFounds(channel) : i < j

IInv == TypeOK /\ LaunchInv /\ CountInv /\ ResultFirst /\ NotFoundIsTrue /\ PanicOnlyAfterFound

-----------------------------------------------------------------------------
LEMMA ThreadsAreFinite == IsFiniteSet(Thread) /\ Cardinality(Thread) = ThreadCount /\ ThreadCount \in Nat \ {0}
<1>1. ThreadCount \in Nat \ {0} /\ 0 \in Int /\ ThreadCount - 1 \in Int
  BY HCAssumption
<1> QED
  BY <1>1, FS_Interval DEF Thread

LEMMA NotFoundsAreFinite ==
  ASSUME NEW messages \in Seq({"found", "notfound"})
  PROVE  IsFiniteSet(NotFounds(messages)) /\ Cardinality(NotFounds(messages)) \in Nat
<1>1. Len(messages) \in Nat
  OBVIOUS
<1>2. IsFiniteSet(1 .. Len(messages))
  BY <1>1, FS_Interval
<1>3. NotFounds(messages) \in SUBSET (1 .. Len(messages))
  BY DEF NotFounds
<1>4. IsFiniteSet(NotFounds(messages))
  BY <1>2, <1>3, FS_Subset
<1> QED
  BY <1>4, FS_CardinalityType

\* A message more.
LEMMA AppendNotFounds ==
  ASSUME NEW messages \in Seq({"found", "notfound"}), NEW m \in {"found", "notfound"}
  PROVE  Cardinality(NotFounds(Append(messages, m))) =
           Cardinality(NotFounds(messages)) + (IF m = "notfound" THEN 1 ELSE 0)
<1> DEFINE n == Len(messages) + 1
<1>1. n \notin NotFounds(messages)
  BY DEF NotFounds
<1>2. CASE m = "notfound"
  <2>1. NotFounds(Append(messages, m)) = NotFounds(messages) \cup {n}
    BY <1>2 DEF NotFounds
  <2> QED
    BY <1>1, <1>2, <2>1, NotFoundsAreFinite, FS_AddElement
<1>3. CASE m = "found"
  <2>1. NotFounds(Append(messages, m)) = NotFounds(messages)
    BY <1>3 DEF NotFounds
  <2> QED
    BY <1>3, <2>1, NotFoundsAreFinite
<1> QED
  BY <1>2, <1>3

\* A message less.
LEMMA TailNotFounds ==
  ASSUME NEW messages \in Seq({"found", "notfound"}), messages # <<>>
  PROVE  Cardinality(NotFounds(messages)) =
           Cardinality(NotFounds(Tail(messages))) + (IF Head(messages) = "notfound" THEN 1 ELSE 0)
<1> DEFINE shifted == {i \in NotFounds(messages) : i > 1}
           shift == [i \in NotFounds(Tail(messages)) |-> i + 1]
<1>1. Tail(messages) \in Seq({"found", "notfound"}) /\ Len(messages) \in Nat \ {0}
      /\ Len(Tail(messages)) = Len(messages) - 1
      /\ \A i \in 1 .. Len(Tail(messages)) : Tail(messages)[i] = messages[i + 1]
  BY HeadTailProperties, EmptySeq
<1>2. shift \in Bijection(NotFounds(Tail(messages)), shifted)
  <2>1. \A i \in NotFounds(Tail(messages)) : i + 1 \in shifted
    BY <1>1 DEF NotFounds
  <2>2. \A i, j \in NotFounds(Tail(messages)) : i + 1 = j + 1 => i = j
    BY <1>1 DEF NotFounds
  <2>3. \A k \in shifted : \E i \in NotFounds(Tail(messages)) : i + 1 = k
    <3> SUFFICES ASSUME NEW k \in shifted
                 PROVE  \E i \in NotFounds(Tail(messages)) : i + 1 = k
      OBVIOUS
    <3>1. k - 1 \in NotFounds(Tail(messages)) /\ (k - 1) + 1 = k
      BY <1>1 DEF NotFounds
    <3> QED
      BY <3>1
  <2> QED
    BY <2>1, <2>2, <2>3 DEF Bijection, Injection, Surjection, IsInjective
<1>3. /\ IsFiniteSet(shifted) /\ Cardinality(shifted) = Cardinality(NotFounds(Tail(messages)))
      /\ Cardinality(NotFounds(Tail(messages))) \in Nat
  BY <1>1, <1>2, NotFoundsAreFinite, FS_Bijection DEF ExistsBijection
<1>4. CASE Head(messages) = "notfound"
  <2>1. NotFounds(messages) = shifted \cup {1} /\ 1 \notin shifted
    BY <1>1, <1>4 DEF NotFounds
  <2> QED
    BY <1>3, <1>4, <2>1, FS_AddElement
<1>5. CASE Head(messages) # "notfound"
  <2>1. NotFounds(messages) = shifted
    BY <1>1, <1>5 DEF NotFounds
  <2>2. Cardinality(NotFounds(messages)) = Cardinality(NotFounds(Tail(messages)))
    BY <1>3, <2>1
  <2> HIDE DEF shifted, shift
  <2> QED
    BY <1>3, <1>5, <2>2
<1> QED
  BY <1>4, <1>5

\* One goroutine more has ended.
LEMMA EndedGrows ==
  ASSUME NEW t \in Thread, pc[t] # "ended", pc \in [Thread -> Labels], pc' = [pc EXCEPT ![t] = "ended"]
  PROVE  Cardinality(Ended') = Cardinality(Ended) + 1
<1>1. Ended' = Ended \cup {t} /\ t \notin Ended /\ Ended \in SUBSET Thread
  BY DEF Ended
<1>2. IsFiniteSet(Ended) /\ Cardinality(Ended) \in Nat
  BY <1>1, ThreadsAreFinite, FS_Subset, FS_CardinalityType
<1> QED
  BY <1>1, <1>2, FS_AddElement

-----------------------------------------------------------------------------
\* Every variable keeps its type.
LEMMA TypingStep == TypeOK /\ [Next]_vars => TypeOK'
<1> SUFFICES ASSUME TypeOK, [Next]_vars
             PROVE  TypeOK'
  OBVIOUS
<1> USE ThreadsAreFinite
<1>1. ThreadStart \in 0 .. ThreadCount /\ ThreadEnd \in 0 .. ThreadCount
  BY HCAssumption DEF TypeOK, ThreadStart, ThreadEnd
<1>2. CASE SetThread
  BY <1>1, <1>2 DEF SetThread, TypeOK, MainLabels
<1>3. CASE Launch
  <2>1. next + 1 \in 0 .. ThreadCount
    BY <1>1, <1>3 DEF Launch, TypeOK
  <2>2. pc' \in [Thread -> Labels]
    BY <1>3 DEF Launch, TypeOK, Labels
  <2> QED
    BY <1>3, <2>1, <2>2 DEF Launch, TypeOK
<1>4. CASE AllLaunched \/ Exit
  BY <1>4 DEF AllLaunched, Exit, TypeOK, MainLabels
<1>5. CASE ReceiveFound
  BY <1>5 DEF ReceiveFound, TypeOK
<1>6. CASE ReceiveNotFound
  <2>1. channel' \in Seq({"found", "notfound"})
    BY <1>6, HeadTailProperties DEF ReceiveNotFound, TypeOK
  <2>2. cl' \in 1 .. ThreadCount
    BY <1>6 DEF ReceiveNotFound, TypeOK
  <2>3. closed' \in BOOLEAN /\ reported' \in {"nothing", "found", "notfound"}
    BY <1>6 DEF ReceiveNotFound, TypeOK
  <2> QED
    BY <1>6, <2>1, <2>2, <2>3 DEF ReceiveNotFound, TypeOK
<1>7. ASSUME NEW t \in Thread, Goroutine(t)
      PROVE  TypeOK'
  <2>1. CASE RunDecode(t)
    BY <2>1 DEF RunDecode, TypeOK, Labels
  <2>2. ASSUME NEW m \in {"found", "notfound"}, Send(t, m)
        PROVE  TypeOK'
    BY <2>2 DEF Send, TypeOK, Labels
  <2>3. CASE SendOnClosed(t)
    BY <2>3 DEF SendOnClosed, TypeOK, MainLabels
  <2> QED
    BY <1>7, <2>1, <2>2, <2>3 DEF Goroutine
<1>8. CASE UNCHANGED vars
  BY <1>8 DEF vars, TypeOK
<1> QED
  BY <1>2, <1>3, <1>4, <1>5, <1>6, <1>7, <1>8 DEF Next, Main, Finished

LEMMA InitInv == Init => IInv
<1> SUFFICES ASSUME Init
             PROVE  IInv
  OBVIOUS
<1> USE ThreadsAreFinite DEF Init
<1>1. TypeOK
  <2>1. next \in 0 .. ThreadCount /\ cl \in 1 .. ThreadCount
    OBVIOUS
  <2>2. channel \in Seq({"found", "notfound"}) /\ pc \in [Thread -> Labels]
    BY DEF Labels
  <2> QED
    BY <2>1, <2>2 DEF TypeOK, MainLabels
<1>2. LaunchInv /\ ResultFirst /\ NotFoundIsTrue /\ PanicOnlyAfterFound
  BY DEF LaunchInv, ResultFirst, NotFoundIsTrue, PanicOnlyAfterFound
<1>3. CountInv
  <2>1. NotFounds(channel) = {} /\ Ended = {}
    BY DEF NotFounds, Ended
  <2> QED
    BY <2>1, FS_EmptySet DEF CountInv
<1> QED
  BY <1>1, <1>2, <1>3 DEF IInv

\* A "Not found" that completes the count leaves none in the channel, and every goroutine
\* has ended: had one of them met the block, its result would still be before it.
LEMMA CountComplete ==
  ASSUME IInv, ReceiveNotFound, reported = "nothing", cl = ThreadCount
  PROVE  Ended = Thread /\ finder = NoThread
<1> DEFINE n == Cardinality(NotFounds(channel))
<1>1. channel \in Seq({"found", "notfound"}) /\ channel # <<>> /\ Head(channel) = "notfound"
  BY DEF IInv, TypeOK, ReceiveNotFound
<1>2. IsFiniteSet(NotFounds(channel)) /\ n \in Nat
  BY <1>1, NotFoundsAreFinite
<1>3. 1 \in NotFounds(channel)
  BY <1>1 DEF NotFounds
<1>4. n >= 1
  BY <1>2, <1>3, FS_EmptySet
<1>5. Ended \in SUBSET Thread /\ Cardinality(Ended) <= ThreadCount /\ Cardinality(Ended) \in Nat
  BY ThreadsAreFinite, FS_Subset, FS_CardinalityType DEF Ended
<1>6. Cardinality(Ended) = ThreadCount - 1 + n
  BY <1>2 DEF IInv, CountInv
<1>7. n = 1 /\ Cardinality(Ended) = ThreadCount
  BY <1>2, <1>4, <1>5, <1>6, ThreadsAreFinite
<1>8. Ended = Thread
  BY <1>5, <1>7, ThreadsAreFinite, FS_Subset
<1>9. ASSUME finder \in Thread
      PROVE  FALSE
  <2>1. pc[finder] = "ended"
    BY <1>8, <1>9 DEF Ended
  <2>2. PICK i \in 1 .. Len(channel) : channel[i] = "found" /\ \E j \in NotFounds(channel) : i < j
    BY <1>9, <2>1 DEF IInv, ResultFirst
  <2>3. PICK j \in NotFounds(channel) : i < j
    BY <2>2
  <2>4. j # 1 /\ {1, j} \in SUBSET NotFounds(channel)
    BY <1>3, <2>3
  <2>5. PICK x : NotFounds(channel) = {x}
    BY <1>2, <1>7, FS_Singleton
  <2> QED
    BY <2>4, <2>5
<1> QED
  BY <1>8, <1>9 DEF IInv, TypeOK

-----------------------------------------------------------------------------
\* main launches in the order of the thread numbers.
LEMMA LaunchStep == IInv /\ [Next]_vars => LaunchInv'
<1> SUFFICES ASSUME IInv, [Next]_vars
             PROVE  LaunchInv'
  OBVIOUS
<1> USE DEF LaunchInv
<1>0. TypeOK /\ LaunchInv
  BY DEF IInv
<1>1. CASE SetThread
  BY <1>0, <1>1 DEF SetThread
<1>2. CASE Launch
  <2>1. next \in Int /\ Thread \subseteq Int /\ next' = next + 1
    BY <1>0, <1>2, ThreadsAreFinite DEF Launch, TypeOK, Thread
  <2>2. ASSUME NEW t \in Thread, t >= next'
        PROVE  pc'[t] = "none"
    <3>1. t # next /\ t >= next
      BY <2>1, <2>2
    <3> QED
      BY <1>0, <1>2, <3>1 DEF Launch, TypeOK
  <2> QED
    BY <1>2, <2>2 DEF Launch
<1>3. CASE AllLaunched \/ Exit \/ ReceiveFound \/ ReceiveNotFound
  BY <1>3 DEF AllLaunched, Exit, ReceiveFound, ReceiveNotFound
<1>4. ASSUME NEW t \in Thread, Goroutine(t)
      PROVE  LaunchInv'
  <2>1. pc[t] # "none" /\ main # "flags"
    BY <1>4 DEF Goroutine, RunDecode, Send, SendOnClosed, Running
  <2>2. CASE SendOnClosed(t)
    BY <2>2 DEF SendOnClosed
  <2>3. CASE RunDecode(t)
    BY <1>0, <2>1, <2>3 DEF RunDecode, TypeOK
  <2>4. ASSUME NEW m \in {"found", "notfound"}, Send(t, m)
        PROVE  LaunchInv'
    BY <1>0, <2>1, <2>4 DEF Send, TypeOK
  <2> QED
    BY <1>4, <2>2, <2>3, <2>4 DEF Goroutine
<1>5. CASE UNCHANGED vars
  BY <1>0, <1>5 DEF vars
<1> QED
  BY <1>1, <1>2, <1>3, <1>4, <1>5 DEF Next, Main, Finished

\* A step that leaves the channel, the count and every ended goroutine as they were.
LEMMA CountKept ==
  ASSUME CountInv, UNCHANGED <<channel, cl, reported, closed>>, Ended' = Ended
  PROVE  CountInv'
BY DEF CountInv, NotFounds

\* A goroutine that ends puts its "Not found" into the channel; main counts what it takes out.
LEMMA CountStep == IInv /\ [Next]_vars => CountInv'
<1> SUFFICES ASSUME IInv, [Next]_vars
             PROVE  CountInv'
  OBVIOUS
<1>0. TypeOK /\ LaunchInv /\ CountInv
  BY DEF IInv
<1>a. channel \in Seq({"found", "notfound"}) /\ cl \in Int /\ pc \in [Thread -> Labels]
  BY <1>0 DEF TypeOK
<1>b. Cardinality(Ended) \in Int /\ Cardinality(NotFounds(channel)) \in Int
  BY <1>a, NotFoundsAreFinite, ThreadsAreFinite, FS_Subset, FS_CardinalityType DEF Ended
<1>1. CASE SetThread \/ AllLaunched \/ Exit
  BY <1>0, <1>1, CountKept DEF SetThread, AllLaunched, Exit, Ended
<1>2. CASE Launch
  <2>1. next \in Thread => pc[next] = "none"
    BY <1>0, <1>2 DEF Launch, LaunchInv, TypeOK, Thread
  <2>2. Ended' = Ended
    BY <1>a, <1>2, <2>1 DEF Launch, Ended
  <2> QED
    BY <1>0, <1>2, <2>2, CountKept DEF Launch
<1>3. CASE ReceiveFound
  BY <1>3 DEF ReceiveFound, CountInv
<1>4. CASE ReceiveNotFound
  <2>1. Ended' = Ended
    BY <1>4 DEF ReceiveNotFound, Ended
  <2>2. CASE cl = ThreadCount /\ reported = "nothing"
    <3>1. Ended = Thread
      BY <1>4, <2>2, CountComplete
    <3> QED
      BY <1>4, <2>1, <2>2, <3>1 DEF ReceiveNotFound, CountInv
  <2>3. CASE reported = "notfound"
    <3>1. reported' = "notfound" /\ closed'
      BY <1>0, <1>4, <2>3 DEF ReceiveNotFound, CountInv
    <3> QED
      BY <1>0, <2>1, <2>3, <3>1 DEF CountInv
  <2>4. CASE cl # ThreadCount /\ reported = "nothing"
    <3>1. cl' = cl + 1 /\ UNCHANGED <<closed, reported>>
      BY <1>4, <2>4 DEF ReceiveNotFound
    <3>2. Cardinality(NotFounds(channel)) = Cardinality(NotFounds(Tail(channel))) + 1
      BY <1>a, <1>4, TailNotFounds DEF ReceiveNotFound
    <3>3. channel' = Tail(channel) /\ Tail(channel) \in Seq({"found", "notfound"})
      BY <1>a, <1>4, HeadTailProperties DEF ReceiveNotFound
    <3>4. NotFounds(channel)' = NotFounds(Tail(channel)) /\ Cardinality(NotFounds(Tail(channel))) \in Int
      <4>1. channel' = Tail(channel)
        BY <1>4 DEF ReceiveNotFound
      <4>2. NotFounds(channel') = NotFounds(Tail(channel))
        BY <4>1
      <4>3. NotFounds(channel)' = NotFounds(channel')
        BY DEF NotFounds
      <4>4. Cardinality(NotFounds(Tail(channel))) \in Nat
        BY <3>3, NotFoundsAreFinite
      <4> QED
        BY <4>2, <4>3, <4>4
    <3>5. cl' - 1 + Cardinality(NotFounds(channel)') = cl - 1 + Cardinality(NotFounds(channel))
      BY <1>a, <3>1, <3>2, <3>4
    <3>6. cl' - 1 + Cardinality(NotFounds(channel)') = Cardinality(Ended)
      BY <1>0, <2>4, <3>5 DEF CountInv
    <3> QED
      BY <1>0, <2>1, <2>4, <3>1, <3>6 DEF CountInv
  <2> QED
    BY <1>0, <1>4, <2>2, <2>3, <2>4 DEF ReceiveNotFound, TypeOK
<1>5. ASSUME NEW t \in Thread, Goroutine(t)
      PROVE  CountInv'
  <2>1. pc[t] # "ended" /\ (reported # "notfound")
    BY <1>0, <1>5 DEF Goroutine, RunDecode, Send, SendOnClosed, CountInv, Ended
  <2>2. CASE SendOnClosed(t)
    BY <1>0, <2>2, CountKept DEF SendOnClosed, Ended
  <2>3. CASE RunDecode(t)
    <3>1. Ended' = Ended
      BY <1>a, <2>1, <2>3 DEF RunDecode, Ended
    <3> QED
      BY <1>0, <2>3, <3>1, CountKept DEF RunDecode
  <2>4. CASE Send(t, "found")
    <3>1. Ended' = Ended
      BY <1>a, <2>1, <2>4 DEF Send, Ended
    <3>2. Cardinality(NotFounds(channel)') = Cardinality(NotFounds(channel))
      <4>1. NotFounds(channel)' = NotFounds(Append(channel, "found"))
        BY <2>4 DEF Send, NotFounds
      <4> QED
        BY <1>a, <1>b, <4>1, AppendNotFounds
    <3> QED
      BY <1>0, <2>1, <2>4, <3>1, <3>2 DEF Send, CountInv
  <2>5. CASE Send(t, "notfound")
    <3>1. Cardinality(Ended') = Cardinality(Ended) + 1
      BY <1>a, <2>1, <2>5, EndedGrows DEF Send
    <3>2. Cardinality(NotFounds(channel)') = Cardinality(NotFounds(channel)) + 1
      <4>1. NotFounds(channel)' = NotFounds(Append(channel, "notfound"))
        BY <2>5 DEF Send, NotFounds
      <4> QED
        BY <1>a, <1>b, <4>1, AppendNotFounds
    <3>3. UNCHANGED <<cl, reported, closed>>
      BY <2>5 DEF Send
    <3>4. reported = "nothing" => cl' - 1 + Cardinality(NotFounds(channel)') = Cardinality(Ended')
      BY <1>0, <1>a, <1>b, <3>1, <3>2, <3>3 DEF CountInv
    <3> QED
      BY <1>0, <2>1, <3>3, <3>4 DEF CountInv
  <2> QED
    BY <1>5, <2>2, <2>3, <2>4, <2>5 DEF Goroutine
<1>6. CASE UNCHANGED vars
  BY <1>0, <1>6, CountKept DEF vars, Ended
<1> QED
  BY <1>1, <1>2, <1>3, <1>4, <1>5, <1>6 DEF Next, Main, Finished


\* What the finder has sent stays in its order in the channel.
LEMMA ResultStep == IInv /\ [Next]_vars => ResultFirst'
<1> SUFFICES ASSUME IInv, [Next]_vars, finder' \in Thread, pc'[finder'] \in {"notfound", "ended"},
                    reported' # "found"
             PROVE  \E i \in 1 .. Len(channel') :
                      /\ channel'[i] = "found"
                      /\ pc'[finder'] = "ended" => \E j \in NotFounds(channel') : i < j
  BY DEF ResultFirst, NotFounds
<1>0. TypeOK /\ ResultFirst
  BY DEF IInv
<1>a. finder \in Thread /\ finder' = finder /\ channel \in Seq({"found", "notfound"}) /\ pc \in [Thread -> Labels]
  BY <1>0 DEF TypeOK, Next, Main, Goroutine, SetThread, Launch, AllLaunched, ReceiveFound, ReceiveNotFound,
              Exit, RunDecode, Send, SendOnClosed, Finished, vars
<1>1. CASE SetThread \/ AllLaunched \/ Exit \/ UNCHANGED vars
  BY <1>0, <1>1 DEF SetThread, AllLaunched, Exit, vars, ResultFirst, NotFounds
<1>2. CASE Launch
  <2>1. pc'[finder] = pc[finder]
    BY <1>a, <1>2 DEF Launch
  <2> QED
    BY <1>0, <1>a, <1>2, <2>1 DEF Launch, ResultFirst, NotFounds
<1>3. CASE ReceiveFound
  BY <1>3 DEF ReceiveFound
<1>4. CASE ReceiveNotFound
  <2>1. pc' = pc /\ reported # "found" /\ channel # <<>> /\ Head(channel) = "notfound" /\ channel' = Tail(channel)
    BY <1>4 DEF ReceiveNotFound
  <2>2. PICK i \in 1 .. Len(channel) :
          channel[i] = "found" /\ (pc[finder] = "ended" => \E j \in NotFounds(channel) : i < j)
    BY <1>0, <1>a, <2>1 DEF ResultFirst
  <2>3. /\ Len(channel) \in Nat /\ Len(channel') = Len(channel) - 1
        /\ \A k \in 1 .. Len(channel') : channel'[k] = channel[k + 1]
    BY <1>a, <2>1, HeadTailProperties
  <2>4. i - 1 \in 1 .. Len(channel') /\ channel'[i - 1] = "found"
    <3>1. i # 1
      BY <1>a, <2>1, <2>2
    <3> QED
      BY <2>2, <2>3, <3>1
  <2>5. ASSUME pc[finder] = "ended"
        PROVE  \E j \in NotFounds(channel') : i - 1 < j
    <3>1. PICK j \in NotFounds(channel) : i < j
      BY <2>2, <2>5
    <3>2. j - 1 \in NotFounds(channel') /\ i - 1 < j - 1
      BY <2>3, <2>4, <3>1 DEF NotFounds
    <3> QED
      BY <3>2
  <2> QED
    BY <1>a, <2>1, <2>4, <2>5
<1>5. ASSUME NEW t \in Thread, Goroutine(t)
      PROVE  \E i \in 1 .. Len(channel') :
               /\ channel'[i] = "found"
               /\ pc'[finder'] = "ended" => \E j \in NotFounds(channel') : i < j
  <2>1. CASE SendOnClosed(t)
    BY <1>0, <2>1 DEF SendOnClosed, ResultFirst, NotFounds
  <2>2. CASE RunDecode(t)
    <3>1. t # finder /\ pc'[finder] = pc[finder]
      BY <1>a, <2>2 DEF RunDecode
    <3> QED
      BY <1>0, <1>a, <2>2, <3>1 DEF RunDecode, ResultFirst, NotFounds
  <2>3. ASSUME NEW m \in {"found", "notfound"}, Send(t, m)
        PROVE  \E i \in 1 .. Len(channel') :
                 /\ channel'[i] = "found"
                 /\ pc'[finder'] = "ended" => \E j \in NotFounds(channel') : i < j
    <3> DEFINE last == Len(channel) + 1
    <3>1. /\ pc[t] = m /\ reported # "found" /\ channel' = Append(channel, m)
          /\ pc' = [pc EXCEPT ![t] = IF m = "found" THEN "notfound" ELSE "ended"]
      BY <2>3 DEF Send
    <3>2. /\ Len(channel) \in Nat /\ Len(channel') = last /\ channel'[last] = m
          /\ \A k \in 1 .. Len(channel) : channel'[k] = channel[k]
      BY <1>a, <3>1, AppendProperties
    <3>3. CASE t = finder /\ m = "found"
      <4>1. pc'[finder] = "notfound" /\ last \in 1 .. Len(channel')
        BY <1>a, <3>1, <3>2, <3>3
      <4> QED
        BY <1>a, <3>2, <3>3, <4>1
    <3>4. CASE t # finder \/ m = "notfound"
      <4>1. pc[finder] \in {"notfound", "ended"}
        BY <1>a, <3>1, <3>4
      <4>2. PICK i \in 1 .. Len(channel) :
              channel[i] = "found" /\ (pc[finder] = "ended" => \E j \in NotFounds(channel) : i < j)
        BY <1>0, <1>a, <3>1, <4>1 DEF ResultFirst
      <4>3. i \in 1 .. Len(channel') /\ channel'[i] = "found" /\ i < last
        BY <3>2, <4>2
      <4>4. NotFounds(channel) \subseteq NotFounds(channel')
        BY <3>2 DEF NotFounds
      <4>5. CASE t = finder
        <5>1. last \in NotFounds(channel')
          BY <3>2, <3>4, <4>5 DEF NotFounds
        <5> QED
          BY <4>3, <5>1
      <4>6. CASE t # finder
        <5>1. pc'[finder'] = pc[finder]
          BY <1>a, <3>1, <4>6
        <5> QED
          BY <4>2, <4>3, <4>4, <5>1
      <4> QED
        BY <4>5, <4>6
    <3> QED
      BY <3>3, <3>4
  <2> QED
    BY <1>5, <2>1, <2>2, <2>3 DEF Goroutine
<1> QED
  BY <1>1, <1>2, <1>3, <1>4, <1>5 DEF Next, Main, Finished

\* Main's own last words: "Not found" only on a complete count, and the panic only on a
\* channel that a result closed.
LEMMA VerdictStep == IInv /\ [Next]_vars => NotFoundIsTrue' /\ PanicOnlyAfterFound'
<1> SUFFICES ASSUME IInv, [Next]_vars
             PROVE  NotFoundIsTrue' /\ PanicOnlyAfterFound'
  OBVIOUS
<1>0. TypeOK /\ CountInv /\ NotFoundIsTrue /\ PanicOnlyAfterFound
  BY DEF IInv
<1> USE DEF NotFoundIsTrue, PanicOnlyAfterFound
<1>1. CASE SetThread \/ Launch \/ AllLaunched \/ Exit \/ UNCHANGED vars
  BY <1>0, <1>1 DEF SetThread, Launch, AllLaunched, Exit, vars
<1>2. CASE ReceiveFound
  BY <1>2 DEF ReceiveFound
<1>3. CASE ReceiveNotFound
  <2>1. main' = "receive" /\ finder' = finder
    BY <1>3 DEF ReceiveNotFound
  <2>2. reported = "nothing" /\ reported' = "notfound" => finder = NoThread
    <3> SUFFICES ASSUME reported = "nothing", reported' = "notfound"
                 PROVE  finder = NoThread
      OBVIOUS
    <3>1. cl = ThreadCount
      BY <1>3 DEF ReceiveNotFound
    <3> QED
      BY <1>3, <3>1, CountComplete
  <2>3. reported \in {"nothing", "notfound"}
    BY <1>0, <1>3 DEF ReceiveNotFound, TypeOK
  <2> QED
    BY <1>0, <2>1, <2>2, <2>3
<1>4. ASSUME NEW t \in Thread, Goroutine(t)
      PROVE  NotFoundIsTrue' /\ PanicOnlyAfterFound'
  <2>1. CASE RunDecode(t) \/ \E m \in {"found", "notfound"} : Send(t, m)
    BY <1>0, <2>1 DEF RunDecode, Send
  <2>2. CASE SendOnClosed(t)
    <3>1. reported \in {"found", "notfound"} /\ Ended # Thread
      BY <1>0, <2>2 DEF SendOnClosed, CountInv, TypeOK, Ended
    <3> QED
      BY <1>0, <2>2, <3>1 DEF SendOnClosed, CountInv
  <2> QED
    BY <1>4, <2>1, <2>2 DEF Goroutine
<1> QED
  BY <1>1, <1>2, <1>3, <1>4 DEF Next, Main, Finished

LEMMA StepInv == IInv /\ [Next]_vars => IInv'
<1> SUFFICES ASSUME IInv, [Next]_vars
             PROVE  IInv'
  OBVIOUS
<1>1. TypeOK'
  BY TypingStep DEF IInv
<1> QED
  BY <1>1, LaunchStep, CountStep, ResultStep, VerdictStep DEF IInv

-----------------------------------------------------------------------------
\* The count of "Not found" never passes the number of threads, and the channel holds
\* nothing but the two messages, whatever the number of threads.
THEOREM HCTyping == Spec => []TypeOK
<1> QED
  BY InitInv, TypingStep, PTL DEF Spec, IInv

\* mddecode prints "Not found" only when no goroutine's walk meets the block: the finder's
\* own "Not found" lets the count grow as if it had failed, but is received after its result.
THEOREM HCNotFoundIsTrue == Spec => []NotFoundIsTrue
<1>1. IInv => NotFoundIsTrue
  BY DEF IInv
<1> QED
  BY <1>1, InitInv, StepInv, PTL DEF Spec

\* A goroutine that sends on the closed channel ends the program only after mddecode has
\* printed the block.
THEOREM HCPanicOnlyAfterFound == Spec => []PanicOnlyAfterFound
<1>1. IInv => PanicOnlyAfterFound
  BY DEF IInv
<1> QED
  BY <1>1, InitInv, StepInv, PTL DEF Spec

=============================================================================
