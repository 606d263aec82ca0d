------------------------------ MODULE MdTestHC ------------------------------
(***************************************************************************)
(* The Go mdtest: goroutines report to main over a channel (mddecode and   *)
(* setThread in testdecode_go/cmd/mdTestHC.go, RunDecode in                *)
(* testdecode_go/modScanHC/modScanHC.go).                                  *)
(*                                                                         *)
(* A goroutine that finds the random block sends the result and then, like *)
(* every other goroutine, "Not found".  Main closes the channel on the     *)
(* first result, or when it has counted as many "Not found" as there are   *)
(* thread numbers.  Nothing is shared by two decode calls, so each is one  *)
(* step here.                                                              *)
(***************************************************************************)
EXTENDS Integers, Sequences

CONSTANTS
  ThreadCount,   \* the -thread argument
  Flags          \* the <<-start, -end>> arguments to consider

ASSUME HCAssumption ==
  /\ ThreadCount \in Nat \ {0}
  /\ Flags \subseteq (0 .. ThreadCount) \X (0 .. ThreadCount)

VARIABLES
  finder,      \* the thread number whose walk meets the block, or NoThread
  flags,       \* the arguments of this execution
  main,        \* where mddecode is
  next,        \* its loop counter threadNum
  cl,          \* its count of "Not found"
  reported,    \* what it prints
  channel,     \* the buffered channel c
  closed,
  pc           \* where each goroutine is

vars == <<finder, flags, main, next, cl, reported, channel, closed, pc>>

Thread == 0 .. ThreadCount - 1
NoThread == -1

MainLabels == {"flags", "launch", "receive", "done", "usage", "panic"}
Labels == {"none", "decode", "found", "notfound", "ended"}

\* setThread: zero stands for "not given".
ThreadStart == flags[1]
ThreadEnd == IF flags[2] = 0 THEN ThreadCount ELSE flags[2]

-----------------------------------------------------------------------------
Running == main \in {"launch", "receive"}

RunDecode(t) ==
  /\ Running
  /\ pc[t] = "decode"
  /\ pc' = [pc EXCEPT ![t] = IF t = finder THEN "found" ELSE "notfound"]
  /\ UNCHANGED <<finder, flags, main, next, cl, reported, channel, closed>>

\* The channel holds ThreadCount messages; a full one blocks the sender.
Send(t, message) ==
  /\ Running
  /\ pc[t] = message
  /\ ~closed
  /\ Len(channel) < ThreadCount
  /\ channel' = Append(channel, message)
  /\ pc' = [pc EXCEPT ![t] = IF message = "found" THEN "notfound" ELSE "ended"]
  /\ UNCHANGED <<finder, flags, main, next, cl, reported, closed>>

\* A send on a closed channel panics, and ends the program.
SendOnClosed(t) ==
  /\ Running
  /\ pc[t] \in {"found", "notfound"}
  /\ closed
  /\ main' = "panic"
  /\ UNCHANGED <<finder, flags, next, cl, reported, channel, closed, pc>>

Goroutine(t) ==
  \/ RunDecode(t)
  \/ Send(t, "found")
  \/ Send(t, "notfound")
  \/ SendOnClosed(t)

SetThread ==
  /\ main = "flags"
  /\ main' = IF ThreadEnd < ThreadStart THEN "usage" ELSE "launch"
  /\ next' = ThreadStart
  /\ UNCHANGED <<finder, flags, cl, reported, channel, closed, pc>>

Launch ==
  /\ main = "launch"
  /\ next < ThreadEnd
  /\ pc' = [pc EXCEPT ![next] = "decode"]
  /\ next' = next + 1
  /\ UNCHANGED <<finder, flags, main, cl, reported, channel, closed>>

AllLaunched ==
  /\ main = "launch"
  /\ next = ThreadEnd
  /\ main' = "receive"
  /\ UNCHANGED <<finder, flags, next, cl, reported, channel, closed, pc>>

\* The first result closes the channel and leaves the loop.
ReceiveFound ==
  /\ main = "receive"
  /\ channel # <<>>
  /\ Head(channel) = "found"
  /\ reported # "found"
  /\ reported' = "found"
  /\ channel' = Tail(channel)
  /\ closed' = TRUE
  /\ UNCHANGED <<finder, flags, main, next, cl, pc>>

\* Mutant: the count is compared with one thread more.
ReceiveNotFoundLate ==
  /\ main = "receive"
  /\ reported # "found"
  /\ channel # <<>>
  /\ Head(channel) = "notfound"
  /\ channel' = Tail(channel)
  /\ IF cl = ThreadCount + 1
     THEN closed' = TRUE /\ reported' = "notfound" /\ UNCHANGED cl
     ELSE cl' = cl + 1 /\ UNCHANGED <<closed, reported>>
  /\ UNCHANGED <<finder, flags, main, next, pc>>

\* Mutant: the count is compared with one thread less.
ReceiveNotFoundSoon ==
  /\ main = "receive"
  /\ reported # "found"
  /\ channel # <<>>
  /\ Head(channel) = "notfound"
  /\ channel' = Tail(channel)
  /\ IF cl = ThreadCount - 1
     THEN closed' = TRUE /\ reported' = "notfound" /\ UNCHANGED cl
     ELSE cl' = cl + 1 /\ UNCHANGED <<closed, reported>>
  /\ UNCHANGED <<finder, flags, main, next, pc>>

ReceiveNotFound ==
  /\ main = "receive"
  /\ reported # "found"
  /\ channel # <<>>
  /\ Head(channel) = "notfound"
  /\ channel' = Tail(channel)
  /\ IF cl = ThreadCount
     THEN closed' = TRUE /\ reported' = "notfound" /\ UNCHANGED cl
     ELSE cl' = cl + 1 /\ UNCHANGED <<closed, reported>>
  /\ UNCHANGED <<finder, flags, main, next, pc>>

\* After the break, or when the closed channel is empty, mdtest exits.
Exit ==
  /\ main = "receive"
  /\ closed
  /\ reported = "found" \/ channel = <<>>
  /\ main' = "done"
  /\ UNCHANGED <<finder, flags, next, cl, reported, channel, closed, pc>>

Main ==
  \/ SetThread
  \/ Launch
  \/ AllLaunched
  \/ ReceiveFound
  \/ ReceiveNotFound
  \/ Exit

Finished == main \in {"done", "usage", "panic"} /\ UNCHANGED vars

Init ==
  /\ finder \in Thread \cup {NoThread}
  /\ flags \in Flags
  /\ main = "flags"
  /\ next = 0
  /\ cl = 1
  /\ reported = "nothing"
  /\ channel = <<>>
  /\ closed = FALSE
  /\ pc = [t \in Thread |-> "none"]

Next == Main \/ (\E t \in Thread : Goroutine(t)) \/ Finished

Spec == Init /\ [][Next]_vars

\* The Go scheduler runs main and every runnable goroutine eventually.
FairSpec == Spec /\ WF_vars(Main) /\ \A t \in Thread : WF_vars(Goroutine(t))

-----------------------------------------------------------------------------
TypeOK ==
  /\ finder \in Thread \cup {NoThread}
  /\ flags \in Flags
  /\ main \in MainLabels
  /\ next \in 0 .. ThreadCount
  /\ cl \in 1 .. ThreadCount
  /\ reported \in {"nothing", "found", "notfound"}
  /\ channel \in Seq({"found", "notfound"})
  /\ closed \in BOOLEAN
  /\ pc \in [Thread -> Labels]

\* The finder sends "Not found" too, and main counts it with the others: still
\* the count is never complete before main has seen the result.
NotFoundIsTrue == reported = "notfound" => finder = NoThread

\* A send on the closed channel ends the program only after main has printed the
\* block: closing on the count of "Not found" finds every goroutine done sending,
\* closing on the result need not.
PanicOnlyAfterFound == main = "panic" => reported = "found"

\* mdtest ends, also when it is given a part of the threads.
Terminates == <>(main \in {"done", "usage", "panic"})

============================================================================
