------------------------------ MODULE MCMdTest ------------------------------
(* Instances of MdTest for TLC. *)
EXTENDS MdTest

\* Thread 0 passes the ceiling one candidate earlier than the others.
MCCeiling == [b \in Block |-> [t \in Thread |-> IF t = 0 THEN 1 ELSE 2]]

\* The block is the second candidate of thread 1, below its ceiling; thread 0
\* meets a collision at its third candidate.
HitsFound == {<<0, 1, 1>>, <<0, 0, 2>>}
OriginalFound == <<1, 1>>

\* A block no thread meets below its ceiling; the collision of thread 0 comes
\* one candidate after the one at which it gives up.
HitsAbsent == {<<0, 0, 3>>}
OriginalAbsent == <<1, 4>>

============================================================================
