----------------------------- MODULE MCGoUnzip -----------------------------
(* Instances of GoUnzip for TLC. *)
EXTENDS GoUnzip

MCCeiling == [b \in Block |-> [t \in Thread |-> Horizon]]

\* Both threads meet block 0; thread 1 meets block 1 after a miss.
HitsTwo == {<<0, 0, 0>>, <<0, 1, 1>>, <<1, 1, 1>>}

============================================================================
