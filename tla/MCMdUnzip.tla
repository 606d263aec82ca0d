----------------------------- MODULE MCMdUnzip -----------------------------
(* Instances of MdUnzip for TLC. *)
EXTENDS MdUnzip

\* Both threads meet block 0 at once; no thread meets block 1, whose ceilings are
\* near; thread 1 alone meets block 2, after a miss.
HitsMixed == {<<0, 0, 0>>, <<0, 1, 0>>, <<2, 1, 1>>}
CeilingMixed ==
  [b \in Block |-> [t \in Thread |-> IF b = 1 THEN 1 ELSE Horizon + 1]]

\* One block, which thread 1 alone meets, and at once.
HitsSingle == {<<0, 1, 0>>}
CeilingFar == [b \in Block |-> [t \in Thread |-> Horizon + 1]]

============================================================================
