----------------------------- MODULE MCMdTestHC -----------------------------
(* Instances of MdTestHC for TLC. *)
EXTENDS MdTestHC

\* No -start or -end, the same range spelled out, and a range setThread refuses.
FlagsAll == {<<0, 0>>, <<0, ThreadCount>>, <<2, 1>>}

\* Part of the threads, as for one of several computers.
FlagsPart == {<<1, 3>>}

============================================================================
