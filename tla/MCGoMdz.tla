------------------------------ MODULE MCGoMdz ------------------------------
(* Instances of GoMdz.                                                     *)
EXTENDS GoMdz, GoCommandLines
=============================================================================
