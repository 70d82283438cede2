-------------------------- MODULE MCRemoteEnrollment --------------------------
(***************************************************************************)
(* Instances of RemoteEnrollment.                                          *)
(***************************************************************************)
EXTENDS RemoteEnrollment, TLC

Iguales == Permutations(Peticiones) \cup Permutations(Ids) \cup Permutations(Correos)
=============================================================================
