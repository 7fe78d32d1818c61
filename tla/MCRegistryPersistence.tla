----------------------- MODULE MCRegistryPersistence -----------------------
(* Instances of RegistryPersistence for TLC. *)
EXTENDS RegistryPersistence
=============================================================================
