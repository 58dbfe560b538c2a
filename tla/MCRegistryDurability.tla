------------------------ MODULE MCRegistryDurability ------------------------
(* An instance of RegistryDurability for TLC, with MCRegistry's values.    *)
EXTENDS MCRegistry, RegistryDurability
=============================================================================
