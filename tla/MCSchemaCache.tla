--------------------------- MODULE MCSchemaCache ---------------------------
(***************************************************************************)
(* The instance of SchemaCache that TLC explores: a manifest event, and    *)
(* two events that share an empty descriptor and differ by their names.    *)
(***************************************************************************)
EXTENDS SchemaCache
=============================================================================
