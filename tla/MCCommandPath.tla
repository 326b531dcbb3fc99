--------------------------- MODULE MCCommandPath ---------------------------
(* A small instance of CommandPath. *)
EXTENDS CommandPath

AllNames == {t.name : t \in typelist}
==============================================================================
