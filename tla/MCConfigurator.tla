--------------------------- MODULE MCConfigurator ---------------------------
(* Configurator for TLC: one built-in configuration, and one or two of the *)
(* user.                                                                   *)
EXTENDS Configurator, TLC

CONSTANTS validation, mine, layers, zero

MCBuiltin == validation :> layers
MCOlder == mine :> layers
MCNoOlder == [name \in {} |-> zero]
=============================================================================
