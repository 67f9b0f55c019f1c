--------------------------- MODULE MCLayersDialog ---------------------------
(***************************************************************************)
(* Small instance of LayersDialog: a custom folder with a layer of its own *)
(* and another version of a standard layer, and an implicit layer.         *)
(***************************************************************************)
EXTENDS LayersDialog

Manifest(key, type) == [key |-> key, type |-> type]

MCAlphabet == <<"validation", "devsim", "screenshot", "overlay">>

MCManifests ==
  [custom   |-> <<Manifest("screenshot", "custom"),
                  Manifest("validation", "custom")>>,
   explicit |-> <<Manifest("devsim", "explicit"),
                  Manifest("validation", "explicit")>>,
   implicit |-> <<Manifest("overlay", "implicit")>>]

MCStandard == <<"explicit", "implicit">>

\* A configuration with places given by hand, of layers of two platforms.
MCFiles ==
  { << [key |-> "screenshot", state |-> "overridden", rank |-> 4, here |-> TRUE],
       [key |-> "devsim", state |-> "overridden", rank |-> 2, here |-> TRUE],
       [key |-> "validation", state |-> "overridden", rank |-> 3, here |-> FALSE] >> }

=============================================================================
