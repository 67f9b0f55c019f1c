----------------------- MODULE MCConfigurationNames -----------------------
(* ConfigurationNames for TLC: a few texts, and numbers of 3 bits.         *)
EXTENDS ConfigurationNames

CONSTANTS New, Foo

MCWords == {New, Foo, Imported, Bad}
MCNew == <<New>>

\* "Foo", "Foo (2)", "Foo (2) (0)", "(2)", "Foo (Imported) ()"
MCNaturalNames ==
  {<<Foo>>, <<Foo, 2>>, <<Foo, 2, 0>>, <<2>>, <<Foo, Imported, Bad>>}
=============================================================================
