------------------------------- MODULE MCVia -------------------------------
(***************************************************************************)
(* Environments with lists of up to two entries, and drivers found in      *)
(* every way; up to two physical devices.                                  *)
(***************************************************************************)
EXTENDS Via

Env(icds, drivers, libs) ==
    [icds |-> icds, drivers |-> drivers, libs |-> libs, layers |-> <<"short", "long">>]

MCEnvironments ==
    {Env(<< >>, << >>, 0), Env(<<"first">>, << >>, 1),
     Env(<<"nowhere", "beside">>, << <<"no icd">>, <<"first", "no library">> >>, 1),
     Env(<<"second", "linker">>, << >>, 2)}

MCDriverFolders ==
    {<< >>, << <<"unreadable", "away">>, <<"linker">> >>, << <<"system", "nowhere">>, << >> >>}

ImplicitLayer(enable, disable, expiration, overridden) ==
    [readable |-> TRUE, manifest |-> "library", enable |-> enable, disable |-> disable,
     expiration |-> expiration, overrides |-> overridden]

MCNow == <<2, 2, 2, 2, 2>>

MCLayers ==
    {[ImplicitLayer("none", "none", << >>, << >>) EXCEPT !.readable = FALSE],
     ImplicitLayer("set", "unset", <<3, 1, 1, 1, 1>>, << >>),
     ImplicitLayer("none", "set", <<1, 3, 1, 1, 1>>, << <<"library", "unreadable">>, << >> >>),
     ImplicitLayer("set", "unset", <<1, 3, 1, 1, 1>>, << >>)}
=============================================================================
