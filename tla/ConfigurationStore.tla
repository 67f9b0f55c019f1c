------------------------- MODULE ConfigurationStore -------------------------
(***************************************************************************)
(* What the list of layers configurations is to its user: a store of       *)
(* contents under names, in which an operation on one name leaves every    *)
(* other name alone.                                                       *)
(***************************************************************************)
EXTENDS Functions

CONSTANT Contents  \* what a configuration can hold

VARIABLE store  \* the contents under each name in use

Taken == DOMAIN store

Init == Taken = {}

\* A new configuration, a duplicate, an import or a load: under a free name.
Add(name, content) ==
  /\ name \notin Taken
  /\ store' = [key \in Taken \cup {name} |-> IF key = name THEN content ELSE store[key]]

Edit(name, content) ==
  /\ name \in Taken
  /\ store' = [store EXCEPT ![name] = content]

Rename(old, new) ==
  /\ old \in Taken
  /\ new \notin Taken
  /\ store' = [key \in (Taken \ {old}) \cup {new} |->
                 IF key = new THEN store[old] ELSE store[key]]

Remove(name) ==
  /\ name \in Taken
  /\ store' = Restrict(store, Taken \ {name})

\* Any value can be a name: the new one is found in the next state.
Next ==
  \/ \E new \in Taken' \ Taken : \/ \E content \in Contents : Add(new, content)
                                 \/ \E old \in Taken : Rename(old, new)
  \/ \E name \in Taken : \/ \E content \in Contents : Edit(name, content)
                         \/ Remove(name)

Spec == Init /\ [][Next]_store
=============================================================================
