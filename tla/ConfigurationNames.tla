------------------------- MODULE ConfigurationNames -------------------------
(***************************************************************************)
(* The names of layers configurations (vkconfig_core/configuration.cpp,    *)
(* configuration_manager.cpp): FindByKey takes the first configuration     *)
(* with a name for the only one, and each operation that adds or renames a *)
(* configuration keeps names apart in its own way.                         *)
(*                                                                         *)
(* A name is a sequence of words that may end with a number between        *)
(* parentheses, the integer itself, or with Bad, what IsNumber takes for a *)
(* number and std::stoi throws on ("()", "(-)", out of the range of int).  *)
(***************************************************************************)
EXTENDS Integers, Sequences, FiniteSets

CONSTANTS
  Words,            \* the texts names are made of
  Bad,              \* a last word IsNumber accepts and std::stoi throws on
  Imported,         \* the word "(Imported)"
  NewConfiguration, \* the name "New Configuration"
  UserNames,        \* names that users type and that files hold
  Contents,         \* layers and settings of a configuration
  Empty,            \* no layer at all, the content of a new configuration
  Unreadable,       \* a file that Configuration::Load fails on
  IntMax,           \* largest int
  SizeMax,          \* largest std::size_t
  MaxOperations     \* bound on operations

ASSUME WidthAssumption ==
  /\ IntMax \in Nat \ {0}
  /\ SizeMax \in Nat
  /\ SizeMax > 2 * IntMax + 2

ASSUME EmptyAssumption == Empty \in Contents

ASSUME MaxOperationsAssumption == MaxOperations \in Nat

Number == (-IntMax - 1) .. IntMax

ASSUME WordsAssumption ==
  /\ Bad \in Words
  /\ Imported \in Words
  /\ Words \cap Int = {}

\* At least one word or number; only the last one counts as a number.
Name == Seq(Words \cup Number) \ {<<>>}

ASSUME NamesAssumption == UserNames \cup {NewConfiguration} \subseteq Name

VARIABLES
  available_configurations,  \* records of id, key and content
  operations,                \* operations so far, which number the records
  running                    \* no uncaught exception yet

vars == <<available_configurations, operations, running>>

Keys == {configuration.key : configuration \in available_configurations}
---------------------------------------------------------------------------
(* MakeConfigurationName                                                   *)

NOT_FOUND == SizeMax

LastWord(name) == name[Len(name)]
IsNumbered(name) == LastWord(name) \in Int

\* The int that std::stoi returns, as the size_t it is returned as: -1 is
\* NOT_FOUND.
ExtractDuplicateNumber(name) ==
  IF ~IsNumbered(name) THEN NOT_FOUND
  ELSE IF LastWord(name) >= 0 THEN LastWord(name)
  ELSE SizeMax + 1 + LastWord(name)

\* The whole name when it has no number, and when it is nothing but a number:
\* the parenthesis is then at 0, and substr(0, 0 - 1) takes everything.
ExtractDuplicateBaseName(name) ==
  IF ExtractDuplicateNumber(name) # NOT_FOUND /\ Len(name) > 1
  THEN SubSeq(name, 1, Len(name) - 1)
  ELSE name

HasBase(base, name) ==
  Len(base) <= Len(name) /\ \A i \in 1 .. Len(base) : base[i] = name[i]

\* What format("%d") prints of a size_t: its low bits, read as an int.
Printed(number) ==
  IF number <= IntMax THEN number
  ELSE IF number = IntMax + 1 THEN -IntMax - 1
  ELSE number - (SizeMax + 1)

\* Slip: the test for NOT_FOUND is missing.
DuplicateNumber_raw(name) == ExtractDuplicateNumber(name)

DuplicateNumber(name) ==
  IF ExtractDuplicateNumber(name) # NOT_FOUND THEN ExtractDuplicateNumber(name) ELSE 1

DuplicateNumbers(keys, name) ==
  {DuplicateNumber(key) :
     key \in {taken \in keys : HasBase(ExtractDuplicateBaseName(name), taken)}}

max_duplicate(keys, name) ==
  CHOOSE max \in DuplicateNumbers(keys, name) \cup {0} :
    \A number \in DuplicateNumbers(keys, name) \cup {0} : number <= max

MakeConfigurationName(keys, name) ==
  IF max_duplicate(keys, name) > 0
  THEN Append(ExtractDuplicateBaseName(name), Printed(max_duplicate(keys, name) + 1))
  ELSE ExtractDuplicateBaseName(name)

\* std::stoi throws on the name itself, or on a name it is compared with.
Throws(keys, name) ==
  \E parsed \in {name} \cup {taken \in keys : HasBase(ExtractDuplicateBaseName(name), taken)} :
    LastWord(parsed) = Bad
---------------------------------------------------------------------------
Init ==
  /\ available_configurations = {}
  /\ operations = 0
  /\ running = TRUE

Operate == /\ running
           /\ operations < MaxOperations
           /\ operations' = operations + 1

PushBack(key, content) ==
  available_configurations' =
    available_configurations \cup {[id |-> operations, key |-> key, content |-> content]}

\* Slip: what Load returned is not looked at.
LoadConfiguration_anyResult(key, content) ==
  /\ Operate
  /\ IF key \in Keys THEN UNCHANGED available_configurations ELSE PushBack(key, content)
  /\ UNCHANGED running

\* One file of LoadConfigurationsPath, or a built-in configuration: added when
\* its name is free.  The key of a file that cannot be read is the one the
\* constructor gave.
LoadConfiguration(key, content) ==
  /\ Operate
  /\ IF key \in Keys \/ content = Unreadable THEN UNCHANGED available_configurations
     ELSE PushBack(key, content)
  /\ UNCHANGED running

\* An empty configuration, or a copy of the first one with the name.
CreateConfiguration(name) ==
  /\ Operate
  /\ ~Throws(Keys, name)
  /\ \E content \in IF name \in Keys
                    THEN {source.content : source \in
                            {c \in available_configurations : c.key = name}}
                    ELSE {Empty} :
       PushBack(MakeConfigurationName(Keys, name), content)
  /\ UNCHANGED running

\* MainWindow::NewClicked and DuplicateClicked.
Create == \E name \in Keys \cup {NewConfiguration} : CreateConfiguration(name)

ImportConfiguration(key, content) ==
  /\ Operate
  /\ ~Throws(Keys, Append(key, Imported))
  /\ IF content = Unreadable THEN UNCHANGED available_configurations
     ELSE PushBack(MakeConfigurationName(Keys, Append(key, Imported)), content)
  /\ UNCHANGED running

\* The exception of either leaves main.
Terminate ==
  /\ Operate
  /\ \/ \E name \in Keys \cup {NewConfiguration} : Throws(Keys, name)
     \/ \E key \in UserNames : Throws(Keys, Append(key, Imported))
  /\ running' = FALSE
  /\ UNCHANGED available_configurations

Replace(configuration, by) ==
  available_configurations' = (available_configurations \ {configuration}) \cup {by}

\* Slip: the new name is not looked for.
Rename_unchecked(configuration, name) ==
  /\ Operate
  /\ Replace(configuration, [configuration EXCEPT !.key = name])
  /\ UNCHANGED running

\* In the list, or in the layers dialog: a taken name is refused.
Rename(configuration, name) ==
  /\ Operate
  /\ IF name \in Keys THEN UNCHANGED available_configurations
     ELSE Replace(configuration,
                  [id |-> configuration.id, key |-> name, content |-> configuration.content])
  /\ UNCHANGED running

\* The layers dialog, on the first configuration with the name of the item.
Edit(configuration, content) ==
  /\ Operate
  /\ Replace(configuration,
             [id |-> configuration.id, key |-> configuration.key, content |-> content])
  /\ UNCHANGED running

RemoveConfiguration(name) ==
  /\ Operate
  /\ available_configurations' = {c \in available_configurations : c.key # name}
  /\ UNCHANGED running

Next ==
  \/ \E key \in UserNames, content \in Contents :
       LoadConfiguration(key, content) \/ ImportConfiguration(key, content)
  \/ LoadConfiguration(NewConfiguration, Unreadable)
  \/ ImportConfiguration(NewConfiguration, Unreadable)
  \/ Create
  \/ Terminate
  \/ \E configuration \in available_configurations :
       \/ \E name \in UserNames : Rename(configuration, name)
       \/ \E content \in Contents : Edit(configuration, content)
       \/ RemoveConfiguration(configuration.key)

Spec == Init /\ [][Next]_vars
---------------------------------------------------------------------------
(* Properties                                                              *)

\* Types: what a half-read file holds never becomes a configuration, and a key
\* is a name that can be printed.
TypeOK ==
  /\ operations \in 0 .. MaxOperations
  /\ running \in BOOLEAN
  /\ \A configuration \in available_configurations :
       /\ configuration = [id |-> configuration.id, key |-> configuration.key,
                           content |-> configuration.content]
       /\ configuration.id \in 0 .. operations - 1
       /\ configuration.key \in Name
       /\ configuration.content \in Contents

\* No two configurations have the same name.  FindByKey, which every handler
\* uses, returns one of them, and SaveAllConfigurations writes both to one file.
NoDuplicate ==
  \A one, other \in available_configurations : one.key = other.key => one = other

\* Whatever the user names configurations, with numbers of their own or not, the
\* list is a store by name: an operation on one configuration leaves all others,
\* under their names, alone.
FindByKey(key) == CHOOSE c \in available_configurations : c.key = key
Store == INSTANCE ConfigurationStore WITH
           store <- [key \in Keys |-> FindByKey(key).content]
KeptByName == Store!Spec
=============================================================================
