----------------------- MODULE ConfigurationNamesProofs -----------------------
(***************************************************************************)
(* Configurations keep different names, for any texts, any width of int    *)
(* and any number of operations, as long as the numbers users put in names *)
(* are positive and the operations cannot take them past the largest int.  *)
(***************************************************************************)
EXTENDS ConfigurationNames, WellFoundedInduction, TLAPS

\* The numbers in a name are positive and at most max.
WellNamed(name, max) == name \in Seq(Words \cup 1 .. max) /\ name # <<>>

\* What is asked of users: the bound leaves room for one more per operation.
PositiveNumbersUpTo(max) ==
  /\ max \in Nat
  /\ max + MaxOperations + 1 < IntMax
  /\ WellNamed(NewConfiguration, max)
  /\ \A name \in UserNames : WellNamed(name, max)

\* The inductive invariant: each operation raises the largest number by one at
\* most, which keeps all of them away from the wrap of size_t and int.
Bounded(max) ==
  /\ operations \in 0 .. MaxOperations
  /\ \A configuration \in available_configurations :
       WellNamed(configuration.key, max + operations + 1)
  /\ NoDuplicate

---------------------------------------------------------------------------
(* Naming                                                                  *)

\* A nonempty set of naturals with a bound has a maximum.
LEMMA BoundedSetHasMaximum ==
  ASSUME NEW bound \in Nat, NEW S \in SUBSET (0 .. bound), S # {}
  PROVE  \E max \in S : \A number \in S : number <= max
<1> DEFINE Gaps == {gap \in Nat : gap <= bound /\ bound - gap \in S}
           Less == {pair \in Nat \X Nat : pair[1] < pair[2]}
<1>0. IsWellFoundedOn(Less, Nat)
  BY NatLessThanWellFounded DEF OpToRel
<1>1. PICK element \in S : TRUE
  OBVIOUS
<1>2. bound - element \in Gaps
  <2>1. element \in Nat /\ element <= bound
    BY <1>1
  <2>2. bound - element \in Nat /\ bound - (bound - element) = element /\ bound - element <= bound
    BY <2>1
  <2> QED  BY <1>1, <2>2
<1>3. PICK least \in Gaps : \A gap \in Gaps : <<gap, least>> \notin Less
  <2>1. Gaps \subseteq Nat /\ Gaps # {}
    BY <1>2
  <2> HIDE DEF Gaps, Less
  <2> QED  BY <1>0, <2>1, WFMin
<1>4. ASSUME NEW number \in S PROVE number <= bound - least
  <2>1. number \in Nat /\ number <= bound
    BY <1>4
  <2>2. bound - number \in Gaps
    BY <2>1
  <2>3. least \in Nat /\ <<bound - number, least>> \notin Less
    BY <1>3, <2>2
  <2>4. ~(bound - number < least)
    BY <2>1, <2>3
  <2> QED  BY <2>1, <2>3, <2>4
<1> QED  BY <1>3, <1>4

\* The number of a well-named configuration is converted as it is, and is never
\* taken for NOT_FOUND.
LEMMA DuplicateNumberInRange ==
  ASSUME NEW max \in Nat, max >= 1, max <= IntMax,
         NEW name, WellNamed(name, max)
  PROVE  /\ DuplicateNumber(name) \in 1 .. max
         /\ IsNumbered(name) => /\ ExtractDuplicateNumber(name) = LastWord(name)
                                /\ DuplicateNumber(name) = LastWord(name)
                                /\ LastWord(name) \in 1 .. max
                                /\ ExtractDuplicateNumber(name) # NOT_FOUND
         /\ ~IsNumbered(name) => ExtractDuplicateNumber(name) = NOT_FOUND
<1>1. LastWord(name) \in Words \cup 1 .. max
  BY DEF WellNamed, LastWord
<1>2. CASE IsNumbered(name)
  <2>1. LastWord(name) \in 1 .. max
    BY <1>1, <1>2, WordsAssumption DEF IsNumbered
  <2>2. LastWord(name) \in Nat /\ LastWord(name) >= 0 /\ LastWord(name) < SizeMax
    BY <2>1, WidthAssumption
  <2> QED  BY <1>2, <2>1, <2>2 DEF ExtractDuplicateNumber, DuplicateNumber, NOT_FOUND
<1>3. CASE ~IsNumbered(name)
  BY <1>3 DEF ExtractDuplicateNumber, DuplicateNumber, NOT_FOUND
<1> QED  BY <1>2, <1>3

\* The base of a well-named configuration is a name itself.
LEMMA BaseIsWellNamed ==
  ASSUME NEW max \in Nat, max >= 1, max <= IntMax,
         NEW name, WellNamed(name, max)
  PROVE  WellNamed(ExtractDuplicateBaseName(name), max)
<1>1. CASE IsNumbered(name) /\ Len(name) > 1
  <2>1. ExtractDuplicateBaseName(name) = SubSeq(name, 1, Len(name) - 1)
    BY <1>1, DuplicateNumberInRange DEF ExtractDuplicateBaseName
  <2>2. Len(name) \in Nat /\ Len(name) > 1
    BY <1>1 DEF WellNamed
  <2> DEFINE base == SubSeq(name, 1, Len(name) - 1)
  <2>3. base \in Seq(Words \cup 1 .. max) /\ Len(base) = Len(name) - 1
    BY <2>2 DEF WellNamed
  <2> HIDE DEF base
  <2>4. base # <<>>
    BY <2>2, <2>3
  <2> QED  BY <2>1, <2>3, <2>4 DEF WellNamed, base
<1>2. CASE ~(IsNumbered(name) /\ Len(name) > 1)
  BY <1>2, DuplicateNumberInRange DEF ExtractDuplicateBaseName
<1> QED  BY <1>1, <1>2

\* MakeConfigurationName returns a name no configuration has, and raises the
\* largest number by one at most.
LEMMA MadeNameIsFree ==
  ASSUME NEW max \in Nat, max >= 1, max < IntMax,
         NEW keys, \A key \in keys : WellNamed(key, max),
         NEW name, WellNamed(name, max)
  PROVE  /\ MakeConfigurationName(keys, name) \notin keys
         /\ WellNamed(MakeConfigurationName(keys, name), max + 1)
<1> DEFINE base == ExtractDuplicateBaseName(name)
           numbers == DuplicateNumbers(keys, name)
           largest == max_duplicate(keys, name)
<1>1. WellNamed(base, max)
  BY BaseIsWellNamed, WidthAssumption
<1>2. \A key \in keys : HasBase(base, key) => DuplicateNumber(key) \in numbers
  BY DEF DuplicateNumbers
<1>3. \A number \in numbers : number \in 1 .. max
  BY DuplicateNumberInRange, WidthAssumption DEF DuplicateNumbers
<1>4. /\ largest \in numbers \cup {0}
      /\ \A number \in numbers \cup {0} : number <= largest
  <2>1. numbers \cup {0} \in SUBSET (0 .. max) /\ numbers \cup {0} # {}
    BY <1>3
  <2> HIDE DEF numbers
  <2>2. \E m \in numbers \cup {0} : \A number \in numbers \cup {0} : number <= m
    BY <2>1, BoundedSetHasMaximum
  <2> QED  BY <2>2 DEF max_duplicate, numbers
<1>5. largest \in 0 .. max
  BY <1>3, <1>4
<1> HIDE DEF base, numbers, largest
<1>6. CASE largest > 0
  <2> DEFINE made == Append(base, largest + 1)
  <2>1. Printed(largest + 1) = largest + 1 /\ largest + 1 \in 1 .. max + 1
    BY <1>5, WidthAssumption DEF Printed
  <2>2. MakeConfigurationName(keys, name) = made
    BY <1>6, <2>1 DEF MakeConfigurationName, base, largest
  <2>3. /\ base \in Seq(Words \cup 1 .. max + 1)
        /\ Len(base) \in Nat /\ Len(base) > 0
    <3>1. Words \cup 1 .. max \subseteq Words \cup 1 .. max + 1
      OBVIOUS
    <3>2. base \in Seq(Words \cup 1 .. max) /\ base # <<>>
      BY <1>1 DEF WellNamed
    <3> QED  BY <3>1, <3>2
  <2>4. /\ made \in Seq(Words \cup 1 .. max + 1) /\ made # <<>>
        /\ Len(made) = Len(base) + 1
        /\ made[Len(base) + 1] = largest + 1
        /\ \A i \in 1 .. Len(base) : base[i] = made[i]
    BY <2>1, <2>3
  <2>5. WellNamed(made, max + 1)
    BY <2>4 DEF WellNamed
  <2>6. HasBase(base, made)
    BY <2>3, <2>4 DEF HasBase
  <2>7. IsNumbered(made) /\ LastWord(made) = largest + 1
    BY <2>1, <2>3, <2>4, <1>5 DEF IsNumbered, LastWord
  <2>8. DuplicateNumber(made) = largest + 1
    BY <2>5, <2>7, DuplicateNumberInRange, WidthAssumption
  <2>9. made \notin keys
    BY <1>2, <1>4, <1>5, <2>6, <2>8
  <2> QED  BY <2>2, <2>5, <2>9
<1>7. CASE ~(largest > 0)
  <2>1. MakeConfigurationName(keys, name) = base
    BY <1>7 DEF MakeConfigurationName, base, largest
  <2>2. HasBase(base, base) /\ base \in Seq(Words \cup 1 .. max) /\ base # <<>>
    BY <1>1 DEF HasBase, WellNamed
  <2>3. largest = 0
    BY <1>5, <1>7
  <2>4. base \notin keys
    <3> SUFFICES ASSUME base \in keys PROVE FALSE
      OBVIOUS
    <3>1. DuplicateNumber(base) \in numbers
      BY <1>2, <2>2
    <3>2. DuplicateNumber(base) \in 1 .. max
      BY <1>3, <3>1
    <3> QED  BY <1>4, <2>3, <3>1, <3>2
  <2>5. Words \cup 1 .. max \subseteq Words \cup 1 .. max + 1
    OBVIOUS
  <2>6. WellNamed(base, max + 1)
    BY <2>2, <2>5 DEF WellNamed
  <2> QED  BY <2>1, <2>4, <2>6
<1> QED  BY <1>6, <1>7

\* A larger bound holds too.
LEMMA WellNamedGrows ==
  ASSUME NEW max \in Nat, NEW larger \in Nat, max <= larger,
         NEW name, WellNamed(name, max)
  PROVE  WellNamed(name, larger)
<1>1. Words \cup 1 .. max \subseteq Words \cup 1 .. larger
  OBVIOUS
<1> QED  BY <1>1 DEF WellNamed

---------------------------------------------------------------------------
(* The list                                                                *)

\* Adding a configuration under a free and well-formed name keeps the invariant.
LEMMA PushBackBounded ==
  ASSUME NEW max \in Nat, Bounded(max), Operate, NEW key, NEW content,
         key \notin Keys, WellNamed(key, max + operations + 2),
         PushBack(key, content)
  PROVE  Bounded(max)'
<1> DEFINE new == [id |-> operations, key |-> key, content |-> content]
<1>1. /\ operations \in Nat /\ operations' = operations + 1
      /\ operations' \in 0 .. MaxOperations
  BY MaxOperationsAssumption DEF Bounded, Operate
<1>2. available_configurations' = available_configurations \cup {new} /\ new.key = key
  BY DEF PushBack
<1>3. \A c \in available_configurations : c.key # key
  BY DEF Keys
<1>4. NoDuplicate'
  BY <1>2, <1>3 DEF NoDuplicate, Bounded
<1>5. \A c \in available_configurations' : WellNamed(c.key, max + operations' + 1)
  <2> SUFFICES ASSUME NEW c \in available_configurations'
               PROVE  WellNamed(c.key, max + operations' + 1)
    OBVIOUS
  <2>1. CASE c = new
    BY <1>1, <1>2, <2>1
  <2>2. CASE c \in available_configurations
    <3>1. WellNamed(c.key, max + operations + 1)
      BY <2>2 DEF Bounded
    <3> QED  BY <1>1, <3>1, WellNamedGrows
  <2> QED  BY <1>2, <2>1, <2>2
<1> QED  BY <1>1, <1>4, <1>5 DEF Bounded

\* So does replacing one under the same name or a free one.
LEMMA ReplaceBounded ==
  ASSUME NEW max \in Nat, Bounded(max), Operate,
         NEW old \in available_configurations, NEW by,
         by.key = old.key \/ by.key \notin Keys,
         WellNamed(by.key, max + operations + 2), Replace(old, by)
  PROVE  Bounded(max)'
<1>1. /\ operations \in Nat /\ operations' = operations + 1
      /\ operations' \in 0 .. MaxOperations
  BY MaxOperationsAssumption DEF Bounded, Operate
<1>2. available_configurations' = (available_configurations \ {old}) \cup {by}
  BY DEF Replace
<1>3. \A c \in available_configurations \ {old} : c.key # by.key
  BY DEF Keys, Bounded, NoDuplicate
<1>4. NoDuplicate'
  BY <1>2, <1>3 DEF NoDuplicate, Bounded
<1>5. \A c \in available_configurations' : WellNamed(c.key, max + operations' + 1)
  <2> SUFFICES ASSUME NEW c \in available_configurations'
               PROVE  WellNamed(c.key, max + operations' + 1)
    OBVIOUS
  <2>1. CASE c = by
    BY <1>1, <2>1
  <2>2. CASE c \in available_configurations
    <3>1. WellNamed(c.key, max + operations + 1)
      BY <2>2 DEF Bounded
    <3> QED  BY <1>1, <3>1, WellNamedGrows
  <2> QED  BY <1>2, <2>1, <2>2
<1> QED  BY <1>1, <1>4, <1>5 DEF Bounded

\* And so does an operation that adds nothing.
LEMMA SubsetBounded ==
  ASSUME NEW max \in Nat, Bounded(max), Operate,
         available_configurations' \subseteq available_configurations
  PROVE  Bounded(max)'
<1>1. /\ operations \in Nat /\ operations' = operations + 1
      /\ operations' \in 0 .. MaxOperations
  BY MaxOperationsAssumption DEF Bounded, Operate
<1>2. NoDuplicate'
  BY DEF NoDuplicate, Bounded
<1>3. \A c \in available_configurations' : WellNamed(c.key, max + operations' + 1)
  BY <1>1, WellNamedGrows DEF Bounded
<1> QED  BY <1>1, <1>2, <1>3 DEF Bounded

\* Numbers stay small and names stay different.
LEMMA BoundedCorrect ==
  ASSUME NEW max, PositiveNumbersUpTo(max)
  PROVE  Spec => []Bounded(max)
<1> USE DEF PositiveNumbersUpTo
<1>1. Init => Bounded(max)
  BY MaxOperationsAssumption DEF Init, Bounded, NoDuplicate
<1>2. Bounded(max) /\ [Next]_vars => Bounded(max)'
  <2> SUFFICES ASSUME Bounded(max), [Next]_vars PROVE Bounded(max)'
    OBVIOUS
  <2> DEFINE bound == max + operations + 1
  <2>1. /\ max \in Nat /\ operations \in Nat /\ bound \in Nat /\ bound >= 1
        /\ bound + 1 = max + operations + 2
        /\ operations < MaxOperations => bound < IntMax
    BY MaxOperationsAssumption, WidthAssumption DEF Bounded
  <2>2. \A key \in Keys : WellNamed(key, bound)
    BY DEF Keys, Bounded
  <2>3. /\ WellNamed(NewConfiguration, bound)
        /\ \A name \in UserNames : WellNamed(name, bound)
        /\ \A name : WellNamed(name, bound) => WellNamed(name, max + operations + 2)
    BY <2>1, WellNamedGrows
  <2> HIDE DEF bound, PositiveNumbersUpTo
  <2>4. ASSUME NEW key \in UserNames \cup {NewConfiguration}, NEW content,
               LoadConfiguration(key, content)
        PROVE  Bounded(max)'
    <3>1. CASE key \in Keys \/ content = Unreadable
      BY <2>1, <2>4, <3>1, SubsetBounded DEF LoadConfiguration
    <3>2. CASE ~(key \in Keys \/ content = Unreadable)
      <4>1. Operate /\ PushBack(key, content) /\ key \notin Keys
        BY <2>4, <3>2 DEF LoadConfiguration
      <4>2. WellNamed(key, max + operations + 2)
        BY <2>3
      <4> QED  BY <2>1, <4>1, <4>2, PushBackBounded
    <3> QED  BY <3>1, <3>2
  <2>5. ASSUME NEW key \in UserNames \cup {NewConfiguration}, NEW content,
               ImportConfiguration(key, content)
        PROVE  Bounded(max)'
    <3>1. CASE content = Unreadable
      BY <2>1, <2>5, <3>1, SubsetBounded DEF ImportConfiguration
    <3>2. CASE content # Unreadable
      <4>1. Operate /\ PushBack(MakeConfigurationName(Keys, Append(key, Imported)), content)
        BY <2>5, <3>2 DEF ImportConfiguration
      <4>2. WellNamed(Append(key, Imported), bound)
        BY <2>3, WordsAssumption DEF WellNamed
      <4>3. bound < IntMax
        BY <2>1, <4>1 DEF Operate
      <4>4. /\ MakeConfigurationName(Keys, Append(key, Imported)) \notin Keys
            /\ WellNamed(MakeConfigurationName(Keys, Append(key, Imported)), bound + 1)
        BY <2>1, <2>2, <4>2, <4>3, MadeNameIsFree
      <4> QED  BY <2>1, <4>1, <4>4, PushBackBounded
    <3> QED  BY <3>1, <3>2
  <2>6. ASSUME NEW name \in Keys \cup {NewConfiguration}, CreateConfiguration(name)
        PROVE  Bounded(max)'
    <3>1. PICK content : PushBack(MakeConfigurationName(Keys, name), content)
      BY <2>6 DEF CreateConfiguration
    <3>2. Operate
      BY <2>6 DEF CreateConfiguration
    <3>3. bound < IntMax
      BY <2>1, <3>2 DEF Operate
    <3>4. /\ MakeConfigurationName(Keys, name) \notin Keys
          /\ WellNamed(MakeConfigurationName(Keys, name), bound + 1)
      BY <2>1, <2>2, <2>3, <3>3, MadeNameIsFree
    <3> QED  BY <2>1, <3>1, <3>2, <3>4, PushBackBounded
  <2>7. ASSUME Terminate PROVE Bounded(max)'
    BY <2>1, <2>7, SubsetBounded DEF Terminate
  <2>8. ASSUME NEW configuration \in available_configurations, NEW name \in UserNames,
               Rename(configuration, name)
        PROVE  Bounded(max)'
    <3> DEFINE by == [id |-> configuration.id, key |-> name,
                      content |-> configuration.content]
    <3>1. CASE name \in Keys
      BY <2>1, <2>8, <3>1, SubsetBounded DEF Rename
    <3>2. CASE name \notin Keys
      <4>1. Operate /\ Replace(configuration, by) /\ by.key = name
        BY <2>8, <3>2 DEF Rename
      <4>2. WellNamed(by.key, max + operations + 2)
        BY <2>3, <4>1
      <4> HIDE DEF by
      <4> QED  BY <2>1, <3>2, <4>1, <4>2, ReplaceBounded
    <3> QED  BY <3>1, <3>2
  <2>9. ASSUME NEW configuration \in available_configurations, NEW content,
               Edit(configuration, content)
        PROVE  Bounded(max)'
    <3> DEFINE by == [id |-> configuration.id, key |-> configuration.key,
                      content |-> content]
    <3>1. Operate /\ Replace(configuration, by) /\ by.key = configuration.key
      BY <2>9 DEF Edit
    <3>2. WellNamed(by.key, max + operations + 2)
      BY <2>2, <2>3, <3>1 DEF Keys
    <3> HIDE DEF by
    <3> QED  BY <2>1, <3>1, <3>2, ReplaceBounded
  <2>10. ASSUME NEW name, RemoveConfiguration(name) PROVE Bounded(max)'
    BY <2>1, <2>10, SubsetBounded DEF RemoveConfiguration
  <2>11. CASE UNCHANGED vars
    BY <2>11 DEF vars, Bounded, NoDuplicate
  <2> QED  BY <2>4, <2>5, <2>6, <2>7, <2>8, <2>9, <2>10, <2>11 DEF Next, Create
<1> QED  BY <1>1, <1>2, PTL DEF Spec

\* No two configurations ever have the same name.
THEOREM NoDuplicateCorrect ==
  ASSUME NEW max, PositiveNumbersUpTo(max)
  PROVE  Spec => []NoDuplicate
<1>1. Bounded(max) => NoDuplicate
  BY DEF Bounded
<1> QED  BY <1>1, BoundedCorrect, PTL
---------------------------------------------------------------------------
(* The list is a store by name                                             *)

Contained == \A c \in available_configurations : c.content \in Contents

\* Contents are whole: no operation makes one up.
LEMMA ContainedCorrect == Spec => []Contained
<1>1. Init => Contained
  BY DEF Init, Contained
<1>2. Contained /\ [Next]_vars => Contained'
  <2> SUFFICES ASSUME Contained, [Next]_vars PROVE Contained'
    OBVIOUS
  <2>1. ASSUME NEW key, NEW content \in Contents, PushBack(key, content)
        PROVE  Contained'
    BY <2>1 DEF PushBack, Contained
  <2>2. ASSUME NEW old \in available_configurations, NEW by,
               by.content \in Contents, Replace(old, by)
        PROVE  Contained'
    BY <2>2 DEF Replace, Contained
  <2>3. ASSUME available_configurations' \subseteq available_configurations
        PROVE  Contained'
    BY <2>3 DEF Contained
  <2>4. ASSUME NEW key, NEW content \in Contents \cup {Unreadable},
               LoadConfiguration(key, content)
        PROVE  Contained'
    BY <2>1, <2>3, <2>4 DEF LoadConfiguration
  <2>5. ASSUME NEW key, NEW content \in Contents \cup {Unreadable},
               ImportConfiguration(key, content)
        PROVE  Contained'
    BY <2>1, <2>3, <2>5 DEF ImportConfiguration
  <2>6. ASSUME NEW name, CreateConfiguration(name) PROVE Contained'
    <3>1. PICK content \in IF name \in Keys
                           THEN {source.content : source \in
                                   {c \in available_configurations : c.key = name}}
                           ELSE {Empty} :
                 PushBack(MakeConfigurationName(Keys, name), content)
      BY <2>6 DEF CreateConfiguration
    <3>2. content \in Contents
      BY <3>1, EmptyAssumption DEF Contained
    <3> QED  BY <2>1, <3>1, <3>2
  <2>7. ASSUME Terminate PROVE Contained'
    BY <2>3, <2>7 DEF Terminate
  <2>8. ASSUME NEW configuration \in available_configurations, NEW name,
               Rename(configuration, name)
        PROVE  Contained'
    BY <2>2, <2>3, <2>8 DEF Rename, Contained
  <2>9. ASSUME NEW configuration \in available_configurations,
               NEW content \in Contents, Edit(configuration, content)
        PROVE  Contained'
    BY <2>2, <2>9 DEF Edit
  <2>10. ASSUME NEW name, RemoveConfiguration(name) PROVE Contained'
    BY <2>3, <2>10 DEF RemoveConfiguration
  <2>11. CASE UNCHANGED vars
    BY <2>3, <2>11 DEF vars
  <2> QED  BY <2>4, <2>5, <2>6, <2>7, <2>8, <2>9, <2>10, <2>11 DEF Next, Create
<1> QED  BY <1>1, <1>2, PTL DEF Spec

\* With different names, FindByKey is the inverse of the key.
LEMMA FoundByKey ==
  ASSUME NoDuplicate, NEW c \in available_configurations
  PROVE  c.key \in Keys /\ FindByKey(c.key) = c
BY DEF NoDuplicate, FindByKey, Keys

\* The store of the abstract specification, with the definitions it hides.
LEMMA StoreIs ==
  /\ Store!Taken = Keys
  /\ Store!Taken' = Keys'
BY DEF Store!Taken

\* A configuration under a free name is an Add of the store.
LEMMA PushBackAdds ==
  ASSUME NoDuplicate, NEW key, NEW content \in Contents, key \notin Keys,
         PushBack(key, content)
  PROVE  Store!Next
<1> DEFINE new == [id |-> operations, key |-> key, content |-> content]
<1>1. available_configurations' = available_configurations \cup {new}
      /\ new.key = key /\ new.content = content
  BY DEF PushBack
<1>2. NoDuplicate'
  BY <1>1 DEF NoDuplicate, Keys
<1>3. Keys' = Keys \cup {key}
  BY <1>1 DEF Keys
<1>4. FindByKey(key)' = new
  BY <1>1, <1>2, FoundByKey DEF FindByKey, NoDuplicate
<1>5. ASSUME NEW k \in Keys PROVE k # key /\ FindByKey(k)' = FindByKey(k)
  <2>1. PICK c \in available_configurations : c.key = k
    BY DEF Keys
  <2>2. FindByKey(k) = c
    BY <2>1, FoundByKey
  <2>3. FindByKey(k)' = c
    BY <1>1, <1>2, <2>1 DEF FindByKey, NoDuplicate
  <2> QED  BY <2>2, <2>3
<1>6. Store!Add(key, content)
  BY <1>1, <1>3, <1>4, <1>5, StoreIs DEF Store!Add
<1>7. key \in Store!Taken' \ Store!Taken
  BY <1>3, StoreIs
<1> QED  BY <1>6, <1>7 DEF Store!Next

\* Replacing a configuration is a Rename or an Edit of the store.
LEMMA ReplaceRenamesOrEdits ==
  ASSUME NoDuplicate, NEW old \in available_configurations, NEW by,
         \/ by.key \notin Keys /\ by.content = old.content
         \/ by.key = old.key /\ by.content \in Contents,
         Replace(old, by)
  PROVE  Store!Next
<1>1. available_configurations' = (available_configurations \ {old}) \cup {by}
  BY DEF Replace
<1>2. NoDuplicate'
  BY <1>1 DEF NoDuplicate, Keys
<1>3. by \in available_configurations' /\ FindByKey(by.key)' = by
  BY <1>1, <1>2 DEF FindByKey, NoDuplicate
<1>4. Keys' = (Keys \ {old.key}) \cup {by.key}
  BY <1>1 DEF Keys, NoDuplicate
<1>5. old.key \in Keys /\ FindByKey(old.key) = old
  BY FoundByKey
<1>6. ASSUME NEW k \in Keys \ {old.key} PROVE FindByKey(k)' = FindByKey(k)
  <2>1. PICK c \in available_configurations : c.key = k
    BY DEF Keys
  <2>2. FindByKey(k) = c
    BY <2>1, FoundByKey
  <2>3. c \in available_configurations'
    BY <1>1, <2>1
  <2>4. FindByKey(k)' = c
    BY <1>2, <2>1, <2>3 DEF FindByKey, NoDuplicate
  <2> QED  BY <2>2, <2>4
<1>7. CASE by.key \notin Keys /\ by.content = old.content
  <2>1. Store!Rename(old.key, by.key)
    BY <1>3, <1>4, <1>5, <1>6, <1>7, StoreIs DEF Store!Rename
  <2>2. old.key \in Store!Taken /\ by.key \in Store!Taken' \ Store!Taken
    BY <1>4, <1>5, <1>7, StoreIs
  <2> QED  BY <2>1, <2>2 DEF Store!Next
<1>8. CASE by.key = old.key /\ by.content \in Contents
  <2>1. Keys' = Keys
    BY <1>4, <1>5, <1>8
  <2>2. Store!Edit(old.key, by.content)
    BY <1>3, <1>5, <1>6, <1>8, <2>1, StoreIs DEF Store!Edit
  <2>3. old.key \in Store!Taken
    BY <1>5, StoreIs
  <2> QED  BY <1>8, <2>2, <2>3 DEF Store!Next
<1> QED  BY <1>7, <1>8

\* Removing the configurations with a name is a Remove of the store.
LEMMA RemoveRemoves ==
  ASSUME NoDuplicate, NEW name \in Keys, RemoveConfiguration(name)
  PROVE  Store!Next
<1>1. available_configurations' = {c \in available_configurations : c.key # name}
  BY DEF RemoveConfiguration
<1>2. Keys' = Keys \ {name}
  BY <1>1 DEF Keys
<1>3. ASSUME NEW k \in Keys' PROVE FindByKey(k)' = FindByKey(k)
  <2>1. PICK c \in available_configurations : c.key = k /\ c.key # name
    BY <1>1, <1>3 DEF Keys
  <2>2. FindByKey(k) = c
    BY <2>1, FoundByKey
  <2>3. FindByKey(k)' = c
    BY <1>1, <2>1 DEF FindByKey, NoDuplicate
  <2> QED  BY <2>2, <2>3
<1>4. Store!Remove(name)
  BY <1>2, <1>3, StoreIs DEF Store!Remove, Store!Restrict
<1>5. name \in Store!Taken
  BY StoreIs
<1> QED  BY <1>4, <1>5 DEF Store!Next

\* So do operations that leave the list alone.
LEMMA SameStore ==
  ASSUME UNCHANGED available_configurations
  PROVE  UNCHANGED [key \in Keys |-> FindByKey(key).content]
BY DEF Keys, FindByKey

\* Whatever positive numbers users put in names, the list is a store by name:
\* an operation on one configuration leaves all others alone.
THEOREM KeptByNameCorrect ==
  ASSUME NEW max, PositiveNumbersUpTo(max)
  PROVE  Spec => KeptByName
<1>1. Init => Store!Init
  BY DEF Init, Store!Init, Store!Taken, Keys
<1>2. Bounded(max) /\ Contained /\ [Next]_vars
        => [Store!Next]_([key \in Keys |-> FindByKey(key).content])
  <2> SUFFICES ASSUME Bounded(max), Contained, [Next]_vars
               PROVE  \/ Store!Next
                      \/ UNCHANGED [key \in Keys |-> FindByKey(key).content]
    OBVIOUS
  <2> USE DEF Bounded
  <2>1. ASSUME NEW key, NEW content \in Contents \cup {Unreadable},
               LoadConfiguration(key, content)
        PROVE  Store!Next \/ UNCHANGED available_configurations
    BY <2>1, PushBackAdds DEF LoadConfiguration
  <2>2. /\ \A key \in Keys \cup {NewConfiguration} : WellNamed(key, max + operations + 1)
        /\ \A key \in UserNames \cup {NewConfiguration} :
             WellNamed(Append(key, Imported), max + operations + 1)
        /\ max + operations + 1 \in Nat /\ max + operations + 1 >= 1
        /\ Operate => max + operations + 1 < IntMax
    <3>1. max \in Nat /\ operations \in Nat /\ operations <= MaxOperations
      BY MaxOperationsAssumption DEF PositiveNumbersUpTo
    <3>2. \A name : WellNamed(name, max) => WellNamed(name, max + operations + 1)
      BY <3>1, WellNamedGrows
    <3>3. \A name : WellNamed(name, max + operations + 1)
                      => WellNamed(Append(name, Imported), max + operations + 1)
      BY WordsAssumption DEF WellNamed
    <3>4. Operate => max + operations + 1 < IntMax
      BY <3>1, MaxOperationsAssumption, WidthAssumption DEF PositiveNumbersUpTo, Operate
    <3> QED  BY <3>1, <3>2, <3>3, <3>4 DEF PositiveNumbersUpTo, Keys
  <2>3. \A name : /\ WellNamed(name, max + operations + 1)
                  /\ Operate
                  => MakeConfigurationName(Keys, name) \notin Keys
    <3>1. \A key \in Keys : WellNamed(key, max + operations + 1)
      BY <2>2
    <3> QED  BY <2>2, <3>1, MadeNameIsFree
  <2>4. ASSUME NEW key \in UserNames \cup {NewConfiguration},
               NEW content \in Contents \cup {Unreadable},
               ImportConfiguration(key, content)
        PROVE  Store!Next \/ UNCHANGED available_configurations
    BY <2>2, <2>3, <2>4, PushBackAdds DEF ImportConfiguration
  <2>5. ASSUME NEW name \in Keys \cup {NewConfiguration}, CreateConfiguration(name)
        PROVE  Store!Next
    <3>1. PICK content \in IF name \in Keys
                           THEN {source.content : source \in
                                   {c \in available_configurations : c.key = name}}
                           ELSE {Empty} :
                 PushBack(MakeConfigurationName(Keys, name), content)
      BY <2>5 DEF CreateConfiguration
    <3>2. content \in Contents
      BY <3>1, EmptyAssumption DEF Contained
    <3>3. MakeConfigurationName(Keys, name) \notin Keys
      BY <2>2, <2>3, <2>5 DEF CreateConfiguration
    <3> QED  BY <3>1, <3>2, <3>3, PushBackAdds
  <2>6. ASSUME NEW configuration \in available_configurations, NEW name,
               Rename(configuration, name)
        PROVE  Store!Next \/ UNCHANGED available_configurations
    BY <2>6, ReplaceRenamesOrEdits DEF Rename
  <2>7. ASSUME NEW configuration \in available_configurations,
               NEW content \in Contents, Edit(configuration, content)
        PROVE  Store!Next
    BY <2>7, ReplaceRenamesOrEdits DEF Edit
  <2>8. ASSUME NEW configuration \in available_configurations,
               RemoveConfiguration(configuration.key)
        PROVE  Store!Next
    BY <2>8, FoundByKey, RemoveRemoves
  <2>9. Terminate => UNCHANGED available_configurations
    BY DEF Terminate
  <2>10. UNCHANGED vars => UNCHANGED available_configurations
    BY DEF vars
  <2> QED  BY <2>1, <2>4, <2>5, <2>6, <2>7, <2>8, <2>9, <2>10, SameStore
           DEF Next, Create
<1> QED  BY <1>1, <1>2, BoundedCorrect, ContainedCorrect, PTL
         DEF Spec, KeptByName, Store!Spec

---------------------------------------------------------------------------
(* Types, for any names: numbers may wrap                                  *)

\* The numbers that names have as a size_t: an int, or what a negative int becomes.
Sizes == 0 .. IntMax \cup (SizeMax - IntMax) .. (SizeMax - 1)

LEMMA NameHasNumber ==
  ASSUME NEW name \in Name
  PROVE  DuplicateNumber(name) \in Sizes /\ ExtractDuplicateBaseName(name) \in Name
<1>1. LastWord(name) \in Words \cup Number
  BY DEF Name, LastWord
<1>2. CASE IsNumbered(name)
  <2>1. LastWord(name) \in Number /\ IntMax \in Nat /\ SizeMax \in Nat /\ SizeMax > 2 * IntMax + 2
    BY <1>1, <1>2, WordsAssumption, WidthAssumption DEF IsNumbered
  <2>2. DuplicateNumber(name) \in Sizes
    <3>1. 1 \in Sizes
      BY WidthAssumption DEF Sizes
    <3>2. ExtractDuplicateNumber(name) # NOT_FOUND => ExtractDuplicateNumber(name) \in Sizes
      BY <1>2, <2>1 DEF ExtractDuplicateNumber, NOT_FOUND, Sizes, Number
    <3> QED  BY <3>1, <3>2 DEF DuplicateNumber
  <2>3. ASSUME Len(name) > 1 PROVE SubSeq(name, 1, Len(name) - 1) \in Name
    <3>1. Len(name) \in Nat /\ Len(name) > 1 /\ name \in Seq(Words \cup Number)
      BY <2>3 DEF Name
    <3> DEFINE base == SubSeq(name, 1, Len(name) - 1)
    <3>2. base \in Seq(Words \cup Number) /\ Len(base) = Len(name) - 1
      BY <3>1
    <3> HIDE DEF base
    <3>3. base # <<>>
      BY <3>1, <3>2
    <3> QED  BY <3>2, <3>3 DEF Name, base
  <2> QED  BY <2>2, <2>3 DEF ExtractDuplicateBaseName
<1>3. CASE ~IsNumbered(name)
  BY <1>3, WidthAssumption
     DEF ExtractDuplicateNumber, ExtractDuplicateBaseName, DuplicateNumber, NOT_FOUND, Sizes
<1> QED  BY <1>2, <1>3

\* The low bits of a size_t are an int, so what is made of names is a name.
LEMMA MadeNameIsName ==
  ASSUME NEW keys \in SUBSET Name, NEW name \in Name
  PROVE  MakeConfigurationName(keys, name) \in Name
<1> DEFINE base == ExtractDuplicateBaseName(name)
           numbers == DuplicateNumbers(keys, name)
           largest == max_duplicate(keys, name)
<1>1. base \in Name
  BY NameHasNumber
<1>2. largest \in numbers \cup {0}
  <2>1. numbers \cup {0} \in SUBSET (0 .. SizeMax) /\ numbers \cup {0} # {}
    <3>1. numbers \subseteq Sizes
      BY NameHasNumber DEF DuplicateNumbers
    <3>2. Sizes \subseteq 0 .. SizeMax /\ 0 \in 0 .. SizeMax
      BY WidthAssumption DEF Sizes
    <3> HIDE DEF numbers
    <3> QED  BY <3>1, <3>2
  <2> HIDE DEF numbers
  <2>2. \E m \in numbers \cup {0} : \A number \in numbers \cup {0} : number <= m
    BY <2>1, BoundedSetHasMaximum, WidthAssumption
  <2> QED  BY <2>2 DEF max_duplicate, numbers
<1>3. largest \in Sizes
  BY <1>2, NameHasNumber, WidthAssumption DEF DuplicateNumbers, Sizes
<1> HIDE DEF base, numbers, largest
<1>4. Printed(largest + 1) \in Number
  BY <1>3, WidthAssumption DEF Printed, Sizes, Number
<1>5. Append(base, Printed(largest + 1)) \in Name
  <2> DEFINE made == Append(base, Printed(largest + 1))
  <2>1. /\ base \in Seq(Words \cup Number)
        /\ Printed(largest + 1) \in Words \cup Number
    BY <1>1, <1>4 DEF Name
  <2>2. made \in Seq(Words \cup Number) /\ Len(made) = Len(base) + 1 /\ Len(base) \in Nat
    BY <2>1
  <2> HIDE DEF made
  <2>3. made # <<>>
    BY <2>2
  <2> QED  BY <2>2, <2>3 DEF Name, made
<1> QED  BY <1>1, <1>5 DEF MakeConfigurationName, base, largest

\* What is added, or put in the place of another, is a configuration with a name.
LEMMA PushBackTyped ==
  ASSUME TypeOK, Operate, NEW key \in Name, NEW content \in Contents,
         PushBack(key, content), UNCHANGED running
  PROVE  TypeOK'
<1> DEFINE new == [id |-> operations, key |-> key, content |-> content]
<1>1. /\ operations \in Nat /\ operations' = operations + 1
      /\ operations' \in 0 .. MaxOperations
  BY MaxOperationsAssumption DEF TypeOK, Operate
<1>2. available_configurations' = available_configurations \cup {new}
  BY DEF PushBack
<1>3. /\ new = [id |-> new.id, key |-> new.key, content |-> new.content]
      /\ new.id \in 0 .. operations' - 1 /\ new.key \in Name /\ new.content \in Contents
  BY <1>1
<1>4. \A c \in available_configurations : c.id \in 0 .. operations' - 1
  BY <1>1 DEF TypeOK
<1> HIDE DEF new
<1> QED  BY <1>1, <1>2, <1>3, <1>4 DEF TypeOK

LEMMA ReplaceTyped ==
  ASSUME TypeOK, Operate, NEW old \in available_configurations,
         NEW key \in Name, NEW content \in Contents,
         Replace(old, [id |-> old.id, key |-> key, content |-> content]), UNCHANGED running
  PROVE  TypeOK'
<1> DEFINE by == [id |-> old.id, key |-> key, content |-> content]
<1>1. /\ operations \in Nat /\ operations' = operations + 1
      /\ operations' \in 0 .. MaxOperations
  BY MaxOperationsAssumption DEF TypeOK, Operate
<1>2. available_configurations' = (available_configurations \ {old}) \cup {by}
  BY DEF Replace
<1>3. \A c \in available_configurations : c.id \in 0 .. operations' - 1
  BY <1>1 DEF TypeOK
<1>4. /\ by = [id |-> by.id, key |-> by.key, content |-> by.content]
      /\ by.id \in 0 .. operations' - 1 /\ by.key \in Name /\ by.content \in Contents
  BY <1>3
<1> HIDE DEF by
<1> QED  BY <1>1, <1>2, <1>3, <1>4 DEF TypeOK

LEMMA SubsetTyped ==
  ASSUME TypeOK, Operate, running' \in BOOLEAN,
         available_configurations' \subseteq available_configurations
  PROVE  TypeOK'
<1>1. /\ operations \in Nat /\ operations' = operations + 1
      /\ operations' \in 0 .. MaxOperations
  BY MaxOperationsAssumption DEF TypeOK, Operate
<1>2. \A c \in available_configurations : c.id \in 0 .. operations' - 1
  BY <1>1 DEF TypeOK
<1> QED  BY <1>1, <1>2 DEF TypeOK

\* Whatever users type, wrapped numbers included, a key is a name that can be
\* printed, and no half-read file becomes a configuration.
THEOREM TypeCorrect == Spec => []TypeOK
<1>1. Init => TypeOK
  BY MaxOperationsAssumption DEF Init, TypeOK
<1>2. TypeOK /\ [Next]_vars => TypeOK'
  <2> SUFFICES ASSUME TypeOK, [Next]_vars PROVE TypeOK'
    OBVIOUS
  <2>1. Keys \subseteq Name /\ NewConfiguration \in Name /\ UserNames \subseteq Name
    BY NamesAssumption DEF TypeOK, Keys
  <2>2. ASSUME NEW key \in UserNames \cup {NewConfiguration},
               NEW content \in Contents \cup {Unreadable}, LoadConfiguration(key, content)
        PROVE  TypeOK'
    BY <2>1, <2>2, PushBackTyped, SubsetTyped DEF LoadConfiguration, TypeOK
  <2>3. ASSUME NEW key \in UserNames \cup {NewConfiguration},
               NEW content \in Contents \cup {Unreadable}, ImportConfiguration(key, content)
        PROVE  TypeOK'
    <3>1. Append(key, Imported) \in Name
      <4>1. key \in Seq(Words \cup Number) /\ Imported \in Words \cup Number
        BY <2>1, WordsAssumption DEF Name
      <4>2. /\ Append(key, Imported) \in Seq(Words \cup Number)
            /\ Append(key, Imported) # <<>>
        BY <4>1
      <4> QED  BY <4>2 DEF Name
    <3>2. MakeConfigurationName(Keys, Append(key, Imported)) \in Name
      BY <2>1, <3>1, MadeNameIsName
    <3> QED  BY <2>3, <3>2, PushBackTyped, SubsetTyped DEF ImportConfiguration, TypeOK
  <2>4. ASSUME NEW name \in Keys \cup {NewConfiguration}, CreateConfiguration(name)
        PROVE  TypeOK'
    <3>1. PICK content \in IF name \in Keys
                           THEN {source.content : source \in
                                   {c \in available_configurations : c.key = name}}
                           ELSE {Empty} :
                 PushBack(MakeConfigurationName(Keys, name), content)
      BY <2>4 DEF CreateConfiguration
    <3>2. content \in Contents
      BY <3>1, EmptyAssumption DEF TypeOK
    <3>3. MakeConfigurationName(Keys, name) \in Name
      BY <2>1, MadeNameIsName
    <3>4. Operate /\ UNCHANGED running
      BY <2>4 DEF CreateConfiguration
    <3> QED  BY <3>1, <3>2, <3>3, <3>4, PushBackTyped
  <2>5. ASSUME Terminate PROVE TypeOK'
    BY <2>5, SubsetTyped DEF Terminate
  <2>6. ASSUME NEW configuration \in available_configurations, NEW name \in UserNames,
               Rename(configuration, name)
        PROVE  TypeOK'
    <3>1. configuration.content \in Contents
      BY DEF TypeOK
    <3> QED  BY <2>1, <2>6, <3>1, ReplaceTyped, SubsetTyped DEF Rename, TypeOK
  <2>7. ASSUME NEW configuration \in available_configurations, NEW content \in Contents,
               Edit(configuration, content)
        PROVE  TypeOK'
    <3>1. configuration.key \in Name
      BY DEF TypeOK
    <3> QED  BY <2>7, <3>1, ReplaceTyped DEF Edit
  <2>8. ASSUME NEW name, RemoveConfiguration(name) PROVE TypeOK'
    BY <2>8, SubsetTyped DEF RemoveConfiguration, TypeOK
  <2>9. CASE UNCHANGED vars
    BY <2>9 DEF vars, TypeOK
  <2> QED  BY <2>2, <2>3, <2>4, <2>5, <2>6, <2>7, <2>8, <2>9 DEF Next, Create
<1> QED  BY <1>1, <1>2, PTL DEF Spec
=============================================================================
