--------------------------- MODULE NcclSideProofs ---------------------------
(***************************************************************************)
(* Theorems about NCCL's side of the plugin: PluginLoader, for any finite  *)
(* set of communicators, any list of plugins and any initial count; and    *)
(* ProxyOps, for any number of ranks, elements, connections and operations.*)
(***************************************************************************)
EXTENDS PluginLoader, FiniteSetTheorems, SequenceTheorems, WellFoundedInduction, TLAPS

\* The configured names are files, a failed plugin is none, and the initial
\* count is not negative.
Configuration ==
    /\ IsFiniteSet(Comms) /\ Nobody \notin Comms
    /\ \A i \in Index : Plugins[i] # NoFile
    /\ NoFile \notin Installed \cup DeviceOk
    /\ InitialRefs \in Nat

Files == {Plugins[i] : i \in Index} \cup {NoFile, DefaultFile}

Lib == [name : Files, open : Files,
        state : Usable \cup {"LoadReady", "LoadFailed", "Disabled"}, refs : Int]

Shape ==
    /\ libs \in [Index -> Lib]
    /\ holder \in Comms \cup {Nobody}
    /\ owner \in [Comms -> Comms \cup {Nobody}]
    /\ plugin \in [Comms -> Index \cup {0}]
    /\ seen \in [Comms -> BOOLEAN]

\* A record is open exactly when it can be used or has been; a plugin that is
\* not accepted has no users to count.
LibOk(i, lib, users) ==
    /\ lib.state = "LoadReady" => lib.open = NoFile
    /\ lib.state \in Usable => lib.open # NoFile
    /\ lib.open \in DeviceOk \cup {NoFile} =>
          lib.refs = Cardinality(users)
                     + IF lib.name = Plugins[i] /\ External(i) THEN InitialRefs ELSE 0

LibsOk == \A i \in Index : LibOk(i, libs[i], Users(i))

\* A family has one plugin, an accepted one; it is named after a communicator
\* that was created before, and not after the one being created.
FamiliesOk ==
    /\ \A c \in Comms : owner[c] # Nobody =>
          /\ plugin[c] \in Index /\ libs[plugin[c]].open \in DeviceOk
          /\ seen[owner[c]] /\ seen[c]
    /\ \A c, d \in Comms : owner[c] = owner[d] /\ owner[c] # Nobody => plugin[c] = plugin[d]
    /\ holder # Nobody =>
          /\ seen[holder] /\ owner[holder] = Nobody
          /\ \A c \in Comms : owner[c] # holder

IInv == Shape /\ LibsOk /\ FamiliesOk

-----------------------------------------------------------------------------
LEMMA UsersFinite ==
    ASSUME Configuration, Shape, NEW i \in Index
    PROVE  Users(i) \subseteq Comms /\ IsFiniteSet(Users(i))
<1>1. Users(i) \subseteq Comms
  BY DEF Users, Shape
<1> QED BY <1>1, FS_Subset DEF Configuration

\* A plugin that is not accepted has no users.
LEMMA NoUsers ==
    ASSUME IInv, NEW i \in Index, libs[i].open \notin DeviceOk
    PROVE  Users(i) = {}
BY DEF IInv, FamiliesOk, Users

LEMMA LoaderInit == Configuration /\ Init => IInv
<1> SUFFICES ASSUME Configuration, Init PROVE IInv
  OBVIOUS
<1>1. Shape
  BY DEF Init, Shape, Lib, Files, Usable, Configuration
<1>2. \A i \in Index : Users(i) = {}
  BY DEF Init, Users
<1>3. ASSUME NEW i \in Index PROVE LibOk(i, libs[i], Users(i))
  <2>1. Cardinality(Users(i)) = 0
    BY <1>2, FS_EmptySet
  <2>2. libs[i] = [name |-> Plugins[i], open |-> IF External(i) THEN NoFile ELSE Plugins[i],
                   state |-> IF External(i) THEN "LoadReady" ELSE "InitReady",
                   refs |-> IF External(i) THEN InitialRefs ELSE 0]
    BY DEF Init
  <2>3. CASE External(i)
    BY <2>1, <2>2, <2>3 DEF LibOk, Usable, Configuration
  <2>4. CASE ~External(i)
    BY <2>1, <2>2, <2>4 DEF LibOk, Usable, Configuration
  <2> QED BY <2>3, <2>4
<1>4. FamiliesOk
  BY DEF Init, FamiliesOk
<1> QED BY <1>1, <1>3, <1>4 DEF IInv, LibsOk

-----------------------------------------------------------------------------
\* What the loop finds at an index: the record, or the plugin just loaded.
LEMMA CandidateOk ==
    ASSUME Configuration, IInv, at \in Index
    PROVE  /\ Candidate \in Lib
           /\ LibOk(at, Candidate, Users(at))
           /\ Candidate.open = libs[at].open \/ libs[at].open = NoFile
<1>1. libs[at] \in Lib /\ LibOk(at, libs[at], Users(at))
  BY DEF IInv, Shape, LibsOk
<1>2. CASE External(at) /\ libs[at].state = "LoadReady"
  <2>1. libs[at].open = NoFile
    BY <1>1, <1>2 DEF LibOk
  <2>2. Candidate = Load(libs[at])
    BY <1>2 DEF Candidate
  <2>3. CASE FileOf(libs[at].name) \in Installed
    <3>1. Candidate = [libs[at] EXCEPT !.open = FileOf(libs[at].name), !.state = "InitReady"]
      BY <2>2, <2>3 DEF Load
    <3>2. FileOf(libs[at].name) \in Files /\ FileOf(libs[at].name) # NoFile
      BY <1>1, <2>3 DEF FileOf, Files, Lib, Configuration
    <3> QED BY <1>1, <2>1, <3>1, <3>2 DEF Lib, LibOk, Usable
  <2>4. CASE FileOf(libs[at].name) \notin Installed
    <3>1. Candidate = [libs[at] EXCEPT !.state = "LoadFailed"]
      BY <2>2, <2>4 DEF Load
    <3> QED BY <1>1, <2>1, <3>1 DEF Lib, LibOk, Usable
  <2> QED BY <2>3, <2>4
<1>3. CASE ~(External(at) /\ libs[at].state = "LoadReady")
  BY <1>1, <1>3 DEF Candidate
<1> QED BY <1>2, <1>3

\* Replacing one record while nobody comes or goes.
LEMMA ReplaceLib ==
    ASSUME Configuration, IInv, NEW i \in Index, NEW lib \in Lib,
           LibOk(i, lib, Users(i)),
           libs[i].open \in DeviceOk => lib.open = libs[i].open,
           libs' = [libs EXCEPT ![i] = lib],
           UNCHANGED <<holder, owner, plugin, seen>>
    PROVE  IInv'
<1>1. Shape'
  BY DEF IInv, Shape
<1>2. \A j \in Index : Users(j)' = Users(j)
  BY DEF Users
<1>3. \A j \in Index : libs'[j] = IF j = i THEN lib ELSE libs[j]
  BY DEF IInv, Shape
<1>4. LibsOk'
  BY <1>2, <1>3 DEF IInv, LibsOk, LibOk
<1>5. FamiliesOk'
  BY <1>3 DEF IInv, FamiliesOk
<1> QED BY <1>1, <1>4, <1>5 DEF IInv

-----------------------------------------------------------------------------
LEMMA EnterKeeps ==
    ASSUME IInv, NEW c \in Comms, Enter(c)
    PROVE  IInv'
<1>1. Shape'
  BY DEF Enter, IInv, Shape
<1>2. LibsOk'
  BY DEF Enter, IInv, LibsOk, LibOk, Users
<1>3. FamiliesOk'
  BY DEF Enter, IInv, FamiliesOk, Shape
<1> QED BY <1>1, <1>2, <1>3 DEF IInv

LEMMA SkipKeeps ==
    ASSUME Configuration, IInv, NEW c \in Comms, Skip(c)
    PROVE  IInv'
<1>1. libs[at].open \in DeviceOk => Candidate.open = libs[at].open
  BY CandidateOk DEF Skip, Configuration
<1> QED BY <1>1, CandidateOk, ReplaceLib DEF Skip, NextIndex

LEMMA InitFailsKeeps ==
    ASSUME Configuration, IInv, NEW c \in Comms, InitFails(c)
    PROVE  IInv'
<1> DEFINE lib == [Candidate EXCEPT !.state = "Disabled"]
<1>1. lib \in Lib /\ LibOk(at, lib, Users(at)) /\ lib.open = Candidate.open
  BY CandidateOk DEF InitFails, Lib, LibOk, Usable
<1>2. libs[at].open \in DeviceOk => lib.open = libs[at].open
  BY <1>1, CandidateOk DEF InitFails, Configuration
<1> HIDE DEF lib
<1>3. libs' = [libs EXCEPT ![at] = lib]
  BY DEF InitFails, lib
<1> QED BY <1>1, <1>2, <1>3, ReplaceLib DEF InitFails, NextIndex

-----------------------------------------------------------------------------
\* A plugin NCCL does not accept is finalized at once.
LEMMA RefuseKeeps ==
    ASSUME Configuration, IInv, NEW c \in Comms, Refuse(c)
    PROVE  IInv'
<1> DEFINE enabled == [Candidate EXCEPT !.state = "Enabled"]
           dropped == [enabled EXCEPT !.refs = @ - 1]
           lib == Finalized(at, enabled)
<1> USE DEF Configuration
<1>1. at \in Index /\ Candidate \in Lib /\ Candidate.open \notin DeviceOk \cup {NoFile}
  BY CandidateOk DEF Refuse, Eligible, LibOk
<1>2. libs[at].open \notin DeviceOk /\ Users(at) = {}
  BY <1>1, CandidateOk, NoUsers
<1>3. dropped \in Lib /\ dropped.open = Candidate.open /\ dropped.state = "Enabled"
  <2>1. enabled \in Lib /\ enabled.open = Candidate.open /\ enabled.state = "Enabled"
    BY <1>1 DEF Lib, Usable
  <2> HIDE DEF enabled
  <2> QED BY <2>1 DEF Lib
<1>4. lib = dropped
      \/ lib = [name |-> NoFile, open |-> NoFile, state |-> "LoadReady", refs |-> 0]
  BY DEF Finalized, Unload
<1>5. lib \in Lib /\ LibOk(at, lib, Users(at))
  <2>1. CASE lib = dropped
    BY <1>1, <1>3, <2>1 DEF LibOk, Usable
  <2>2. CASE lib = [name |-> NoFile, open |-> NoFile, state |-> "LoadReady", refs |-> 0]
    <3>1. Cardinality(Users(at)) = 0
      BY <1>2, FS_EmptySet
    <3>2. lib.name # Plugins[at]
      BY <1>1, <2>2
    <3> QED BY <2>2, <3>1, <3>2 DEF LibOk, Usable, Lib, Files
  <2> QED BY <1>4, <2>1, <2>2
<1> HIDE DEF lib
<1>6. libs' = [libs EXCEPT ![at] = lib]
  BY DEF Refuse, lib
<1> QED BY <1>1, <1>2, <1>5, <1>6, ReplaceLib DEF Refuse, NextIndex

-----------------------------------------------------------------------------
\* The record of an accepted plugin gets one more user.
LEMMA AssignKeeps ==
    ASSUME Configuration, IInv, NEW c \in Comms, Assign(c)
    PROVE  IInv'
<1> DEFINE enabled == [Candidate EXCEPT !.state = "Enabled"]
           lib == [enabled EXCEPT !.refs = @ + 1]
<1>1. at \in Index /\ Candidate \in Lib /\ Candidate.open \in DeviceOk
      /\ LibOk(at, Candidate, Users(at))
  BY CandidateOk DEF Assign
<1>2. holder = c /\ owner[c] = Nobody /\ seen[c] /\ c # Nobody
      /\ \A d \in Comms : owner[d] # c
  BY DEF Assign, IInv, FamiliesOk, Configuration
<1>3. \A j \in Index : Users(j)' = IF j = at THEN Users(j) \cup {c} ELSE Users(j)
  <2>1. owner' = [owner EXCEPT ![c] = c] /\ plugin' = [plugin EXCEPT ![c] = at]
    BY DEF Assign
  <2>2. \A d \in Comms : /\ owner'[d] = IF d = c THEN c ELSE owner[d]
                         /\ plugin'[d] = IF d = c THEN at ELSE plugin[d]
    BY <2>1 DEF IInv, Shape
  <2>3. ASSUME NEW j \in Index
        PROVE  Users(j)' = IF j = at THEN Users(j) \cup {c} ELSE Users(j)
    <3>1. \A x : x \in Users(j) <=>
                  \E d \in Comms : owner[d] # Nobody /\ plugin[d] = j /\ x = owner[d]
      BY DEF Users
    <3>2. \A x : x \in Users(j)' <=>
                  \E d \in Comms : owner'[d] # Nobody /\ plugin'[d] = j /\ x = owner'[d]
      BY DEF Users
    <3>3. \A x : x \in Users(j)' <=> x \in Users(j) \/ (j = at /\ x = c)
      BY <1>2, <2>2, <3>1, <3>2
    <3>4. CASE j = at
      BY <3>3, <3>4
    <3>5. CASE j # at
      BY <3>3, <3>5
    <3> QED BY <3>4, <3>5
  <2> QED BY <2>3
<1>4. Cardinality(Users(at) \cup {c}) = Cardinality(Users(at)) + 1
  <2>1. c \notin Users(at)
    BY <1>2 DEF Users
  <2>2. IsFiniteSet(Users(at))
    BY <1>1, UsersFinite DEF IInv
  <2> QED BY <2>1, <2>2, FS_AddElement
<1>5. lib \in Lib /\ LibOk(at, lib, Users(at) \cup {c}) /\ lib.open \in DeviceOk
  <2>1. enabled \in Lib /\ enabled.open = Candidate.open /\ enabled.state = "Enabled"
        /\ enabled.refs = Candidate.refs /\ enabled.name = Candidate.name
    BY <1>1 DEF Lib, Usable
  <2> HIDE DEF enabled
  <2>2. lib \in Lib /\ lib.open = Candidate.open /\ lib.state = "Enabled"
        /\ lib.refs = Candidate.refs + 1 /\ lib.name = Candidate.name
    BY <2>1 DEF Lib
  <2>3. Cardinality(Users(at)) \in Nat /\ Candidate.refs \in Int
    BY <1>1, UsersFinite, FS_CardinalityType DEF IInv, Lib
  <2> QED BY <1>1, <1>4, <2>2, <2>3 DEF LibOk, Usable, Configuration
<1> HIDE DEF lib
<1>6. libs' = DisableOthers(at, [libs EXCEPT ![at] = lib])
  BY DEF Assign, Counted, lib
<1>7. /\ libs' \in [Index -> Lib]
      /\ \A j \in Index : LibOk(j, libs'[j], Users(j)') /\ libs'[j].open =
            IF j = at THEN lib.open ELSE libs[j].open
  <2> SUFFICES ASSUME NEW j \in Index
               PROVE  /\ libs'[j] \in Lib /\ LibOk(j, libs'[j], Users(j)')
                      /\ libs'[j].open = IF j = at THEN lib.open ELSE libs[j].open
    BY <1>6 DEF DisableOthers
  <2>1. CASE j = at
    BY <1>1, <1>3, <1>5, <1>6, <2>1 DEF DisableOthers, IInv, Shape
  <2>2. CASE j # at
    <3>1. libs[j] \in Lib /\ LibOk(j, libs[j], Users(j)) /\ Users(j)' = Users(j)
      BY <1>3, <2>2 DEF IInv, Shape, LibsOk
    <3>2. libs'[j] = libs[j] \/ libs'[j] = [libs[j] EXCEPT !.state = "Disabled"]
      BY <1>1, <1>6, <2>2 DEF DisableOthers, IInv, Shape
    <3> QED BY <2>2, <3>1, <3>2 DEF LibOk, Lib, Usable
  <2> QED BY <2>1, <2>2
<1>8. Shape'
  BY <1>1, <1>7 DEF Assign, Release, IInv, Shape
<1>9. FamiliesOk'
  <2>1. /\ owner \in [Comms -> Comms \cup {Nobody}] /\ plugin \in [Comms -> Index \cup {0}]
        /\ owner' = [owner EXCEPT ![c] = c] /\ plugin' = [plugin EXCEPT ![c] = at]
        /\ holder' = Nobody /\ seen' = seen
    BY DEF Assign, Release, IInv, Shape
  <2>2. \A d \in Comms : /\ owner'[d] = IF d = c THEN c ELSE owner[d]
                         /\ plugin'[d] = IF d = c THEN at ELSE plugin[d]
    BY <2>1
  <2>3. /\ libs'[at].open \in DeviceOk
        /\ \A j \in Index : libs[j].open \in DeviceOk => libs'[j].open \in DeviceOk
    BY <1>1, <1>5, <1>7
  <2>4. ASSUME NEW d \in Comms, owner'[d] # Nobody
        PROVE  /\ plugin'[d] \in Index /\ libs'[plugin'[d]].open \in DeviceOk
               /\ seen'[owner'[d]] /\ seen'[d]
    <3>1. CASE d = c
      BY <1>1, <1>2, <2>1, <2>2, <2>3, <3>1
    <3>2. CASE d # c
      BY <2>1, <2>2, <2>3, <2>4, <3>2 DEF IInv, FamiliesOk
    <3> QED BY <3>1, <3>2
  <2>5. ASSUME NEW d \in Comms, NEW e \in Comms, owner'[d] = owner'[e], owner'[d] # Nobody
        PROVE  plugin'[d] = plugin'[e]
    BY <1>2, <2>2, <2>5 DEF IInv, FamiliesOk
  <2> QED BY <2>1, <2>4, <2>5 DEF FamiliesOk
<1> QED BY <1>7, <1>8, <1>9 DEF IInv, LibsOk

LEMMA GiveUpKeeps ==
    ASSUME Configuration, IInv, NEW c \in Comms, GiveUp(c)
    PROVE  IInv'
<1>1. Shape' /\ FamiliesOk'
  BY DEF GiveUp, Release, IInv, Shape, FamiliesOk
<1>2. LibsOk'
  BY DEF GiveUp, IInv, LibsOk, LibOk, Users
<1> QED BY <1>1, <1>2 DEF IInv

\* A communicator that joins a family adds no user.
LEMMA InheritKeeps ==
    ASSUME Configuration, IInv, NEW c \in Comms, NEW p \in Comms, Inherit(c, p)
    PROVE  IInv'
<1>1. owner[c] = Nobody /\ c # p
  BY DEF Inherit, IInv, FamiliesOk
<1>2. \A j \in Index : Users(j)' = Users(j)
  BY <1>1 DEF Inherit, Users, IInv, Shape
<1>3. Shape'
  BY DEF Inherit, IInv, Shape
<1>4. LibsOk'
  BY <1>2 DEF Inherit, IInv, LibsOk, LibOk
<1>5. FamiliesOk'
  BY <1>1 DEF Inherit, IInv, Shape, FamiliesOk
<1> QED BY <1>3, <1>4, <1>5 DEF IInv

\* Another one of the family stays: the plugin has the same users.
LEMMA LeaveKeeps ==
    ASSUME Configuration, IInv, NEW c \in Comms, Destroy(c), ~LastOfFamily(c)
    PROVE  IInv'
<1>1. PICK d \in Comms : d # c /\ owner[d] = owner[c] /\ owner[c] # Nobody
  BY DEF Destroy, LastOfFamily, Family
<1>2. plugin[d] = plugin[c]
  BY <1>1 DEF IInv, FamiliesOk
<1>3. \A j \in Index : Users(j)' = Users(j)
  BY <1>1, <1>2 DEF Destroy, Users, IInv, Shape
<1>4. Shape'
  BY DEF Destroy, IInv, Shape
<1>5. LibsOk'
  BY <1>3 DEF Destroy, IInv, LibsOk, LibOk
<1>6. FamiliesOk'
  BY DEF Destroy, IInv, Shape, FamiliesOk
<1> QED BY <1>4, <1>5, <1>6 DEF IInv

\* The last one goes: the count drops to what is left of the users, and the
\* plugin is unloaded only if that is none.
LEMMA LastLeaveKeeps ==
    ASSUME Configuration, IInv, NEW c \in Comms, Destroy(c), LastOfFamily(c)
    PROVE  IInv'
<1> DEFINE i == plugin[c]
           o == owner[c]
           dropped == [libs[i] EXCEPT !.refs = @ - 1]
           lib == Finalized(i, libs[i])
           none == [name |-> NoFile, open |-> NoFile, state |-> "LoadReady", refs |-> 0]
           rest == Users(i) \ {o}
<1>1. /\ o # Nobody /\ i \in Index /\ libs[i].open \in DeviceOk
      /\ libs[i] \in Lib /\ LibOk(i, libs[i], Users(i))
      /\ \A d \in Comms : owner[d] = o => d = c
  BY DEF Destroy, LastOfFamily, Family, IInv, FamiliesOk, Shape, LibsOk
<1>2. o \in Users(i)
  BY <1>1 DEF Users
<1>3. \A j \in Index : Users(j)' = IF j = i THEN rest ELSE Users(j)
  BY <1>1 DEF Destroy, Users, IInv, Shape
<1>4. /\ Cardinality(Users(i)) \in Nat /\ Cardinality(rest) \in Nat
      /\ Cardinality(rest) = Cardinality(Users(i)) - 1
      /\ Cardinality(rest) = 0 => rest = {}
  BY <1>1, <1>2, UsersFinite, FS_RemoveElement, FS_CardinalityType, FS_EmptySet, FS_Subset
  DEF IInv
<1>5. dropped \in Lib /\ LibOk(i, dropped, rest) /\ dropped.open \in DeviceOk
  BY <1>1, <1>4 DEF Lib, LibOk, Usable, Configuration
<1>6. lib = dropped \/ (lib = none /\ dropped.refs = 0)
  BY DEF Finalized, Unload
<1>7. lib = none => rest = {} \/ lib = dropped
  BY <1>4, <1>5, <1>6 DEF LibOk, Configuration
<1>8. lib \in Lib /\ LibOk(i, lib, rest) /\ (lib.open \in DeviceOk \/ rest = {})
  <2>1. CASE lib = dropped
    BY <1>5, <2>1
  <2>2. CASE lib = none /\ rest = {}
    <3>1. Cardinality(rest) = 0 /\ lib.name # Plugins[i]
      BY <1>1, <2>2, FS_EmptySet DEF Configuration
    <3> QED BY <2>2, <3>1 DEF Lib, LibOk, Usable, Files
  <2> QED BY <1>6, <1>7, <2>1, <2>2
<1> HIDE DEF lib, rest
<1>9. libs' = [libs EXCEPT ![i] = lib]
  BY DEF Destroy, lib
<1>10. Shape'
  BY <1>1, <1>8, <1>9 DEF Destroy, IInv, Shape
<1>11. LibsOk'
  BY <1>1, <1>3, <1>8, <1>9 DEF IInv, LibsOk, LibOk, Shape
<1>12. FamiliesOk'
  <2>1. \A d \in Comms : d # c /\ plugin[d] = i /\ owner[d] # Nobody => owner[d] \in rest
    BY <1>1 DEF rest, Users
  <2> QED BY <1>1, <1>8, <1>9, <2>1 DEF Destroy, IInv, Shape, FamiliesOk
<1> QED BY <1>10, <1>11, <1>12 DEF IInv

LEMMA LoaderStutter == IInv /\ UNCHANGED vars => IInv'
<1> SUFFICES ASSUME IInv, UNCHANGED vars PROVE IInv'
  OBVIOUS
<1>1. Shape' /\ FamiliesOk'
  BY DEF IInv, Shape, FamiliesOk, vars
<1>2. LibsOk'
  BY DEF IInv, LibsOk, LibOk, Users, vars
<1> QED BY <1>1, <1>2 DEF IInv

LEMMA LoaderStep == Configuration /\ IInv /\ [Next]_vars => IInv'
BY EnterKeeps, SkipKeeps, InitFailsKeeps, RefuseKeeps, AssignKeeps, GiveUpKeeps, InheritKeeps,
   LeaveKeeps, LastLeaveKeeps, LoaderStutter DEF Next

-----------------------------------------------------------------------------
(* The reference count of an accepted plugin is the number of families     *)
(* that use it, and what the configuration adds, whichever communicators   *)
(* were refused, failed, split or destroyed.                               *)
THEOREM CountsAreExact ==
    ASSUME Configuration
    PROVE  Spec => []RefsCountUsers
<1>1. Init => IInv
  BY LoaderInit
<1>2. IInv /\ [Next]_vars => IInv'
  BY LoaderStep
<1>3. IInv => RefsCountUsers
  BY DEF IInv, LibsOk, LibOk, RefsCountUsers
<1> QED BY <1>1, <1>2, <1>3, PTL DEF Spec

(* A communicator's plugin stays loaded until the last of its family has   *)
(* let go of it.                                                           *)
THEOREM NeverUnloadedUnderUse ==
    ASSUME Configuration
    PROVE  Spec => []LoadedWhileUsed
<1>1. Init => IInv
  BY LoaderInit
<1>2. IInv /\ [Next]_vars => IInv'
  BY LoaderStep
<1>3. IInv => LoadedWhileUsed
  BY DEF IInv, FamiliesOk, LoadedWhileUsed, Configuration
<1> QED BY <1>1, <1>2, <1>3, PTL DEF Spec

-----------------------------------------------------------------------------
(* Types.  The count of a plugin that is not accepted only drops, once for *)
(* each refusal; that of any other is the number of its users.             *)
TypesConfiguration ==
    /\ Configuration
    /\ Plugins \in Seq(Range(Plugins)) /\ MaxRefused \in Nat
    /\ \A i \in Index : ~External(i) => Plugins[i] \in Installed

LibBounded(lib) ==
    /\ lib.name \in Range(Plugins) \cup {NoFile} /\ lib.open \in Installed \cup {NoFile}
    /\ lib.open \notin DeviceOk => lib.refs \in -MaxRefused .. InitialRefs

BoundedInv ==
    /\ IInv
    /\ \A i \in Index : LibBounded(libs[i])
    /\ at \in 1 .. Len(Plugins) + 1 /\ want \in Networks

LEMMA PluginIndex ==
    ASSUME TypesConfiguration
    PROVE  Len(Plugins) \in Nat /\ Index = 1 .. Len(Plugins)
BY DEF TypesConfiguration, Index

LEMMA BoundedInit == TypesConfiguration /\ Init => BoundedInv
<1> SUFFICES ASSUME TypesConfiguration, Init PROVE BoundedInv
  OBVIOUS
<1>1. IInv
  BY LoaderInit DEF TypesConfiguration
<1>2. ASSUME NEW i \in Index PROVE LibBounded(libs[i])
  <2>1. libs[i] = [name |-> Plugins[i], open |-> IF External(i) THEN NoFile ELSE Plugins[i],
                   state |-> IF External(i) THEN "LoadReady" ELSE "InitReady",
                   refs |-> IF External(i) THEN InitialRefs ELSE 0]
    BY DEF Init
  <2>2. Plugins[i] \in Range(Plugins) /\ MaxRefused \in Nat /\ InitialRefs \in Nat
        /\ (~External(i) => Plugins[i] \in Installed)
    BY DEF Range, Index, TypesConfiguration, Configuration
  <2>3. CASE External(i)
    BY <2>1, <2>2, <2>3 DEF LibBounded
  <2>4. CASE ~External(i)
    BY <2>1, <2>2, <2>4 DEF LibBounded
  <2> QED BY <2>3, <2>4
<1>3. at \in 1 .. Len(Plugins) + 1 /\ want \in Networks
  BY PluginIndex DEF Init, Networks
<1> QED BY <1>1, <1>2, <1>3 DEF BoundedInv

\* What the steps do to a record.
LEMMA StateBounded ==
    ASSUME NEW lib \in Lib, LibBounded(lib), NEW st
    PROVE  LibBounded([lib EXCEPT !.state = st])
BY DEF LibBounded, Lib

LEMMA CandidateBounded ==
    ASSUME TypesConfiguration, BoundedInv, at \in Index
    PROVE  Candidate \in Lib /\ LibBounded(Candidate)
<1>1. Candidate \in Lib
  BY CandidateOk DEF BoundedInv, TypesConfiguration
<1>2. libs[at] \in Lib /\ LibBounded(libs[at]) /\ LibOk(at, libs[at], Users(at))
  BY DEF BoundedInv, IInv, Shape, LibsOk
<1>3. CASE External(at) /\ libs[at].state = "LoadReady" /\ FileOf(libs[at].name) \in Installed
  <2>1. Candidate = [libs[at] EXCEPT !.open = FileOf(libs[at].name), !.state = "InitReady"]
    BY <1>3 DEF Candidate, Load
  <2>2. libs[at].open = NoFile /\ NoFile \notin DeviceOk
    BY <1>2, <1>3 DEF LibOk, TypesConfiguration, Configuration
  <2>3. /\ Candidate.name = libs[at].name /\ Candidate.open = FileOf(libs[at].name)
        /\ Candidate.refs = libs[at].refs
    BY <1>2, <2>1 DEF Lib
  <2>4. /\ libs[at].refs \in -MaxRefused .. InitialRefs
        /\ libs[at].name \in Range(Plugins) \cup {NoFile}
    BY <1>2, <2>2 DEF LibBounded
  <2> QED BY <1>1, <1>3, <2>3, <2>4 DEF LibBounded
<1>4. CASE External(at) /\ libs[at].state = "LoadReady" /\ FileOf(libs[at].name) \notin Installed
  <2>1. Candidate = [libs[at] EXCEPT !.state = "LoadFailed"]
    BY <1>4 DEF Candidate, Load
  <2> QED BY <1>1, <1>2, <2>1, StateBounded
<1>5. CASE ~(External(at) /\ libs[at].state = "LoadReady")
  BY <1>2, <1>5 DEF Candidate
<1> QED BY <1>1, <1>3, <1>4, <1>5

LEMMA FinalizedBounded ==
    ASSUME TypesConfiguration, NEW i, NEW lib \in Lib, LibBounded(lib),
           lib.open \notin DeviceOk => lib.refs > -MaxRefused
    PROVE  LibBounded(Finalized(i, lib))
<1> DEFINE dropped == [lib EXCEPT !.refs = @ - 1]
           none == [name |-> NoFile, open |-> NoFile, state |-> "LoadReady", refs |-> 0]
<1>1. MaxRefused \in Nat /\ InitialRefs \in Nat
  BY DEF TypesConfiguration, Configuration
<1>2. LibBounded(dropped)
  BY <1>1 DEF Lib, LibBounded
<1>3. LibBounded(none)
  BY <1>1 DEF LibBounded
<1>4. Finalized(i, lib) = dropped \/ Finalized(i, lib) = none
  BY DEF Finalized, Unload
<1> QED BY <1>2, <1>3, <1>4

\* A step that replaces one record, and may disable others.
LEMMA ReplaceBounded ==
    ASSUME TypesConfiguration, BoundedInv, IInv',
           NEW i \in Index, NEW lib, LibBounded(lib),
           \A j \in Index : \/ j = i /\ libs'[j] = lib
                           \/ libs'[j] = libs[j]
                           \/ libs'[j] = [libs[j] EXCEPT !.state = "Disabled"],
           at' = 1 \/ (at \in Index /\ at' = at + 1) \/ at' = at,
           want' \in Networks
    PROVE  BoundedInv'
<1>1. ASSUME NEW j \in Index PROVE LibBounded(libs'[j])
  <2>1. libs[j] \in Lib /\ LibBounded(libs[j])
    BY DEF BoundedInv, IInv, Shape
  <2>2. LibBounded([libs[j] EXCEPT !.state = "Disabled"])
    BY <2>1, StateBounded
  <2> QED BY <2>1, <2>2, Zenon
<1>2. at' \in 1 .. Len(Plugins) + 1
  BY PluginIndex DEF BoundedInv
<1> QED BY <1>1, <1>2 DEF BoundedInv, LibBounded

LEMMA BoundedStep ==
    ASSUME TypesConfiguration, BoundedInv, [Next]_vars
    PROVE  BoundedInv'
<1> USE DEF BoundedInv
<1>1. IInv' /\ libs \in [Index -> Lib]
  BY LoaderStep DEF TypesConfiguration, IInv, Shape
<1>2. CASE UNCHANGED <<libs, at, want>>
  BY <1>1, <1>2 DEF LibBounded
<1>3. ASSUME NEW c \in Comms, Enter(c) \/ GiveUp(c) PROVE BoundedInv'
  <2>1. libs' = libs /\ at' = 1 /\ want' \in Networks
    BY <1>3 DEF Enter, GiveUp, Release, Networks
  <2> QED BY <1>1, <2>1, PluginIndex DEF LibBounded
<1>4. ASSUME NEW c \in Comms, Skip(c) PROVE BoundedInv'
  <2>1. at \in Index /\ libs' = [libs EXCEPT ![at] = Candidate]
        /\ at' = at + 1 /\ want' = want
    BY <1>4 DEF Skip, NextIndex
  <2> QED BY <1>1, <2>1, CandidateBounded, ReplaceBounded
<1>5. ASSUME NEW c \in Comms, InitFails(c) PROVE BoundedInv'
  <2> DEFINE lib == [Candidate EXCEPT !.state = "Disabled"]
  <2>1. at \in Index /\ libs' = [libs EXCEPT ![at] = lib] /\ at' = at + 1 /\ want' = want
    BY <1>5 DEF InitFails, NextIndex
  <2>2. LibBounded(lib)
    BY <2>1, CandidateBounded, StateBounded
  <2> HIDE DEF lib
  <2> QED BY <1>1, <2>1, <2>2, ReplaceBounded
<1>6. ASSUME NEW c \in Comms, Refuse(c) PROVE BoundedInv'
  <2> DEFINE enabled == [Candidate EXCEPT !.state = "Enabled"]
             lib == Finalized(at, enabled)
  <2>1. at \in Index /\ libs' = [libs EXCEPT ![at] = lib] /\ at' = at + 1 /\ want' = want
        /\ libs[at].refs > -MaxRefused
    BY <1>6 DEF Refuse, NextIndex
  <2>2. Candidate.refs = libs[at].refs
    BY <1>1, <2>1 DEF Candidate, Load, Lib
  <2>3. enabled \in Lib /\ enabled.refs = libs[at].refs /\ LibBounded(enabled)
    BY <2>1, <2>2, CandidateBounded, StateBounded DEF Lib, Usable
  <2> HIDE DEF enabled
  <2>4. LibBounded(lib)
    BY <2>1, <2>3, FinalizedBounded
  <2> HIDE DEF lib
  <2> QED BY <1>1, <2>1, <2>4, ReplaceBounded
<1>7. ASSUME NEW c \in Comms, Assign(c) PROVE BoundedInv'
  <2> DEFINE enabled == [Candidate EXCEPT !.state = "Enabled"]
             lib == Counted(enabled)
  <2>1. /\ at \in Index /\ Candidate.open \in DeviceOk
        /\ libs' = DisableOthers(at, [libs EXCEPT ![at] = lib])
        /\ at' = 1 /\ want' = AnyNet
    BY <1>7 DEF Assign, Release
  <2>2. enabled \in Lib /\ enabled.open \in DeviceOk /\ LibBounded(enabled)
    BY <2>1, CandidateBounded, StateBounded DEF Lib, Usable
  <2> HIDE DEF enabled
  <2>3. LibBounded(lib)
    BY <2>2 DEF Counted, Lib, LibBounded
  <2> HIDE DEF lib
  <2>4. \A j \in Index : \/ j = at /\ libs'[j] = lib
                        \/ libs'[j] = libs[j]
                        \/ libs'[j] = [libs[j] EXCEPT !.state = "Disabled"]
    BY <1>1, <2>1 DEF DisableOthers
  <2>5. want' \in Networks
    BY <2>1 DEF Networks
  <2> QED BY <1>1, <2>1, <2>3, <2>4, <2>5, ReplaceBounded
<1>8. ASSUME NEW c \in Comms, NEW d \in Comms, Inherit(c, d) PROVE BoundedInv'
  BY <1>2, <1>8 DEF Inherit
<1>9. ASSUME NEW c \in Comms, Destroy(c) PROVE BoundedInv'
  <2>1. CASE ~LastOfFamily(c)
    BY <1>2, <1>9, <2>1 DEF Destroy
  <2>2. CASE LastOfFamily(c)
    <3> DEFINE i == plugin[c]
               lib == Finalized(i, libs[i])
    <3>1. i \in Index /\ libs[i].open \in DeviceOk
      BY <1>9 DEF Destroy, IInv, FamiliesOk
    <3>2. LibBounded(lib)
      BY <1>1, <3>1, FinalizedBounded
    <3>3. libs' = [libs EXCEPT ![i] = lib] /\ at' = at /\ want' = want
      BY <1>9, <2>2 DEF Destroy
    <3> HIDE DEF lib, i
    <3> QED BY <1>1, <3>1, <3>2, <3>3, ReplaceBounded
  <2> QED BY <2>1, <2>2
<1> QED BY <1>2, <1>3, <1>4, <1>5, <1>6, <1>7, <1>8, <1>9 DEF Next, vars

(* Every variable keeps its type.  Above all a count never passes the      *)
(* number of communicators and what the configuration adds, and drops      *)
(* below zero only for plugins that were refused.                          *)
THEOREM LoaderTypes ==
    ASSUME TypesConfiguration
    PROVE  Spec => []TypeOK
<1>1. Init => BoundedInv
  BY BoundedInit
<1>2. BoundedInv /\ [Next]_vars => BoundedInv'
  BY BoundedStep
<1>3. BoundedInv => TypeOK
  <2> SUFFICES ASSUME BoundedInv PROVE TypeOK
    OBVIOUS
  <2> DEFINE Top == Cardinality(Comms) + InitialRefs
  <2>1. Cardinality(Comms) \in Nat /\ InitialRefs \in Nat /\ MaxRefused \in Nat
    BY FS_CardinalityType DEF TypesConfiguration, Configuration
  <2>2. ASSUME NEW i \in Index
        PROVE  libs[i].refs \in -MaxRefused .. Top
    <3>1. libs[i] \in Lib /\ LibBounded(libs[i]) /\ LibOk(i, libs[i], Users(i))
      BY DEF BoundedInv, IInv, Shape, LibsOk
    <3>2. CASE libs[i].open \in DeviceOk
      <4>1. Cardinality(Users(i)) \in Nat /\ Cardinality(Users(i)) <= Cardinality(Comms)
        BY UsersFinite, FS_Subset, FS_CardinalityType
        DEF BoundedInv, IInv, TypesConfiguration, Configuration
      <4>2. libs[i].refs = Cardinality(Users(i)) \/ libs[i].refs = Cardinality(Users(i)) + InitialRefs
        BY <2>1, <3>1, <3>2, <4>1 DEF LibOk
      <4> QED BY <2>1, <4>1, <4>2
    <3>3. CASE libs[i].open \notin DeviceOk
      BY <2>1, <3>1, <3>3 DEF LibBounded
    <3> QED BY <3>2, <3>3
  <2>3. ASSUME NEW i \in Index
        PROVE  libs[i] \in [name : Range(Plugins) \cup {NoFile}, open : Installed \cup {NoFile},
                            state : Usable \cup {"LoadReady", "LoadFailed", "Disabled"},
                            refs : -MaxRefused .. Top]
    <3>1. libs[i] \in Lib /\ LibBounded(libs[i])
      BY DEF BoundedInv, IInv, Shape
    <3>2. /\ libs[i].name \in Range(Plugins) \cup {NoFile}
          /\ libs[i].open \in Installed \cup {NoFile}
      BY <3>1 DEF LibBounded
    <3> HIDE DEF Top
    <3> QED BY <2>2, <3>1, <3>2 DEF Lib
  <2> QED BY <2>3 DEF BoundedInv, IInv, Shape, TypeOK
<1> QED BY <1>1, <1>2, <1>3, PTL DEF Spec

-----------------------------------------------------------------------------
(* The pool of operations, through which the ranks use the plugin.         *)
CONSTANTS NRanks, MaxOps, Batch, Owner, Grouped, Total

VARIABLES ops, plan, free, freed, issued, posted, thread, queue, stop

Pool == INSTANCE ProxyOps

\* What the proofs ask of the constants.
PoolConfiguration == NRanks \in Nat /\ MaxOps \in Nat \ {0} /\ Batch \in Nat

\* Sets of numbers that contain 0 and the successor of each member.
LEMMA Naturals ==
    ASSUME NEW S, 0 \in S, \A n \in Nat : n \in S => n + 1 \in S
    PROVE  \A n \in Nat : n \in S
<1> DEFINE T == Nat \ S
<1>1. ASSUME T # {} PROVE FALSE
  <2>1. PICK x \in T : \A y \in T : <<y, x>> \notin OpToRel(<, Nat)
    <3>1. T \subseteq Nat
      OBVIOUS
    <3> HIDE DEF T
    <3> QED BY <1>1, <3>1, WFMin, NatLessThanWellFounded
  <2>2. x # 0 /\ x - 1 \in Nat /\ x - 1 < x /\ (x - 1) + 1 = x
    OBVIOUS
  <2>3. x - 1 \in T
    BY <2>2
  <2>4. <<x - 1, x>> \in OpToRel(<, Nat)
    BY <2>2 DEF OpToRel
  <2> QED BY <2>1, <2>3, <2>4
<1> QED BY <1>1

\* The greatest and the least of a set of numbers up to n.
LEMMA Greatest ==
    ASSUME NEW n \in Nat, NEW S, S \subseteq 0 .. n, S # {}
    PROVE  Pool!Max(S) \in S /\ \A y \in S : Pool!Max(S) >= y
<1> DEFINE T == {k \in Nat : k <= n /\ n - k \in S}
<1>1. T # {}
  <2>1. PICK y \in S : TRUE
    OBVIOUS
  <2>2. n - y \in Nat /\ n - y <= n /\ n - (n - y) = y
    OBVIOUS
  <2> QED BY <2>1, <2>2
<1>2. PICK x \in T : \A y \in T : <<y, x>> \notin OpToRel(<, Nat)
  <2>1. T \subseteq Nat
    OBVIOUS
  <2> HIDE DEF T
  <2> QED BY <1>1, <2>1, WFMin, NatLessThanWellFounded
<1>3. n - x \in S /\ \A y \in S : n - x >= y
  <2>1. ASSUME NEW y \in S PROVE n - x >= y
    <3>1. n - y \in T /\ n - y \in Nat /\ x \in Nat
      OBVIOUS
    <3>2. <<n - y, x>> \notin OpToRel(<, Nat)
      BY <1>2, <3>1
    <3>3. ~(n - y < x)
      BY <3>1, <3>2 DEF OpToRel
    <3> QED BY <3>1, <3>3
  <2> QED BY <2>1
<1> QED BY <1>3 DEF Pool!Max

LEMMA Least ==
    ASSUME NEW S, S \subseteq Nat, S # {}
    PROVE  Pool!Min(S) \in S
<1>1. PICK x \in S : \A y \in S : <<y, x>> \notin OpToRel(<, Nat)
  BY WFMin, NatLessThanWellFounded, Zenon
<1>2. ASSUME NEW y \in S PROVE x <= y
  <2>1. <<y, x>> \notin OpToRel(<, Nat)
    BY <1>1
  <2>2. x \in Nat /\ y \in Nat
    OBVIOUS
  <2>3. ~(y < x)
    BY <2>1, <2>2 DEF OpToRel
  <2> QED BY <2>2, <2>3
<1>3. \E z \in S : \A y \in S : z =< y
  BY <1>2
<1> QED BY <1>3, Zenon DEF Pool!Min

\* The number of elements of a set is the same in the instance.
LEMMA SameCardinality ==
    ASSUME NEW S
    PROVE  Pool!Cardinality(S) = Cardinality(S)
  BY DEF Pool!Cardinality, Cardinality

-----------------------------------------------------------------------------
\* No element is twice in a chain.
Distinct(s) == \A j, k \in 1 .. Len(s) : s[j] = s[k] => j = k

LEMMA ChainRange ==
    ASSUME NEW T, NEW s \in Seq(T)
    PROVE  Pool!Range(s) = {s[k] : k \in 1 .. Len(s)} /\ Pool!Range(s) \subseteq T
  BY DEF Pool!Range

LEMMA ChainEmpty == Pool!Range(<<>>) = {} /\ Distinct(<<>>)
  BY DEF Pool!Range, Distinct

LEMMA ChainAppend ==
    ASSUME NEW T, NEW s \in Seq(T), NEW x \in T
    PROVE  /\ Append(s, x) \in Seq(T) /\ Len(Append(s, x)) = Len(s) + 1
           /\ Pool!Range(Append(s, x)) = Pool!Range(s) \cup {x}
           /\ Distinct(s) /\ x \notin Pool!Range(s) => Distinct(Append(s, x))
<1> DEFINE t == Append(s, x)
<1>1. /\ t \in Seq(T) /\ Len(t) = Len(s) + 1 /\ t[Len(s) + 1] = x
      /\ \A k \in 1 .. Len(s) : t[k] = s[k]
  OBVIOUS
<1> HIDE DEF t
<1>2. /\ Pool!Range(t) = {t[k] : k \in 1 .. Len(t)}
      /\ Pool!Range(s) = {s[k] : k \in 1 .. Len(s)}
  BY <1>1, ChainRange
<1>3. \A k \in 1 .. Len(t) : k \in 1 .. Len(s) \/ k = Len(s) + 1
  BY <1>1
<1>4. Pool!Range(t) = Pool!Range(s) \cup {x}
  <2>1. Len(s) + 1 \in 1 .. Len(t) /\ \A k \in 1 .. Len(s) : k \in 1 .. Len(t)
    BY <1>1
  <2> QED BY <1>1, <1>2, <1>3, <2>1
<1>5. Distinct(s) /\ x \notin Pool!Range(s) => Distinct(t)
  BY <1>1, <1>2, <1>3 DEF Distinct
<1> QED BY <1>1, <1>4, <1>5 DEF t

LEMMA ChainConcat ==
    ASSUME NEW T, NEW s \in Seq(T), NEW u \in Seq(T)
    PROVE  /\ s \o u \in Seq(T) /\ Len(s \o u) = Len(s) + Len(u)
           /\ \A k \in 1 .. Len(s) : (s \o u)[k] = s[k]
           /\ \A k \in 1 .. Len(u) : (s \o u)[Len(s) + k] = u[k]
           /\ Pool!Range(s \o u) = Pool!Range(s) \cup Pool!Range(u)
           /\ Distinct(s) /\ Distinct(u) /\ Pool!Range(s) \cap Pool!Range(u) = {}
                  => Distinct(s \o u)
<1> DEFINE t == s \o u
<1>1. t \in Seq(T) /\ Len(t) = Len(s) + Len(u)
  BY ConcatProperties
<1>2. \A k \in 1 .. Len(s) : t[k] = s[k]
  OBVIOUS
<1>3. \A k \in 1 .. Len(u) : t[Len(s) + k] = u[k]
  OBVIOUS
<1> HIDE DEF t
<1>4. /\ Pool!Range(t) = {t[k] : k \in 1 .. Len(t)}
      /\ Pool!Range(s) = {s[k] : k \in 1 .. Len(s)}
      /\ Pool!Range(u) = {u[k] : k \in 1 .. Len(u)}
  BY <1>1, ChainRange
<1>5. \A k \in 1 .. Len(t) : \/ k \in 1 .. Len(s) /\ t[k] = s[k]
                             \/ k - Len(s) \in 1 .. Len(u) /\ t[k] = u[k - Len(s)]
  <2> SUFFICES ASSUME NEW k \in 1 .. Len(t), k \notin 1 .. Len(s)
               PROVE  k - Len(s) \in 1 .. Len(u) /\ t[k] = u[k - Len(s)]
    BY <1>2
  <2>1. k - Len(s) \in 1 .. Len(u) /\ Len(s) + (k - Len(s)) = k
    BY <1>1
  <2> QED BY <1>3, <2>1
<1>6. Pool!Range(t) = Pool!Range(s) \cup Pool!Range(u)
  <2>1. Pool!Range(t) \subseteq Pool!Range(s) \cup Pool!Range(u)
    BY <1>4, <1>5
  <2>2. ASSUME NEW k \in 1 .. Len(s) PROVE s[k] \in Pool!Range(t)
    BY <1>1, <1>2, <1>4
  <2>3. ASSUME NEW k \in 1 .. Len(u) PROVE u[k] \in Pool!Range(t)
    <3>1. Len(s) + k \in 1 .. Len(t)
      BY <1>1
    <3> QED BY <1>3, <1>4, <3>1
  <2> QED BY <1>4, <2>1, <2>2, <2>3
<1>7. ASSUME Distinct(s), Distinct(u), Pool!Range(s) \cap Pool!Range(u) = {}
      PROVE  Distinct(t)
  <2> SUFFICES ASSUME NEW j \in 1 .. Len(t), NEW k \in 1 .. Len(t), t[j] = t[k]
               PROVE  j = k
    BY DEF Distinct
  <2>1. CASE j \in 1 .. Len(s) /\ t[j] = s[j]
    <3>1. k \in 1 .. Len(s) /\ t[k] = s[k]
      BY <1>4, <1>5, <1>7, <2>1
    <3> QED BY <1>7, <2>1, <3>1 DEF Distinct
  <2>2. CASE j - Len(s) \in 1 .. Len(u) /\ t[j] = u[j - Len(s)]
    <3>1. k - Len(s) \in 1 .. Len(u) /\ t[k] = u[k - Len(s)]
      BY <1>4, <1>5, <1>7, <2>2
    <3>2. j - Len(s) = k - Len(s)
      BY <1>7, <2>2, <3>1 DEF Distinct
    <3> QED BY <3>2
  <2> QED BY <1>5, <2>1, <2>2
<1> QED BY <1>1, <1>2, <1>3, <1>6, <1>7 DEF t

LEMMA ChainCut ==
    ASSUME NEW T, NEW s \in Seq(T), NEW n \in 0 .. Len(s)
    PROVE  LET a == SubSeq(s, 1, n)
               b == SubSeq(s, n + 1, Len(s))
           IN  /\ a \in Seq(T) /\ Len(a) = n /\ \A k \in 1 .. n : a[k] = s[k]
               /\ b \in Seq(T) /\ Len(b) = Len(s) - n /\ \A k \in 1 .. Len(b) : b[k] = s[n + k]
               /\ Pool!Range(s) = Pool!Range(a) \cup Pool!Range(b)
               /\ Distinct(s) => /\ Distinct(a) /\ Distinct(b)
                                 /\ Pool!Range(a) \cap Pool!Range(b) = {}
<1> DEFINE a == SubSeq(s, 1, n)
           b == SubSeq(s, n + 1, Len(s))
<1>0. (\A i \in 1 .. n : s[i] \in T) /\ (\A i \in n + 1 .. Len(s) : s[i] \in T)
  OBVIOUS
<1>1. a \in Seq(T) /\ Len(a) = n /\ \A k \in 1 .. n : a[k] = s[k]
  <2>1. a \in Seq(T) /\ Len(a) = (IF 1 <= n THEN n - 1 + 1 ELSE 0)
    BY <1>0, SubSeqProperties
  <2>2. \A k \in 1 .. n : a[k] = s[k]
    BY <1>0
  <2> HIDE DEF a
  <2> QED BY <2>1, <2>2
<1>2. b \in Seq(T) /\ Len(b) = Len(s) - n
  <2>1. b \in Seq(T) /\ Len(b) = (IF n + 1 <= Len(s) THEN Len(s) - (n + 1) + 1 ELSE 0)
    BY <1>0, SubSeqProperties
  <2> HIDE DEF b
  <2> QED BY <2>1
<1>3. \A k \in 1 .. Len(b) : b[k] = s[n + k]
  <2> SUFFICES ASSUME NEW k \in 1 .. Len(s) - n PROVE b[k] = s[n + k]
    BY <1>2
  <2>1. (n + 1) + k - 1 = n + k /\ k \in 1 .. Len(s) - (n + 1) + 1
    OBVIOUS
  <2>2. b[k] = s[(n + 1) + k - 1]
    BY <2>1
  <2> QED BY <2>1, <2>2
<1> HIDE DEF a, b
<1>4. /\ Pool!Range(s) = {s[k] : k \in 1 .. Len(s)}
      /\ Pool!Range(a) = {a[k] : k \in 1 .. n}
      /\ Pool!Range(b) = {b[k] : k \in 1 .. Len(b)}
  BY <1>1, <1>2, ChainRange
<1>5. \A k \in 1 .. Len(b) : n + k \in 1 .. Len(s)
  BY <1>2
<1>6. \A k \in 1 .. Len(s) : k \in 1 .. n \/ (k - n \in 1 .. Len(b) /\ n + (k - n) = k)
  BY <1>2
<1>7. Pool!Range(s) = Pool!Range(a) \cup Pool!Range(b)
  <2>1. Pool!Range(s) \subseteq Pool!Range(a) \cup Pool!Range(b)
    <3> SUFFICES ASSUME NEW k \in 1 .. Len(s) PROVE s[k] \in Pool!Range(a) \cup Pool!Range(b)
      BY <1>4
    <3>1. CASE k \in 1 .. n
      <4>1. a[k] = s[k]
        BY <1>1, <3>1
      <4> QED BY <1>4, <3>1, <4>1
    <3>2. CASE k - n \in 1 .. Len(b) /\ n + (k - n) = k
      <4>1. b[k - n] = s[k]
        BY <1>3, <3>2
      <4> QED BY <1>4, <3>2, <4>1
    <3> QED BY <1>6, <3>1, <3>2
  <2>2. Pool!Range(a) \subseteq Pool!Range(s)
    BY <1>1, <1>4
  <2>3. Pool!Range(b) \subseteq Pool!Range(s)
    <3>1. ASSUME NEW k \in 1 .. Len(b) PROVE b[k] \in Pool!Range(s)
      <4>1. b[k] = s[n + k] /\ n + k \in 1 .. Len(s)
        BY <1>3, <1>5
      <4> QED BY <1>4, <4>1
    <3> QED BY <1>4, <3>1
  <2> QED BY <2>1, <2>2, <2>3
<1>8. ASSUME Distinct(s)
      PROVE  Distinct(a) /\ Distinct(b) /\ Pool!Range(a) \cap Pool!Range(b) = {}
  <2>1. Distinct(a)
    BY <1>1, <1>8 DEF Distinct
  <2>2. Distinct(b)
    <3> SUFFICES ASSUME NEW j \in 1 .. Len(b), NEW k \in 1 .. Len(b), b[j] = b[k]
                 PROVE  j = k
      BY DEF Distinct
    <3>1. n + j = n + k
      BY <1>3, <1>5, <1>8 DEF Distinct
    <3> QED BY <1>2, <3>1
  <2>3. ASSUME NEW j \in 1 .. n, NEW k \in 1 .. Len(b), a[j] = b[k] PROVE FALSE
    <3>1. a[j] = s[j] /\ b[k] = s[n + k] /\ n + k \in 1 .. Len(s) /\ j \in 1 .. Len(s)
      BY <1>1, <1>3, <1>5
    <3>2. j = n + k
      BY <1>8, <2>3, <3>1 DEF Distinct
    <3> QED BY <1>2, <3>2
  <2> QED BY <1>4, <2>1, <2>2, <2>3
<1> QED BY <1>1, <1>2, <1>3, <1>7, <1>8 DEF a, b

-----------------------------------------------------------------------------
\* The set 1 .. k, as the fold takes it apart.
LEMMA TakeApart ==
    ASSUME NEW k \in Nat \ {0}
    PROVE  Pool!Max(1 .. k) = k /\ (1 .. k) \ {Pool!Max(1 .. k)} = 1 .. k - 1 /\ 1 .. k # {}
<1>1. 1 .. k \subseteq 0 .. k /\ k \in 1 .. k
  OBVIOUS
<1>2. Pool!Max(1 .. k) \in 1 .. k /\ \A y \in 1 .. k : Pool!Max(1 .. k) >= y
  BY <1>1, Greatest
<1>3. Pool!Max(1 .. k) = k
  BY <1>1, <1>2
<1> QED BY <1>1, <1>3

\* What the function that the fold is defined by returns for a set.
FoldValue(g, batch, q, s) ==
    IF s = {} THEN q ELSE Pool!ProxyAppend(g[s \ {Pool!Max(s)}], batch[Pool!Max(s)])

\* There is such a function.
LEMMA FoldExists ==
    ASSUME NEW T, NEW batch \in Seq(T), NEW q
    PROVE  \E f : /\ f = [s \in SUBSET (1 .. Len(batch)) |-> f[s]]
                  /\ \A s \in SUBSET (1 .. Len(batch)) : f[s] = FoldValue(f, batch, q, s)
<1> DEFINE Is(g, n) ==
        /\ g = [s \in SUBSET (1 .. n) |-> g[s]]
        /\ \A s \in SUBSET (1 .. n) :
              g[s] = FoldValue(g, batch, q, s)
    S == {n \in Nat : \E g : Is(g, n)}
<1>1. 0 \in S
  <2> DEFINE g == [s \in SUBSET (1 .. 0) |-> q]
  <2>1. \A s \in SUBSET (1 .. 0) : s = {}
    OBVIOUS
  <2>2. Is(g, 0)
    BY <2>1 DEF FoldValue
  <2> HIDE DEF Is, g
  <2> QED BY <2>2
<1>2. ASSUME NEW n \in Nat, n \in S PROVE n + 1 \in S
  <2>1. PICK g : Is(g, n)
    BY <1>2
  <2> DEFINE h == [s \in SUBSET (1 .. n + 1) |->
                     IF n + 1 \in s THEN Pool!ProxyAppend(g[s \ {n + 1}], batch[n + 1]) ELSE g[s]]
  <2>2. ASSUME NEW s \in SUBSET (1 .. n + 1), s # {}
        PROVE  /\ n + 1 \in s => Pool!Max(s) = n + 1 /\ s \ {n + 1} \in SUBSET (1 .. n)
               /\ n + 1 \notin s => s \in SUBSET (1 .. n) /\ Pool!Max(s) \in s
    <3>1. s \subseteq 0 .. n + 1 /\ n + 1 \in Nat
      OBVIOUS
    <3>2. Pool!Max(s) \in s /\ \A y \in s : Pool!Max(s) >= y
      BY <2>2, <3>1, Greatest
    <3>3. Pool!Max(s) \in 1 .. n + 1
      BY <3>2
    <3>4. n + 1 \in s => Pool!Max(s) = n + 1
      BY <3>2, <3>3
    <3>5. \A y \in s : y # n + 1 => y \in 1 .. n
      OBVIOUS
    <3> QED BY <3>2, <3>4, <3>5
  <2>3. ASSUME NEW s \in SUBSET (1 .. n + 1)
        PROVE  h[s] = FoldValue(h, batch, q, s)
    <3>1. CASE s = {}
      <4>1. h[s] = g[s] /\ s \in SUBSET (1 .. n)
        BY <3>1
      <4> HIDE DEF h
      <4> QED BY <2>1, <3>1, <4>1 DEF FoldValue
    <3>2. CASE s # {} /\ n + 1 \in s
      <4>1. Pool!Max(s) = n + 1 /\ s \ {n + 1} \in SUBSET (1 .. n + 1) /\ n + 1 \notin s \ {n + 1}
        BY <2>2, <3>2
      <4>2. h[s] = Pool!ProxyAppend(g[s \ {n + 1}], batch[n + 1]) /\ h[s \ {n + 1}] = g[s \ {n + 1}]
        BY <3>2, <4>1
      <4> HIDE DEF h
      <4> QED BY <3>2, <4>1, <4>2 DEF FoldValue
    <3>3. CASE s # {} /\ n + 1 \notin s
      <4>1. s \in SUBSET (1 .. n) /\ s \ {Pool!Max(s)} \in SUBSET (1 .. n)
        BY <2>2, <3>3
      <4>2. s \ {Pool!Max(s)} \in SUBSET (1 .. n + 1) /\ n + 1 \notin s \ {Pool!Max(s)}
        BY <3>3
      <4>3. h[s] = g[s] /\ h[s \ {Pool!Max(s)}] = g[s \ {Pool!Max(s)}]
        BY <3>3, <4>2
      <4> HIDE DEF h
      <4> QED BY <2>1, <3>3, <4>1, <4>3 DEF FoldValue
    <3> QED BY <3>1, <3>2, <3>3
  <2>4. h = [s \in SUBSET (1 .. n + 1) |-> h[s]]
    OBVIOUS
  <2> HIDE DEF h
  <2>5. Is(h, n + 1)
    BY <2>3, <2>4
  <2> HIDE DEF Is
  <2> QED BY <2>5
<1> HIDE DEF S
<1>3. Len(batch) \in S
  <2>1. \A n \in Nat : n \in S
    BY <1>1, <1>2, Naturals
  <2> QED BY <2>1
<1> QED BY <1>3 DEF S

\* What the fold of a batch comes to, one operation after the other.
LEMMA FoldSteps ==
    ASSUME NEW T, NEW batch \in Seq(T), NEW q
    PROVE  \E f : /\ f[0] = q
                  /\ \A k \in 1 .. Len(batch) : f[k] = Pool!ProxyAppend(f[k - 1], batch[k])
                  /\ Pool!FoldLeft(Pool!ProxyAppend, q, batch) = f[Len(batch)]
<1> DEFINE M == SUBSET (1 .. Len(batch))
           body(g) == [s \in M |->
               IF s = {} THEN q ELSE Pool!ProxyAppend(g[s \ {Pool!Max(s)}], batch[Pool!Max(s)])]
           iter == CHOOSE g : g = body(g)
           f == [k \in 0 .. Len(batch) |-> iter[1 .. k]]
<1>1. iter = body(iter)
  <2>1. \E g : g = body(g)
    <3>1. PICK g : /\ g = [s \in M |-> g[s]]
                   /\ \A s \in M : g[s] = FoldValue(g, batch, q, s)
      BY FoldExists
    <3>2. g = body(g)
      BY <3>1 DEF FoldValue
    <3> QED BY <3>2
  <2> HIDE DEF body
  <2> QED BY <2>1
<1>2. Pool!FoldLeft(Pool!ProxyAppend, q, batch) = iter[1 .. Len(batch)]
  <2>1. DOMAIN batch = 1 .. Len(batch)
    OBVIOUS
  <2> QED BY <2>1 DEF Pool!FoldLeft, Pool!MapThenFoldSet
<1> HIDE DEF iter
<1>3. ASSUME NEW k \in 0 .. Len(batch)
      PROVE  f[k] = IF k = 0 THEN q ELSE Pool!ProxyAppend(f[k - 1], batch[k])
  <2>1. 1 .. k \in M /\ f[k] = iter[1 .. k]
    OBVIOUS
  <2>2. CASE k = 0
    <3>1. 1 .. k = {}
      BY <2>2
    <3> QED BY <1>1, <2>1, <2>2, <3>1
  <2>3. CASE k # 0
    <3>1. Pool!Max(1 .. k) = k /\ (1 .. k) \ {k} = 1 .. k - 1 /\ 1 .. k # {}
      BY <2>3, TakeApart
    <3>2. iter[1 .. k] = Pool!ProxyAppend(iter[1 .. k - 1], batch[k])
      BY <1>1, <2>1, <3>1
    <3>3. f[k - 1] = iter[1 .. k - 1]
      BY <2>3
    <3> QED BY <2>1, <2>3, <3>2, <3>3
  <2> QED BY <2>2, <2>3
<1>4. f[Len(batch)] = iter[1 .. Len(batch)] /\ \A k \in 1 .. Len(batch) : k \in 0 .. Len(batch) /\ k # 0
  OBVIOUS
<1> HIDE DEF f
<1>5. f[0] = q /\ \A k \in 1 .. Len(batch) : f[k] = Pool!ProxyAppend(f[k - 1], batch[k])
  BY <1>3, <1>4
<1> QED BY <1>2, <1>4, <1>5

-----------------------------------------------------------------------------
PoolOps == [conn : Pool!Conns \cup {"none"}, count : Nat]

Arguments == [count : Nat, running : BOOLEAN]

Progress == [at : Pool!Places, taken : Seq(Pool!Index),
             back : [Pool!Ranks -> SUBSET Pool!Index], old : SUBSET Pool!Index]

\* The type invariant, with functions and records.
PoolShape ==
    /\ ops \in [Pool!Index -> PoolOps]
    /\ plan \in [Pool!Ranks -> Seq(Pool!Index)]
    /\ free \in [Pool!Ranks -> SUBSET Pool!Index]
    /\ freed \in [Pool!Ranks -> SUBSET Pool!Index]
    /\ issued \in [Pool!Ranks -> [n : Nat, count : Nat]]
    /\ posted \in Seq(Pool!Index)
    /\ thread \in Progress
    /\ queue \in [Pool!Conns -> Seq(Arguments)]
    /\ stop \in BOOLEAN

\* What PostFull sends, and what a batch is, are beginnings of the chain.
LEMMA SendsBeginning ==
    ASSUME NEW T, NEW s \in Seq(T), s # <<>>
    PROVE  /\ Pool!ToSend(s) \in 0 .. Len(s) - 1
           /\ \A n \in 1 .. Len(s) : ops[s[n]].count # ops[s[Len(s)]].count => n <= Pool!ToSend(s)
           /\ Pool!ToSend(s) # 0 => ops[s[Pool!ToSend(s)]].count # ops[s[Len(s)]].count
<1> DEFINE S == {0} \cup {n \in DOMAIN s : ops[s[n]].count # ops[s[Len(s)]].count}
<1>1. Pool!ToSend(s) = Pool!Max(S)
  BY DEF Pool!ToSend, Pool!Last
<1>2. S \subseteq 0 .. Len(s) /\ S # {} /\ Len(s) \in Nat /\ Len(s) > 0 /\ Len(s) \notin S
  OBVIOUS
<1>3. DOMAIN s = 1 .. Len(s)
  OBVIOUS
<1>4. Pool!Max(S) \in S /\ \A y \in S : Pool!Max(S) >= y
  BY <1>2, Greatest
<1>5. Pool!Max(S) \in 0 .. Len(s) - 1
  BY <1>2, <1>4
<1>6. \A n \in 1 .. Len(s) : ops[s[n]].count # ops[s[Len(s)]].count => n \in S
  BY <1>3
<1>7. \A n \in S : n # 0 => ops[s[n]].count # ops[s[Len(s)]].count
  OBVIOUS
<1> HIDE DEF S
<1> QED BY <1>1, <1>4, <1>5, <1>6, <1>7

LEMMA BatchBeginning ==
    ASSUME PoolConfiguration, NEW T, NEW s \in Seq(T)
    PROVE  /\ Pool!BatchSize(s) \in 0 .. Len(s)
           /\ s # <<>> => Pool!BatchSize(s) # 0
           /\ \A n \in 1 .. Len(s) :
                 Pool!Changes(s, n) <= Batch => n <= Pool!BatchSize(s)
           /\ Pool!BatchSize(s) # 0 => Pool!Changes(s, Pool!BatchSize(s)) <= Batch
<1> DEFINE S == {0} \cup {n \in DOMAIN s : Pool!Changes(s, n) <= Batch}
<1>1. Pool!BatchSize(s) = Pool!Max(S)
  BY DEF Pool!BatchSize
<1>2. DOMAIN s = 1 .. Len(s)
  OBVIOUS
<1>3. S \subseteq 0 .. Len(s) /\ S # {} /\ Len(s) \in Nat
  BY <1>2
<1>4. Pool!Max(S) \in S /\ \A y \in S : Pool!Max(S) >= y
  BY <1>3, Greatest
<1>5. \A n \in 1 .. Len(s) : Pool!Changes(s, n) <= Batch => n \in S
  BY <1>2
<1>6. \A n \in S : n # 0 => Pool!Changes(s, n) <= Batch
  OBVIOUS
<1>7. ASSUME s # <<>> PROVE 1 \in S
  <2>1. 1 \in 1 .. Len(s)
    BY <1>7
  <2>2. 2 .. 1 = {}
    OBVIOUS
  <2>3. Pool!Changes(s, 1) = 0
    <3> DEFINE X == {j \in 2 .. 1 : \/ ops[s[j]].count # ops[s[j - 1]].count
                                    \/ Pool!RankOf(s[j]) # Pool!RankOf(s[j - 1])}
    <3>1. Pool!Changes(s, 1) = Cardinality(X)
      BY SameCardinality DEF Pool!Changes
    <3>2. X = {}
      BY <2>2
    <3> HIDE DEF X
    <3> QED BY <3>1, <3>2, FS_EmptySet
  <2> QED BY <1>5, <2>1, <2>3 DEF PoolConfiguration
<1> HIDE DEF S
<1>8. s # <<>> => Pool!Max(S) # 0
  BY <1>3, <1>4, <1>7
<1> QED BY <1>1, <1>3, <1>4, <1>5, <1>6, <1>8

\* An operation is appended to a queue.
LEMMA AppendShape ==
    ASSUME NEW all \in [Pool!Conns -> Seq(Arguments)], NEW i, ops[i] \in PoolOps
    PROVE  Pool!ProxyAppend(all, i) \in [Pool!Conns -> Seq(Arguments)]
<1> DEFINE c == ops[i].conn
           one == [count |-> ops[i].count, running |-> FALSE]
<1>1. one \in Arguments
  BY DEF Arguments, PoolOps
<1>2. \/ Pool!ProxyAppend(all, i) = all
      \/ Pool!ProxyAppend(all, i) = [all EXCEPT ![c] = Append(all[c], one)]
  BY DEF Pool!ProxyAppend
<1> HIDE DEF one, c
<1>3. ASSUME c \in Pool!Conns PROVE Append(all[c], one) \in Seq(Arguments)
  BY <1>1, <1>3
<1> QED BY <1>2, <1>3

LEMMA FoldShape ==
    ASSUME PoolShape, NEW batch \in Seq(Pool!Index)
    PROVE  /\ Pool!FoldLeft(Pool!ProxyAppend, queue, batch) \in [Pool!Conns -> Seq(Arguments)]
           /\ batch = <<>> => Pool!FoldLeft(Pool!ProxyAppend, queue, batch) = queue
<1>1. PICK f : /\ f[0] = queue
               /\ \A k \in 1 .. Len(batch) : f[k] = Pool!ProxyAppend(f[k - 1], batch[k])
               /\ Pool!FoldLeft(Pool!ProxyAppend, queue, batch) = f[Len(batch)]
  BY FoldSteps
<1> DEFINE S == {k \in Nat : k <= Len(batch) => f[k] \in [Pool!Conns -> Seq(Arguments)]}
<1>2. 0 \in S
  BY <1>1 DEF PoolShape
<1>3. ASSUME NEW n \in Nat, n \in S PROVE n + 1 \in S
  <2> SUFFICES ASSUME n + 1 <= Len(batch) PROVE f[n + 1] \in [Pool!Conns -> Seq(Arguments)]
    OBVIOUS
  <2>1. n + 1 \in 1 .. Len(batch) /\ (n + 1) - 1 = n /\ f[n] \in [Pool!Conns -> Seq(Arguments)]
    BY <1>3
  <2>2. ops[batch[n + 1]] \in PoolOps
    BY <2>1 DEF PoolShape
  <2>3. f[n + 1] = Pool!ProxyAppend(f[n], batch[n + 1])
    BY <1>1, <2>1
  <2> QED BY <2>1, <2>2, <2>3, AppendShape
<1>4. Len(batch) \in Nat /\ (batch = <<>> => Len(batch) = 0)
  OBVIOUS
<1>5. Len(batch) \in S
  <2> HIDE DEF S
  <2>1. \A n \in Nat : n \in S
    BY <1>2, <1>3, Naturals
  <2> QED BY <1>4, <2>1
<1> QED BY <1>1, <1>4, <1>5

-----------------------------------------------------------------------------
\* The thread goes on, or is woken, with what it has.
Carries == thread'.taken = thread.taken /\ thread'.back = thread.back /\ thread'.old = thread.old

LEMMA PlaceChanges ==
    ASSUME PoolShape, NEW x \in Pool!Places, thread' = [thread EXCEPT !.at = x]
    PROVE  thread' \in Progress /\ thread'.at = x /\ Carries
  BY DEF PoolShape, Progress, Carries

LEMMA NotifiedShape ==
    ASSUME PoolShape, thread' = Pool!Notified
    PROVE  /\ thread' \in Progress /\ Carries
           /\ thread'.at = IF thread.at = "wait" THEN "woken" ELSE thread.at
<1>1. "woken" \in Pool!Places
  BY DEF Pool!Places
<1>2. CASE thread.at = "wait"
  BY <1>1, <1>2, PlaceChanges DEF Pool!Notified
<1>3. CASE thread.at # "wait"
  BY <1>3 DEF Pool!Notified, PoolShape, Carries
<1> QED BY <1>2, <1>3

\* Either the thread is woken, or something was posted before.
LEMMA PostShape ==
    ASSUME PoolShape, NEW chain \in Seq(Pool!Index), Pool!Post(chain)
    PROVE  /\ posted' = posted \o chain /\ posted' \in Seq(Pool!Index)
           /\ thread' \in Progress /\ Carries
           /\ \/ posted = <<>> /\ thread'.at = IF thread.at = "wait" THEN "woken" ELSE thread.at
              \/ posted # <<>> /\ thread'.at = thread.at
<1>1. posted' = posted \o chain /\ posted' \in Seq(Pool!Index)
  BY ConcatProperties DEF Pool!Post, PoolShape
<1>2. CASE posted = <<>>
  BY <1>1, <1>2, NotifiedShape DEF Pool!Post
<1>3. CASE posted # <<>>
  BY <1>1, <1>3 DEF Pool!Post, PoolShape, Carries
<1> QED BY <1>2, <1>3

\* The list a rank takes its next element from.
List(r) == IF free[r] # {} THEN free[r] ELSE freed[r]

LEMMA AppendOpShape ==
    ASSUME PoolShape, NEW r \in Pool!Ranks, NEW c \in Pool!Conns,
           NEW k \in issued[r].count .. issued[r].count + 1, Pool!AppendOp(r, c, k)
    PROVE  /\ PoolShape'
           /\ \E i \in List(r) :
                 /\ i \in Pool!Index /\ k \in Nat /\ ~stop /\ Owner[c] = r
                 /\ k = issued[r].count \/ (k = issued[r].count + 1 /\ plan[r] # <<>>)
                 /\ Len(plan[r]) < MaxOps
                 /\ Len(plan[r]) = MaxOps - 1 => ops[plan[r][1]].count # k
                 /\ ops' = [ops EXCEPT ![i] = [conn |-> c, count |-> k]]
                 /\ plan' = [plan EXCEPT ![r] = Append(plan[r], i)]
                 /\ free' = [free EXCEPT ![r] = List(r) \ {i}]
                 /\ freed' = IF free[r] = {} THEN [freed EXCEPT ![r] = {}] ELSE freed
                 /\ issued' = [issued EXCEPT ![r] = [n |-> issued[r].n + 1, count |-> k]]
                 /\ UNCHANGED <<posted, thread, queue, stop>>
<1>1. PICK i \in List(r) :
        /\ ~stop /\ Owner[c] = r /\ Len(plan[r]) < MaxOps
        /\ k = issued[r].count \/ (k = issued[r].count + 1 /\ plan[r] # <<>>)
        /\ Len(plan[r]) = MaxOps - 1 => ops[plan[r][1]].count # k
        /\ ops' = [ops EXCEPT ![i] = [conn |-> c, count |-> k]]
        /\ plan' = [plan EXCEPT ![r] = Append(plan[r], i)]
        /\ free' = [free EXCEPT ![r] = List(r) \ {i}]
        /\ freed' = IF free[r] = {} THEN [freed EXCEPT ![r] = {}] ELSE freed
        /\ issued' = [issued EXCEPT ![r] = [n |-> issued[r].n + 1, count |-> k]]
        /\ UNCHANGED <<posted, thread, queue, stop>>
  BY DEF Pool!AppendOp, List
<1>2. /\ List(r) \subseteq Pool!Index /\ i \in Pool!Index
      /\ plan[r] \in Seq(Pool!Index) /\ issued[r] \in [n : Nat, count : Nat]
  BY DEF PoolShape, List
<1>3. k \in Nat
  BY <1>2
<1>4. ops' \in [Pool!Index -> PoolOps]
  BY <1>1, <1>2, <1>3 DEF PoolShape, PoolOps
<1>5. plan' \in [Pool!Ranks -> Seq(Pool!Index)]
  BY <1>1, <1>2 DEF PoolShape
<1>6. /\ free' \in [Pool!Ranks -> SUBSET Pool!Index]
      /\ freed' \in [Pool!Ranks -> SUBSET Pool!Index]
  BY <1>1, <1>2 DEF PoolShape
<1>7. issued' \in [Pool!Ranks -> [n : Nat, count : Nat]]
  BY <1>1, <1>2, <1>3 DEF PoolShape
<1>8. PoolShape'
  BY <1>1, <1>4, <1>5, <1>6, <1>7 DEF PoolShape
<1> QED BY <1>1, <1>2, <1>3, <1>8

LEMMA PostFullShape ==
    ASSUME PoolConfiguration, PoolShape, NEW r \in Pool!Ranks, Pool!PostFull(r)
    PROVE  /\ PoolShape'
           /\ plan[r] # <<>> /\ Len(plan[r]) = MaxOps
           /\ plan' = [plan EXCEPT ![r] =
                          SubSeq(plan[r], Pool!ToSend(plan[r]) + 1, Len(plan[r]))]
           /\ Pool!Post(SubSeq(plan[r], 1, Pool!ToSend(plan[r])))
           /\ SubSeq(plan[r], 1, Pool!ToSend(plan[r])) \in Seq(Pool!Index)
           /\ UNCHANGED <<ops, free, freed, issued, queue, stop>>
<1>1. /\ Len(plan[r]) = MaxOps
      /\ plan' = [plan EXCEPT ![r] = SubSeq(plan[r], Pool!ToSend(plan[r]) + 1, MaxOps)]
      /\ Pool!Post(SubSeq(plan[r], 1, Pool!ToSend(plan[r])))
      /\ UNCHANGED <<ops, free, freed, issued, queue, stop>>
  BY DEF Pool!PostFull
<1>2. plan[r] \in Seq(Pool!Index) /\ plan[r] # <<>>
  BY <1>1 DEF PoolShape, PoolConfiguration
<1>3. Pool!ToSend(plan[r]) \in 0 .. Len(plan[r])
  <2>1. Pool!ToSend(plan[r]) \in 0 .. Len(plan[r]) - 1
    BY <1>2, SendsBeginning
  <2> QED BY <1>2, <2>1
<1>4. /\ SubSeq(plan[r], 1, Pool!ToSend(plan[r])) \in Seq(Pool!Index)
      /\ SubSeq(plan[r], Pool!ToSend(plan[r]) + 1, Len(plan[r])) \in Seq(Pool!Index)
  BY <1>2, <1>3, ChainCut
<1>5. posted' \in Seq(Pool!Index) /\ thread' \in Progress
  BY <1>1, <1>4, PostShape
<1>6. plan' \in [Pool!Ranks -> Seq(Pool!Index)]
  BY <1>1, <1>4 DEF PoolShape
<1>7. PoolShape'
  BY <1>1, <1>5, <1>6 DEF PoolShape
<1> QED BY <1>1, <1>2, <1>4, <1>7

LEMMA StartShape ==
    ASSUME PoolShape, NEW r \in Pool!Ranks, Pool!Start(r)
    PROVE  /\ PoolShape'
           /\ plan[r] # <<>> /\ plan[r] \in Seq(Pool!Index) /\ Pool!Post(plan[r])
           /\ plan' = [plan EXCEPT ![r] = <<>>]
           /\ issued' = [issued EXCEPT ![r].count = issued[r].count + 1]
           /\ UNCHANGED <<ops, free, freed, queue, stop>>
<1>1. /\ Len(plan[r]) \in 1 .. MaxOps - 1
      /\ plan' = [plan EXCEPT ![r] = <<>>]
      /\ issued' = [issued EXCEPT ![r].count = issued[r].count + 1]
      /\ Pool!Post(plan[r])
      /\ UNCHANGED <<ops, free, freed, queue, stop>>
  BY DEF Pool!Start
<1>2. plan[r] \in Seq(Pool!Index) /\ plan[r] # <<>>
  BY <1>1 DEF PoolShape
<1>3. posted' \in Seq(Pool!Index) /\ thread' \in Progress
  BY <1>1, <1>2, PostShape
<1>4. issued' \in [Pool!Ranks -> [n : Nat, count : Nat]]
  <2>1. issued[r] \in [n : Nat, count : Nat]
    BY DEF PoolShape
  <2>2. [issued[r] EXCEPT !.count = issued[r].count + 1] \in [n : Nat, count : Nat]
    BY <2>1
  <2>3. issued' = [issued EXCEPT ![r] = [issued[r] EXCEPT !.count = issued[r].count + 1]]
    BY <1>1
  <2> QED BY <2>2, <2>3 DEF PoolShape
<1>5. plan' \in [Pool!Ranks -> Seq(Pool!Index)]
  BY <1>1 DEF PoolShape
<1>6. PoolShape'
  BY <1>1, <1>3, <1>4, <1>5 DEF PoolShape
<1> QED BY <1>1, <1>2, <1>6

LEMMA StopShape ==
    ASSUME PoolShape, Pool!Stop
    PROVE  PoolShape'
<1>1. thread' \in Progress /\ stop' = TRUE /\ UNCHANGED <<ops, plan, free, freed, issued, posted, queue>>
  BY NotifiedShape DEF Pool!Stop
<1> QED BY <1>1 DEF PoolShape

LEMMA SweepShape ==
    ASSUME PoolShape, NEW done \in SUBSET Pool!Conns, Pool!Sweep(done)
    PROVE  /\ PoolShape' /\ Carries
           /\ thread.at = "sweep"
           /\ \/ thread'.at = "get"
              \/ thread'.at = "loop" /\ \E c \in Pool!Conns : queue'[c] # <<>>
           /\ \A c \in Pool!Conns :
                 \/ queue[c] # <<>> /\ queue'[c] = Tail(queue[c])
                 \/ queue[c] = <<>> /\ queue'[c] = <<>>
                 \/ queue[c] # <<>> /\ queue'[c] = [queue[c] EXCEPT ![1].running = TRUE]
           /\ UNCHANGED <<ops, plan, free, freed, issued, posted, stop>>
<1>1. /\ thread.at = "sweep"
      /\ \A c \in done : queue[c] # <<>>
      /\ queue' = [c \in Pool!Conns |->
            IF c \in done THEN Tail(queue[c])
            ELSE IF queue[c] = <<>> THEN <<>> ELSE [queue[c] EXCEPT ![1].running = TRUE]]
      /\ \/ thread' = [thread EXCEPT !.at = "get"]
         \/ (\E c \in Pool!Conns : queue'[c] # <<>>) /\ thread' = [thread EXCEPT !.at = "loop"]
      /\ UNCHANGED <<ops, plan, free, freed, issued, posted, stop>>
  BY DEF Pool!Sweep, Pool!Goto
<1>2. "get" \in Pool!Places /\ "loop" \in Pool!Places
  BY DEF Pool!Places
<1>3. thread' \in Progress /\ Carries
      /\ \/ thread'.at = "get"
         \/ thread'.at = "loop" /\ \E c \in Pool!Conns : queue'[c] # <<>>
  BY <1>1, <1>2, PlaceChanges
<1>4. ASSUME NEW c \in Pool!Conns
      PROVE  /\ \/ queue[c] # <<>> /\ queue'[c] = Tail(queue[c])
                \/ queue[c] = <<>> /\ queue'[c] = <<>>
                \/ queue[c] # <<>> /\ queue'[c] = [queue[c] EXCEPT ![1].running = TRUE]
             /\ queue'[c] \in Seq(Arguments)
  <2>1. queue[c] \in Seq(Arguments)
    BY DEF PoolShape
  <2>2. CASE queue[c] # <<>> /\ queue'[c] = Tail(queue[c])
    BY <2>1, <2>2
  <2>3. CASE queue[c] = <<>> /\ queue'[c] = <<>>
    BY <2>3
  <2>4. CASE queue[c] # <<>> /\ queue'[c] = [queue[c] EXCEPT ![1].running = TRUE]
    <3>1. [queue[c][1] EXCEPT !.running = TRUE] \in Arguments /\ 1 \in 1 .. Len(queue[c])
      <4>1. 1 \in 1 .. Len(queue[c])
        BY <2>1, <2>4
      <4>2. queue[c][1] \in Arguments
        BY <2>1, <4>1
      <4> QED BY <4>1, <4>2 DEF Arguments
    <3>2. queue'[c] = [queue[c] EXCEPT ![1] = [queue[c][1] EXCEPT !.running = TRUE]]
      BY <2>4
    <3>3. queue'[c] \in Seq(Arguments)
      BY <2>1, <3>1, <3>2, ExceptSeq
    <3> QED BY <2>4, <3>3
  <2> QED BY <1>1, <2>2, <2>3, <2>4
<1>5. queue' \in [Pool!Conns -> Seq(Arguments)]
  BY <1>1, <1>4
<1>6. PoolShape'
  BY <1>1, <1>3, <1>5 DEF PoolShape
<1> QED BY <1>1, <1>3, <1>4, <1>6

LEMMA TakeShape ==
    ASSUME PoolShape, Pool!Take
    PROVE  /\ PoolShape' /\ posted' = <<>>
           /\ thread'.at = "batch" /\ thread'.taken = posted
           /\ thread'.back = thread.back /\ thread'.old = thread.old
           /\ UNCHANGED <<ops, plan, free, freed, issued, queue, stop>>
<1>1. /\ thread' = [thread EXCEPT !.at = "batch", !.taken = posted] /\ posted' = <<>>
      /\ UNCHANGED <<ops, plan, free, freed, issued, queue, stop>>
  BY DEF Pool!Take
<1>2. /\ thread' \in Progress /\ thread'.at = "batch" /\ thread'.taken = posted
      /\ thread'.back = thread.back /\ thread'.old = thread.old
  BY <1>1 DEF PoolShape, Progress, Pool!Places
<1>3. posted' \in Seq(Pool!Index)
  BY <1>1
<1> QED BY <1>1, <1>2, <1>3 DEF PoolShape

\* The elements of a batch that are given back to r.
Returned(r, batch) == {i \in Pool!Range(batch) : Pool!RankOf(i) = r}

BatchOf(s) == SubSeq(s, 1, Pool!BatchSize(s))

RestOf(s) == SubSeq(s, Pool!BatchSize(s) + 1, Len(s))

LEMMA AppendBatchShape ==
    ASSUME PoolConfiguration, PoolShape, Pool!AppendBatch
    PROVE  /\ PoolShape' /\ thread.at = "batch" /\ thread'.at = "load"
           /\ thread.taken \in Seq(Pool!Index)
           /\ Pool!BatchSize(thread.taken) \in 0 .. Len(thread.taken)
           /\ BatchOf(thread.taken) \in Seq(Pool!Index)
           /\ thread'.taken = RestOf(thread.taken)
           /\ \A r \in Pool!Ranks : thread'.back[r] = Returned(r, BatchOf(thread.taken))
           /\ queue' = Pool!FoldLeft(Pool!ProxyAppend, queue, BatchOf(thread.taken))
           /\ ops' = [i \in Pool!Index |->
                         IF i \in Pool!Range(BatchOf(thread.taken)) THEN Pool!NoOp ELSE ops[i]]
           /\ UNCHANGED <<plan, free, freed, issued, posted, stop>>
<1> DEFINE batch == BatchOf(thread.taken)
           back == [r \in Pool!Ranks |-> Returned(r, batch)]
<1>1. /\ thread.at = "batch"
      /\ queue' = Pool!FoldLeft(Pool!ProxyAppend, queue, batch)
      /\ ops' = [i \in Pool!Index |-> IF i \in Pool!Range(batch) THEN Pool!NoOp ELSE ops[i]]
      /\ thread' = [thread EXCEPT !.at = "load", !.taken = RestOf(thread.taken), !.back = back]
      /\ UNCHANGED <<plan, free, freed, issued, posted, stop>>
  BY DEF Pool!AppendBatch, BatchOf, RestOf, Returned
<1>2. thread.taken \in Seq(Pool!Index)
  BY DEF PoolShape, Progress
<1>3. Pool!BatchSize(thread.taken) \in 0 .. Len(thread.taken)
  BY <1>2, BatchBeginning
<1>4. batch \in Seq(Pool!Index) /\ RestOf(thread.taken) \in Seq(Pool!Index)
  BY <1>2, <1>3, ChainCut DEF BatchOf, RestOf
<1> HIDE DEF batch
<1>5. Pool!Range(batch) \subseteq Pool!Index
  BY <1>4, ChainRange
<1>6. back \in [Pool!Ranks -> SUBSET Pool!Index] /\ \A r \in Pool!Ranks : back[r] = Returned(r, batch)
  BY <1>5 DEF Returned
<1> HIDE DEF back
<1>7. /\ thread' \in Progress /\ thread'.at = "load" /\ thread'.taken = RestOf(thread.taken)
      /\ thread'.back = back
  BY <1>1, <1>4, <1>6 DEF PoolShape, Progress, Pool!Places
<1>8. queue' \in [Pool!Conns -> Seq(Arguments)]
  BY <1>1, <1>4, FoldShape
<1>9. ops' \in [Pool!Index -> PoolOps]
  <2>1. Pool!NoOp \in PoolOps
    BY DEF Pool!NoOp, PoolOps
  <2> QED BY <1>1, <2>1 DEF PoolShape
<1>10. PoolShape'
  BY <1>1, <1>7, <1>8, <1>9 DEF PoolShape
<1> QED BY <1>1, <1>2, <1>3, <1>4, <1>6, <1>7, <1>10 DEF batch

\* The rank that is next to be given elements back.
Next_back == Pool!Min(Pool!Returning)

LEMMA NextBack ==
    ASSUME PoolConfiguration, Pool!Returning # {}
    PROVE  Next_back \in Pool!Ranks /\ Next_back \in Pool!Returning
<1>1. Pool!Returning \subseteq Pool!Ranks
  BY DEF Pool!Returning
<1>2. Pool!Ranks \subseteq Nat
  BY DEF Pool!Ranks, PoolConfiguration
<1>3. Pool!Returning \subseteq Nat
  BY <1>1, <1>2
<1> QED BY <1>1, <1>3, Least DEF Next_back

LEMMA LoadFreedShape ==
    ASSUME PoolConfiguration, PoolShape, Pool!LoadFreed
    PROVE  /\ PoolShape' /\ thread.at = "load"
           /\ thread'.taken = thread.taken /\ thread'.back = thread.back
           /\ \/ Pool!Returning = {} /\ thread'.at = "loop"
              \/ Pool!Returning # {} /\ thread'.at = "swap"
           /\ UNCHANGED <<ops, plan, free, freed, issued, posted, queue, stop>>
<1>1. /\ thread.at = "load"
      /\ thread' = IF Pool!Returning = {} THEN [thread EXCEPT !.at = "loop"]
                   ELSE [thread EXCEPT !.at = "swap", !.old = freed[Next_back]]
      /\ UNCHANGED <<ops, plan, free, freed, issued, posted, queue, stop>>
  BY DEF Pool!LoadFreed, Next_back
<1>2. CASE Pool!Returning = {}
  <2>1. "loop" \in Pool!Places
    BY DEF Pool!Places
  <2>2. thread' \in Progress /\ thread'.at = "loop" /\ Carries
    BY <1>1, <1>2, <2>1, PlaceChanges
  <2> QED BY <1>1, <1>2, <2>2 DEF PoolShape, Carries
<1>3. CASE Pool!Returning # {}
  <2>1. freed[Next_back] \in SUBSET Pool!Index
    BY <1>3, NextBack DEF PoolShape
  <2>2. thread' = [thread EXCEPT !.at = "swap", !.old = freed[Next_back]]
    BY <1>1, <1>3
  <2>3. /\ thread' \in Progress /\ thread'.at = "swap"
        /\ thread'.taken = thread.taken /\ thread'.back = thread.back
    BY <2>1, <2>2 DEF PoolShape, Progress, Pool!Places
  <2> QED BY <1>1, <1>3, <2>3 DEF PoolShape
<1> QED BY <1>2, <1>3

LEMMA SwapFreedShape ==
    ASSUME PoolConfiguration, PoolShape, Pool!SwapFreed, Pool!Returning # {}
    PROVE  /\ PoolShape' /\ thread.at = "swap" /\ thread'.taken = thread.taken
           /\ Next_back \in Pool!Ranks /\ Next_back \in Pool!Returning
           /\ \/ /\ freed' = [freed EXCEPT ![Next_back] = freed[Next_back] \cup thread.back[Next_back]]
                 /\ thread'.at = "load"
                 /\ thread'.back = [thread.back EXCEPT ![Next_back] = {}]
              \/ freed' = freed /\ thread'.at = "swap" /\ thread'.back = thread.back
           /\ UNCHANGED <<ops, plan, free, issued, posted, queue, stop>>
<1> DEFINE r == Next_back
<1>1. r \in Pool!Ranks /\ r \in Pool!Returning
  BY NextBack
<1>2. /\ thread.at = "swap"
      /\ \/ /\ freed' = [freed EXCEPT ![r] = freed[r] \cup thread.back[r]]
            /\ thread' = [thread EXCEPT !.at = "load", !.back[r] = {}, !.old = {}]
         \/ freed' = freed /\ thread' = [thread EXCEPT !.old = freed[r]]
      /\ UNCHANGED <<ops, plan, free, issued, posted, queue, stop>>
  BY DEF Pool!SwapFreed, Next_back
<1> HIDE DEF r
<1>3. CASE /\ freed' = [freed EXCEPT ![r] = freed[r] \cup thread.back[r]]
           /\ thread' = [thread EXCEPT !.at = "load", !.back[r] = {}, !.old = {}]
  <2>1. freed' \in [Pool!Ranks -> SUBSET Pool!Index]
    BY <1>1, <1>3 DEF PoolShape, Progress
  <2>2. [thread.back EXCEPT ![r] = {}] \in [Pool!Ranks -> SUBSET Pool!Index]
    BY DEF PoolShape, Progress
  <2>3. thread' = [thread EXCEPT !.at = "load", !.back = [thread.back EXCEPT ![r] = {}], !.old = {}]
    BY <1>3
  <2>4. /\ thread' \in Progress /\ thread'.at = "load" /\ thread'.taken = thread.taken
        /\ thread'.back = [thread.back EXCEPT ![r] = {}]
    BY <2>2, <2>3 DEF PoolShape, Progress, Pool!Places
  <2>5. PoolShape'
    BY <1>2, <2>1, <2>4 DEF PoolShape
  <2> QED BY <1>1, <1>2, <1>3, <2>4, <2>5 DEF r
<1>4. CASE freed' = freed /\ thread' = [thread EXCEPT !.old = freed[r]]
  <2>1. freed[r] \in SUBSET Pool!Index
    BY <1>1 DEF PoolShape
  <2>2. /\ thread' \in Progress /\ thread'.at = thread.at /\ thread'.taken = thread.taken
        /\ thread'.back = thread.back
    BY <1>4, <2>1 DEF PoolShape, Progress
  <2>3. PoolShape'
    BY <1>2, <1>4, <2>2 DEF PoolShape
  <2> QED BY <1>1, <1>2, <1>4, <2>2, <2>3 DEF r
<1> QED BY <1>2, <1>3, <1>4

\* The thread only goes on.
LEMMA GotoShape ==
    ASSUME PoolShape, NEW x \in Pool!Places, Pool!Goto(x),
           UNCHANGED <<ops, plan, free, freed, issued, posted, queue, stop>>
    PROVE  PoolShape' /\ thread'.at = x /\ Carries
<1>1. thread' \in Progress /\ thread'.at = x /\ Carries
  BY PlaceChanges DEF Pool!Goto
<1> QED BY <1>1 DEF PoolShape

-----------------------------------------------------------------------------
Mine(r) == {i \in Pool!Index : Pool!RankOf(i) = r}

\* i is in exactly one of six sets.
InOne(i, a, b, c, d, e, f) ==
    /\ i \in a \cup b \cup c \cup d \cup e \cup f
    /\ i \in a => i \notin b \cup c \cup d \cup e \cup f
    /\ i \in b => i \notin c \cup d \cup e \cup f
    /\ i \in c => i \notin d \cup e \cup f
    /\ i \in d => i \notin e \cup f
    /\ i \in e => i \notin f

\* What ElementsConserved says, with what belongs to which rank and without an
\* element twice in a chain.
Conserved ==
    /\ \A r \in Pool!Ranks : \A i \in Mine(r) :
          InOne(i, free[r], freed[r], Pool!Range(plan[r]), Pool!Range(posted),
                Pool!Range(thread.taken), thread.back[r])
    /\ \A r \in Pool!Ranks :
          /\ free[r] \subseteq Mine(r) /\ freed[r] \subseteq Mine(r)
          /\ Pool!Range(plan[r]) \subseteq Mine(r) /\ thread.back[r] \subseteq Mine(r)
          /\ Distinct(plan[r])
    /\ Distinct(posted) /\ Distinct(thread.taken)

\* What the thread has in its hands at each place.
Stages ==
    /\ thread.at \in {"wait", "woken"} => thread.taken = <<>>
    /\ thread.at \notin {"load", "swap"} => Pool!Returning = {}
    /\ thread.at = "swap" => Pool!Returning # {}

ElementsInv == PoolShape /\ Stages /\ Conserved

LEMMA Unmoved ==
    ASSUME Conserved, UNCHANGED <<free, freed, plan, posted>>,
           thread'.taken = thread.taken, thread'.back = thread.back
    PROVE  Conserved'
  BY DEF Conserved, InOne, Mine, Pool!Index, Pool!RankOf, Pool!Ranks

LEMMA ReturningKept ==
    ASSUME thread'.back = thread.back
    PROVE  Pool!Returning' = Pool!Returning
  BY DEF Pool!Returning, Pool!Ranks

LEMMA ElementsInit ==
    ASSUME Pool!Init
    PROVE  ElementsInv
<1>1. PoolShape
  <2>1. ops \in [Pool!Index -> PoolOps]
    BY DEF Pool!Init, PoolOps, Pool!NoOp
  <2>2. /\ plan \in [Pool!Ranks -> Seq(Pool!Index)] /\ posted \in Seq(Pool!Index)
        /\ queue \in [Pool!Conns -> Seq(Arguments)]
    BY DEF Pool!Init
  <2>3. /\ free \in [Pool!Ranks -> SUBSET Pool!Index]
        /\ freed \in [Pool!Ranks -> SUBSET Pool!Index]
        /\ issued \in [Pool!Ranks -> [n : Nat, count : Nat]] /\ stop \in BOOLEAN
    BY DEF Pool!Init
  <2>4. thread \in Progress
    <3>1. "sweep" \in Pool!Places /\ <<>> \in Seq(Pool!Index)
      BY DEF Pool!Places
    <3>2. [r \in Pool!Ranks |-> {}] \in [Pool!Ranks -> SUBSET Pool!Index]
      OBVIOUS
    <3> QED BY <3>1, <3>2 DEF Pool!Init, Progress
  <2> QED BY <2>1, <2>2, <2>3, <2>4 DEF PoolShape
<1>2. thread.taken = <<>> /\ posted = <<>> /\ thread.at = "sweep"
      /\ \A r \in Pool!Ranks : /\ thread.back[r] = {} /\ plan[r] = <<>> /\ free[r] = {}
                               /\ freed[r] = Mine(r)
  BY DEF Pool!Init, Mine
<1>3. Stages
  BY <1>2 DEF Stages, Pool!Returning
<1>4. Conserved
  BY <1>2, ChainEmpty DEF Conserved, InOne
<1> QED BY <1>1, <1>3, <1>4 DEF ElementsInv

\* A chain goes from a rank to what is posted.
LEMMA PostElements ==
    ASSUME ElementsInv, NEW r \in Pool!Ranks, NEW chain \in Seq(Pool!Index),
           NEW rest \in Seq(Pool!Index), Pool!Post(chain),
           Pool!Range(plan[r]) = Pool!Range(chain) \cup Pool!Range(rest),
           Pool!Range(chain) \cap Pool!Range(rest) = {},
           Distinct(chain), Distinct(rest),
           plan' = [plan EXCEPT ![r] = rest], UNCHANGED <<free, freed>>
    PROVE  Conserved' /\ Stages'
<1>1. /\ posted' = posted \o chain /\ thread'.taken = thread.taken /\ thread'.back = thread.back
      /\ thread'.at = thread.at \/ (thread.at = "wait" /\ thread'.at = "woken")
  BY PostShape DEF ElementsInv, Carries
<1>2. Stages'
  BY <1>1, ReturningKept DEF ElementsInv, Stages
<1>3. posted \in Seq(Pool!Index) /\ plan \in [Pool!Ranks -> Seq(Pool!Index)]
  BY DEF ElementsInv, PoolShape
<1>4. Pool!Range(chain) \cap Pool!Range(posted) = {}
  <2>1. \A i \in Pool!Range(chain) : i \in Mine(r) /\ i \in Pool!Range(plan[r])
    BY DEF ElementsInv, Conserved
  <2> QED BY <2>1 DEF ElementsInv, Conserved, InOne
<1>5. /\ Pool!Range(posted') = Pool!Range(posted) \cup Pool!Range(chain)
      /\ Distinct(posted')
  BY <1>1, <1>3, <1>4, ChainConcat DEF ElementsInv, Conserved
<1>6. plan'[r] = rest /\ \A q \in Pool!Ranks : q # r => plan'[q] = plan[q]
  BY <1>3
<1>7. ASSUME NEW q \in Pool!Ranks, NEW i \in Mine(q)
      PROVE  InOne(i, free[q], freed[q], Pool!Range(plan'[q]), Pool!Range(posted'),
                   Pool!Range(thread.taken), thread.back[q])
  <2>1. InOne(i, free[q], freed[q], Pool!Range(plan[q]), Pool!Range(posted),
              Pool!Range(thread.taken), thread.back[q])
    BY DEF ElementsInv, Conserved
  <2>2. CASE q = r
    BY <1>5, <1>6, <2>1, <2>2 DEF InOne
  <2>3. CASE q # r
    <3>1. i \notin Pool!Range(chain)
      BY <2>3 DEF ElementsInv, Conserved, Mine
    <3> QED BY <1>5, <1>6, <2>1, <2>3, <3>1 DEF InOne
  <2> QED BY <2>2, <2>3
<1>8. ASSUME NEW q \in Pool!Ranks
      PROVE  Pool!Range(plan'[q]) \subseteq Mine(q) /\ Distinct(plan'[q])
  BY <1>6 DEF ElementsInv, Conserved
<1>9. Conserved'
  <2>1. \A q : Mine(q)' = Mine(q)
    BY DEF Mine, Pool!Index, Pool!RankOf
  <2>2. Pool!Ranks' = Pool!Ranks
    BY DEF Pool!Ranks
  <2> QED BY <1>1, <1>5, <1>7, <1>8, <2>1, <2>2 DEF ElementsInv, Conserved
<1> QED BY <1>2, <1>9

\* A rank takes an element into its chain.
LEMMA AppendOpElements ==
    ASSUME ElementsInv, NEW r \in Pool!Ranks, NEW i \in List(r),
           plan' = [plan EXCEPT ![r] = Append(plan[r], i)],
           free' = [free EXCEPT ![r] = List(r) \ {i}],
           freed' = IF free[r] = {} THEN [freed EXCEPT ![r] = {}] ELSE freed,
           UNCHANGED <<posted, thread>>
    PROVE  Conserved' /\ Stages'
<1>1. Stages'
  BY ReturningKept DEF ElementsInv, Stages
<1>2. /\ plan[r] \in Seq(Pool!Index) /\ plan \in [Pool!Ranks -> Seq(Pool!Index)]
      /\ free \in [Pool!Ranks -> SUBSET Pool!Index] /\ freed \in [Pool!Ranks -> SUBSET Pool!Index]
  BY DEF ElementsInv, PoolShape
<1>3. i \in Mine(r) /\ i \in Pool!Index /\ (i \in free[r] \/ (free[r] = {} /\ i \in freed[r]))
  BY DEF ElementsInv, Conserved, List, Mine
<1>4. InOne(i, free[r], freed[r], Pool!Range(plan[r]), Pool!Range(posted),
            Pool!Range(thread.taken), thread.back[r])
  BY <1>3 DEF ElementsInv, Conserved
<1>5. i \notin Pool!Range(plan[r])
  BY <1>3, <1>4 DEF InOne
<1>6. /\ Pool!Range(plan'[r]) = Pool!Range(plan[r]) \cup {i} /\ Distinct(plan'[r])
      /\ free'[r] = List(r) \ {i} /\ freed'[r] = IF free[r] = {} THEN {} ELSE freed[r]
  <2>1. Distinct(plan[r])
    BY DEF ElementsInv, Conserved
  <2> QED BY <1>2, <1>3, <1>5, <2>1, ChainAppend
<1>7. \A q \in Pool!Ranks : q # r => plan'[q] = plan[q] /\ free'[q] = free[q] /\ freed'[q] = freed[q]
  BY <1>2
<1>8. ASSUME NEW q \in Pool!Ranks, NEW j \in Mine(q)
      PROVE  InOne(j, free'[q], freed'[q], Pool!Range(plan'[q]), Pool!Range(posted),
                   Pool!Range(thread.taken), thread.back[q])
  <2>1. InOne(j, free[q], freed[q], Pool!Range(plan[q]), Pool!Range(posted),
              Pool!Range(thread.taken), thread.back[q])
    BY DEF ElementsInv, Conserved
  <2>2. CASE q = r
    <3>1. CASE free[r] = {}
      BY <1>3, <1>4, <1>6, <2>1, <2>2, <3>1 DEF InOne, List
    <3>2. CASE free[r] # {}
      BY <1>3, <1>4, <1>6, <2>1, <2>2, <3>2 DEF InOne, List
    <3> QED BY <3>1, <3>2
  <2>3. CASE q # r
    BY <1>7, <2>1, <2>3
  <2> QED BY <2>2, <2>3
<1>9. ASSUME NEW q \in Pool!Ranks
      PROVE  /\ free'[q] \subseteq Mine(q) /\ freed'[q] \subseteq Mine(q)
             /\ Pool!Range(plan'[q]) \subseteq Mine(q) /\ thread.back[q] \subseteq Mine(q)
             /\ Distinct(plan'[q])
  <2>1. CASE q = r
    BY <1>3, <1>6, <2>1 DEF ElementsInv, Conserved, List
  <2>2. CASE q # r
    BY <1>7, <2>2 DEF ElementsInv, Conserved
  <2> QED BY <2>1, <2>2
<1>10. Conserved'
  <2>1. \A q : Mine(q)' = Mine(q)
    BY DEF Mine, Pool!Index, Pool!RankOf
  <2>2. Pool!Ranks' = Pool!Ranks
    BY DEF Pool!Ranks
  <2> QED BY <1>8, <1>9, <2>1, <2>2 DEF ElementsInv, Conserved
<1> QED BY <1>1, <1>10

\* All that is posted is taken.
LEMMA TakeElements ==
    ASSUME ElementsInv, thread.taken = <<>>, thread.at \notin {"load", "swap"},
           posted' = <<>>, thread'.at = "batch", thread'.taken = posted,
           thread'.back = thread.back, UNCHANGED <<free, freed, plan>>
    PROVE  Conserved' /\ Stages'
<1>1. Stages'
  BY ReturningKept DEF ElementsInv, Stages
<1>2. Distinct(posted') /\ Distinct(thread'.taken)
  BY ChainEmpty DEF ElementsInv, Conserved
<1>3. ASSUME NEW q \in Pool!Ranks, NEW j \in Mine(q)
      PROVE  InOne(j, free[q], freed[q], Pool!Range(plan[q]), Pool!Range(posted'),
                   Pool!Range(thread'.taken), thread.back[q])
  <2>1. InOne(j, free[q], freed[q], Pool!Range(plan[q]), Pool!Range(posted),
              Pool!Range(thread.taken), thread.back[q])
    BY DEF ElementsInv, Conserved
  <2>2. Pool!Range(posted') = {} /\ Pool!Range(thread.taken) = {}
    BY ChainEmpty
  <2> QED BY <2>1, <2>2 DEF InOne
<1>4. Conserved'
  <2>1. \A q : Mine(q)' = Mine(q)
    BY DEF Mine, Pool!Index, Pool!RankOf
  <2>2. Pool!Ranks' = Pool!Ranks
    BY DEF Pool!Ranks
  <2> QED BY <1>2, <1>3, <2>1, <2>2 DEF ElementsInv, Conserved
<1> QED BY <1>1, <1>4

\* The elements of a batch are on their way back.
LEMMA BatchElements ==
    ASSUME PoolConfiguration, ElementsInv, Pool!AppendBatch
    PROVE  Conserved' /\ Stages'
<1> DEFINE batch == BatchOf(thread.taken)
           rest == RestOf(thread.taken)
<1>1. /\ thread.at = "batch" /\ thread'.at = "load" /\ thread'.taken = rest
      /\ thread.taken \in Seq(Pool!Index)
      /\ Pool!BatchSize(thread.taken) \in 0 .. Len(thread.taken)
      /\ \A r \in Pool!Ranks : thread'.back[r] = Returned(r, batch)
      /\ UNCHANGED <<plan, free, freed, issued, posted, stop>>
  BY AppendBatchShape DEF ElementsInv
<1>2. Stages'
  BY <1>1 DEF Stages
<1>3. /\ Pool!Range(thread.taken) = Pool!Range(batch) \cup Pool!Range(rest)
      /\ Distinct(rest) /\ Pool!Range(batch) \cap Pool!Range(rest) = {}
      /\ Pool!Range(batch) \subseteq Pool!Index
  BY <1>1, ChainCut, ChainRange DEF BatchOf, RestOf, ElementsInv, Conserved
<1>4. \A r \in Pool!Ranks : thread.back[r] = {}
  BY <1>1 DEF ElementsInv, Stages, Pool!Returning
<1> HIDE DEF batch, rest
<1>5. ASSUME NEW q \in Pool!Ranks, NEW j \in Mine(q)
      PROVE  InOne(j, free[q], freed[q], Pool!Range(plan[q]), Pool!Range(posted),
                   Pool!Range(rest), thread'.back[q])
  <2>1. InOne(j, free[q], freed[q], Pool!Range(plan[q]), Pool!Range(posted),
              Pool!Range(thread.taken), thread.back[q])
    BY DEF ElementsInv, Conserved
  <2>2. thread'.back[q] = Returned(q, batch) /\ thread.back[q] = {}
    BY <1>1, <1>4
  <2>3. j \in Returned(q, batch) <=> j \in Pool!Range(batch)
    BY DEF Returned, Mine
  <2> QED BY <1>3, <2>1, <2>2, <2>3 DEF InOne
<1>6. \A q \in Pool!Ranks : thread'.back[q] \subseteq Mine(q)
  BY <1>1, <1>3 DEF Returned, Mine
<1>7. Conserved'
  <2>1. \A q : Mine(q)' = Mine(q)
    BY DEF Mine, Pool!Index, Pool!RankOf
  <2>2. Pool!Ranks' = Pool!Ranks
    BY DEF Pool!Ranks
  <2> QED BY <1>1, <1>3, <1>5, <1>6, <2>1, <2>2 DEF ElementsInv, Conserved
<1> QED BY <1>2, <1>7

\* The elements on their way back to a rank join those given back before.
LEMMA SwapElements ==
    ASSUME PoolConfiguration, ElementsInv, Pool!SwapFreed
    PROVE  Conserved' /\ Stages'
<1> DEFINE r == Next_back
<1>1. thread.at = "swap" /\ Pool!Returning # {}
  BY DEF Pool!SwapFreed, ElementsInv, Stages
<1>2. /\ thread'.taken = thread.taken /\ r \in Pool!Ranks
      /\ \/ /\ freed' = [freed EXCEPT ![r] = freed[r] \cup thread.back[r]]
            /\ thread'.at = "load"
            /\ thread'.back = [thread.back EXCEPT ![r] = {}]
         \/ freed' = freed /\ thread'.at = "swap" /\ thread'.back = thread.back
      /\ UNCHANGED <<ops, plan, free, issued, posted, queue, stop>>
  BY <1>1, SwapFreedShape DEF ElementsInv
<1>3. /\ freed \in [Pool!Ranks -> SUBSET Pool!Index]
      /\ thread.back \in [Pool!Ranks -> SUBSET Pool!Index]
  BY DEF ElementsInv, PoolShape, Progress
<1> HIDE DEF r
<1>4. CASE /\ freed' = [freed EXCEPT ![r] = freed[r] \cup thread.back[r]]
           /\ thread'.at = "load" /\ thread'.back = [thread.back EXCEPT ![r] = {}]
  <2>1. Stages'
    BY <1>4 DEF Stages
  <2>2. /\ freed'[r] = freed[r] \cup thread.back[r] /\ thread'.back[r] = {}
        /\ \A q \in Pool!Ranks : q # r => freed'[q] = freed[q] /\ thread'.back[q] = thread.back[q]
    BY <1>2, <1>3, <1>4
  <2>3. ASSUME NEW q \in Pool!Ranks, NEW j \in Mine(q)
        PROVE  InOne(j, free[q], freed'[q], Pool!Range(plan[q]), Pool!Range(posted),
                     Pool!Range(thread.taken), thread'.back[q])
    <3>1. InOne(j, free[q], freed[q], Pool!Range(plan[q]), Pool!Range(posted),
                Pool!Range(thread.taken), thread.back[q])
      BY DEF ElementsInv, Conserved
    <3>2. CASE q = r
      BY <2>2, <3>1, <3>2 DEF InOne
    <3>3. CASE q # r
      BY <2>2, <3>1, <3>3
    <3> QED BY <3>2, <3>3
  <2>4. \A q \in Pool!Ranks : freed'[q] \subseteq Mine(q) /\ thread'.back[q] \subseteq Mine(q)
    BY <1>2, <2>2 DEF ElementsInv, Conserved
  <2>5. \A q : Mine(q)' = Mine(q)
    BY DEF Mine, Pool!Index, Pool!RankOf
  <2>6. Pool!Ranks' = Pool!Ranks
    BY DEF Pool!Ranks
  <2>7. Conserved'
    BY <1>2, <2>3, <2>4, <2>5, <2>6 DEF ElementsInv, Conserved
  <2> QED BY <2>1, <2>7
<1>5. CASE freed' = freed /\ thread'.at = "swap" /\ thread'.back = thread.back
  BY <1>1, <1>2, <1>5, Unmoved, ReturningKept DEF ElementsInv, Stages
<1> QED BY <1>2, <1>4, <1>5

\* A step that moves no element: the thread goes on, or nothing happens.
Goes ==
    /\ UNCHANGED <<ops, plan, free, freed, issued, posted, queue, stop>>
    /\ thread'.taken = thread.taken /\ thread'.back = thread.back
    /\ \/ thread'.at = thread.at
       \/ thread.at = "get" /\ thread'.at = "batch" /\ thread.taken # <<>>
       \/ thread.at = "get" /\ thread'.at = "wait" /\ thread.taken = <<>>
       \/ thread.at = "get" /\ thread'.at = "loop" /\ ~Pool!Idle
       \/ thread.at = "load" /\ thread'.at = "loop" /\ Pool!Returning = {}
       \/ thread.at = "load" /\ thread'.at = "swap" /\ Pool!Returning # {}
       \/ thread.at = "loop" /\ thread'.at = "gone" /\ stop /\ Pool!Idle
       \/ thread.at = "loop" /\ thread'.at = "sweep"
       \/ thread.at \in {"sweep", "loop"} /\ thread'.at = "broken"

\* A step that takes what is posted.
Takes ==
    /\ Pool!Take /\ thread.taken = <<>>
    /\ \/ thread.at = "get" /\ (posted # <<>> \/ stop)
       \/ thread.at = "woken"
       \/ thread.at = "wait"

LEMMA ThreadGoes ==
    ASSUME PoolConfiguration, ElementsInv,
           \/ Pool!GetPostedOps \/ Pool!Wake \/ Pool!SpuriousWake \/ Pool!LoadFreed
           \/ Pool!Loop \/ Pool!TryLockFails \/ Pool!Break \/ UNCHANGED Pool!vars
    PROVE  PoolShape' /\ (Goes \/ Takes)
<1>1. "batch" \in Pool!Places /\ "wait" \in Pool!Places /\ "loop" \in Pool!Places
      /\ "gone" \in Pool!Places /\ "sweep" \in Pool!Places /\ "broken" \in Pool!Places
  BY DEF Pool!Places
<1>2. CASE Pool!GetPostedOps
  <2>1. CASE thread.taken = <<>> /\ (posted # <<>> \/ (Pool!Idle /\ stop))
    <3>1. Takes
      BY <1>2, <2>1 DEF Pool!GetPostedOps, Takes
    <3> QED BY <3>1, TakeShape DEF Takes, ElementsInv
  <2>2. CASE ~(thread.taken = <<>> /\ (posted # <<>> \/ (Pool!Idle /\ stop)))
    <3> DEFINE x == IF thread.taken # <<>> THEN "batch" ELSE IF Pool!Idle THEN "wait" ELSE "loop"
    <3>1. /\ Pool!Goto(x) /\ thread.at = "get"
          /\ UNCHANGED <<ops, plan, free, freed, issued, posted, queue, stop>>
      BY <1>2, <2>2 DEF Pool!GetPostedOps
    <3>2. x \in Pool!Places
      BY <1>1
    <3>3. \/ x = "batch" /\ thread.taken # <<>>
          \/ x = "wait" /\ thread.taken = <<>>
          \/ x = "loop" /\ ~Pool!Idle
      OBVIOUS
    <3> HIDE DEF x
    <3>4. PoolShape' /\ thread'.at = x /\ Carries
      BY <3>1, <3>2, GotoShape DEF ElementsInv
    <3> QED BY <3>1, <3>3, <3>4 DEF Goes, Carries
  <2> QED BY <2>1, <2>2
<1>3. CASE Pool!Wake \/ Pool!SpuriousWake
  <2>1. Takes
    BY <1>3 DEF Pool!Wake, Pool!SpuriousWake, Takes, ElementsInv, Stages
  <2> QED BY <2>1, TakeShape DEF Takes, ElementsInv
<1>4. CASE Pool!LoadFreed
  BY <1>4, LoadFreedShape DEF Goes, ElementsInv
<1>5. CASE Pool!Loop
  <2> DEFINE x == IF Pool!MayExit THEN "gone" ELSE "sweep"
  <2>1. /\ Pool!Goto(x) /\ thread.at = "loop"
        /\ UNCHANGED <<ops, plan, free, freed, issued, posted, queue, stop>>
    BY <1>5 DEF Pool!Loop
  <2>2. x \in Pool!Places /\ ((x = "gone" /\ stop /\ Pool!Idle) \/ x = "sweep")
    BY <1>1 DEF Pool!MayExit
  <2> HIDE DEF x
  <2>3. PoolShape' /\ thread'.at = x /\ Carries
    BY <2>1, <2>2, GotoShape DEF ElementsInv
  <2> QED BY <2>1, <2>2, <2>3 DEF Goes, Carries
<1>6. CASE Pool!TryLockFails
  <2>1. /\ Pool!Goto("loop") /\ thread.at = "get" /\ ~Pool!Idle
        /\ UNCHANGED <<ops, plan, free, freed, issued, posted, queue, stop>>
    BY <1>6 DEF Pool!TryLockFails
  <2>2. PoolShape' /\ thread'.at = "loop" /\ Carries
    BY <1>1, <2>1, GotoShape DEF ElementsInv
  <2> QED BY <2>1, <2>2 DEF Goes, Carries
<1>7. CASE Pool!Break
  <2>1. /\ Pool!Goto("broken") /\ thread.at \in {"sweep", "loop"}
        /\ UNCHANGED <<ops, plan, free, freed, issued, posted, queue, stop>>
    BY <1>7 DEF Pool!Break
  <2>2. PoolShape' /\ thread'.at = "broken" /\ Carries
    BY <1>1, <2>1, GotoShape DEF ElementsInv
  <2> QED BY <2>1, <2>2 DEF Goes, Carries
<1>8. CASE UNCHANGED Pool!vars
  BY <1>8 DEF Pool!vars, Goes, ElementsInv, PoolShape
<1> QED BY <1>2, <1>3, <1>4, <1>5, <1>6, <1>7, <1>8

\* Every step of the pool is of one of eight kinds.
LEMMA PoolCases ==
    ASSUME PoolConfiguration, ElementsInv, [Pool!Next]_Pool!vars
    PROVE  \/ \E r \in Pool!Ranks, c \in Pool!Conns :
                 \E k \in issued[r].count .. issued[r].count + 1 : Pool!AppendOp(r, c, k)
           \/ \E r \in Pool!Ranks : Pool!PostFull(r)
           \/ \E r \in Pool!Ranks : Pool!Start(r)
           \/ Pool!Stop
           \/ \E done \in SUBSET Pool!Conns : Pool!Sweep(done)
           \/ Pool!AppendBatch
           \/ Pool!SwapFreed
           \/ PoolShape' /\ (Goes \/ Takes)
  BY ThreadGoes DEF Pool!Next, Pool!RankStep, Pool!ThreadStep

LEMMA ElementsStep ==
    ASSUME PoolConfiguration, ElementsInv, [Pool!Next]_Pool!vars
    PROVE  ElementsInv'
<1>1. ASSUME NEW r \in Pool!Ranks, NEW c \in Pool!Conns,
             NEW k \in issued[r].count .. issued[r].count + 1, Pool!AppendOp(r, c, k)
      PROVE  ElementsInv'
  <2>1. PoolShape
    BY DEF ElementsInv
  <2>2. /\ PoolShape'
        /\ \E i \in List(r) :
              /\ plan' = [plan EXCEPT ![r] = Append(plan[r], i)]
              /\ free' = [free EXCEPT ![r] = List(r) \ {i}]
              /\ freed' = IF free[r] = {} THEN [freed EXCEPT ![r] = {}] ELSE freed
              /\ UNCHANGED <<posted, thread>>
    BY <1>1, <2>1, AppendOpShape
  <2>3. Conserved' /\ Stages'
    BY <2>2, AppendOpElements
  <2> QED BY <2>2, <2>3 DEF ElementsInv
<1>2. ASSUME NEW r \in Pool!Ranks, Pool!PostFull(r)
      PROVE  ElementsInv'
  <2> DEFINE n == Pool!ToSend(plan[r])
             chain == SubSeq(plan[r], 1, n)
             rest == SubSeq(plan[r], n + 1, Len(plan[r]))
  <2>1. /\ PoolShape' /\ plan[r] # <<>> /\ plan[r] \in Seq(Pool!Index)
        /\ plan' = [plan EXCEPT ![r] = rest] /\ Pool!Post(chain) /\ UNCHANGED <<free, freed>>
    BY <1>2, PostFullShape DEF ElementsInv, PoolShape
  <2>2. n \in 0 .. Len(plan[r])
    <3>1. n \in 0 .. Len(plan[r]) - 1
      BY <2>1, SendsBeginning
    <3> QED BY <2>1, <3>1
  <2>3. /\ chain \in Seq(Pool!Index) /\ rest \in Seq(Pool!Index)
        /\ Pool!Range(plan[r]) = Pool!Range(chain) \cup Pool!Range(rest)
        /\ Distinct(chain) /\ Distinct(rest) /\ Pool!Range(chain) \cap Pool!Range(rest) = {}
    BY <2>1, <2>2, ChainCut DEF ElementsInv, Conserved
  <2> HIDE DEF chain, rest
  <2>4. Conserved' /\ Stages'
    BY <2>1, <2>3, PostElements
  <2> QED BY <2>1, <2>4 DEF ElementsInv
<1>3. ASSUME NEW r \in Pool!Ranks, Pool!Start(r)
      PROVE  ElementsInv'
  <2>1. /\ PoolShape' /\ plan[r] \in Seq(Pool!Index) /\ Pool!Post(plan[r])
        /\ plan' = [plan EXCEPT ![r] = <<>>] /\ UNCHANGED <<free, freed>>
    BY <1>3, StartShape DEF ElementsInv
  <2>2. <<>> \in Seq(Pool!Index) /\ Pool!Range(<<>>) = {} /\ Distinct(<<>>) /\ Distinct(plan[r])
    BY ChainEmpty DEF ElementsInv, Conserved
  <2>3. Conserved' /\ Stages'
    BY <2>1, <2>2, PostElements
  <2> QED BY <2>1, <2>3 DEF ElementsInv
<1>4. CASE Pool!Stop
  <2>1. /\ PoolShape' /\ UNCHANGED <<free, freed, plan, posted>> /\ Carries
        /\ thread'.at = IF thread.at = "wait" THEN "woken" ELSE thread.at
    BY <1>4, StopShape, NotifiedShape DEF ElementsInv, Pool!Stop
  <2> QED BY <2>1, Unmoved, ReturningKept DEF ElementsInv, Stages, Carries
<1>5. ASSUME NEW done \in SUBSET Pool!Conns, Pool!Sweep(done)
      PROVE  ElementsInv'
  <2>1. /\ PoolShape' /\ UNCHANGED <<free, freed, plan, posted>> /\ Carries
        /\ thread.at = "sweep" /\ thread'.at \in {"get", "loop"}
    BY <1>5, SweepShape DEF ElementsInv
  <2> QED BY <2>1, Unmoved, ReturningKept DEF ElementsInv, Stages, Carries
<1>6. CASE Pool!AppendBatch
  BY <1>6, AppendBatchShape, BatchElements DEF ElementsInv
<1>7. CASE Pool!SwapFreed
  <2>1. Pool!Returning # {}
    BY <1>7 DEF Pool!SwapFreed, ElementsInv, Stages
  <2> QED BY <1>7, <2>1, SwapFreedShape, SwapElements DEF ElementsInv
<1>8. CASE PoolShape' /\ Goes
  <2>1. Conserved'
    BY <1>8, Unmoved DEF ElementsInv, Goes
  <2>2. Stages'
    BY <1>8, ReturningKept DEF ElementsInv, Stages, Goes
  <2> QED BY <1>8, <2>1, <2>2 DEF ElementsInv
<1>9. CASE PoolShape' /\ Takes
  <2>1. /\ thread.taken = <<>> /\ thread.at \notin {"load", "swap"}
        /\ posted' = <<>> /\ thread'.at = "batch" /\ thread'.taken = posted
        /\ thread'.back = thread.back /\ UNCHANGED <<free, freed, plan>>
    BY <1>9, TakeShape DEF Takes, ElementsInv
  <2> QED BY <1>9, <2>1, TakeElements DEF ElementsInv
<1> QED BY <1>1, <1>2, <1>3, <1>4, <1>5, <1>6, <1>7, <1>8, <1>9, PoolCases

LEMMA ElementsInvariant ==
    ASSUME PoolConfiguration
    PROVE  Pool!Spec => []ElementsInv
<1>1. Pool!Init => ElementsInv
  BY ElementsInit
<1>2. ElementsInv /\ [Pool!Next]_Pool!vars => ElementsInv'
  BY ElementsStep
<1> QED BY <1>1, <1>2, PTL DEF Pool!Spec

(* Operations, chains, lists and the arguments of the connections stay of  *)
(* the types the model gives them.                                         *)
THEOREM PoolTypes ==
    ASSUME PoolConfiguration
    PROVE  Pool!Spec => []Pool!TypeOK
<1>1. ElementsInv => Pool!TypeOK
  BY DEF ElementsInv, PoolShape, Pool!TypeOK, PoolOps, Arguments, Progress
<1> QED BY <1>1, ElementsInvariant, PTL

(* For any number of ranks, elements and operations, however chains are    *)
(* cut, posted, taken and handled in batches, and whenever a rank takes    *)
(* the list that the progress thread is extending: no element is lost, and *)
(* none is in two places.                                                  *)
THEOREM ElementsAreConserved ==
    ASSUME PoolConfiguration
    PROVE  Pool!Spec => []Pool!ElementsConserved
<1>1. ElementsInv => Pool!ElementsConserved
  <2> SUFFICES ASSUME ElementsInv, NEW r \in Pool!Ranks,
                      NEW i \in {j \in Pool!Index : Pool!RankOf(j) = r}
               PROVE  Pool!Cardinality({p \in 1 .. 6 :
                          i \in CASE p = 1 -> free[r] [] p = 2 -> freed[r]
                                  [] p = 3 -> Pool!Range(plan[r]) [] p = 4 -> Pool!Range(posted)
                                  [] p = 5 -> Pool!Range(thread.taken)
                                  [] p = 6 -> thread.back[r]}) = 1
    BY DEF Pool!ElementsConserved
  <2> DEFINE place(p) == CASE p = 1 -> free[r] [] p = 2 -> freed[r]
                           [] p = 3 -> Pool!Range(plan[r]) [] p = 4 -> Pool!Range(posted)
                           [] p = 5 -> Pool!Range(thread.taken) [] p = 6 -> thread.back[r]
             S == {p \in 1 .. 6 : i \in place(p)}
  <2>1. InOne(i, free[r], freed[r], Pool!Range(plan[r]), Pool!Range(posted),
              Pool!Range(thread.taken), thread.back[r])
    BY DEF ElementsInv, Conserved, Mine
  <2>2. /\ place(1) = free[r] /\ place(2) = freed[r] /\ place(3) = Pool!Range(plan[r])
        /\ place(4) = Pool!Range(posted) /\ place(5) = Pool!Range(thread.taken)
        /\ place(6) = thread.back[r]
    OBVIOUS
  <2> HIDE DEF place
  <2>3. \A p \in 1 .. 6 : p = 1 \/ p = 2 \/ p = 3 \/ p = 4 \/ p = 5 \/ p = 6
    OBVIOUS
  <2>4. \E p \in 1 .. 6 : i \in place(p) /\ \A q \in 1 .. 6 : i \in place(q) => q = p
    BY <2>1, <2>2, <2>3 DEF InOne
  <2>5. \E p : S = {p}
    BY <2>4
  <2>6. Cardinality(S) = 1
    BY <2>5, FS_Singleton
  <2>7. Pool!Cardinality(S) = 1
    <3> HIDE DEF S
    <3> QED BY <2>6, SameCardinality
  <2> QED BY <2>7 DEF place
<1> QED BY <1>1, ElementsInvariant, PTL

-----------------------------------------------------------------------------
\* The counts of a chain never go down.
Sorted(o, s) == \A a, b \in 1 .. Len(s) : a <= b => o[s[a]].count <= o[s[b]].count

SameGroup(o, i, j) == Pool!RankOf(i) = Pool!RankOf(j) /\ o[i].count = o[j].count

\* The operations of a rank with one count are next to each other.
Together(o, s) ==
    \A a, b, c \in 1 .. Len(s) :
        a <= b /\ b <= c /\ SameGroup(o, s[a], s[c]) => SameGroup(o, s[a], s[b])

\* An element holds an operation on a connection of its rank exactly while it
\* is in a chain.
Owned ==
    /\ \A i \in Pool!Index : ops[i].conn \in Pool!Conns =>
          /\ Pool!RankOf(i) \in Pool!Ranks /\ Owner[ops[i].conn] = Pool!RankOf(i)
          /\ i \in Pool!Range(plan[Pool!RankOf(i)]) \cup Pool!Range(posted)
                       \cup Pool!Range(thread.taken)
    /\ \A r \in Pool!Ranks : \A i \in Pool!Range(plan[r]) : ops[i].conn \in Pool!Conns
    /\ \A i \in Pool!Range(posted) \cup Pool!Range(thread.taken) : ops[i].conn \in Pool!Conns

\* What has left a rank is of smaller counts than what it still has or will get.
Left(o, i, r) ==
    Pool!RankOf(i) = r => /\ o[i].count < issued[r].count
                          /\ \A j \in Pool!Range(plan[r]) : o[i].count < o[j].count

Ordered ==
    /\ \A r \in Pool!Ranks :
          /\ Sorted(ops, plan[r])
          /\ plan[r] # <<>> => ops[plan[r][Len(plan[r])]].count = issued[r].count
          /\ \A i \in Pool!Range(posted) \cup Pool!Range(thread.taken) : Left(ops, i, r)
    /\ Together(ops, posted) /\ Together(ops, thread.taken)
    /\ \A i \in Pool!Range(thread.taken), j \in Pool!Range(posted) : ~SameGroup(ops, i, j)

\* An argument has all operations of its count.
Complete ==
    \A c \in Pool!Conns : \A a \in Pool!Range(queue[c]) :
        /\ \A i \in Pool!Index : ops[i] # [conn |-> c, count |-> a.count]
        /\ Owner[c] \in Pool!Ranks => a.count < issued[Owner[c]].count

OrderInv == Owned /\ Ordered /\ Complete

LEMMA SameOperations ==
    ASSUME NEW T, NEW s \in Seq(T), NEW o, NEW n, \A i \in Pool!Range(s) : n[i] = o[i]
    PROVE  /\ Sorted(o, s) => Sorted(n, s)
           /\ Together(o, s) => Together(n, s)
<1>1. \A a \in 1 .. Len(s) : n[s[a]] = o[s[a]]
  BY ChainRange
<1>2. Sorted(o, s) => Sorted(n, s)
  BY <1>1 DEF Sorted
<1>3. \A a, b \in 1 .. Len(s) : SameGroup(n, s[a], s[b]) <=> SameGroup(o, s[a], s[b])
  BY <1>1 DEF SameGroup
<1>4. Together(o, s) => Together(n, s)
  BY <1>3 DEF Together
<1> QED BY <1>2, <1>4

\* What ProxyAppend does to one queue.
LEMMA AppendCases ==
    ASSUME NEW all \in [Pool!Conns -> Seq(Arguments)], NEW i, ops[i] \in PoolOps,
           NEW c \in Pool!Conns
    PROVE  \/ Pool!ProxyAppend(all, i)[c] = all[c] /\ (ops[i].conn = c => all[c] # <<>>)
           \/ /\ ops[i].conn = c
              /\ Pool!ProxyAppend(all, i)[c] # <<>>
              /\ Pool!Range(Pool!ProxyAppend(all, i)[c]) =
                    Pool!Range(all[c]) \cup {[count |-> ops[i].count, running |-> FALSE]}
<1> DEFINE d == ops[i].conn
           one == [count |-> ops[i].count, running |-> FALSE]
<1>1. one \in Arguments
  BY DEF Arguments, PoolOps
<1>2. \/ Pool!ProxyAppend(all, i) = all /\ all[d] # <<>>
      \/ Pool!ProxyAppend(all, i) = [all EXCEPT ![d] = Append(all[d], one)]
  BY DEF Pool!ProxyAppend
<1> HIDE DEF one
<1>3. CASE Pool!ProxyAppend(all, i) = all /\ all[d] # <<>>
  BY <1>3
<1>4. CASE Pool!ProxyAppend(all, i) = [all EXCEPT ![d] = Append(all[d], one)]
  <2>1. CASE d = c
    <3>1. Pool!ProxyAppend(all, i)[c] = Append(all[c], one)
      BY <1>4, <2>1
    <3>2. /\ Pool!Range(Append(all[c], one)) = Pool!Range(all[c]) \cup {one}
          /\ Append(all[c], one) # <<>>
      BY <1>1, ChainAppend
    <3> QED BY <2>1, <3>1, <3>2 DEF one
  <2>2. CASE d # c
    BY <1>4, <2>2
  <2> QED BY <2>1, <2>2
<1> QED BY <1>2, <1>3, <1>4

LEMMA AppendsSome ==
    ASSUME NEW all \in [Pool!Conns -> Seq(Arguments)], NEW i, ops[i] \in PoolOps,
           NEW c \in Pool!Conns, ops[i].conn = c \/ all[c] # <<>>
    PROVE  Pool!ProxyAppend(all, i)[c] # <<>>
  BY AppendCases

LEMMA FoldArguments ==
    ASSUME PoolShape, NEW batch \in Seq(Pool!Index), NEW c \in Pool!Conns
    PROVE  /\ \A a \in Pool!Range(Pool!FoldLeft(Pool!ProxyAppend, queue, batch)[c]) :
                 \/ a \in Pool!Range(queue[c])
                 \/ \E i \in Pool!Range(batch) : ops[i].conn = c /\ a.count = ops[i].count
           /\ (queue[c] # <<>> \/ (batch # <<>> /\ ops[batch[Len(batch)]].conn = c))
              => Pool!FoldLeft(Pool!ProxyAppend, queue, batch)[c] # <<>>
<1>1. PICK f : /\ f[0] = queue
               /\ \A k \in 1 .. Len(batch) : f[k] = Pool!ProxyAppend(f[k - 1], batch[k])
               /\ Pool!FoldLeft(Pool!ProxyAppend, queue, batch) = f[Len(batch)]
  BY FoldSteps
<1> DEFINE Old(a) == \/ a \in Pool!Range(queue[c])
                     \/ \E i \in Pool!Range(batch) : ops[i].conn = c /\ a.count = ops[i].count
           Good(k) == /\ f[k] \in [Pool!Conns -> Seq(Arguments)]
                      /\ \A a \in Pool!Range(f[k][c]) : Old(a)
                      /\ queue[c] # <<>> => f[k][c] # <<>>
                      /\ k > 0 /\ ops[batch[k]].conn = c => f[k][c] # <<>>
           S == {k \in Nat : k <= Len(batch) => Good(k)}
<1>2. 0 \in S
  BY <1>1 DEF PoolShape
<1>3. ASSUME NEW n \in Nat, n \in S PROVE n + 1 \in S
  <2> SUFFICES ASSUME n + 1 <= Len(batch) PROVE Good(n + 1)
    OBVIOUS
  <2>1. n + 1 \in 1 .. Len(batch) /\ (n + 1) - 1 = n /\ Good(n)
    BY <1>3
  <2> DEFINE i == batch[n + 1]
  <2>2. ops[i] \in PoolOps /\ i \in Pool!Range(batch)
    BY <2>1, ChainRange DEF PoolShape
  <2>3. f[n + 1] = Pool!ProxyAppend(f[n], i)
    BY <1>1, <2>1
  <2>4. f[n + 1] \in [Pool!Conns -> Seq(Arguments)]
    BY <2>1, <2>2, <2>3, AppendShape
  <2>5. f[n] \in [Pool!Conns -> Seq(Arguments)] /\ ops[i] \in PoolOps
    BY <2>1, <2>2
  <2>6. ASSUME NEW a \in Pool!Range(f[n + 1][c]) PROVE Old(a)
    <3>1. a \in Pool!Range(f[n][c]) \/ (ops[i].conn = c /\ a.count = ops[i].count)
      <4> DEFINE one == [count |-> ops[i].count, running |-> FALSE]
      <4>1. \/ f[n + 1][c] = f[n][c]
            \/ ops[i].conn = c /\ Pool!Range(f[n + 1][c]) = Pool!Range(f[n][c]) \cup {one}
        <5> DEFINE all == f[n]
        <5>1. all \in [Pool!Conns -> Seq(Arguments)] /\ ops[i] \in PoolOps /\ c \in Pool!Conns
          BY <2>5
        <5> HIDE DEF i, Old, Good, all
        <5>2. \/ Pool!ProxyAppend(all, i)[c] = all[c] /\ (ops[i].conn = c => all[c] # <<>>)
              \/ /\ ops[i].conn = c
                 /\ Pool!ProxyAppend(all, i)[c] # <<>>
                 /\ Pool!Range(Pool!ProxyAppend(all, i)[c]) =
                    Pool!Range(all[c]) \cup {[count |-> ops[i].count, running |-> FALSE]}
          BY ONLY <5>1, AppendCases
        <5> QED BY <2>3, <5>2 DEF all
      <4>2. one.count = ops[i].count
        OBVIOUS
      <4> HIDE DEF i, Old, Good, one
      <4> QED BY <2>6, <4>1, <4>2
    <3>2. a \in Pool!Range(f[n][c]) => Old(a)
      BY <2>1
    <3> QED BY <2>2, <3>1, <3>2
  <2>7. ops[i].conn = c \/ f[n][c] # <<>> => f[n + 1][c] # <<>>
    <3> HIDE DEF i, Old, Good
    <3> QED BY <2>3, <2>5, AppendsSome
  <2> HIDE DEF Old
  <2> QED BY <2>1, <2>4, <2>6, <2>7
<1>4. Len(batch) \in Nat /\ (batch # <<>> => Len(batch) > 0)
  OBVIOUS
<1>5. Len(batch) \in S
  <2> HIDE DEF S
  <2>1. \A n \in Nat : n \in S
    BY <1>2, <1>3, Naturals
  <2> QED BY <1>4, <2>1
<1> HIDE DEF Old
<1>6. Good(Len(batch))
  BY <1>4, <1>5
<1> QED BY <1>1, <1>4, <1>6 DEF Old

\* An element that a rank takes is in no chain.
LEMMA TakenIsFree ==
    ASSUME ElementsInv, NEW r \in Pool!Ranks, NEW i \in List(r)
    PROVE  /\ i \in Pool!Index /\ Pool!RankOf(i) = r
           /\ \A q \in Pool!Ranks : i \notin Pool!Range(plan[q])
           /\ i \notin Pool!Range(posted) /\ i \notin Pool!Range(thread.taken)
<1>1. i \in Mine(r) /\ (i \in free[r] \/ i \in freed[r])
  BY DEF ElementsInv, Conserved, List
<1>2. InOne(i, free[r], freed[r], Pool!Range(plan[r]), Pool!Range(posted),
            Pool!Range(thread.taken), thread.back[r])
  BY <1>1 DEF ElementsInv, Conserved
<1>3. \A q \in Pool!Ranks : i \in Pool!Range(plan[q]) => q = r
  BY <1>1 DEF ElementsInv, Conserved, Mine
<1> QED BY <1>1, <1>2, <1>3 DEF InOne, Mine

LEMMA AppendOpOrder ==
    ASSUME ElementsInv, OrderInv, NEW r \in Pool!Ranks, NEW c \in Pool!Conns,
           NEW k \in issued[r].count .. issued[r].count + 1, Pool!AppendOp(r, c, k)
    PROVE  OrderInv'
<1>1. PoolShape
  BY DEF ElementsInv
<1>2. PICK i \in List(r) :
        /\ i \in Pool!Index /\ k \in Nat /\ Owner[c] = r
        /\ ops' = [ops EXCEPT ![i] = [conn |-> c, count |-> k]]
        /\ plan' = [plan EXCEPT ![r] = Append(plan[r], i)]
        /\ issued' = [issued EXCEPT ![r] = [n |-> issued[r].n + 1, count |-> k]]
        /\ UNCHANGED <<posted, thread, queue, stop>>
  BY <1>1, AppendOpShape
<1>3. /\ Pool!RankOf(i) = r /\ \A q \in Pool!Ranks : i \notin Pool!Range(plan[q])
      /\ i \notin Pool!Range(posted) /\ i \notin Pool!Range(thread.taken)
  BY TakenIsFree
<1>4. /\ plan[r] \in Seq(Pool!Index) /\ posted \in Seq(Pool!Index)
      /\ thread.taken \in Seq(Pool!Index) /\ \A q \in Pool!Ranks : plan[q] \in Seq(Pool!Index)
      /\ \A q \in Pool!Ranks : issued[q].count \in Nat
      /\ \A j \in Pool!Index : ops[j].count \in Nat
  BY <1>1 DEF PoolShape, Progress, PoolOps
<1>5. /\ ops'[i] = [conn |-> c, count |-> k] /\ ops'[i].conn = c /\ ops'[i].count = k
      /\ \A j \in Pool!Index : j # i => ops'[j] = ops[j]
      /\ issued'[r].count = k /\ k >= issued[r].count
      /\ \A q \in Pool!Ranks : q # r => issued'[q] = issued[q] /\ plan'[q] = plan[q]
  BY <1>1, <1>2, <1>4 DEF PoolShape
<1>6. /\ plan'[r] = Append(plan[r], i) /\ plan'[r] \in Seq(Pool!Index)
      /\ Pool!Range(plan'[r]) = Pool!Range(plan[r]) \cup {i}
      /\ Len(plan'[r]) = Len(plan[r]) + 1 /\ plan'[r][Len(plan[r]) + 1] = i
      /\ \A p \in 1 .. Len(plan[r]) : plan'[r][p] = plan[r][p]
  <2>1. plan'[r] = Append(plan[r], i)
    BY <1>1, <1>2 DEF PoolShape
  <2> QED BY <1>2, <1>4, <2>1, ChainAppend, AppendProperties
<1>7. \A q \in Pool!Ranks : \A j \in Pool!Range(plan[q]) : j \in Pool!Index /\ ops'[j] = ops[j]
  BY <1>3, <1>4, <1>5, ChainRange
<1>8. \A j \in Pool!Range(posted) \cup Pool!Range(thread.taken) : j \in Pool!Index /\ ops'[j] = ops[j]
  BY <1>3, <1>4, <1>5, ChainRange
<1>9. Pool!Ranks' = Pool!Ranks /\ Pool!Index' = Pool!Index /\ Pool!Conns' = Pool!Conns
      /\ \A j : Pool!RankOf(j)' = Pool!RankOf(j)
  BY DEF Pool!Ranks, Pool!Index, Pool!Conns, Pool!RankOf
<1>10. Owned'
  <2>1. ASSUME NEW j \in Pool!Index, ops'[j].conn \in Pool!Conns
        PROVE  /\ Pool!RankOf(j) \in Pool!Ranks /\ Owner[ops'[j].conn] = Pool!RankOf(j)
               /\ j \in Pool!Range(plan'[Pool!RankOf(j)]) \cup Pool!Range(posted)
                            \cup Pool!Range(thread.taken)
    <3>1. CASE j = i
      BY <1>2, <1>3, <1>5, <1>6, <3>1
    <3>2. CASE j # i
      BY <1>5, <1>6, <2>1, <3>2 DEF OrderInv, Owned
    <3> QED BY <3>1, <3>2
  <2>2. ASSUME NEW q \in Pool!Ranks, NEW j \in Pool!Range(plan'[q])
        PROVE  ops'[j].conn \in Pool!Conns
    <3>1. CASE j = i
      BY <1>5, <3>1
    <3>2. CASE j # i
      <4>1. j \in Pool!Range(plan[q])
        BY <1>5, <1>6, <3>2
      <4> QED BY <1>7, <4>1 DEF OrderInv, Owned
    <3> QED BY <3>1, <3>2
  <2>3. ASSUME NEW j \in Pool!Range(posted) \cup Pool!Range(thread.taken)
        PROVE  ops'[j].conn \in Pool!Conns
    BY <1>8 DEF OrderInv, Owned
  <2> QED BY <1>2, <1>9, <2>1, <2>2, <2>3 DEF Owned
<1>11. Sorted(ops', plan'[r])
  <2>1. Sorted(ops, plan[r]) /\ (plan[r] # <<>> => ops[plan[r][Len(plan[r])]].count = issued[r].count)
    BY DEF OrderInv, Ordered
  <2>2. \A p \in 1 .. Len(plan[r]) :
            plan[r][p] \in Pool!Range(plan[r]) /\ plan[r][p] \in Pool!Index
    BY <1>4, ChainRange
  <2>3. \A p \in 1 .. Len(plan[r]) : ops[plan[r][p]].count <= issued[r].count
    <3> SUFFICES ASSUME NEW p \in 1 .. Len(plan[r]) PROVE ops[plan[r][p]].count <= issued[r].count
      OBVIOUS
    <3>1. plan[r] # <<>> /\ Len(plan[r]) \in 1 .. Len(plan[r]) /\ p <= Len(plan[r])
      BY <1>4
    <3> QED BY <2>1, <3>1 DEF Sorted
  <2> SUFFICES ASSUME NEW a \in 1 .. Len(plan'[r]), NEW b \in 1 .. Len(plan'[r]), a <= b
               PROVE  ops'[plan'[r][a]].count <= ops'[plan'[r][b]].count
    BY DEF Sorted
  <2>4. CASE b = Len(plan[r]) + 1
    <3>1. ops'[plan'[r][b]].count = k
      BY <1>5, <1>6, <2>4
    <3>2. CASE a = b
      BY <1>2, <3>1, <3>2
    <3>3. CASE a # b
      <4>1. a \in 1 .. Len(plan[r])
        BY <1>4, <1>6, <2>4, <3>3
      <4>2. ops'[plan'[r][a]].count <= issued[r].count /\ ops'[plan'[r][a]].count \in Nat
        BY <1>4, <1>6, <1>7, <2>2, <2>3, <4>1
      <4>3. issued[r].count <= k /\ issued[r].count \in Nat /\ k \in Nat
        BY <1>2, <1>4, <1>5
      <4> QED BY <3>1, <4>2, <4>3
    <3> QED BY <3>2, <3>3
  <2>5. CASE b # Len(plan[r]) + 1
    <3>1. a \in 1 .. Len(plan[r]) /\ b \in 1 .. Len(plan[r])
      BY <1>4, <1>6, <2>5
    <3>2. ops[plan[r][a]].count <= ops[plan[r][b]].count
      BY <2>1, <3>1 DEF Sorted
    <3> QED BY <1>6, <1>7, <2>2, <3>1, <3>2
  <2> QED BY <2>4, <2>5
<1>12. Ordered'
  <2>1. ASSUME NEW q \in Pool!Ranks
        PROVE  /\ Sorted(ops', plan'[q])
               /\ plan'[q] # <<>> => ops'[plan'[q][Len(plan'[q])]].count = issued'[q].count
    <3>1. CASE q = r
      BY <1>5, <1>6, <1>11, <3>1
    <3>2. CASE q # r
      <4>1. Sorted(ops', plan[q])
        BY <1>4, <1>7, SameOperations DEF OrderInv, Ordered
      <4>2. plan[q] # <<>> => plan[q][Len(plan[q])] \in Pool!Range(plan[q])
        BY <1>4, ChainRange
      <4> QED BY <1>5, <1>7, <3>2, <4>1, <4>2 DEF OrderInv, Ordered
    <3> QED BY <3>1, <3>2
  <2>2. ASSUME NEW q \in Pool!Ranks, NEW j \in Pool!Range(posted) \cup Pool!Range(thread.taken),
               Pool!RankOf(j) = q
        PROVE  /\ ops'[j].count < issued'[q].count
               /\ \A h \in Pool!Range(plan'[q]) : ops'[j].count < ops'[h].count
    <3>1. /\ ops'[j].count = ops[j].count /\ ops[j].count < issued[q].count
          /\ \A h \in Pool!Range(plan[q]) : ops[j].count < ops[h].count /\ ops'[h] = ops[h]
          /\ ops[j].count \in Nat /\ issued[q].count \in Nat
      BY <1>4, <1>7, <1>8, <2>2 DEF OrderInv, Ordered, Left
    <3>2. CASE q = r
      <4>1. ops[j].count < k
        BY <1>2, <1>5, <3>1, <3>2
      <4> QED BY <1>5, <1>6, <3>1, <3>2, <4>1
    <3>3. CASE q # r
      BY <1>5, <3>1, <3>3
    <3> QED BY <3>2, <3>3
  <2>3. Together(ops', posted) /\ Together(ops', thread.taken)
    BY <1>4, <1>8, SameOperations DEF OrderInv, Ordered
  <2>4. \A h \in Pool!Range(thread.taken), j \in Pool!Range(posted) : ~SameGroup(ops', h, j)
    BY <1>8 DEF OrderInv, Ordered, SameGroup
  <2> QED BY <1>2, <1>9, <2>1, <2>2, <2>3, <2>4 DEF Ordered, Left
<1>13. Complete'
  <2> SUFFICES ASSUME NEW d \in Pool!Conns, NEW a \in Pool!Range(queue[d])
               PROVE  /\ \A j \in Pool!Index : ops'[j] # [conn |-> d, count |-> a.count]
                      /\ Owner[d] \in Pool!Ranks => a.count < issued'[Owner[d]].count
    BY <1>2, <1>9 DEF Complete
  <2>1. /\ \A j \in Pool!Index : ops[j] # [conn |-> d, count |-> a.count]
        /\ Owner[d] \in Pool!Ranks => a.count < issued[Owner[d]].count
    BY DEF OrderInv, Complete
  <2>2. a.count \in Nat
    <3>1. a \in Arguments
      BY <1>1, ChainRange DEF PoolShape
    <3> QED BY <3>1 DEF Arguments
  <2>3. Owner[d] \in Pool!Ranks => a.count < issued'[Owner[d]].count
    <3>1. CASE Owner[d] = r
      BY <1>2, <1>4, <1>5, <2>1, <2>2, <3>1
    <3>2. CASE Owner[d] # r
      BY <1>5, <2>1, <3>2
    <3> QED BY <3>1, <3>2
  <2>4. ops'[i] # [conn |-> d, count |-> a.count]
    <3>1. CASE d = c
      <4>1. a.count < k
        BY <1>2, <1>4, <1>5, <2>1, <2>2, <3>1
      <4> QED BY <1>2, <1>5, <2>2, <4>1
    <3>2. CASE d # c
      BY <1>5, <3>2
    <3> QED BY <3>1, <3>2
  <2> QED BY <1>5, <2>1, <2>3, <2>4
<1> QED BY <1>10, <1>12, <1>13 DEF OrderInv

LEMMA TogetherConcat ==
    ASSUME NEW T, NEW s \in Seq(T), NEW u \in Seq(T), NEW o, Together(o, s), Sorted(o, u),
           \A i \in Pool!Range(u) : o[i].count \in Nat,
           \A i \in Pool!Range(u), j \in Pool!Range(u) : Pool!RankOf(i) = Pool!RankOf(j),
           \A i \in Pool!Range(s), j \in Pool!Range(u) : ~SameGroup(o, i, j)
    PROVE  Together(o, s \o u)
<1> DEFINE t == s \o u
<1>1. /\ t \in Seq(T) /\ Len(t) = Len(s) + Len(u)
      /\ \A k \in 1 .. Len(s) : t[k] = s[k]
      /\ \A k \in 1 .. Len(u) : t[Len(s) + k] = u[k]
  BY ChainConcat
<1> HIDE DEF t
<1>2. ASSUME NEW k \in 1 .. Len(t), k \notin 1 .. Len(s)
      PROVE  k - Len(s) \in 1 .. Len(u) /\ t[k] = u[k - Len(s)] /\ t[k] \in Pool!Range(u)
  <2>1. k - Len(s) \in 1 .. Len(u) /\ Len(s) + (k - Len(s)) = k
    BY <1>1, <1>2
  <2>2. t[k] = u[k - Len(s)]
    BY <1>1, <2>1
  <2> QED BY <2>1, <2>2, ChainRange
<1>3. ASSUME NEW k \in 1 .. Len(s)
      PROVE  t[k] = s[k] /\ t[k] \in Pool!Range(s)
  BY <1>1, ChainRange
<1> SUFFICES ASSUME NEW a \in 1 .. Len(t), NEW b \in 1 .. Len(t), NEW c \in 1 .. Len(t),
                    a <= b, b <= c, SameGroup(o, t[a], t[c])
             PROVE  SameGroup(o, t[a], t[b])
  BY DEF Together, t
<1>4. CASE c \in 1 .. Len(s)
  <2>1. a \in 1 .. Len(s) /\ b \in 1 .. Len(s)
    BY <1>1, <1>4
  <2> QED BY <1>3, <1>4, <2>1 DEF Together
<1>5. CASE c \notin 1 .. Len(s) /\ a \in 1 .. Len(s)
  <2>1. t[a] \in Pool!Range(s) /\ t[c] \in Pool!Range(u)
    BY <1>2, <1>3, <1>5
  <2>2. ~SameGroup(o, t[a], t[c])
    BY <2>1
  <2> QED BY <2>2
<1>6. CASE c \notin 1 .. Len(s) /\ a \notin 1 .. Len(s)
  <2>1. b \notin 1 .. Len(s)
    BY <1>1, <1>6
  <2>2. /\ a - Len(s) \in 1 .. Len(u) /\ b - Len(s) \in 1 .. Len(u) /\ c - Len(s) \in 1 .. Len(u)
        /\ a - Len(s) <= b - Len(s) /\ b - Len(s) <= c - Len(s)
    BY <1>1, <1>2, <1>6, <2>1
  <2>3. /\ t[a] = u[a - Len(s)] /\ t[b] = u[b - Len(s)] /\ t[c] = u[c - Len(s)]
        /\ t[a] \in Pool!Range(u) /\ t[b] \in Pool!Range(u) /\ t[c] \in Pool!Range(u)
    BY <1>2, <1>6, <2>1
  <2>4. o[t[a]].count <= o[t[b]].count /\ o[t[b]].count <= o[t[c]].count
    BY <2>2, <2>3 DEF Sorted
  <2>5. /\ o[t[a]].count \in Nat /\ o[t[b]].count \in Nat
        /\ o[t[a]].count = o[t[c]].count /\ Pool!RankOf(t[a]) = Pool!RankOf(t[b])
    BY <2>3 DEF SameGroup
  <2>6. o[t[a]].count = o[t[b]].count
    BY ONLY <2>4, <2>5
  <2> QED BY <2>5, <2>6 DEF SameGroup
<1> QED BY <1>4, <1>5, <1>6

\* A rank posts a chain, with all the operations of its counts, and keeps the rest.
LEMMA PostOrder ==
    ASSUME ElementsInv, OrderInv, NEW r \in Pool!Ranks, NEW chain \in Seq(Pool!Index),
           NEW rest \in Seq(Pool!Index), Pool!Post(chain),
           plan' = [plan EXCEPT ![r] = rest], UNCHANGED <<ops, queue>>,
           Pool!Range(plan[r]) = Pool!Range(chain) \cup Pool!Range(rest),
           Sorted(ops, chain), Sorted(ops, rest),
           \A i \in Pool!Range(chain) :
               /\ ops[i].count < issued'[r].count
               /\ \A j \in Pool!Range(rest) : ops[i].count < ops[j].count,
           rest # <<>> => ops[rest[Len(rest)]].count = issued'[r].count,
           issued'[r].count \in Nat, issued[r].count <= issued'[r].count,
           \A q \in Pool!Ranks : q # r => issued'[q] = issued[q]
    PROVE  OrderInv'
<1>1. /\ posted' = posted \o chain /\ posted' \in Seq(Pool!Index) /\ thread'.taken = thread.taken
      /\ posted \in Seq(Pool!Index) /\ thread.taken \in Seq(Pool!Index)
  BY PostShape DEF ElementsInv, PoolShape, Progress, Carries
<1>2. Pool!Range(posted') = Pool!Range(posted) \cup Pool!Range(chain)
  BY <1>1, ChainConcat
<1>3. plan'[r] = rest /\ \A q \in Pool!Ranks : q # r => plan'[q] = plan[q]
  BY DEF ElementsInv, PoolShape
<1>4. /\ \A i \in Pool!Index : ops[i].count \in Nat
      /\ \A q \in Pool!Ranks : issued[q].count \in Nat
  BY DEF ElementsInv, PoolShape, PoolOps
<1>5. /\ \A i \in Pool!Range(chain) : i \in Pool!Index /\ Pool!RankOf(i) = r
      /\ Pool!Range(rest) \subseteq Pool!Index
      /\ Pool!Range(posted) \subseteq Pool!Index /\ Pool!Range(thread.taken) \subseteq Pool!Index
  BY <1>1, ChainRange DEF ElementsInv, Conserved, Mine
<1>6. Pool!Ranks' = Pool!Ranks /\ Pool!Index' = Pool!Index /\ Pool!Conns' = Pool!Conns
      /\ \A j : Pool!RankOf(j)' = Pool!RankOf(j)
  BY DEF Pool!Ranks, Pool!Index, Pool!Conns, Pool!RankOf
<1>7. Owned'
  <2>1. ASSUME NEW i \in Pool!Index, ops[i].conn \in Pool!Conns
        PROVE  /\ Pool!RankOf(i) \in Pool!Ranks /\ Owner[ops[i].conn] = Pool!RankOf(i)
               /\ i \in Pool!Range(plan'[Pool!RankOf(i)]) \cup Pool!Range(posted')
                            \cup Pool!Range(thread.taken)
    BY <1>2, <1>3, <2>1 DEF OrderInv, Owned
  <2>2. \A q \in Pool!Ranks : \A i \in Pool!Range(plan'[q]) : ops[i].conn \in Pool!Conns
    BY <1>3 DEF OrderInv, Owned
  <2>3. \A i \in Pool!Range(posted') \cup Pool!Range(thread.taken) : ops[i].conn \in Pool!Conns
    BY <1>2 DEF OrderInv, Owned
  <2> QED BY <1>1, <1>6, <2>1, <2>2, <2>3 DEF Owned
<1>8. ASSUME NEW q \in Pool!Ranks
      PROVE  /\ Sorted(ops, plan'[q])
             /\ plan'[q] # <<>> => ops[plan'[q][Len(plan'[q])]].count = issued'[q].count
  BY <1>3 DEF OrderInv, Ordered
<1>9. ASSUME NEW q \in Pool!Ranks,
             NEW i \in Pool!Range(posted') \cup Pool!Range(thread.taken), Pool!RankOf(i) = q
      PROVE  /\ ops[i].count < issued'[q].count
             /\ \A j \in Pool!Range(plan'[q]) : ops[i].count < ops[j].count
  <2>1. CASE i \in Pool!Range(chain)
    BY <1>3, <1>5, <1>9, <2>1
  <2>2. CASE i \notin Pool!Range(chain)
    <3>1. /\ ops[i].count < issued[q].count /\ ops[i].count \in Nat
          /\ \A j \in Pool!Range(plan[q]) : ops[i].count < ops[j].count
      BY <1>2, <1>4, <1>5, <1>9, <2>2 DEF OrderInv, Ordered, Left
    <3>2. CASE q = r
      <4>1. ops[i].count < issued'[r].count
        BY <1>4, <3>1, <3>2
      <4> QED BY <1>3, <3>1, <3>2, <4>1
    <3>3. CASE q # r
      BY <1>3, <3>1, <3>3
    <3> QED BY <3>2, <3>3
  <2> QED BY <2>1, <2>2
<1>10. ASSUME NEW i \in Pool!Range(posted) \cup Pool!Range(thread.taken), NEW j \in Pool!Range(chain)
       PROVE  ~SameGroup(ops, i, j)
  <2> SUFFICES ASSUME Pool!RankOf(i) = r, ops[i].count = ops[j].count PROVE FALSE
    BY <1>5 DEF SameGroup
  <2>1. ops[i].count < ops[j].count
    BY DEF OrderInv, Ordered, Left
  <2> QED BY <1>4, <1>5, <2>1
<1>11. Together(ops, posted')
  <2>1. Together(ops, posted)
    BY DEF OrderInv, Ordered
  <2>2. \A i \in Pool!Range(chain) : ops[i].count \in Nat
    BY <1>4, <1>5
  <2>3. \A i \in Pool!Range(chain), j \in Pool!Range(chain) : Pool!RankOf(i) = Pool!RankOf(j)
    BY <1>5
  <2> QED BY <1>1, <1>10, <2>1, <2>2, <2>3, TogetherConcat
<1>12. Together(ops, thread.taken)
       /\ \A i \in Pool!Range(thread.taken), j \in Pool!Range(posted') : ~SameGroup(ops, i, j)
  BY <1>2, <1>10 DEF OrderInv, Ordered
<1>13. Ordered'
  BY <1>1, <1>6, <1>8, <1>9, <1>11, <1>12 DEF Ordered, Left, SameGroup
<1>14. Complete'
  <2> SUFFICES ASSUME NEW d \in Pool!Conns, NEW a \in Pool!Range(queue[d])
               PROVE  /\ \A j \in Pool!Index : ops[j] # [conn |-> d, count |-> a.count]
                      /\ Owner[d] \in Pool!Ranks => a.count < issued'[Owner[d]].count
    BY <1>6 DEF Complete
  <2>1. /\ \A j \in Pool!Index : ops[j] # [conn |-> d, count |-> a.count]
        /\ Owner[d] \in Pool!Ranks => a.count < issued[Owner[d]].count
    BY DEF OrderInv, Complete
  <2>2. a.count \in Nat
    <3>1. a \in Arguments
      BY ChainRange DEF ElementsInv, PoolShape
    <3> QED BY <3>1 DEF Arguments
  <2>3. CASE Owner[d] = r
    BY <1>4, <2>1, <2>2, <2>3
  <2>4. CASE Owner[d] # r
    BY <2>1, <2>4
  <2> QED BY <2>3, <2>4
<1> QED BY <1>7, <1>13, <1>14 DEF OrderInv

LEMMA SortedCut ==
    ASSUME NEW T, NEW s \in Seq(T), NEW n \in 0 .. Len(s), NEW o, Sorted(o, s)
    PROVE  Sorted(o, SubSeq(s, 1, n)) /\ Sorted(o, SubSeq(s, n + 1, Len(s)))
<1> DEFINE a == SubSeq(s, 1, n)
           b == SubSeq(s, n + 1, Len(s))
<1>1. /\ a \in Seq(T) /\ Len(a) = n /\ \A k \in 1 .. n : a[k] = s[k]
      /\ b \in Seq(T) /\ Len(b) = Len(s) - n /\ \A k \in 1 .. Len(b) : b[k] = s[n + k]
  BY ChainCut
<1> HIDE DEF a, b
<1>2. Sorted(o, a)
  <2>1. \A k \in 1 .. n : k \in 1 .. Len(s)
    OBVIOUS
  <2> QED BY <1>1, <2>1 DEF Sorted
<1>3. Sorted(o, b)
  <2> SUFFICES ASSUME NEW i \in 1 .. Len(b), NEW j \in 1 .. Len(b), i <= j
               PROVE  o[b[i]].count <= o[b[j]].count
    BY DEF Sorted
  <2>1. n + i \in 1 .. Len(s) /\ n + j \in 1 .. Len(s) /\ n + i <= n + j
    BY <1>1
  <2>2. o[s[n + i]].count <= o[s[n + j]].count
    BY <2>1 DEF Sorted
  <2> QED BY <1>1, <2>2
<1> QED BY <1>2, <1>3 DEF a, b

LEMMA StartOrder ==
    ASSUME ElementsInv, OrderInv, NEW r \in Pool!Ranks, Pool!Start(r)
    PROVE  OrderInv'
<1>1. /\ plan[r] # <<>> /\ plan[r] \in Seq(Pool!Index) /\ Pool!Post(plan[r])
      /\ plan' = [plan EXCEPT ![r] = <<>>]
      /\ issued' = [issued EXCEPT ![r].count = issued[r].count + 1]
      /\ UNCHANGED <<ops, queue>>
  BY StartShape DEF ElementsInv
<1>2. /\ issued \in [Pool!Ranks -> [n : Nat, count : Nat]] /\ issued[r].count \in Nat
      /\ \A i \in Pool!Index : ops[i].count \in Nat
  BY DEF ElementsInv, PoolShape, PoolOps
<1>3. /\ issued'[r].count = issued[r].count + 1
      /\ \A q \in Pool!Ranks : q # r => issued'[q] = issued[q]
  <2>1. issued' = [issued EXCEPT ![r] = [issued[r] EXCEPT !.count = issued[r].count + 1]]
    BY <1>1
  <2>2. issued[r] \in [n : Nat, count : Nat]
    BY <1>2
  <2> QED BY <1>2, <2>1, <2>2
<1>4. <<>> \in Seq(Pool!Index) /\ Pool!Range(<<>>) = {} /\ Sorted(ops, <<>>)
  BY ChainEmpty DEF Sorted
<1>5. /\ Sorted(ops, plan[r])
      /\ ops[plan[r][Len(plan[r])]].count = issued[r].count
  BY <1>1 DEF OrderInv, Ordered
<1>6. ASSUME NEW i \in Pool!Range(plan[r]) PROVE ops[i].count < issued'[r].count
  <2>1. PICK k \in 1 .. Len(plan[r]) : i = plan[r][k]
    BY <1>1, ChainRange
  <2>2. Len(plan[r]) \in 1 .. Len(plan[r]) /\ k <= Len(plan[r]) /\ i \in Pool!Index
    BY <1>1, <2>1
  <2>3. ops[i].count <= issued[r].count
    BY <1>5, <2>1, <2>2 DEF Sorted
  <2>4. ops[i].count \in Nat
    BY <1>2, <2>2
  <2> QED BY <1>2, <1>3, <2>3, <2>4
<1>7. issued'[r].count \in Nat /\ issued[r].count <= issued'[r].count
  BY <1>2, <1>3
<1>8. /\ Pool!Range(plan[r]) = Pool!Range(plan[r]) \cup Pool!Range(<<>>)
      /\ \A i \in Pool!Range(plan[r]) :
             /\ ops[i].count < issued'[r].count
             /\ \A j \in Pool!Range(<<>>) : ops[i].count < ops[j].count
  BY <1>4, <1>6
<1> QED BY <1>1, <1>3, <1>4, <1>5, <1>7, <1>8, PostOrder

LEMMA PostFullOrder ==
    ASSUME PoolConfiguration, ElementsInv, OrderInv, NEW r \in Pool!Ranks, Pool!PostFull(r)
    PROVE  OrderInv'
<1> DEFINE s == plan[r]
           n == Pool!ToSend(s)
           chain == SubSeq(s, 1, n)
           rest == SubSeq(s, n + 1, Len(s))
<1>1. /\ s # <<>> /\ s \in Seq(Pool!Index) /\ Pool!Post(chain)
      /\ plan' = [plan EXCEPT ![r] = rest] /\ UNCHANGED <<ops, queue, issued>>
  BY PostFullShape DEF ElementsInv, PoolShape
<1>2. /\ issued[r].count \in Nat /\ \A i \in Pool!Index : ops[i].count \in Nat
  BY DEF ElementsInv, PoolShape, PoolOps
<1>3. Sorted(ops, s) /\ ops[s[Len(s)]].count = issued[r].count
  BY <1>1 DEF OrderInv, Ordered
<1>4. /\ n \in 0 .. Len(s) - 1
      /\ \A k \in 1 .. Len(s) : ops[s[k]].count # ops[s[Len(s)]].count => k <= n
      /\ n # 0 => ops[s[n]].count # ops[s[Len(s)]].count
  BY <1>1, SendsBeginning
<1> HIDE DEF s, n
<1>5. n \in 0 .. Len(s) /\ n \in Nat /\ n < Len(s) /\ Len(s) \in Nat
  BY <1>1, <1>4
<1>6. /\ chain \in Seq(Pool!Index) /\ Len(chain) = n /\ \A k \in 1 .. n : chain[k] = s[k]
      /\ rest \in Seq(Pool!Index) /\ Len(rest) = Len(s) - n
      /\ \A k \in 1 .. Len(rest) : rest[k] = s[n + k]
      /\ Pool!Range(s) = Pool!Range(chain) \cup Pool!Range(rest)
  BY <1>1, <1>5, ChainCut
<1>7. Sorted(ops, chain) /\ Sorted(ops, rest)
  BY <1>1, <1>3, <1>5, SortedCut
<1> HIDE DEF chain, rest
<1>8. ASSUME NEW j \in Pool!Range(rest) PROVE ops[j].count = issued[r].count
  <2>1. PICK k \in 1 .. Len(rest) : j = rest[k]
    BY <1>6, ChainRange
  <2>2. n + k \in 1 .. Len(s) /\ ~(n + k <= n) /\ j = s[n + k]
    BY <1>5, <1>6, <2>1
  <2> QED BY <1>3, <1>4, <2>2
<1>9. ASSUME NEW i \in Pool!Range(chain) PROVE ops[i].count < issued[r].count
  <2>1. PICK k \in 1 .. n : i = chain[k]
    BY <1>6, ChainRange
  <2>2. i = s[k] /\ k \in 1 .. Len(s) /\ n \in 1 .. Len(s) /\ Len(s) \in 1 .. Len(s) /\ n # 0
        /\ k <= n /\ n <= Len(s)
    BY <1>5, <1>6, <2>1
  <2>3. ops[s[k]].count <= ops[s[n]].count /\ ops[s[n]].count <= ops[s[Len(s)]].count
    BY <1>3, <2>2 DEF Sorted
  <2>4. s[k] \in Pool!Index /\ s[n] \in Pool!Index
    BY <1>1, <2>2
  <2>5. ops[s[k]].count \in Nat /\ ops[s[n]].count \in Nat /\ ops[s[n]].count # issued[r].count
    BY <1>2, <1>3, <1>4, <2>2, <2>4
  <2> QED BY <1>2, <1>3, <2>2, <2>3, <2>5
<1>10. rest # <<>> => ops[rest[Len(rest)]].count = issued[r].count
  <2> SUFFICES ASSUME rest # <<>> PROVE ops[rest[Len(rest)]].count = issued[r].count
    OBVIOUS
  <2>1. rest[Len(rest)] \in Pool!Range(rest)
    BY <1>6, ChainRange
  <2> QED BY <1>8, <2>1
<1>11. \A i \in Pool!Range(chain) :
           /\ ops[i].count < issued'[r].count
           /\ \A j \in Pool!Range(rest) : ops[i].count < ops[j].count
  BY <1>1, <1>8, <1>9
<1>12. /\ issued'[r].count \in Nat /\ issued[r].count <= issued'[r].count
       /\ \A q \in Pool!Ranks : q # r => issued'[q] = issued[q]
       /\ rest # <<>> => ops[rest[Len(rest)]].count = issued'[r].count
  BY <1>1, <1>2, <1>10
<1>13. Pool!Range(plan[r]) = Pool!Range(chain) \cup Pool!Range(rest)
  BY <1>6 DEF s
<1> QED BY <1>1, <1>6, <1>7, <1>11, <1>12, <1>13, PostOrder

LEMMA SameOrder ==
    ASSUME OrderInv, UNCHANGED <<ops, plan, issued, posted, queue>>, thread'.taken = thread.taken
    PROVE  OrderInv'
<1>1. Pool!Ranks' = Pool!Ranks /\ Pool!Index' = Pool!Index /\ Pool!Conns' = Pool!Conns
      /\ \A j : Pool!RankOf(j)' = Pool!RankOf(j)
  BY DEF Pool!Ranks, Pool!Index, Pool!Conns, Pool!RankOf
<1>2. Owned'
  BY <1>1 DEF OrderInv, Owned
<1>3. Ordered'
  BY <1>1 DEF OrderInv, Ordered, Left, SameGroup
<1>4. Complete'
  BY <1>1 DEF OrderInv, Complete
<1> QED BY <1>2, <1>3, <1>4 DEF OrderInv

\* The arguments of a connection run, or the first one is finished.
LEMMA SweepOrder ==
    ASSUME PoolShape, OrderInv, NEW done \in SUBSET Pool!Conns, Pool!Sweep(done)
    PROVE  OrderInv'
<1>1. /\ \A c \in Pool!Conns :
            \/ queue[c] # <<>> /\ queue'[c] = Tail(queue[c])
            \/ queue[c] = <<>> /\ queue'[c] = <<>>
            \/ queue[c] # <<>> /\ queue'[c] = [queue[c] EXCEPT ![1].running = TRUE]
      /\ PoolShape' /\ thread'.taken = thread.taken
      /\ UNCHANGED <<ops, plan, issued, posted>>
  BY SweepShape DEF Carries
<1>2. Pool!Ranks' = Pool!Ranks /\ Pool!Index' = Pool!Index /\ Pool!Conns' = Pool!Conns
      /\ \A j : Pool!RankOf(j)' = Pool!RankOf(j)
  BY DEF Pool!Ranks, Pool!Index, Pool!Conns, Pool!RankOf
<1>3. Owned'
  BY <1>1, <1>2 DEF OrderInv, Owned
<1>4. Ordered'
  BY <1>1, <1>2 DEF OrderInv, Ordered, Left, SameGroup
<1>5. ASSUME NEW c \in Pool!Conns, NEW a \in Pool!Range(queue'[c])
      PROVE  \E b \in Pool!Range(queue[c]) : b.count = a.count
  <2>1. queue[c] \in Seq(Arguments) /\ queue'[c] \in Seq(Arguments)
    BY <1>1, <1>2 DEF PoolShape, Arguments
  <2>2. PICK k \in 1 .. Len(queue'[c]) : a = queue'[c][k]
    BY <2>1, ChainRange
  <2>3. CASE queue[c] # <<>> /\ queue'[c] = Tail(queue[c])
    <3>1. k + 1 \in 1 .. Len(queue[c]) /\ a = queue[c][k + 1]
      BY <2>1, <2>2, <2>3
    <3> QED BY <2>1, <3>1, ChainRange
  <2>4. CASE queue[c] = <<>> /\ queue'[c] = <<>>
    BY <2>2, <2>4
  <2>5. CASE queue[c] # <<>> /\ queue'[c] = [queue[c] EXCEPT ![1].running = TRUE]
    <3>1. queue'[c] = [queue[c] EXCEPT ![1] = [queue[c][1] EXCEPT !.running = TRUE]]
      BY <2>5
    <3>2. 1 \in 1 .. Len(queue[c]) /\ queue[c][1] \in Arguments
      <4>1. 1 \in 1 .. Len(queue[c])
        BY <2>1, <2>5
      <4> QED BY <2>1, <4>1
    <3>3. [queue[c][1] EXCEPT !.running = TRUE] \in Arguments
          /\ [queue[c][1] EXCEPT !.running = TRUE].count = queue[c][1].count
      BY <3>2 DEF Arguments
    <3>4. Len(queue'[c]) = Len(queue[c])
          /\ \A j \in 1 .. Len(queue[c]) :
                queue'[c][j] = IF j = 1 THEN [queue[c][1] EXCEPT !.running = TRUE] ELSE queue[c][j]
      BY <2>1, <3>1, <3>3, ExceptSeq
    <3>5. k \in 1 .. Len(queue[c]) /\ a.count = queue[c][k].count
      BY <2>2, <3>3, <3>4
    <3>6. queue[c][k] \in Pool!Range(queue[c])
      BY <2>1, <3>5, ChainRange
    <3> QED BY <3>5, <3>6
  <2> QED BY <1>1, <2>3, <2>4, <2>5
<1>6. Complete'
  <2> SUFFICES ASSUME NEW c \in Pool!Conns, NEW a \in Pool!Range(queue'[c])
               PROVE  /\ \A j \in Pool!Index : ops[j] # [conn |-> c, count |-> a.count]
                      /\ Owner[c] \in Pool!Ranks => a.count < issued[Owner[c]].count
    BY <1>1, <1>2 DEF Complete
  <2>1. PICK b \in Pool!Range(queue[c]) : b.count = a.count
    BY <1>5
  <2> QED BY <2>1 DEF OrderInv, Complete
<1> QED BY <1>3, <1>4, <1>6 DEF OrderInv

LEMMA TakeOrder ==
    ASSUME OrderInv, thread.taken = <<>>, posted' = <<>>, thread'.taken = posted,
           UNCHANGED <<ops, plan, issued, queue>>
    PROVE  OrderInv'
<1>1. Pool!Ranks' = Pool!Ranks /\ Pool!Index' = Pool!Index /\ Pool!Conns' = Pool!Conns
      /\ \A j : Pool!RankOf(j)' = Pool!RankOf(j)
  BY DEF Pool!Ranks, Pool!Index, Pool!Conns, Pool!RankOf
<1>2. Pool!Range(thread.taken) = {} /\ Pool!Range(posted') = {}
  BY ChainEmpty
<1>3. Owned'
  BY <1>1, <1>2 DEF OrderInv, Owned
<1>4. Together(ops, <<>>)
  BY DEF Together
<1>5. Ordered'
  BY <1>1, <1>2, <1>4 DEF OrderInv, Ordered, Left, SameGroup
<1>6. Complete'
  BY <1>1 DEF OrderInv, Complete
<1> QED BY <1>3, <1>5, <1>6 DEF OrderInv

\* A batch ends where the count or the rank changes.
LEMMA BatchCut ==
    ASSUME PoolConfiguration, NEW T, NEW s \in Seq(T), Together(ops, s),
           NEW i \in Pool!Range(BatchOf(s)), NEW j \in Pool!Range(RestOf(s)),
           SameGroup(ops, i, j)
    PROVE  FALSE
<1> DEFINE n == Pool!BatchSize(s)
           P(m) == \/ ops[s[m]].count # ops[s[m - 1]].count
                   \/ Pool!RankOf(s[m]) # Pool!RankOf(s[m - 1])
<1>1. /\ n \in 0 .. Len(s)
      /\ \A m \in 1 .. Len(s) : Pool!Changes(s, m) <= Batch => m <= n
      /\ n # 0 => Pool!Changes(s, n) <= Batch
  BY BatchBeginning
<1>2. /\ \A m : Pool!Changes(s, m) = Cardinality({x \in 2 .. m : P(x)})
  BY SameCardinality DEF Pool!Changes
<1> HIDE DEF n, P
<1>3. /\ BatchOf(s) \in Seq(T) /\ Len(BatchOf(s)) = n /\ \A k \in 1 .. n : BatchOf(s)[k] = s[k]
      /\ RestOf(s) \in Seq(T) /\ Len(RestOf(s)) = Len(s) - n
      /\ \A k \in 1 .. Len(RestOf(s)) : RestOf(s)[k] = s[n + k]
  BY <1>1, ChainCut DEF BatchOf, RestOf, n
<1>4. PICK k \in 1 .. n : i = s[k]
  <2> DEFINE b == BatchOf(s)
  <2>1. b \in Seq(T) /\ i \in Pool!Range(b) /\ Len(b) = n /\ \A k \in 1 .. n : b[k] = s[k]
    BY <1>3
  <2> HIDE DEF b
  <2>2. Pool!Range(b) = {b[k] : k \in 1 .. Len(b)}
    BY <2>1, ChainRange
  <2> QED BY <2>1, <2>2
<1>5. PICK m \in 1 .. Len(s) - n : j = s[n + m]
  <2> DEFINE b == RestOf(s)
  <2>1. /\ b \in Seq(T) /\ j \in Pool!Range(b) /\ Len(b) = Len(s) - n
        /\ \A m \in 1 .. Len(b) : b[m] = s[n + m]
    BY <1>3
  <2> HIDE DEF b
  <2>2. Pool!Range(b) = {b[m] : m \in 1 .. Len(b)}
    BY <2>1, ChainRange
  <2> QED BY <2>1, <2>2
<1>6. /\ k \in 1 .. Len(s) /\ n \in 1 .. Len(s) /\ n + 1 \in 1 .. Len(s) /\ n + m \in 1 .. Len(s)
      /\ k <= n /\ n <= n + m /\ k <= n + 1 /\ n + 1 <= n + m /\ n # 0 /\ n \in Nat
  BY <1>1, <1>4, <1>5
<1>7. SameGroup(ops, s[k], s[n]) /\ SameGroup(ops, s[k], s[n + 1])
  BY <1>4, <1>5, <1>6 DEF Together
<1>8. ~P(n + 1)
  <2>1. (n + 1) - 1 = n
    BY <1>6
  <2> QED BY <1>7, <2>1 DEF P, SameGroup
<1>9. {x \in 2 .. n + 1 : P(x)} = {x \in 2 .. n : P(x)}
  <2>1. \A x \in 2 .. n + 1 : x = n + 1 \/ x \in 2 .. n
    BY <1>6
  <2>2. \A x \in 2 .. n : x \in 2 .. n + 1
    BY <1>6
  <2> QED BY <1>8, <2>1, <2>2
<1>10. Pool!Changes(s, n + 1) = Pool!Changes(s, n)
  BY <1>2, <1>9
<1>11. n + 1 <= n
  BY <1>1, <1>6, <1>10
<1> QED BY <1>6, <1>11

\* What the proofs about the operations ask of the connections.
PoolConnections == Grouped \subseteq Pool!Conns /\ "none" \notin Pool!Conns

\* The operations of a batch become arguments: all those of their counts.
LEMMA BatchOrder ==
    ASSUME PoolConfiguration, PoolConnections, ElementsInv, OrderInv, Pool!AppendBatch
    PROVE  OrderInv'
<1> DEFINE s == thread.taken
           batch == BatchOf(s)
           rest == RestOf(s)
<1>1. /\ s \in Seq(Pool!Index) /\ Pool!BatchSize(s) \in 0 .. Len(s)
      /\ thread'.taken = rest
      /\ queue' = Pool!FoldLeft(Pool!ProxyAppend, queue, batch)
      /\ ops' = [i \in Pool!Index |-> IF i \in Pool!Range(batch) THEN Pool!NoOp ELSE ops[i]]
      /\ UNCHANGED <<plan, issued, posted>>
  BY AppendBatchShape DEF ElementsInv
<1>2. /\ batch \in Seq(Pool!Index) /\ rest \in Seq(Pool!Index)
      /\ Len(rest) = Len(s) - Pool!BatchSize(s)
      /\ \A k \in 1 .. Len(rest) : rest[k] = s[Pool!BatchSize(s) + k]
      /\ Pool!Range(s) = Pool!Range(batch) \cup Pool!Range(rest)
      /\ Pool!Range(batch) \cap Pool!Range(rest) = {}
  <2>1. Distinct(s)
    BY DEF ElementsInv, Conserved
  <2>2. /\ batch \in Seq(Pool!Index) /\ rest \in Seq(Pool!Index)
        /\ Len(rest) = Len(s) - Pool!BatchSize(s)
        /\ \A k \in 1 .. Len(rest) : rest[k] = s[Pool!BatchSize(s) + k]
    <3> DEFINE n == Pool!BatchSize(s)
    <3>1. s \in Seq(Pool!Index) /\ n \in 0 .. Len(s)
      BY <1>1
    <3>2. batch = SubSeq(s, 1, n) /\ rest = SubSeq(s, n + 1, Len(s))
      BY DEF BatchOf, RestOf
    <3> HIDE DEF n, s, batch, rest
    <3>3. /\ batch \in Seq(Pool!Index) /\ rest \in Seq(Pool!Index)
          /\ Len(rest) = Len(s) - n /\ \A k \in 1 .. Len(rest) : rest[k] = s[n + k]
      BY <3>1, <3>2, ChainCut
    <3> QED BY <3>3 DEF n
  <2>3. /\ Pool!Range(s) = Pool!Range(batch) \cup Pool!Range(rest)
        /\ Pool!Range(batch) \cap Pool!Range(rest) = {}
    BY <1>1, <2>1, ChainCut DEF BatchOf, RestOf
  <2> QED BY <2>2, <2>3
<1>3. Together(ops, s)
  BY DEF OrderInv, Ordered
<1>4. ASSUME NEW i \in Pool!Range(batch), NEW j \in Pool!Range(rest)
      PROVE  ~SameGroup(ops, i, j)
  BY <1>1, <1>3, <1>4, BatchCut
<1>5. Together(ops, rest)
  <2> DEFINE n == Pool!BatchSize(s)
  <2>1. n \in 0 .. Len(s) /\ Len(rest) = Len(s) - n /\ \A k \in 1 .. Len(rest) : rest[k] = s[n + k]
    BY <1>1, <1>2
  <2> HIDE DEF n, rest, s
  <2> SUFFICES ASSUME NEW a \in 1 .. Len(rest), NEW b \in 1 .. Len(rest), NEW c \in 1 .. Len(rest),
                      a <= b, b <= c, SameGroup(ops, rest[a], rest[c])
               PROVE  SameGroup(ops, rest[a], rest[b])
    BY DEF Together
  <2>2. /\ n + a \in 1 .. Len(s) /\ n + b \in 1 .. Len(s) /\ n + c \in 1 .. Len(s)
        /\ n + a <= n + b /\ n + b <= n + c
    BY <1>1, <2>1
  <2>3. SameGroup(ops, s[n + a], s[n + c])
    BY <2>1
  <2>4. SameGroup(ops, s[n + a], s[n + b])
    BY <1>3, <2>2, <2>3 DEF Together
  <2> QED BY <2>1, <2>4
<1> HIDE DEF batch, rest
<1>6. Pool!Range(batch) \subseteq Pool!Index /\ Pool!Range(rest) \subseteq Pool!Index
      /\ posted \in Seq(Pool!Index) /\ Pool!Range(posted) \subseteq Pool!Index
  BY <1>2, ChainRange DEF ElementsInv, PoolShape
<1>7. ASSUME NEW i \in Pool!Range(batch)
      PROVE  i \notin Pool!Range(posted) /\ \A q \in Pool!Ranks : i \notin Pool!Range(plan[q])
  <2>1. i \in Pool!Range(s) /\ i \in Pool!Index /\ ops[i].conn \in Pool!Conns
    BY <1>2, <1>6 DEF OrderInv, Owned
  <2>2. Pool!RankOf(i) \in Pool!Ranks
    BY <2>1 DEF OrderInv, Owned
  <2>3. i \in Mine(Pool!RankOf(i))
    BY <2>1 DEF Mine
  <2>4. i \notin Pool!Range(posted) /\ i \notin Pool!Range(plan[Pool!RankOf(i)])
    BY <2>1, <2>2, <2>3 DEF ElementsInv, Conserved, InOne
  <2>5. \A q \in Pool!Ranks : i \in Pool!Range(plan[q]) => q = Pool!RankOf(i)
    BY DEF ElementsInv, Conserved, Mine
  <2> QED BY <2>4, <2>5
<1>8. /\ \A i \in Pool!Index : i \in Pool!Range(batch) => ops'[i] = Pool!NoOp
      /\ \A i \in Pool!Index : i \notin Pool!Range(batch) => ops'[i] = ops[i]
      /\ Pool!NoOp.conn \notin Pool!Conns
  BY <1>1 DEF Pool!NoOp, PoolConnections
<1>9. /\ \A i \in Pool!Range(posted) \cup Pool!Range(rest) : i \in Pool!Index /\ ops'[i] = ops[i]
      /\ \A q \in Pool!Ranks : \A i \in Pool!Range(plan[q]) : ops'[i] = ops[i]
  <2>1. \A q \in Pool!Ranks : Pool!Range(plan[q]) \subseteq Pool!Index
    BY DEF ElementsInv, Conserved, Mine
  <2> QED BY <1>2, <1>6, <1>7, <1>8, <2>1
<1>10. Pool!Ranks' = Pool!Ranks /\ Pool!Index' = Pool!Index /\ Pool!Conns' = Pool!Conns
       /\ \A j : Pool!RankOf(j)' = Pool!RankOf(j)
  BY DEF Pool!Ranks, Pool!Index, Pool!Conns, Pool!RankOf
<1>11. Owned'
  <2>1. ASSUME NEW i \in Pool!Index, ops'[i].conn \in Pool!Conns
        PROVE  /\ Pool!RankOf(i) \in Pool!Ranks /\ Owner[ops'[i].conn] = Pool!RankOf(i)
               /\ i \in Pool!Range(plan[Pool!RankOf(i)]) \cup Pool!Range(posted)
                            \cup Pool!Range(rest)
    <3>1. i \notin Pool!Range(batch) /\ ops'[i] = ops[i]
      BY <1>8, <2>1
    <3> QED BY <1>2, <2>1, <3>1 DEF OrderInv, Owned
  <2>2. \A q \in Pool!Ranks : \A i \in Pool!Range(plan[q]) : ops'[i].conn \in Pool!Conns
    BY <1>9 DEF OrderInv, Owned
  <2>3. \A i \in Pool!Range(posted) \cup Pool!Range(rest) : ops'[i].conn \in Pool!Conns
    BY <1>2, <1>9 DEF OrderInv, Owned
  <2> QED BY <1>1, <1>10, <2>1, <2>2, <2>3 DEF Owned
<1>12. Ordered'
  <2>1. ASSUME NEW q \in Pool!Ranks
        PROVE  /\ Sorted(ops', plan[q])
               /\ plan[q] # <<>> => ops'[plan[q][Len(plan[q])]].count = issued[q].count
    <3>1. plan[q] \in Seq(Pool!Index) /\ Sorted(ops, plan[q])
          /\ (plan[q] # <<>> => ops[plan[q][Len(plan[q])]].count = issued[q].count)
      BY DEF ElementsInv, PoolShape, OrderInv, Ordered
    <3>2. Sorted(ops', plan[q])
      BY <1>9, <3>1, SameOperations
    <3>3. plan[q] # <<>> => plan[q][Len(plan[q])] \in Pool!Range(plan[q])
      BY <3>1, ChainRange
    <3> QED BY <1>9, <3>1, <3>2, <3>3
  <2>2. ASSUME NEW q \in Pool!Ranks, NEW i \in Pool!Range(posted) \cup Pool!Range(rest),
               Pool!RankOf(i) = q
        PROVE  /\ ops'[i].count < issued[q].count
               /\ \A j \in Pool!Range(plan[q]) : ops'[i].count < ops'[j].count
    <3>1. /\ ops[i].count < issued[q].count
          /\ \A j \in Pool!Range(plan[q]) : ops[i].count < ops[j].count
      BY <1>2, <2>2 DEF OrderInv, Ordered, Left
    <3> QED BY <1>9, <3>1
  <2>3. Together(ops', posted) /\ Together(ops', rest)
    <3>1. Together(ops, posted)
      BY DEF OrderInv, Ordered
    <3> QED BY <1>2, <1>5, <1>6, <1>9, <3>1, SameOperations
  <2>4. \A i \in Pool!Range(rest), j \in Pool!Range(posted) : ~SameGroup(ops', i, j)
    BY <1>2, <1>9 DEF OrderInv, Ordered, SameGroup
  <2>5. plan' = plan /\ issued' = issued /\ posted' = posted /\ thread'.taken = rest
    BY <1>1
  <2> HIDE DEF s
  <2> QED BY <1>10, <2>1, <2>2, <2>3, <2>4, <2>5 DEF Ordered, Left, SameGroup
<1>13. ASSUME NEW c \in Pool!Conns, NEW b \in Pool!Range(batch), ops[b].conn = c
       PROVE  /\ \A i \in Pool!Index : ops'[i] # [conn |-> c, count |-> ops[b].count]
              /\ Owner[c] \in Pool!Ranks => ops[b].count < issued[Owner[c]].count
  <2>1. /\ b \in Pool!Range(s) /\ b \in Pool!Index
        /\ Pool!RankOf(b) \in Pool!Ranks /\ Owner[c] = Pool!RankOf(b)
    BY <1>2, <1>6, <1>13 DEF OrderInv, Owned
  <2>2. /\ ops[b].count < issued[Owner[c]].count
        /\ \A j \in Pool!Range(plan[Owner[c]]) : ops[b].count < ops[j].count
    BY <2>1 DEF OrderInv, Ordered, Left
  <2>3. ASSUME NEW i \in Pool!Index, ops'[i] = [conn |-> c, count |-> ops[b].count]
        PROVE  FALSE
    <3>1. ops'[i].conn = c /\ ops'[i].count = ops[b].count
      BY <2>3
    <3>2. i \notin Pool!Range(batch) /\ ops'[i] = ops[i]
      BY <1>8, <3>1
    <3>3. /\ Pool!RankOf(i) = Owner[c]
          /\ i \in Pool!Range(plan[Owner[c]]) \cup Pool!Range(posted) \cup Pool!Range(s)
      BY <3>1, <3>2 DEF OrderInv, Owned
    <3>4. SameGroup(ops, b, i)
      BY <2>1, <3>1, <3>2, <3>3 DEF SameGroup
    <3>5. CASE i \in Pool!Range(plan[Owner[c]])
      <4>1. ops[b].count \in Nat /\ ops[i].count = ops[b].count /\ ops[b].count < ops[i].count
        BY <2>1, <2>2, <3>1, <3>2, <3>5 DEF ElementsInv, PoolShape, PoolOps
      <4> QED BY ONLY <4>1
    <3>6. CASE i \in Pool!Range(posted)
      BY <2>1, <3>4, <3>6 DEF OrderInv, Ordered
    <3>7. CASE i \in Pool!Range(rest)
      BY <1>4, <3>4, <3>7
    <3> QED BY <1>2, <3>2, <3>3, <3>5, <3>6, <3>7
  <2> QED BY <2>2, <2>3
<1>14. Complete'
  <2> SUFFICES ASSUME NEW c \in Pool!Conns, NEW a \in Pool!Range(queue'[c])
               PROVE  /\ \A i \in Pool!Index : ops'[i] # [conn |-> c, count |-> a.count]
                      /\ Owner[c] \in Pool!Ranks => a.count < issued[Owner[c]].count
    BY <1>1, <1>10 DEF Complete
  <2>1. \/ a \in Pool!Range(queue[c])
        \/ \E b \in Pool!Range(batch) : ops[b].conn = c /\ a.count = ops[b].count
    <3>1. PoolShape
      BY DEF ElementsInv
    <3>2. \A x \in Pool!Range(Pool!FoldLeft(Pool!ProxyAppend, queue, batch)[c]) :
             \/ x \in Pool!Range(queue[c])
             \/ \E b \in Pool!Range(batch) : ops[b].conn = c /\ x.count = ops[b].count
      BY <1>2, <3>1, FoldArguments
    <3> QED BY <1>1, <3>2
  <2>2. CASE a \in Pool!Range(queue[c])
    <3>1. /\ \A i \in Pool!Index : ops[i] # [conn |-> c, count |-> a.count]
          /\ Owner[c] \in Pool!Ranks => a.count < issued[Owner[c]].count
      BY <2>2 DEF OrderInv, Complete
    <3>2. Pool!NoOp # [conn |-> c, count |-> a.count]
      BY <1>8
    <3> QED BY <1>8, <3>1, <3>2
  <2>3. CASE \E b \in Pool!Range(batch) : ops[b].conn = c /\ a.count = ops[b].count
    BY <1>13, <2>3
  <2> QED BY <2>1, <2>2, <2>3
<1> QED BY <1>11, <1>12, <1>14 DEF OrderInv

LEMMA OrderInit ==
    ASSUME PoolConnections, Pool!Init
    PROVE  OrderInv
<1>1. /\ \A i \in Pool!Index : ops[i].conn \notin Pool!Conns
      /\ \A r \in Pool!Ranks : plan[r] = <<>>
      /\ posted = <<>> /\ thread.taken = <<>> /\ \A c \in Pool!Conns : queue[c] = <<>>
  BY DEF Pool!Init, Pool!NoOp, PoolConnections
<1>2. Pool!Range(<<>>) = {}
  BY ChainEmpty
<1>3. Owned
  BY <1>1, <1>2 DEF Owned
<1>4. Ordered
  BY <1>1, <1>2 DEF Ordered, Sorted, Together
<1>5. Complete
  BY <1>1, <1>2 DEF Complete
<1> QED BY <1>3, <1>4, <1>5 DEF OrderInv

LEMMA OrderStep ==
    ASSUME PoolConfiguration, PoolConnections, ElementsInv, OrderInv, [Pool!Next]_Pool!vars
    PROVE  OrderInv'
<1>1. ASSUME NEW r \in Pool!Ranks, NEW c \in Pool!Conns,
             NEW k \in issued[r].count .. issued[r].count + 1, Pool!AppendOp(r, c, k)
      PROVE  OrderInv'
  BY <1>1, AppendOpOrder
<1>2. ASSUME NEW r \in Pool!Ranks, Pool!PostFull(r)
      PROVE  OrderInv'
  BY <1>2, PostFullOrder
<1>3. ASSUME NEW r \in Pool!Ranks, Pool!Start(r)
      PROVE  OrderInv'
  BY <1>3, StartOrder
<1>4. CASE Pool!Stop
  <2>1. UNCHANGED <<ops, plan, issued, posted, queue>> /\ thread'.taken = thread.taken
    BY <1>4, NotifiedShape DEF ElementsInv, Pool!Stop, Carries
  <2> QED BY <2>1, SameOrder
<1>5. ASSUME NEW done \in SUBSET Pool!Conns, Pool!Sweep(done)
      PROVE  OrderInv'
  BY <1>5, SweepOrder DEF ElementsInv
<1>6. CASE Pool!AppendBatch
  BY <1>6, BatchOrder
<1>7. CASE Pool!SwapFreed
  <2>1. Pool!Returning # {}
    BY <1>7 DEF Pool!SwapFreed, ElementsInv, Stages
  <2>2. UNCHANGED <<ops, plan, issued, posted, queue>> /\ thread'.taken = thread.taken
    BY <1>7, <2>1, SwapFreedShape DEF ElementsInv
  <2> QED BY <2>2, SameOrder
<1>8. CASE Goes
  <2>1. UNCHANGED <<ops, plan, issued, posted, queue>> /\ thread'.taken = thread.taken
    BY <1>8 DEF Goes
  <2> QED BY <2>1, SameOrder
<1>9. CASE Takes
  <2>1. /\ thread.taken = <<>> /\ posted' = <<>> /\ thread'.taken = posted
        /\ UNCHANGED <<ops, plan, issued, queue>>
    BY <1>9, TakeShape DEF Takes, ElementsInv
  <2> QED BY <2>1, TakeOrder
<1> QED BY <1>1, <1>2, <1>3, <1>4, <1>5, <1>6, <1>7, <1>8, <1>9, PoolCases

LEMMA OrderInvariant ==
    ASSUME PoolConfiguration, PoolConnections
    PROVE  Pool!Spec => [](ElementsInv /\ OrderInv)
<1>1. Pool!Init => ElementsInv /\ OrderInv
  BY ElementsInit, OrderInit
<1>2. ElementsInv /\ OrderInv /\ [Pool!Next]_Pool!vars => (ElementsInv /\ OrderInv)'
  BY ElementsStep, OrderStep
<1> QED BY <1>1, <1>2, PTL DEF Pool!Spec

(* For any number of ranks, elements, connections and operations: when an  *)
(* argument of a shared connection runs, no operation of its count is left *)
(* in the pool, so that ProxyAppend never meets a running argument of the  *)
(* count it adds to.                                                       *)
THEOREM RunningHasAll ==
    ASSUME PoolConfiguration, PoolConnections
    PROVE  Pool!Spec => []Pool!RunningComplete
<1>1. OrderInv => Pool!RunningComplete
  BY DEF OrderInv, Complete, Pool!RunningComplete, PoolConnections
<1> QED BY <1>1, OrderInvariant, PTL

-----------------------------------------------------------------------------
\* When nothing is left to run, all that was taken has become arguments.
EndInv ==
    /\ thread.at \in {"load", "swap", "loop"} /\ Pool!Idle => thread.taken = <<>>
    /\ thread.at = "gone" => Pool!Idle /\ thread.taken = <<>>

LEMMA SameIdle ==
    ASSUME queue' = queue
    PROVE  Pool!Idle' = Pool!Idle
  BY DEF Pool!Idle, Pool!Conns

\* A step that leaves the arguments and what was taken, and may wake the thread.
LEMMA AwayEnd ==
    ASSUME EndInv, queue' = queue, thread'.taken = thread.taken,
           thread'.at = thread.at \/ (thread.at = "wait" /\ thread'.at = "woken")
    PROVE  EndInv'
<1>1. Pool!Idle' = Pool!Idle
  BY SameIdle
<1> QED BY <1>1 DEF EndInv

LEMMA RankEnd ==
    ASSUME PoolConfiguration, ElementsInv, EndInv, NEW r \in Pool!Ranks,
           \/ \E c \in Pool!Conns :
                 \E k \in issued[r].count .. issued[r].count + 1 : Pool!AppendOp(r, c, k)
           \/ Pool!PostFull(r) \/ Pool!Start(r)
    PROVE  EndInv'
<1>1. PoolShape
  BY DEF ElementsInv
<1>2. ASSUME NEW c \in Pool!Conns, NEW k \in issued[r].count .. issued[r].count + 1,
             Pool!AppendOp(r, c, k)
      PROVE  EndInv'
  <2>1. UNCHANGED <<thread, queue>>
    BY <1>1, <1>2, AppendOpShape
  <2> QED BY <2>1, AwayEnd
<1>3. ASSUME NEW chain \in Seq(Pool!Index), Pool!Post(chain), queue' = queue
      PROVE  EndInv'
  <2>1. /\ thread'.taken = thread.taken
        /\ thread'.at = thread.at \/ (thread.at = "wait" /\ thread'.at = "woken")
    BY <1>1, <1>3, PostShape DEF Carries
  <2> QED BY <1>3, <2>1, AwayEnd
<1>4. CASE Pool!PostFull(r)
  <2> DEFINE n == Pool!ToSend(plan[r])
  <2>1. /\ plan[r] # <<>> /\ plan[r] \in Seq(Pool!Index)
        /\ Pool!Post(SubSeq(plan[r], 1, n)) /\ queue' = queue
    BY <1>1, <1>4, PostFullShape DEF PoolShape
  <2>2. n \in 0 .. Len(plan[r]) - 1
    BY <2>1, SendsBeginning
  <2> HIDE DEF n
  <2>3. n \in 0 .. Len(plan[r])
    BY <2>1, <2>2
  <2>4. SubSeq(plan[r], 1, n) \in Seq(Pool!Index)
    BY <2>1, <2>3, ChainCut
  <2> QED BY <1>3, <2>1, <2>4
<1>5. CASE Pool!Start(r)
  <2>1. plan[r] \in Seq(Pool!Index) /\ Pool!Post(plan[r]) /\ queue' = queue
    BY <1>1, <1>5, StartShape DEF Pool!Start
  <2> QED BY <1>3, <2>1
<1> QED BY <1>2, <1>4, <1>5

\* Of what was taken, the first batch becomes arguments: at least one, if any
\* operation is left.
LEMMA BatchEnd ==
    ASSUME PoolConfiguration, PoolConnections, ElementsInv, OrderInv, Pool!AppendBatch
    PROVE  EndInv'
<1> DEFINE s == thread.taken
           batch == BatchOf(s)
<1>1. /\ PoolShape /\ s \in Seq(Pool!Index) /\ Pool!BatchSize(s) \in 0 .. Len(s)
      /\ batch \in Seq(Pool!Index)
      /\ thread'.at = "load" /\ thread'.taken = RestOf(s)
      /\ queue' = Pool!FoldLeft(Pool!ProxyAppend, queue, batch)
  BY AppendBatchShape DEF ElementsInv
<1>2. /\ Len(batch) = Pool!BatchSize(s) /\ Pool!Range(batch) \subseteq Pool!Range(s)
      /\ Len(RestOf(s)) = Len(s) - Pool!BatchSize(s) /\ RestOf(s) \in Seq(Pool!Index)
  BY <1>1, ChainCut DEF BatchOf, RestOf
<1> HIDE DEF batch
<1>3. CASE s = <<>>
  <2>1. Len(RestOf(s)) = 0
    BY <1>1, <1>2, <1>3
  <2>2. RestOf(s) = <<>>
    BY <1>2, <2>1
  <2> QED BY <1>1, <2>2 DEF EndInv
<1>4. CASE s # <<>>
  <2>1. Pool!BatchSize(s) # 0
    BY <1>1, <1>4, BatchBeginning
  <2>2. Len(batch) \in 1 .. Len(batch) /\ batch # <<>>
    <3>1. Len(batch) # 0 /\ Len(batch) \in Nat
      BY <1>1, <1>2, <2>1
    <3> QED BY <3>1
  <2> DEFINE c == ops[batch[Len(batch)]].conn
  <2>3. batch[Len(batch)] \in Pool!Range(batch)
    BY <1>1, <2>2, ChainRange
  <2>4. c \in Pool!Conns
    BY <1>2, <2>3 DEF OrderInv, Owned
  <2>5. Pool!FoldLeft(Pool!ProxyAppend, queue, batch)[c] # <<>>
    <3> HIDE DEF s
    <3> QED BY <1>1, <2>2, <2>4, FoldArguments
  <2>6. ~Pool!Idle'
    <3>1. Pool!Conns' = Pool!Conns
      BY DEF Pool!Conns
    <3>2. c \in Pool!Conns /\ queue'[c] # <<>>
      BY <1>1, <2>4, <2>5
    <3> HIDE DEF c
    <3> QED BY <3>1, <3>2 DEF Pool!Idle
  <2> QED BY <1>1, <2>6 DEF EndInv
<1> QED BY <1>3, <1>4

LEMMA GoesEnd ==
    ASSUME EndInv, Goes
    PROVE  EndInv'
<1>1. Pool!Idle' = Pool!Idle
  BY SameIdle DEF Goes
<1> QED BY <1>1 DEF EndInv, Goes

LEMMA EndStep ==
    ASSUME PoolConfiguration, PoolConnections, ElementsInv, OrderInv, EndInv,
           [Pool!Next]_Pool!vars
    PROVE  EndInv'
<1>1. ASSUME NEW r \in Pool!Ranks,
             \/ \E c \in Pool!Conns :
                   \E k \in issued[r].count .. issued[r].count + 1 : Pool!AppendOp(r, c, k)
             \/ Pool!PostFull(r) \/ Pool!Start(r)
      PROVE  EndInv'
  BY <1>1, RankEnd
<1>2. CASE Pool!Stop
  <2>1. /\ queue' = queue /\ thread'.taken = thread.taken
        /\ thread'.at = thread.at \/ (thread.at = "wait" /\ thread'.at = "woken")
    BY <1>2, NotifiedShape DEF ElementsInv, Pool!Stop, Carries
  <2> QED BY <2>1, AwayEnd
<1>3. ASSUME NEW done \in SUBSET Pool!Conns, Pool!Sweep(done)
      PROVE  EndInv'
  <2>1. thread'.at = "get" \/ (thread'.at = "loop" /\ \E c \in Pool!Conns : queue'[c] # <<>>)
    BY <1>3, SweepShape DEF ElementsInv
  <2>2. thread'.at = "get" \/ (thread'.at = "loop" /\ ~Pool!Idle')
    BY <2>1 DEF Pool!Idle, Pool!Conns
  <2> QED BY <2>2 DEF EndInv
<1>4. CASE Pool!AppendBatch
  BY <1>4, BatchEnd
<1>5. CASE Pool!SwapFreed
  <2>1. Pool!Returning # {}
    BY <1>5 DEF Pool!SwapFreed, ElementsInv, Stages
  <2>2. /\ queue' = queue /\ thread'.taken = thread.taken
        /\ thread.at = "swap" /\ thread'.at \in {"load", "swap"}
    BY <1>5, <2>1, SwapFreedShape DEF ElementsInv
  <2>3. Pool!Idle' = Pool!Idle
    BY <2>2, SameIdle
  <2> QED BY <2>2, <2>3 DEF EndInv
<1>6. CASE Goes
  BY <1>6, GoesEnd
<1>7. CASE Takes
  <2>1. thread'.at = "batch"
    BY <1>7, TakeShape DEF Takes, ElementsInv
  <2> QED BY <2>1 DEF EndInv
<1> QED BY <1>1, <1>2, <1>3, <1>4, <1>5, <1>6, <1>7, PoolCases

(* For any number of ranks, elements, connections and operations: the      *)
(* progress thread ends for a stop only when the arguments of all that it  *)
(* took are done and the elements given back, also when it was woken for   *)
(* no reason.                                                              *)
THEOREM StoppedHasFinished ==
    ASSUME PoolConfiguration, PoolConnections
    PROVE  Pool!Spec => []Pool!StoppedFinishes
<1>1. Pool!Init => ElementsInv /\ OrderInv /\ EndInv
  <2>1. Pool!Init => EndInv
    BY DEF Pool!Init, EndInv
  <2> QED BY <2>1, ElementsInit, OrderInit
<1>2. ElementsInv /\ OrderInv /\ EndInv /\ [Pool!Next]_Pool!vars
          => (ElementsInv /\ OrderInv /\ EndInv)'
  BY ElementsStep, OrderStep, EndStep
<1>3. ElementsInv /\ EndInv => Pool!StoppedFinishes
  BY DEF ElementsInv, Stages, EndInv, Pool!StoppedFinishes
<1> QED BY <1>1, <1>2, <1>3, PTL DEF Pool!Spec
=============================================================================
