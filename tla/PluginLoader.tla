---------------------------- MODULE PluginLoader ----------------------------
(***************************************************************************)
(* How NCCL finds, shares and unloads network plugins (src/plugin/net.cc). *)
(* The external plugins named by NCCL_NET_PLUGIN come first, the internal  *)
(* ones last.  Every communicator with resources of its own walks through  *)
(* them under netPluginMutex until one accepts it; a communicator split    *)
(* from another with shared resources inherits the plugin, and the last    *)
(* one of such a family lets go of it.                                     *)
(*                                                                         *)
(* Externals lists the configured files, Installed the files that can be   *)
(* opened, NetName the network each implements; a communicator may ask for *)
(* one by name (NCCL_NET, or its configuration) or take any.  DeviceOk are *)
(* the plugins whose device version NCCL accepts; MaxRefused bounds how    *)
(* often another one is tried.  InitialRefs is NCCL_NET_PLUGIN_REF_COUNT.  *)
(* An id of Comms is one communicator, used once.  The collNet half of a   *)
(* plugin is left out: it follows the net half and has no count.           *)
(***************************************************************************)
EXTENDS Integers, FiniteSets, SequencesExt

CONSTANTS Comms, Externals, Internals, DefaultFile, Installed, NetName, AnyNet,
          DeviceOk, InitialRefs, MaxRefused, NoFile, Nobody

VARIABLES
    libs,    \* netPluginLibs
    holder,  \* the communicator that holds netPluginMutex
    at,      \* pluginIndex of the loop in ncclNetInit
    owner,   \* owner[c]: whose shared resources c uses
    plugin,  \* plugin[c]: netPluginIndex, 0 if none
    seen,    \* seen[c]: c was created before
    want     \* config.netName of the holder

vars == <<libs, holder, at, owner, plugin, seen, want>>

Plugins == Externals \o Internals
Index == DOMAIN Plugins
External(i) == i <= Len(Externals)
Networks == Range(NetName) \cup {AnyNet}
Usable == {"InitReady", "Enabled"}
Users(i) == {owner[c] : c \in {d \in Comms : owner[d] # Nobody /\ plugin[d] = i}}
Family(c) == {d \in Comms : owner[d] = owner[c]}

TypeOK ==
    /\ libs \in [Index -> [name : Range(Plugins) \cup {NoFile}, open : Installed \cup {NoFile},
                           state : Usable \cup {"LoadReady", "LoadFailed", "Disabled"},
                           refs : -MaxRefused .. Cardinality(Comms) + InitialRefs]]
    /\ holder \in Comms \cup {Nobody}
    /\ at \in 1 .. Len(Plugins) + 1
    /\ owner \in [Comms -> Comms \cup {Nobody}]
    /\ plugin \in [Comms -> Index \cup {0}]
    /\ seen \in [Comms -> BOOLEAN]
    /\ want \in Networks

\* initPluginLibsOnceFunc.
Init ==
    /\ libs = [i \in Index |->
          [name |-> Plugins[i], open |-> IF External(i) THEN NoFile ELSE Plugins[i],
           state |-> IF External(i) THEN "LoadReady" ELSE "InitReady",
           refs |-> IF External(i) THEN InitialRefs ELSE 0]]
    /\ holder = Nobody
    /\ at = 1
    /\ owner = [c \in Comms |-> Nobody]
    /\ plugin = [c \in Comms |-> 0]
    /\ seen = [c \in Comms |-> FALSE]
    /\ want = AnyNet

-----------------------------------------------------------------------------
\* The file openPluginLib tries for a name; an unloaded plugin has none left.
FileOf(name) == IF name = NoFile THEN DefaultFile ELSE name

Load(lib) ==
    IF FileOf(lib.name) \in Installed
    THEN [lib EXCEPT !.open = FileOf(lib.name), !.state = "InitReady"]
    ELSE [lib EXCEPT !.state = "LoadFailed"]

\* ncclNetPluginUnload clears the record with memset.
Unload(lib) ==
    IF lib.open # NoFile /\ lib.refs = 0
    THEN [name |-> NoFile, open |-> NoFile, state |-> "LoadReady", refs |-> 0]
    ELSE lib

Finalized(i, lib) ==
    LET dropped == [lib EXCEPT !.refs = @ - 1]
    IN IF External(i) THEN Unload(dropped) ELSE dropped

\* Mutant: the plugin a communicator uses is not counted.
Counted_mutant(lib) == lib

Counted(lib) == [lib EXCEPT !.refs = @ + 1]

DisableOthers(i, all) ==
    [j \in Index |-> IF External(i) /\ External(j) /\ j # i
                     THEN [all[j] EXCEPT !.state = "Disabled"] ELSE all[j]]

-----------------------------------------------------------------------------
Enter(c) ==
    /\ ~seen[c] /\ holder = Nobody
    /\ holder' = c
    /\ want' \in Networks
    /\ at' = 1
    /\ seen' = [seen EXCEPT ![c] = TRUE]
    /\ UNCHANGED <<libs, owner, plugin>>

\* The plugin at the index, loaded if that is due.
Candidate == IF External(at) /\ libs[at].state = "LoadReady" THEN Load(libs[at]) ELSE libs[at]

Eligible(lib) ==
    lib.state \in Usable /\ want \in {AnyNet, NetName[lib.open]}

Release == holder' = Nobody /\ want' = AnyNet /\ at' = 1

NextIndex == at' = at + 1 /\ UNCHANGED <<holder, owner, plugin, seen, want>>

Skip(c) ==
    /\ holder = c /\ at \in Index
    /\ ~Eligible(Candidate)
    /\ libs' = [libs EXCEPT ![at] = Candidate]
    /\ NextIndex

\* The plugin's init fails, or it has no device.
InitFails(c) ==
    /\ holder = c /\ at \in Index
    /\ Eligible(Candidate)
    /\ libs' = [libs EXCEPT ![at] = [Candidate EXCEPT !.state = "Disabled"]]
    /\ NextIndex

Refuse(c) ==
    /\ holder = c /\ at \in Index
    /\ Eligible(Candidate) /\ Candidate.open \notin DeviceOk
    /\ libs[at].refs > -MaxRefused
    /\ libs' = [libs EXCEPT ![at] = Finalized(at, [Candidate EXCEPT !.state = "Enabled"])]
    /\ NextIndex

Assign(c) ==
    /\ holder = c /\ at \in Index
    /\ Eligible(Candidate) /\ Candidate.open \in DeviceOk
    /\ libs' = DisableOthers(at,
          [libs EXCEPT ![at] = Counted([Candidate EXCEPT !.state = "Enabled"])])
    /\ owner' = [owner EXCEPT ![c] = c]
    /\ plugin' = [plugin EXCEPT ![c] = at]
    /\ Release
    /\ UNCHANGED seen

\* No plugin is left: ncclNetInit fails, and with it the communicator.
GiveUp(c) ==
    /\ holder = c /\ at \notin Index
    /\ Release
    /\ UNCHANGED <<libs, owner, plugin, seen>>

\* ncclCommSplit with shared resources: ncclNetInitFromParent.
Inherit(c, parent) ==
    /\ ~seen[c] /\ owner[parent] # Nobody
    /\ seen' = [seen EXCEPT ![c] = TRUE]
    /\ owner' = [owner EXCEPT ![c] = owner[parent]]
    /\ plugin' = [plugin EXCEPT ![c] = plugin[parent]]
    /\ UNCHANGED <<libs, holder, at, want>>

\* Mutant: every communicator of a family lets go of the plugin.
LastOfFamily_mutant(c) == TRUE

LastOfFamily(c) == Family(c) = {c}

\* commFree; ncclNetFinalize takes the mutex.
Destroy(c) ==
    /\ owner[c] # Nobody
    /\ LastOfFamily(c) => holder = Nobody
    /\ libs' = IF LastOfFamily(c)
               THEN [libs EXCEPT ![plugin[c]] = Finalized(plugin[c], @)] ELSE libs
    /\ owner' = [owner EXCEPT ![c] = Nobody]
    /\ plugin' = [plugin EXCEPT ![c] = 0]
    /\ UNCHANGED <<holder, at, seen, want>>

Next ==
    \E c \in Comms :
        \/ Enter(c) \/ Skip(c) \/ InitFails(c) \/ Refuse(c) \/ Assign(c) \/ GiveUp(c)
        \/ Destroy(c)
        \/ \E p \in Comms : Inherit(c, p)

Spec == Init /\ [][Next]_vars

-----------------------------------------------------------------------------
(* No plugin is unloaded under a communicator, whichever of a family goes  *)
(* first.                                                                  *)
LoadedWhileUsed == \A c \in Comms : owner[c] # Nobody => libs[plugin[c]].open # NoFile

(* The reference count of a plugin NCCL accepts is the number of families  *)
(* that use it, whatever failed on the way.                                *)
RefsCountUsers ==
    \A i \in Index :
        libs[i].open \in DeviceOk =>
            libs[i].refs = Cardinality(Users(i))
                           + IF libs[i].name = Plugins[i] /\ External(i) THEN InitialRefs ELSE 0
=============================================================================
