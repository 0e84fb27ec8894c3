------------------------------ MODULE MCParts ------------------------------
(***************************************************************************)
(* Six parts  that share no state, checked side by side in one run: a      *)
(* behaviour is a behaviour of one of them (which), and the others stay at *)
(* one of their initial states.                                            *)
(***************************************************************************)
EXTENDS Bridge, SignalTree, Codecs, Storage, Workers, Migration, TLC

VARIABLE which

\* The initial states of a part that does not move: one of them.
StillTree    == ready = {}
StillBridge  == lang = "lua"
StillStorage == ~hasDb /\ ~redis /\ ~elastic
StillWorkers ==
    /\ kind = "echo" /\ offers = Resources
    /\ input = [j \in Jobs |-> CHOOSE i \in SomeInputs("echo") : TRUE]

PartsInit ==
    /\ which \in {"tree", "codecs", "bridge", "storage", "workers", "migration"}
    /\ TreeInit      /\ (which = "tree" \/ StillTree)
    /\ CodecInit
    /\ BridgeInit    /\ (which = "bridge" \/ StillBridge)
    /\ StorageInit   /\ (which = "storage" \/ StillStorage)
    /\ WorkersInit   /\ (which = "workers" \/ StillWorkers)
    /\ MigrationInit

PartsNext ==
    /\ UNCHANGED which
    /\ \/ /\ which = "tree" /\ TreeNext
          /\ UNCHANGED <<codecVars, bridgeVars, storageVars, workersVars, migrationVars>>
       \/ /\ which = "codecs" /\ CodecNext
          /\ UNCHANGED <<treeVars, bridgeVars, storageVars, workersVars, migrationVars>>
       \/ /\ which = "bridge" /\ BridgeNext
          /\ UNCHANGED <<treeVars, codecVars, storageVars, workersVars, migrationVars>>
       \/ /\ which = "storage" /\ StorageNext
          /\ UNCHANGED <<treeVars, codecVars, bridgeVars, workersVars, migrationVars>>
       \/ /\ which = "workers" /\ WorkersNext
          /\ UNCHANGED <<treeVars, codecVars, bridgeVars, storageVars, migrationVars>>
       \/ /\ which = "migration" /\ MigrationNext
          /\ UNCHANGED <<treeVars, codecVars, bridgeVars, storageVars, workersVars>>

PartsSpec == PartsInit /\ [][PartsNext]_
    <<which, treeVars, codecVars, bridgeVars, storageVars, workersVars, migrationVars>>
-----------------------------------------------------------------------------
PartsSymmetry == Permutations(Keys) \cup Permutations(Hosts)

\* Which contracts are ready: one in each of one or two branches, or any of
\* one leaf.
SomeBranches == {{<<0, b, 0>> : b \in S} : S \in {{x, y} : x, y \in Bytes}}
SomeLeaf     == {{<<0, 2, i>> : i \in S} : S \in SUBSET Bits}
SomeReady    == SomeBranches \cup SomeLeaf
LeafIds      == {<<0, 2, i>> : i \in Bits}

\* Characters the escapes and the brace matcher tell apart, and two they do not.
SomeChars == {"quote", "dquote", "bslash", "nl", "tab", "ctl", "n", "{", "}", "src", ":"}

\* Items of a cron field: every form of the grammar, and two outside it.
Item(k, a, b) == [kind |-> k, a |-> a, b |-> b]
SomeItems ==
    {Item("star", "", ""), Item("empty", "", ""), Item("open", "1", "")}
    \cup {Item("step", a, "") : a \in {"0", "2", "9"}}
    \cup {Item("num", a, "") : a \in {"0", "1", "4", "5"}}
    \cup {Item("range", a, b) : a \in {"0", "2", "6"}, b \in {"1", "3", "9"}}
SomeRanges == <<<<1, 4>>, <<0, 1>>>>
=============================================================================
