---------------------------- MODULE SignalTree -----------------------------
(***************************************************************************)
(* The order in which one pool thread visits ready contracts: SignalTree's *)
(* next(), which walks the routers, picks a branch of a router with        *)
(* calculate_bias() and a bit of the branch's leaf with a rotating cursor. *)
(* The bias word belongs to the polling thread and is threaded through     *)
(* every call; the leaves' counters and bits are read sequentially here    *)
(* (module ContractGroup has the races on them).                           *)
(*                                                                         *)
(* A contract id is <<router, branch, bit>>.  The packed 64-bit router     *)
(* value is the set of its nonzero bytes; masks and shifts are modelled,   *)
(* because where a byte ends up is what the algorithm is about.            *)
(***************************************************************************)
EXTENDS Integers, Sequences, FiniteSets

CONSTANTS
    NumRouters,     \* MaxCapacity / 512
    LeafBits,       \* ids per leaf (64)
    ReadySets,      \* the sets of contracts that may be ready at the start
    Churn,          \* whether contracts become ready and idle between polls
    Watched         \* the contracts whose service is checked

ASSUME SignalTreeAssumption ==
    NumRouters \in Nat \ {0} /\ LeafBits \in Nat \ {0} /\ Churn \in BOOLEAN

Routers == 0..(NumRouters - 1)
Bytes == 0..7
Bits == 0..(LeafBits - 1)
Ids == Routers \X Bytes \X Bits
None == <<-1, -1, -1>>

VARIABLES
    ready,      \* ids whose leaf bit is set
    bias,       \* worker_loop()'s dynamic_bias: flags 63..60 and the low-bits cursor
    picked,     \* what the last call of next() returned
    waits       \* watched id -> polls that passed it over since its leaf is all that is ready

treeVars == <<ready, bias, picked, waits>>

(* The flag bits next() and calculate_bias() use. *)
Flags == 60..63

----------------------------------------------------------------------------
(* A packed router value, as the set of its bytes that are not zero. *)
Leaf(r, b) == {i \in Bits : <<r, b, i>> \in ready}
RouterValue(r) == {b \in Bytes : Leaf(r, b) # {}}
ShiftRight(v, n) == {b - n : b \in {c \in v : c >= n}}

(* Node::calculate_bias(): at each level, whether it goes right.  The left *)
(* half is handed down already shifted, together with a base_shift that    *)
(* counts the shift again.                                                 *)
RECURSIVE Turns(_, _, _, _, _)
Turns(val, flags, flag, blocks, baseShift) ==
    LET lower == {b \in Bytes : baseShift <= b /\ b < baseShift + blocks}
        rightHalf == val \cap lower
        leftHalf == ShiftRight(val \ lower, blocks)
        right == (flags[flag] /\ rightHalf # {}) \/ leftHalf = {}
    IN IF blocks = 1 THEN <<right>>
       ELSE <<right>> \o Turns(IF right THEN rightHalf ELSE leftHalf, flags, flag - 1,
                               blocks \div 2, IF right THEN baseShift ELSE baseShift + blocks)

(* The branch those turns lead to, and the flags they leave behind: each   *)
(* level's flag now prefers the half it did not take.                      *)
BranchIndex(turns) ==
    (IF turns[1] THEN 0 ELSE 4) + (IF turns[2] THEN 0 ELSE 2) + (IF turns[3] THEN 0 ELSE 1)

FlagsAfter(flags, turns) ==
    [f \in Flags |-> IF f = 63 THEN ~flags[f] ELSE ~turns[63 - f]]

(* The branch the polling thread would like of router r. *)
Preferred(r) == BranchIndex(Turns(RouterValue(r), bias.flags, 62, 4, 0))

(* Mutant: the scan starts one past the cursor. *)
BitFound_Skips(leaf) ==
    {i \in leaf : \A j \in leaf :
        (i - bias.cursor - 1) % LeafBits <= (j - bias.cursor - 1) % LeafBits}

(* Node<false>::select_child_index(): the first set bit from the cursor on *)
(* (at most one).                                                          *)
BitFound(leaf) ==
    {i \in leaf : \A j \in leaf : (i - bias.cursor) % LeafBits <= (j - bias.cursor) % LeafBits}

(* Where the next scan starts. *)
Advance(bit) == (bit + 1) % LeafBits

(* Node<true>::select_child_index(): the preferred branch, or the first    *)
(* other branch with a nonzero count when its leaf is empty.               *)
BranchFound(r, idx) ==
    IF Leaf(r, idx) # {} THEN {idx}
    ELSE {b \in RouterValue(r) : \A c \in RouterValue(r) : b <= c}

(* SignalTree::next() walks the routers from the end the top flag prefers  *)
(* and takes the first that has anything.                                  *)
RouterOrder(r) == IF bias.flags[63] THEN NumRouters - 1 - r ELSE r

RouterFound ==
    LET busy == {r \in Routers : RouterValue(r) # {}}
    IN {r \in busy : \A q \in busy : RouterOrder(r) <= RouterOrder(q)}

----------------------------------------------------------------------------
TreeInit ==
    /\ ready \in ReadySets
    /\ bias = [flags |-> [f \in Flags |-> FALSE], cursor |-> 0]
    /\ picked = None
    /\ waits = [id \in Watched |-> 0]

(* The watched contracts a poll passed over, in a leaf that is alone ready. *)
Alone(id) == id \in ready /\ \A o \in ready : o[1] = id[1] /\ o[2] = id[2]
Passed(got) == waits' = [id \in Watched |-> IF Alone(id) /\ got # id THEN waits[id] + 1 ELSE 0]

(* One call of next() that finds something.  The contract it returns       *)
(* reschedules itself before the thread polls again, as receivers, senders *)
(* and poll slots do.                                                      *)
PollHit ==
    /\ \E r \in RouterFound :
       \E turns \in {Turns(RouterValue(r), bias.flags, 62, 4, 0)} :
       \E b \in BranchFound(r, BranchIndex(turns)) :
       \E i \in BitFound(Leaf(r, b)) :
           /\ picked' = <<r, b, i>>
           /\ bias' = [flags |-> FlagsAfter(bias.flags, turns), cursor |-> Advance(i)]
    /\ Passed(picked')
    /\ UNCHANGED ready

(* One call of next() that finds nothing. *)
PollMiss ==
    /\ \A r \in RouterFound : BranchFound(r, Preferred(r)) = {}
    /\ picked' = None
    /\ Passed(None)
    /\ UNCHANGED <<ready, bias>>

Poll == PollHit \/ PollMiss

(* SignalTree::schedule() and deschedule() between two polls. *)
Become(id) ==
    /\ Churn /\ id \notin ready
    /\ ready \cup {id} \in ReadySets
    /\ ready' = ready \cup {id}
    /\ waits' = [w \in Watched |-> 0]
    /\ UNCHANGED <<bias, picked>>

Leave(id) ==
    /\ Churn /\ id \in ready
    /\ ready' = ready \ {id}
    /\ waits' = [w \in Watched |-> 0]
    /\ UNCHANGED <<bias, picked>>

TreeNext == Poll \/ \E id \in Ids : Become(id) \/ Leave(id)

TreeSpec == TreeInit /\ [][TreeNext]_treeVars

----------------------------------------------------------------------------
(* A poll hands back a contract that is ready, and finds one whenever one  *)
(* is ready, whatever the bias: the fallback scan repairs every wrong      *)
(* branch index.  (Steps other than a poll change ready.)                  *)
FindsReady == ready' = ready => IF ready = {} THEN picked' = None ELSE picked' \in ready

(* The rotating cursor reaches every contract of a leaf that stays ready   *)
(* within one turn of the leaf, while nothing outside the leaf is ready.   *)
LeafIsRotated == \A id \in Watched : waits[id] < LeafBits

(* next() serves the tree: it finds what is ready and rotates through it.  *)
TreeServes == [][FindsReady /\ LeafIsRotated']_treeVars
=============================================================================
