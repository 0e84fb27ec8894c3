---------------------------- MODULE ContractAbs ----------------------------
(***************************************************************************)
(* What the contract scheduler promises the components built on it: a      *)
(* contract runs only when it was asked to, never twice at a time, and     *)
(* every request is served by a run that starts after it was made, unless  *)
(* the contract is torn down or the process aborts.                        *)
(***************************************************************************)
CONSTANT Contracts

VARIABLES
    requested,  \* contracts with a request no run has consumed yet
    running,    \* contracts being run
    dead        \* the process has aborted

vars == <<requested, running, dead>>

Init == requested = {} /\ running = {} /\ dead = FALSE

(* schedule(): a second request before the first is consumed is fatal. *)
Request(c) ==
    /\ ~dead /\ c \notin requested
    /\ requested' = requested \cup {c}
    /\ UNCHANGED <<running, dead>>

(* A pool thread claims the contract, consuming its request. *)
Start(c) ==
    /\ ~dead /\ c \in requested /\ c \notin running
    /\ requested' = requested \ {c}
    /\ running' = running \cup {c}
    /\ UNCHANGED dead

(* The worker returns; a request made during the run stays. *)
End(c) ==
    /\ ~dead /\ c \in running
    /\ running' = running \ {c}
    /\ UNCHANGED <<requested, dead>>

(* The releaser returns; the slot forgets any request. *)
TearDown(c) ==
    /\ ~dead /\ c \in running
    /\ running' = running \ {c}
    /\ requested' = requested \ {c}
    /\ UNCHANGED dead

Abort == ~dead /\ dead' = TRUE /\ UNCHANGED <<requested, running>>

Next == Abort \/ \E c \in Contracts : Request(c) \/ Start(c) \/ End(c) \/ TearDown(c)

Safety == Init /\ [][Next]_vars

Spec == Safety /\ \A c \in Contracts : WF_vars(Start(c))
=============================================================================
