---------------------------- MODULE DurableStore ----------------------------
(***************************************************************************)
(* What a store that saves itself to a file promises in periodic mode,     *)
(* whatever the file and the savers look like: the disk holds nothing or   *)
(* one complete list that was taken from the store between two writes; a   *)
(* save replaces it whole or leaves it; and a process that stops, in an    *)
(* orderly way or not, can always start again from it.                     *)
(*                                                                         *)
(* The state of the store, what may be applied to it and how it is turned  *)
(* into a list and back are parameters.                                    *)
(***************************************************************************)

CONSTANTS
    Change,          \* the single updates
    Empty,           \* the store of a process with nothing to restore
    Apply(_, _),     \* the store after an update
    Dump(_),         \* the list of a store
    Load(_),         \* the store of a list
    FromDisk         \* whether a start restores what the disk holds

VARIABLES
    store,
    up,        \* the process is running
    busy,      \* a write of several updates is under way
    disk,      \* the lists on the disk: none or one
    pending    \* the lists being saved: none or one

vars == <<store, up, busy, disk, pending>>

Init ==
    /\ store = Empty
    /\ up = FALSE
    /\ busy = FALSE
    /\ disk = {}
    /\ pending = {}

Start ==
    /\ ~up
    /\ up' = TRUE
    /\ store' = IF FromDisk /\ disk # {} THEN Load(CHOOSE list \in disk : TRUE) ELSE Empty
    /\ UNCHANGED <<busy, disk, pending>>

Begin == up /\ ~busy /\ busy' = TRUE /\ UNCHANGED <<store, up, disk, pending>>
End   == up /\ busy /\ busy' = FALSE /\ UNCHANGED <<store, up, disk, pending>>

Write ==
    /\ up
    /\ \E c \in Change : store' = Apply(store, c)
    /\ UNCHANGED <<up, busy, disk, pending>>

(* A save begins with the list of the store between two writes ...         *)
Take ==
    /\ up /\ ~busy
    /\ pending = {}
    /\ pending' = {Dump(store)}
    /\ UNCHANGED <<store, up, busy, disk>>

(* ... and puts that list on the disk, or leaves the disk alone. *)
Commit ==
    /\ up
    /\ pending # {}
    /\ disk' = pending
    /\ pending' = {}
    /\ UNCHANGED <<store, up, busy>>

Abandon == up /\ pending' = {} /\ UNCHANGED <<store, up, busy, disk>>

(* The process exits or is killed: the disk keeps what it holds. *)
Stop ==
    /\ up
    /\ up' = FALSE
    /\ busy' = FALSE
    /\ pending' = {}
    /\ UNCHANGED <<store, disk>>

Next == Start \/ Begin \/ Write \/ End \/ Take \/ Commit \/ Abandon \/ Stop

Spec == Init /\ [][Next]_vars
=============================================================================
