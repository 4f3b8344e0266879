----------------------------- MODULE UploadLife -----------------------------
(***************************************************************************)
(* What the system promises to a user who backs up one file, and nothing   *)
(* of how: no requests, no threads, no keys.  The user becomes known, has  *)
(* exchanged keys, has a file on record and has it verified, in this order *)
(* and never back; the copy is put in place before it is put on record,    *)
(* and verified only while it is whole.                                    *)
(***************************************************************************)
CONSTANTS
    Users,
    Original,  \* user -> content of the file
    Empty,     \* content of a copy that is about to be written
    None       \* there is no copy

VARIABLES
    stage,  \* user -> how far the backup is
    copy    \* user -> content of the copy

life == <<stage, copy>>

Stages == {"unknown", "registered", "keyed", "stored", "verified"}

LifeInit ==
    /\ stage = [u \in Users |-> "unknown"]
    /\ copy = [u \in Users |-> None]

Climb(u, from, to) == stage[u] = from /\ stage' = [stage EXCEPT ![u] = to]

Register(u) == Climb(u, "unknown", "registered") /\ UNCHANGED copy
AgreeKey(u) == Climb(u, "registered", "keyed") /\ UNCHANGED copy

(* A later upload of the file writes the copy anew. *)
BeginCopy(u) ==
    /\ stage[u] \in {"keyed", "stored", "verified"}
    /\ copy' = [copy EXCEPT ![u] = Empty]
    /\ UNCHANGED stage

FinishCopy(u) ==
    /\ copy[u] = Empty
    /\ copy' = [copy EXCEPT ![u] = Original[u]]
    /\ UNCHANGED stage

Record(u) == copy[u] = Original[u] /\ Climb(u, "keyed", "stored") /\ UNCHANGED copy
Verify(u) == copy[u] = Original[u] /\ Climb(u, "stored", "verified") /\ UNCHANGED copy

LifeNext == \E u \in Users :
    \/ Register(u) \/ AgreeKey(u) \/ BeginCopy(u) \/ FinishCopy(u)
    \/ Record(u) \/ Verify(u)

LifeOrder == LifeInit /\ [][LifeNext]_life

(* A copy that was begun is finished, and every user gets to the last stage.*)
Progress == \A u \in Users :
    /\ copy[u] = Empty ~> copy[u] = Original[u]
    /\ <>[](stage[u] = "verified")

LifeSpec == LifeOrder /\ Progress
=============================================================================
