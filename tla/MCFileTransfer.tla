--------------------------- MODULE MCFileTransfer ---------------------------
(* Small instances of FileTransfer. *)
EXTENDS TransferInvariants, TLC

CONSTANTS m1, m2, u1, u2, n1, n2, f1, b1, b2

OwnNames  == [m \in Machines |-> IF m = m1 THEN n1 ELSE n2]
OneFile   == [m \in Machines |-> f1]
OwnBodies == [m \in Machines |-> IF m = m1 THEN b1 ELSE b2]

(* Room for every key that MaxRuns runs can ask for: at most seven each. *)
EnoughKeys == 7 * MaxRuns

OwnRequests == ClientRequests(0..MaxKeys)
=============================================================================
