------------------------------ MODULE Attempts ------------------------------
(***************************************************************************)
(* How often one call of uploadFile sends the file: a count beside the     *)
(* client, which no step of the client looks at.                           *)
(***************************************************************************)
EXTENDS UploadClient

VARIABLE sends  \* machine -> how often the current uploadFile sent the file

CountSends ==
    sends' = [m \in Machines |->
        IF ~Running(m)' \/ proc'[m].at # proc[m].at THEN 0
        ELSE IF proc[m].phase = "send" /\ proc[m].op = SEND_FILE /\ proc'[m].phase = "await"
             THEN sends[m] + 1 ELSE sends[m]]

CountInit == sends = [m \in Machines |-> 0]

CountedNext ==
    \/ \E m \in Machines : MachineNext(m) /\ CountSends
    \/ ServerSide /\ UNCHANGED sends

(* The client with any server that keeps to the protocol. *)
CountedSpec ==
    /\ WiresInit /\ ClientInit /\ CountInit
    /\ [][CountedNext]_<<wires, clientVars, sends>>

(* One uploadFile sends the file at most five times (once, twice more after *)
(* an error, twice more after a wrong checksum), and gives up on it (902)   *)
(* only when it was sent at least three times.                              *)
AttemptsBounded ==
    \A m \in Machines :
        /\ sends[m] <= 5
        /\ proc[m].phase = "send" /\ proc[m].op = EXIT_CRC => sends[m] >= 3

-----------------------------------------------------------------------------
(* How often the file was sent before the attempt that program p is at: the *)
(* loop after a wrong checksum begins when it was sent one to three times.  *)
Before(p) ==
    CASE p.mode = "once"  -> 0..0
      [] p.mode = "error" -> (1 + p.tries)..(1 + p.tries)
      [] p.mode = "crc"   -> (1 + p.tries)..(3 + p.tries)

(* How often it can have been sent where program p is in uploadFile.        *)
SendsOK(p, n) ==
    /\ n \in 0..5
    /\ p.at \in {"upload1", "upload2"} =>
          /\ p.op = S_PUBLIC_KEY => n = 0
          /\ p.op = SEND_FILE /\ p.phase = "send" => n \in Before(p)
          /\ p.op = SEND_FILE /\ p.phase = "await" => n - 1 \in Before(p)
          /\ p.op = N_VALID_CRC /\ p.phase = "send" => n \in Before(p)
          /\ p.op = EXIT_CRC => n >= 3
    /\ p.phase = "await" => p.op # N_VALID_CRC
    /\ p.phase \in {"off", "terminated"} => p.at = "register"

AttemptsInv == \A m \in Machines : SendsOK(proc[m], sends[m])
=============================================================================
