------------------------ MODULE TransferInvariants ------------------------
(***************************************************************************)
(* The inductive invariants behind the properties of FileTransfer, each    *)
(* with what it takes for granted of the failures:                         *)
(*                                                                         *)
(*   OwnershipInv   nothing: every failure may happen                      *)
(*   PairInv        local files can be read and written                    *)
(*   AgreementInv   no run is killed                                       *)
(*   NoFailureInv   nothing fails, and no two machines have the same owner *)
(***************************************************************************)
EXTENDS FileTransfer

Idle(c) == pc[c] \in {"off", "handle_request"}

(* The requests on connection c that are not done with. *)
Pending(c) == {r \in {inbox[c]} : r # None} \cup {r \in {req[c]} : ~Idle(c)}

(* The machine whose run uses connection c. *)
MachineOf(c) == c[1]

-----------------------------------------------------------------------------
(* Which user is whose. *)

Grants(a, u) == a # None /\ a.code = INIT_REGISTRATION_SUCC /\ a.uid = u

(* The uuids that the server gave to machine m: those that it has saved, is *)
(* about to save, or that are on their way to it.                           *)
GivenTo(m) ==
    {u \in Uids :
        \/ u = meInfo[m]
        \/ proc[m].phase \in {"saveKey", "saveInfo"} /\ u = proc[m].last.uid
        \/ proc[m].phase = "await" /\ Grants(outbox[Session(m)], u)
        \/ /\ proc[m].phase = "await" /\ link[Session(m)] = "open"
           /\ pc[Session(m)] = "send_response" /\ Grants(ans[Session(m)], u)}

(* Of a request that was torn the name may be missing; its sender is gone.  *)
SentByOwner(c, r) ==
    /\ r.uid \in {NoUid, meInfo[MachineOf(c)]}
    /\ r.code = REGISTER /\ link[c] = "open" => r.name = Owner[MachineOf(c)]

OwnershipInv ==
    /\ \A m \in Machines : proc[m].id \in {NoUid, meInfo[m]}
    /\ \A c \in Conns : \A r \in Pending(c) : SentByOwner(c, r)
    /\ \A m \in Machines : \A u \in GivenTo(m) :
          /\ Registered(u)
          /\ clients[u].name = Owner[m]
          /\ \A n \in Machines \ {m} : u \notin GivenTo(n)

-----------------------------------------------------------------------------
(* Which key pair is whose. *)

(* A run that may still publish its key pair under the uuid it has is the   *)
(* one that saved that pair.                                                *)
PublishesSavedKey(m) ==
    LET p == proc[m]
    IN Running(m) /\ p.id # NoUid /\ link[Session(m)] = "open" =>
           \/ p.registered \/ p.op = RECONNECT
           \/ p.op = REGISTER /\ p.phase = "send"
           \/ keyPriv[m] = Session(m)

(* me.info is there only with key.priv; createNewClientFile has just saved  *)
(* its own pair when it comes to me.info; and nobody has published a key    *)
(* under a uuid that is not yet in me.info.                                 *)
SavesOwnPair(m) ==
    /\ meInfo[m] # None => keyPriv[m] # None
    /\ proc[m].phase = "saveInfo" => keyPriv[m] = Session(m)
    /\ \A u \in GivenTo(m) \ {meInfo[m]} : clients[u].pub = Placeholder

(* Only the second upload is one of a client that is signed in.             *)
SignedInOK(m) ==
    proc[m].registered => proc[m].at = "upload2" /\ proc[m].op # S_PUBLIC_KEY

(* An answer to a request of this code opens with the key.priv of machine m,*)
(* and a sign-in is never answered with a general error.                    *)
MeantFor(m, code, a) ==
    /\ GivesKey(a) => a.pub = keyPriv[m]
    /\ code = RECONNECT /\ a # None => a.code # GENERAL_ERROR

(* What the thread of c has in hand is meant for the machine that asked.    *)
HandlesOwnPair(c) ==
    /\ \A r \in Pending(c) :
          r.code = S_PUBLIC_KEY /\ r.uid # NoUid /\ r.pub # None =>
              r.pub = keyPriv[MachineOf(c)]
    /\ pc[c] = "store_aes_key" => held[c] = keyPriv[MachineOf(c)]
    /\ pc[c] \in {"encrypt", "send_response"} => MeantFor(MachineOf(c), req[c].code, ans[c])

PairInv ==
    /\ \A m \in Machines :
          /\ SavesOwnPair(m) /\ SignedInOK(m) /\ PublishesSavedKey(m)
          /\ proc[m].phase = "await" => MeantFor(m, proc[m].op, outbox[Session(m)])
    /\ \A c \in Conns : HandlesOwnPair(c)
    /\ PublishedKeyMatches

-----------------------------------------------------------------------------
(* Which AES key is whose. *)

Agreed(u, k) == Registered(u) /\ clients[u].aes = k

(* A run is there for every request that waits or is worked on. *)
Attended(c) == (\E r \in Pending(c) : r.code # N_VALID_CRC) => link[c] = "open"

AgreementInv ==
    /\ \A c \in Conns : Attended(c)
    /\ \A m \in Machines :
          LET p == proc[m]
              c == Session(m)
          IN /\ p.registered \/ p.op \in {SEND_FILE, N_VALID_CRC} => Agreed(p.id, p.aes)
             /\ SignedInOK(m)
             /\ p.phase = "await" =>
                   /\ \A r \in Pending(c) : r.uid = p.id
                   /\ GivesKey(outbox[c]) => Agreed(p.id, outbox[c].key)
    /\ \A c \in Conns : pc[c] \in {"encrypt", "send_response"} /\ GivesKey(ans[c]) =>
          Agreed(req[c].uid, ans[c].key)

-----------------------------------------------------------------------------
(* The file, when nothing fails. *)

NoFailures == ~Faults /\ ~Crashes /\ ~LocalFaults /\ ~Kills

OwnersDiffer == \A m, n \in Machines : Owner[m] = Owner[n] => m = n

CopyOf(m) == backup[<<Owner[m], Upload[m]>>]

(* The run on machine m waits for a thread that is at one of these steps.   *)
ServedAt(m, steps) == proc[m].phase = "await" /\ pc[Session(m)] \in steps

(* An answer to an 828. *)
Checks(a) == a # None /\ a.code = VALID_FILE_CRC

(* Every attempt succeeds. *)
NoRetries(m) ==
    LET p == proc[m]
    IN p.crcValid /\ p.mode # "crc" /\ p.op \notin {N_VALID_CRC, EXIT_CRC}

(* The copy was opened, and nobody has removed it. *)
HasCopy(m) ==
    \/ proc[m].op = VALID_CRC
    \/ ServedAt(m, {"write_file", "add_new_file", "read_crc"})
    \/ ServedAt(m, {"send_response"}) /\ Checks(ans[Session(m)])
    \/ proc[m].phase = "await" /\ Checks(outbox[Session(m)])
    \/ meInfo[m] # None /\ files[meInfo[m]] # None

CopyOK(m) ==
    /\ CopyOf(m) \in {None, Empty, Local[m]}
    /\ CopyOf(m) = Empty <=> ServedAt(m, {"write_file"})
    /\ HasCopy(m) => CopyOf(m) # None

(* A user has the row of its one file, and no key before me.info is there.  *)
RowOK(m) ==
    /\ meInfo[m] # None /\ files[meInfo[m]] # None => files[meInfo[m]].file = Upload[m]
    /\ meInfo[m] = None => \A u \in GivenTo(m) : clients[u].aes = NoKey

(* A request is about the file of machine m, and under the key of its run.  *)
AsksFor(m, r) ==
    /\ r.code \in {SEND_FILE, VALID_CRC} => r.file = Upload[m]
    /\ r.code = SEND_FILE => r.body = Local[m] /\ r.key = proc[m].aes

(* What a thread has in hand for machine m is the file of machine m.        *)
ContentOK(m) ==
    LET c == Session(m)
    IN proc[m].phase = "await" =>
           /\ \A r \in Pending(c) : AsksFor(m, r)
           /\ pc[c] \in {"open_file", "write_file"} => held[c] = Local[m]
           /\ pc[c] = "send_response" /\ Checks(ans[c]) => ans[c].crc = Local[m]
           /\ Checks(outbox[c]) => outbox[c].crc = Local[m]

WholeInv ==
    /\ detached = {}
    /\ \A m \in Machines : NoRetries(m) /\ CopyOK(m) /\ RowOK(m) /\ ContentOK(m)

(* What holds when nothing fails. *)
NoFailureInv == AgreementInv /\ WholeInv
=============================================================================
