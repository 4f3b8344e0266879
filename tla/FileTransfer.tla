---------------------------- MODULE FileTransfer ----------------------------
(***************************************************************************)
(* Clients and the server together.  A step is one of a machine or one of  *)
(* the server; they meet only on the wires.  What the clients send here    *)
(* is a part of what BackupServer lets its clients send, so that this is a *)
(* refinement of BackupServer!Spec (property ServerSpec), which carries    *)
(* over whatever is proved of it.                                          *)
(***************************************************************************)
EXTENDS BackupServer, UploadClient

transferVars == <<vars, clientVars>>

TransferInit == Init /\ ClientInit

(* The bound on the AES keys, as in KeysLeftFor. *)
KeysLeft(m) ==
    proc[m].phase = "send" /\ proc[m].op \in {S_PUBLIC_KEY, RECONNECT} => keyCount < MaxKeys

MachineStep(m) == MachineNext(m) /\ KeysLeft(m) /\ UNCHANGED server
MachineRuns(m) == Runs(m) /\ KeysLeft(m) /\ UNCHANGED server
ServerStep     == ServerNext /\ UNCHANGED clientVars

TransferNext == (\E m \in Machines : MachineStep(m)) \/ ServerStep

TransferSpec == TransferInit /\ [][TransferNext]_transferVars

(* The operating systems run every program and every thread that can run,   *)
(* and every user starts the program once and as often as MaxRuns says.     *)
FairTransferSpec ==
    /\ TransferSpec
    /\ \A m \in Machines : /\ WF_transferVars(MachineRuns(m))
                           /\ WF_transferVars(Start(m) /\ UNCHANGED server)
    /\ \A c \in Conns : WF_transferVars(Handle(c) /\ UNCHANGED clientVars)

(* The requests the clients send are among these, with AES keys of keys.    *)
ClientRequests(keys) ==
    {RegisterRequest(Owner[m]) : m \in Machines}
        \cup {PublicKeyRequest(u, s) : u \in Uids \cup {NoUid}, s \in Sessions}
        \cup {SignInRequest(u) : u \in Uids}
        \cup {FileRequest(u, Upload[m], k, Local[m]) :
                  u \in Uids \cup {NoUid}, m \in Machines, k \in keys}
        \cup {CrcRequest(code, u, Upload[m]) :
                  code \in {VALID_CRC, N_VALID_CRC, EXIT_CRC}, u \in Uids \cup {NoUid},
                  m \in Machines}

-----------------------------------------------------------------------------
(* Properties of the whole. *)

(* Clients and server together behave as BackupServer says: a client never  *)
(* sends before it has read the answer to its last request.                 *)
ServerSpec == Spec

(* What me.info says is true of the database: the uuid is registered, under *)
(* the name of the machine's owner, and no two machines have the same.      *)
MeInfoIsRegistered ==
    \A m \in Machines : meInfo[m] # None =>
        /\ Registered(meInfo[m])
        /\ clients[meInfo[m]].name = Owner[m]
        /\ \A n \in Machines \ {m} : meInfo[n] # meInfo[m]

(* The public key that the server keeps for a machine is the one whose      *)
(* private key is in key.priv: were it another one, no AES key could ever   *)
(* be delivered to that machine again (recieveAesKey).                      *)
PublishedKeyMatches ==
    \A m \in Machines : meInfo[m] # None =>
        clients[meInfo[m]].pub \in {Placeholder, keyPriv[m]}

(* A file is sent under the AES key that the server has for its sender, so  *)
(* that decrypt_file recovers it, as long as no run is killed.              *)
KeyAgreement ==
    \A m \in Machines :
        LET p == proc[m]
        IN p.phase = "send" /\ p.op = SEND_FILE =>
               Registered(p.id) /\ clients[p.id].aes = p.aes

(* A file that is verified is there and whole, except while a later upload  *)
(* of it is being written.                                                  *)
VerifiedMeansIntact ==
    \A m \in Machines :
        LET u == meInfo[m]
        IN u # None /\ files[u] # None /\ files[u].verified =>
               \/ backup[<<Owner[m], Upload[m]>>] = Local[m]
               \/ \E c \in Conns : pc[c] = "write_file" /\ req[c].uid = u

(* How far the backup of machine m is, as its me.info and the tables tell.  *)
StageOf(m) ==
    LET u == meInfo[m]
    IN IF u = None THEN "unknown"
       ELSE IF clients[u].aes = NoKey THEN "registered"
       ELSE IF files[u] = None THEN "keyed"
       ELSE IF files[u].verified THEN "verified" ELSE "stored"

Life == INSTANCE UploadLife WITH
    Users    <- Machines,
    Original <- Local,
    stage    <- [m \in Machines |-> StageOf(m)],
    copy     <- [m \in Machines |-> backup[<<Owner[m], Upload[m]>>]]

(* Without failures the programs do what UploadLife promises each user: in  *)
(* particular every user's file is verified in the end.                     *)
KeepsPromise == Life!LifeSpec

(* The part of it that needs no fairness: nothing happens to the backup of  *)
(* a user in another order.                                                 *)
KeepsOrder == Life!LifeOrder

-----------------------------------------------------------------------------
(* The inductive invariant of the whole. *)

(* Where the thread that handles a request of this code can be. *)
StepsFor == [code \in RequestCodes |->
    CASE code = REGISTER     -> {"find_username", "add_new_client", "send_response"}
      [] code = S_PUBLIC_KEY -> {"set_public_key", "recover_public_key", "store_aes_key",
                                 "encrypt", "send_response"}
      [] code = RECONNECT    -> {"recover_public_key", "store_aes_key", "encrypt",
                                 "send_response"}
      [] code = SEND_FILE    -> {"decrypt_file", "open_file", "write_file", "add_new_file",
                                 "read_crc", "send_response"}
      [] code = VALID_CRC    -> {"update_verified", "send_response"}
      [] code = N_VALID_CRC  -> {}
      [] code = EXIT_CRC     -> {"delete_from_backup", "delete_unverified",
                                 "send_response"}]

(* Every request is of this version of the protocol, and what its handler   *)
(* prepares is an answer to it.                                             *)
HandledOK(c) ==
    /\ inbox[c] # None => inbox[c].version = VERSION /\ inbox[c].code \in RequestCodes
    /\ pc[c] \notin {"off", "handle_request"} =>
          /\ req[c] # None /\ req[c].code \in RequestCodes
          /\ pc[c] \in StepsFor[req[c].code]
    /\ pc[c] \in {"encrypt", "send_response"} => IsAnswer(req[c].code, ans[c])

(* A run waits for exactly one answer, which is somewhere on its way there  *)
(* and back; otherwise at most a 901 is left on its connection.             *)
ExchangeOK(c, p) ==
    IF p.phase = "await"
    THEN /\ p.op # N_VALID_CRC
         /\ \/ /\ inbox[c] # None /\ inbox[c].code = p.op
               /\ pc[c] \in {"off", "handle_request"}
               /\ outbox[c] = None
            \/ /\ inbox[c] = None
               /\ pc[c] \notin {"off", "handle_request"} /\ req[c].code = p.op
               /\ outbox[c] = None
            \/ /\ inbox[c] = None
               /\ pc[c] = "handle_request"
               /\ outbox[c] # None
    ELSE /\ inbox[c] # None => inbox[c].code = N_VALID_CRC
         /\ pc[c] \in {"off", "handle_request"}
         /\ outbox[c] = None

(* An open connection is that of a run. *)
OpenOK(c) ==
    link[c] = "open" =>
        \E m \in Machines : Running(m) /\ c = Session(m) /\ ExchangeOK(c, proc[m])

(* A connection that no run has used yet is as it was. *)
UnusedOK(m) ==
    \A i \in (run[m] + 1)..MaxRuns :
        link[<<m, i>>] = "free" /\ inbox[<<m, i>>] = None /\ pc[<<m, i>>] = "off"

(* Clients and server never lose count of each other's packets, whatever    *)
(* fails: this is why the one refines BackupServer and the other meets a    *)
(* server that keeps to the protocol (handle_request, sendAndRecieve).      *)
TransferInv ==
    /\ IInv /\ ClientInv
    /\ \A c \in Conns : HandledOK(c) /\ OpenOK(c)
    /\ \A m \in Machines : UnusedOK(m)
=============================================================================
