---------------------------- MODULE BackupServer ----------------------------
(***************************************************************************)
(* The server: a thread per connection runs handle_client, which handles   *)
(* one request after another.  The database and the backup directory are   *)
(* shared by all threads.  The only lock is taken and released inside      *)
(* run_thread_query, so that one query is one step here, and between two   *)
(* queries of a handler any other thread may run.                          *)
(*                                                                         *)
(* A step may fail (a database error, a full disk), and the process may    *)
(* crash and be started again: the database and the files survive, the     *)
(* threads and what is on their connections do not.                        *)
(***************************************************************************)
EXTENDS Connection

CONSTANTS
    Traffic,       \* the requests clients may send
    MaxKeys,       \* bound: no key is asked for once so many are stored
    TornRequests,  \* BOOLEAN: clients may die between header and payload
    Faults,        \* BOOLEAN: a step of a handler may fail
    Crashes        \* BOOLEAN: the server process may crash

ASSUME TrafficAssumption == Traffic \subseteq Request
ASSUME SwitchesAssumption ==
    /\ MaxKeys \in Nat
    /\ TornRequests \in BOOLEAN /\ Faults \in BOOLEAN /\ Crashes \in BOOLEAN

VARIABLES
    clients,   \* table clients: uuid -> row, or None
    files,     \* table files, whose primary key is the owner's uuid
    backup,    \* the backup directory: <<user name, file name>> -> content
    keyCount,  \* number of AES keys generated and stored so far
    pc,        \* what the thread of a connection does next
    req,       \* the request its handler works on
    held,      \* the public key or the decrypted file its handler holds
    ans,       \* the response its handler built
    detached   \* connections whose open file was removed under them

tables == <<clients, files>>
disk   == <<backup, detached>>
thread == <<pc, req, held, ans>>
vars   == <<wires, tables, disk, keyCount, thread>>

ClientRow == [name : UserNames, pub : PubKeys \cup {Placeholder}, aes : Nat]
FileRow   == [file : Files, verified : BOOLEAN]
Paths     == UserNames \X Files

ASSUME RowsAssumption == None \notin ClientRow /\ None \notin FileRow

Steps == {"off", "handle_request", "find_username", "add_new_client",
          "set_public_key", "recover_public_key", "store_aes_key", "encrypt",
          "decrypt_file", "open_file", "write_file", "add_new_file", "read_crc",
          "update_verified", "delete_from_backup", "delete_unverified",
          "send_response"}

TypeOK ==
    /\ WiresTypeOK
    /\ clients \in [Uids -> ClientRow \cup {None}]
    /\ files \in [Uids -> FileRow \cup {None}]
    /\ backup \in [Paths -> Content \cup {None}]
    /\ keyCount \in Nat
    /\ pc \in [Conns -> Steps]
    /\ req \in [Conns -> Request \cup {None}]
    /\ held \in [Conns -> PubKeys \cup Bodies \cup {Garbled, None}]
    /\ ans \in [Conns -> Response \cup {None}]
    /\ detached \subseteq Conns

Init ==
    /\ WiresInit
    /\ clients = [u \in Uids |-> None]
    /\ files = [u \in Uids |-> None]
    /\ backup = [p \in Paths |-> None]
    /\ keyCount = 0
    /\ pc = [c \in Conns |-> "off"]
    /\ req = [c \in Conns |-> None]
    /\ held = [c \in Conns |-> None]
    /\ ans = [c \in Conns |-> None]
    /\ detached = {}

-----------------------------------------------------------------------------
(* How a handler goes on. *)

Registered(u) == u \in Uids /\ clients[u] # None

(* Mutant: the file of a request is looked up without the user's directory. *)
SharedPath(c) == <<None, req[c].file>>

(* The file the request of c is about, in the directory of its sender. *)
Path(c) == <<clients[req[c].uid].name, req[c].file>>

Goto(c, step) ==
    /\ pc' = [pc EXCEPT ![c] = step]
    /\ UNCHANGED <<req, held, ans>>

Hold(c, value, step) ==
    /\ pc' = [pc EXCEPT ![c] = step]
    /\ held' = [held EXCEPT ![c] = value]
    /\ UNCHANGED <<req, ans>>

Prepare(c, a, step) ==
    /\ pc' = [pc EXCEPT ![c] = step]
    /\ ans' = [ans EXCEPT ![c] = a]
    /\ UNCHANGED <<req, held>>

Answer(c, a) == Prepare(c, a, "send_response")

(* What the except clause of the handler of the request returns. *)
Refuse(c) ==
    Answer(c, IF req[c].code = RECONNECT
              THEN Reply(RECCONET_DENIED, req[c].uid) ELSE ErrorReply)

(* The thread ends: its local state is gone and its socket is closed. *)
EndThread(c) ==
    /\ ServerClose(c)
    /\ pc' = [pc EXCEPT ![c] = "off"]
    /\ req' = [req EXCEPT ![c] = None]
    /\ held' = [held EXCEPT ![c] = None]
    /\ ans' = [ans EXCEPT ![c] = None]

-----------------------------------------------------------------------------
(* accept_client, handle_client and req_select. *)

Accept(c) ==
    /\ pc[c] = "off"
    /\ link[c] \in {"open", "shut"}
    /\ Goto(c, "handle_request")
    /\ UNCHANGED <<wires, tables, disk, keyCount>>

FirstStep == [code \in RequestCodes |->
    CASE code = REGISTER     -> "find_username"
      [] code = S_PUBLIC_KEY -> "set_public_key"
      [] code = RECONNECT    -> "recover_public_key"
      [] code = SEND_FILE    -> "decrypt_file"
      [] code = VALID_CRC    -> "update_verified"
      [] code = N_VALID_CRC  -> "handle_request"
      [] code = EXIT_CRC     -> "delete_from_backup"]

(* resend_crc (901) calls handle_request again and answers nothing itself. *)
Dispatch(c) ==
    /\ pc[c] = "handle_request"
    /\ Deliver(c)
    /\ inbox[c].version = VERSION
    /\ inbox[c].code \in RequestCodes
    /\ pc' = [pc EXCEPT ![c] = FirstStep[inbox[c].code]]
    /\ req' = [req EXCEPT ![c] = inbox[c]]
    /\ UNCHANGED <<held, ans, tables, disk, keyCount>>

(* Mutant: the error for a wrong version is never sent. *)
IgnoreVersion(c) ==
    /\ pc[c] = "handle_request"
    /\ Deliver(c)
    /\ inbox[c].version # VERSION
    /\ UNCHANGED <<thread, tables, disk, keyCount>>

RejectVersion(c) ==
    /\ pc[c] = "handle_request"
    /\ Deliver(c)
    /\ inbox[c].version # VERSION
    /\ Answer(c, ErrorReply)
    /\ UNCHANGED <<tables, disk, keyCount>>

(* func is None: the call raises and handle_request returns b''. *)
DropUnknownCode(c) ==
    /\ pc[c] = "handle_request"
    /\ inbox[c] # None
    /\ inbox[c].version = VERSION
    /\ inbox[c].code \notin RequestCodes
    /\ EndThread(c)
    /\ UNCHANGED <<tables, disk, keyCount>>

(* recv returns nothing: the client is gone. *)
CloseConnection(c) ==
    /\ pc[c] = "handle_request"
    /\ inbox[c] = None
    /\ link[c] = "shut"
    /\ EndThread(c)
    /\ UNCHANGED <<tables, disk, keyCount>>

SendResponse(c) ==
    /\ pc[c] = "send_response"
    /\ Respond(c, ans[c])
    /\ pc' = [pc EXCEPT ![c] = "handle_request"]
    /\ req' = [req EXCEPT ![c] = None]
    /\ held' = [held EXCEPT ![c] = None]
    /\ ans' = [ans EXCEPT ![c] = None]
    /\ UNCHANGED <<tables, disk, keyCount>>

-----------------------------------------------------------------------------
(* 825: find_username and add_new_client_db are two queries. *)

(* Mutant: the query finds nobody. *)
NobodyNamed(name) == {}

UsersNamed(name) == {u \in Uids : clients[u] # None /\ clients[u].name = name}

FindUsername(c) ==
    /\ pc[c] = "find_username"
    /\ \/ /\ UsersNamed(req[c].name) = {}
          /\ Goto(c, "add_new_client")
       \/ \E u \in UsersNamed(req[c].name) : Answer(c, Reply(REGISTRATION_FAIL, u))
    /\ UNCHANGED <<wires, tables, disk, keyCount>>

(* Mutant: INSERT OR REPLACE, of a uuid that need not be fresh. *)
ReplaceClient(c) ==
    /\ pc[c] = "add_new_client"
    /\ \E u \in Uids :
          /\ clients' = [clients EXCEPT ![u] =
                 [name |-> req[c].name, pub |-> Placeholder, aes |-> NoKey]]
          /\ Answer(c, Reply(INIT_REGISTRATION_SUCC, u))
    /\ UNCHANGED <<wires, files, disk, keyCount>>

(* uuid4 gives a fresh uuid; once Uids is used up, a collision is an error. *)
AddNewClient(c) ==
    LET fresh == {u \in Uids : clients[u] = None}
    IN /\ pc[c] = "add_new_client"
       /\ \/ \E u \in fresh :
                /\ clients' = [clients EXCEPT ![u] =
                       [name |-> req[c].name, pub |-> Placeholder, aes |-> NoKey]]
                /\ Answer(c, Reply(INIT_REGISTRATION_SUCC, u))
          \/ /\ fresh = {}
             /\ UNCHANGED clients
             /\ Refuse(c)
       /\ UNCHANGED <<wires, files, disk, keyCount>>

-----------------------------------------------------------------------------
(* 826 and 827: the public key is stored (826), read back, a key is stored  *)
(* and then encrypted for the client.  last_seen is not modelled; the query *)
(* that sets it is part of the step that follows it.                        *)

(* Mutant: a payload that never arrived is stored as a key. *)
SetAnyPublicKey(c) ==
    LET u == req[c].uid
    IN /\ pc[c] = "set_public_key"
       /\ clients' = IF Registered(u)
                     THEN [clients EXCEPT ![u].pub = req[c].pub] ELSE clients
       /\ Goto(c, "recover_public_key")
       /\ UNCHANGED <<wires, files, disk, keyCount>>

SetPublicKey(c) ==
    LET u == req[c].uid
    IN /\ pc[c] = "set_public_key"
       /\ \/ /\ req[c].pub = None
             /\ UNCHANGED clients
             /\ Refuse(c)
          \/ /\ req[c].pub # None
             /\ clients' = IF Registered(u)
                           THEN [clients EXCEPT ![u].pub = req[c].pub] ELSE clients
             /\ Goto(c, "recover_public_key")
       /\ UNCHANGED <<wires, files, disk, keyCount>>

(* Mutant: the placeholder is taken for a key. *)
AnyPublicKey(u) == Registered(u)

HasPublicKey(u) == Registered(u) /\ clients[u].pub # Placeholder

RecoverPublicKey(c) ==
    LET u == req[c].uid
    IN /\ pc[c] = "recover_public_key"
       /\ \/ HasPublicKey(u) /\ Hold(c, clients[u].pub, "store_aes_key")
          \/ ~HasPublicKey(u) /\ Refuse(c)
       /\ UNCHANGED <<wires, tables, disk, keyCount>>

(* Mutant: a user who has an AES key keeps it, and is sent the new one. *)
StoreFirstAesKey(c) ==
    LET u    == req[c].uid
        code == IF req[c].code = RECONNECT THEN RECCONECT_APPROVED
                                           ELSE IN_PUBLIC_KEY_OUT_AES
    IN /\ pc[c] = "store_aes_key"
       /\ keyCount' = keyCount + 1
       /\ clients' = IF clients[u].aes = NoKey
                     THEN [clients EXCEPT ![u].aes = keyCount + 1] ELSE clients
       /\ Prepare(c, KeyReply(code, u, held[c], keyCount + 1), "encrypt")
       /\ UNCHANGED <<wires, files, disk>>

StoreAesKey(c) ==
    LET u    == req[c].uid
        code == IF req[c].code = RECONNECT THEN RECCONECT_APPROVED
                                           ELSE IN_PUBLIC_KEY_OUT_AES
    IN /\ pc[c] = "store_aes_key"
       /\ keyCount' = keyCount + 1
       /\ clients' = [clients EXCEPT ![u].aes = keyCount + 1]
       /\ Prepare(c, KeyReply(code, u, held[c], keyCount + 1), "encrypt")
       /\ UNCHANGED <<wires, files, disk>>

EncryptKey(c) ==
    /\ pc[c] = "encrypt"
    /\ Goto(c, "send_response")
    /\ UNCHANGED <<wires, tables, disk, keyCount>>

-----------------------------------------------------------------------------
(* 828 *)

(* Mutant: any registered user has a key. *)
IsKnown(u) == Registered(u)

HasKey(u) == Registered(u) /\ clients[u].aes # NoKey

(* Decrypting what was not encrypted with the stored key, or is not whole,  *)
(* nearly always breaks the padding; when it does not, the result is junk.  *)
DecryptFile(c) ==
    LET r      == req[c]
        hasKey == HasKey(r.uid)
        whole  == hasKey /\ r.body \in Bodies /\ r.key = clients[r.uid].aes
    IN /\ pc[c] = "decrypt_file"
       /\ \/ whole /\ Hold(c, r.body, "open_file")
          \/ hasKey /\ ~whole /\ r.body # None /\ Hold(c, Garbled, "open_file")
          \/ ~whole /\ Refuse(c)
       /\ UNCHANGED <<wires, tables, disk, keyCount>>

(* Mutant: the file is opened without truncating it. *)
Reopened(p) == [backup EXCEPT ![p] = IF @ = None THEN Empty ELSE @]

Opened(p) == [backup EXCEPT ![p] = Empty]

OpenFile(c) ==
    /\ pc[c] = "open_file"
    /\ \/ /\ req[c].file = None
          /\ Refuse(c)
          /\ UNCHANGED disk
       \/ /\ req[c].file # None
          /\ backup' = Opened(Path(c))
          /\ detached' = detached \ {c}
          /\ Goto(c, "write_file")
    /\ UNCHANGED <<wires, tables, keyCount>>

(* Two threads may have the same file open, each writing from its start:    *)
(* the shorter content overwrites a part of the longer one.                 *)
Overwrite(old, new) == IF old \in {Empty, new} THEN {new} ELSE {new, Garbled}

WriteFile(c) ==
    /\ pc[c] = "write_file"
    /\ IF c \in detached
       THEN UNCHANGED backup
       ELSE \E content \in Overwrite(backup[Path(c)], held[c]) :
                backup' = [backup EXCEPT ![Path(c)] = content]
    /\ Goto(c, "add_new_file")
    /\ UNCHANGED <<wires, tables, detached, keyCount>>

NewFile(f) == [file |-> f, verified |-> FALSE]

(* Mutant: INSERT OR REPLACE. *)
ReplaceFile(u, f) == [files EXCEPT ![u] = NewFile(f)]

(* INSERT OR IGNORE, and the primary key of files is the uuid alone. *)
InsertFile(u, f) == IF files[u] = None THEN [files EXCEPT ![u] = NewFile(f)] ELSE files

AddNewFile(c) ==
    /\ pc[c] = "add_new_file"
    /\ files' = InsertFile(req[c].uid, req[c].file)
    /\ Goto(c, "read_crc")
    /\ UNCHANGED <<wires, clients, disk, keyCount>>

(* When the file is gone, readfile calls exit and the thread ends. *)
ReadCrc(c) ==
    LET content == backup[Path(c)]
    IN /\ pc[c] = "read_crc"
       /\ \/ /\ content # None
             /\ Answer(c, CrcReply(req[c].uid, content))
             /\ UNCHANGED wires
          \/ /\ content = None
             /\ EndThread(c)
       /\ UNCHANGED <<tables, disk, keyCount>>

-----------------------------------------------------------------------------
(* 900 and 902 *)

(* Mutant: the name of the file is left out of the query. *)
SelectedByUuid(u, f) == u \in Uids /\ files[u] # None

(* Without a file name the row is selected by the uuid alone. *)
Selected(u, f) == u \in Uids /\ files[u] # None /\ f \in {None, files[u].file}

UpdateVerified(c) ==
    LET u == req[c].uid
    IN /\ pc[c] = "update_verified"
       /\ files' = IF Selected(u, req[c].file)
                   THEN [files EXCEPT ![u].verified = TRUE] ELSE files
       /\ Answer(c, Reply(FILE_APPROVAL, u))
       /\ UNCHANGED <<wires, clients, disk, keyCount>>

(* Mutant: an abort leaves the file where it is. *)
KeepInBackup(c) ==
    /\ pc[c] = "delete_from_backup"
    /\ Goto(c, "delete_unverified")
    /\ UNCHANGED <<wires, tables, disk, keyCount>>

(* A file that another thread has open goes on living without its name. *)
DeleteFromBackup(c) ==
    LET found == /\ Registered(req[c].uid)
                 /\ req[c].file # None
                 /\ backup[Path(c)] # None
        writers == {d \in Conns : pc[d] = "write_file" /\ Path(d) = Path(c)}
    IN /\ pc[c] = "delete_from_backup"
       /\ \/ /\ found
             /\ backup' = [backup EXCEPT ![Path(c)] = None]
             /\ detached' = detached \cup writers
          \/ /\ ~found
             /\ UNCHANGED disk
       /\ Goto(c, "delete_unverified")
       /\ UNCHANGED <<wires, tables, keyCount>>

(* Mutant: the verified row is the one that is deleted. *)
VerifiedRow(u, f) ==
    u \in Uids /\ files[u] # None /\ files[u].file = f /\ files[u].verified

UnverifiedRow(u, f) ==
    u \in Uids /\ files[u] # None /\ files[u].file = f /\ ~files[u].verified

DeleteUnverified(c) ==
    LET u == req[c].uid
    IN /\ pc[c] = "delete_unverified"
       /\ files' = IF UnverifiedRow(u, req[c].file)
                   THEN [files EXCEPT ![u] = None] ELSE files
       /\ Answer(c, Reply(FILE_APPROVAL, u))
       /\ UNCHANGED <<wires, clients, disk, keyCount>>

-----------------------------------------------------------------------------
(* Faults. *)

(* A query, a decryption or a file operation raises.  delete_from_backup    *)
(* swallows its exception, readfile ends the thread, which the query before *)
(* it does not, and a write that fails may have left a part of the content. *)
StepFails(c) ==
    /\ Faults
    /\ \/ /\ pc[c] \notin {"off", "handle_request", "send_response", "delete_from_backup"}
          /\ Refuse(c)
          /\ UNCHANGED <<wires, disk>>
       \/ /\ pc[c] = "write_file"
          /\ c \notin detached
          /\ backup' = [backup EXCEPT ![Path(c)] = Garbled]
          /\ Refuse(c)
          /\ UNCHANGED <<wires, detached>>
       \/ /\ pc[c] = "delete_from_backup"
          /\ Goto(c, "delete_unverified")
          /\ UNCHANGED <<wires, disk>>
       \/ /\ pc[c] = "read_crc"
          /\ EndThread(c)
          /\ UNCHANGED disk
    /\ UNCHANGED <<tables, keyCount>>

(* The process dies and is started again.  A client whose response was      *)
(* being sent may have got a part of it.                                    *)
Crash ==
    /\ Crashes
    /\ link' = [c \in Conns |->
          CASE link[c] = "shut" -> "free"
            [] link[c] = "open" -> IF pc[c] = "send_response" THEN "cut" ELSE "dead"
            [] OTHER            -> link[c]]
    /\ inbox' = [c \in Conns |-> None]
    /\ pc' = [c \in Conns |-> "off"]
    /\ req' = [c \in Conns |-> None]
    /\ held' = [c \in Conns |-> None]
    /\ ans' = [c \in Conns |-> None]
    /\ detached' = {}
    /\ UNCHANGED <<outbox, tables, backup, keyCount>>

-----------------------------------------------------------------------------
(* One thread of the server, and the server. *)

Handle(c) ==
    \/ Accept(c) \/ Dispatch(c) \/ RejectVersion(c) \/ DropUnknownCode(c)
    \/ CloseConnection(c) \/ SendResponse(c)
    \/ FindUsername(c) \/ AddNewClient(c)
    \/ SetPublicKey(c) \/ RecoverPublicKey(c) \/ StoreAesKey(c) \/ EncryptKey(c)
    \/ DecryptFile(c) \/ OpenFile(c) \/ WriteFile(c) \/ AddNewFile(c) \/ ReadCrc(c)
    \/ UpdateVerified(c) \/ DeleteFromBackup(c) \/ DeleteUnverified(c)

ServerNext == Crash \/ \E c \in Conns : Handle(c) \/ StepFails(c)

(* Clients that send any of Traffic, one request at a time. *)
server == <<tables, disk, keyCount, thread>>

MaySend(c) ==
    /\ link[c] = "open" /\ inbox[c] = None /\ outbox[c] = None
    /\ pc[c] \in {"off", "handle_request"}

KeysLeftFor(r) == r.code \in {S_PUBLIC_KEY, RECONNECT} => keyCount < MaxKeys

ClientConnects(c) == Connect(c) /\ UNCHANGED server
ClientSends(c) ==
    /\ MaySend(c)
    /\ \E r \in Traffic : KeysLeftFor(r) /\ Submit(c, r)
    /\ UNCHANGED server
ClientDiesSending(c) ==
    /\ TornRequests /\ MaySend(c)
    /\ \E r \in Traffic : KeysLeftFor(r) /\ SubmitTorn(c, r)
    /\ UNCHANGED server
ClientReads(c) == Collect(c) /\ UNCHANGED server
ClientLeaves(c) == Hangup(c) /\ UNCHANGED server

ClientsNext == \E c \in Conns :
    \/ ClientConnects(c) \/ ClientSends(c) \/ ClientDiesSending(c)
    \/ ClientReads(c) \/ ClientLeaves(c)

Next == ServerNext \/ ClientsNext

Spec == Init /\ [][Next]_vars

(* The scheduler runs every thread that can run, and a client reads what    *)
(* was sent to it; nothing says that a client sends or leaves.              *)
FairSpec == Spec /\ \A c \in Conns : WF_vars(Handle(c)) /\ WF_vars(ClientReads(c))

-----------------------------------------------------------------------------
(* Properties that hold whatever the threads, the faults and the crashes. *)

(* A user has a row in files only when the whole key exchange (825, 826 up  *)
(* to the stored AES key) came before it, and the key is never taken back:  *)
(* save_file runs only after decrypt_file found a key.                      *)
NoFileBeforeKeyExchange ==
    \A u \in Uids : files[u] # None =>
        /\ clients[u] # None
        /\ clients[u].pub # Placeholder
        /\ clients[u].aes # NoKey

(* Every file in the backup directory lies in the directory of a user who   *)
(* is registered under that name and has exchanged keys.                    *)
BackupHasOwner ==
    \A p \in Paths : backup[p] # None =>
        \E u \in Uids : /\ clients[u] # None
                        /\ clients[u].name = p[1]
                        /\ clients[u].aes # NoKey

KeyWasStored(a) ==
    a.code \in {IN_PUBLIC_KEY_OUT_AES, RECCONECT_APPROVED} =>
        /\ Registered(a.uid)
        /\ 0 < a.key /\ a.key <= clients[a.uid].aes

(* An AES key is on its way to a client (1602, 1605) only when it was       *)
(* stored in the row of that user, where only a later key may replace it.   *)
DeliveredKeyWasStored ==
    \A c \in Conns :
        LET a == outbox[c]
        IN a # None => KeyWasStored(a)

(* A row of files that is verified never changes again: no later upload,    *)
(* abort, fault or crash takes the approval back.                           *)
VerifiedRowPermanent ==
    [][\A u \in Uids : files[u] # None /\ files[u].verified => files'[u] = files[u]]_vars

(* When every request arrives whole, a row of files becomes verified only   *)
(* by a 900 of its owner that names the file of the row.                    *)
ApprovalNamesFile ==
    [][\A u \in Uids :
          /\ files[u] # None /\ ~files[u].verified
          /\ files'[u] # None /\ files'[u].verified
          => \E c \in Conns : /\ pc[c] = "update_verified"
                              /\ req[c].uid = u
                              /\ req[c].file = files[u].file]_vars

(* A request that has arrived is answered or its connection is closed; 901  *)
(* has no answer of its own.                                                *)
EveryRequestAnswered ==
    \A c \in Conns :
        link[c] = "open" /\ inbox[c] # None /\ inbox[c].code # N_VALID_CRC
            ~> outbox[c] # None \/ link[c] # "open"

-----------------------------------------------------------------------------
(* Properties of threads that do not get in each other's way. *)

(* No two rows of clients have the same user name (find_username before     *)
(* add_new_client_db, register_new_client).                                 *)
UniqueUserNames ==
    \A u, v \in Uids :
        clients[u] # None /\ clients[v] # None /\ clients[u].name = clients[v].name
            => u = v

(* The file of a row that is not yet verified is in the backup directory,   *)
(* except between the two deletions of an abort (valid_or_abort, 902).      *)
UnverifiedRowHasFile ==
    \A u \in Uids : files[u] # None /\ ~files[u].verified =>
        \/ backup[<<clients[u].name, files[u].file>>] # None
        \/ \E c \in Conns : pc[c] = "delete_unverified" /\ req[c].uid = u

(* When an abort (902) is confirmed, the file is gone from the backup       *)
(* directory and no unverified row of files names it (valid_or_abort).      *)
AbortRemovesFile ==
    \A c \in Conns :
        LET r == req[c]
        IN pc[c] = "send_response" /\ r # None /\ r.code = EXIT_CRC
               /\ ans[c].code = FILE_APPROVAL /\ Registered(r.uid) /\ r.file # None =>
                   /\ backup[Path(c)] = None
                   /\ files[r.uid] # None /\ files[r.uid].file = r.file
                          => files[r.uid].verified

(* The checksum of a 1603 is that of the decrypted file, which is what the  *)
(* backup directory then holds (save_file and build_decrypted_file_payload).*)
ChecksumIsOfUpload ==
    \A c \in Conns :
        pc[c] = "send_response" /\ ans[c].code = VALID_FILE_CRC =>
            ans[c].crc = held[c] /\ backup[Path(c)] = held[c]

-----------------------------------------------------------------------------
(* The inductive invariant behind the properties of every thread. *)

(* A handler that passed a check can rely on what it checked although the   *)
(* lock is long released: rows of clients are never deleted, and a user     *)
(* that has a public key or an AES key keeps having one.                    *)
HandlerOK(c) ==
    /\ pc[c] \notin {"off", "handle_request", "send_response"} => req[c] \in Request
    /\ pc[c] \in {"store_aes_key", "encrypt"} =>
          Registered(req[c].uid) /\ clients[req[c].uid].pub # Placeholder
    /\ pc[c] = "store_aes_key" => held[c] \in PubKeys
    /\ pc[c] \in {"open_file", "write_file", "add_new_file", "read_crc"} =>
          Registered(req[c].uid) /\ clients[req[c].uid].aes # NoKey
    /\ pc[c] \in {"write_file", "add_new_file", "read_crc"} => req[c].file \in Files
    /\ pc[c] \in {"open_file", "write_file"} => held[c] \in Bodies \cup {Garbled}

AnswerOK(c) == pc[c] \in {"encrypt", "send_response"} =>
                   ans[c] \in Response /\ KeyWasStored(ans[c])

RowsOK ==
    \A u \in Uids : clients[u] # None =>
        /\ clients[u].aes <= keyCount
        /\ clients[u].aes # NoKey => clients[u].pub # Placeholder

(* What every step of every thread, every fault and every crash preserves.  *)
IInv ==
    /\ TypeOK
    /\ \A c \in Conns : HandlerOK(c) /\ AnswerOK(c)
    /\ RowsOK
    /\ NoFileBeforeKeyExchange
    /\ BackupHasOwner
    /\ DeliveredKeyWasStored

-----------------------------------------------------------------------------
(* The inductive invariant behind the properties of a thread that nobody    *)
(* gets in the way of, because there is one connection at a time.           *)

OneThread == \A c, d \in Conns : c = d

(* What register_new_client and save_file rely on from query to query. *)
UndisturbedOK(c) ==
    /\ pc[c] = "add_new_client" => UsersNamed(req[c].name) = {}
    /\ pc[c] = "write_file" => backup[Path(c)] = Empty
    /\ pc[c] \in {"add_new_file", "read_crc"} =>
          held[c] # None /\ backup[Path(c)] = held[c]
    /\ pc[c] = "encrypt" => ans[c].code \notin {VALID_FILE_CRC, FILE_APPROVAL}
    /\ pc[c] = "update_verified" => req[c].code # EXIT_CRC

(* delete_from_backup swallows its exceptions, so that after a fault an     *)
(* abort may go on with the file still there (valid_or_abort).              *)
AbortOK(c) ==
    pc[c] = "delete_unverified" /\ Registered(req[c].uid) /\ req[c].file # None =>
        backup[Path(c)] = None

(* An abort that stops between its two deletions leaves such a row behind.  *)
UnverifiedOK ==
    \A u \in Uids : files[u] # None /\ ~files[u].verified =>
        \/ backup[<<clients[u].name, files[u].file>>] # None
        \/ \E c \in Conns : /\ pc[c] = "delete_unverified"
                            /\ req[c].uid = u /\ req[c].file = files[u].file

SessionInv ==
    /\ detached = {}
    /\ UniqueUserNames /\ ChecksumIsOfUpload
    /\ \A c \in Conns : UndisturbedOK(c)
    /\ ~Faults => AbortRemovesFile /\ \A c \in Conns : AbortOK(c)
    /\ ~Faults /\ ~Crashes => UnverifiedOK

-----------------------------------------------------------------------------
(* What the documentation says and the code does not do. *)

(* create_db's and handle_encrypted_file's docstrings: an upload updates    *)
(* the files table, so that a file whose checksum is sent has a row.        *)
UploadRecorded ==
    \A c \in Conns :
        pc[c] = "send_response" /\ ans[c].code = VALID_FILE_CRC =>
            files[req[c].uid] # None /\ files[req[c].uid].file = req[c].file
=============================================================================
