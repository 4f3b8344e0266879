------------------------------ MODULE StartUp -------------------------------
(***************************************************************************)
(* How the two programs start: the server up to the loop that accepts      *)
(* clients, and the client up to main.  Each is a sequence of steps, and   *)
(* each step may be the last one.                                          *)
(*                                                                         *)
(* The client constructs its members in the order in which Client.h        *)
(* declares them, which is not the order of the initializers: the request  *)
(* handler is first and asks for the name of the file, and the TransferInfo*)
(* that knows it is last but one.                                          *)
(***************************************************************************)
EXTENDS Naturals

CONSTANTS
    Ports,         \* ports that a server can bind
    DefaultPort,   \* DEFUALT_PORT (1256)
    Absent,        \* a file that does not exist
    Malformed,     \* a port.info that is no number, or a line without a colon
    OutOfRange,    \* a number that is no port
    Loopback,      \* the address the server binds (127.0.0.1)
    Hosts,         \* addresses in transfer.info
    NameLengths,   \* lengths of the user name in transfer.info
    Paths,         \* [size, blanks]: a path's length, and how it ends
    MayFail        \* BOOLEAN: files, directories and the database may fail

PortInfos == Ports \cup {Absent, Malformed, OutOfRange}

(* The first line is <<host, port>>, or Malformed. *)
TransferInfos ==
    [address : (Hosts \X (Ports \cup {OutOfRange})) \cup {Malformed},
     userName : NameLengths, path : Paths]

ASSUME StartUpAssumption ==
    /\ DefaultPort \in Ports /\ Loopback \in Hosts
    /\ {Absent, Malformed, OutOfRange} \cap Ports = {}
    /\ NameLengths \subseteq Nat
    /\ Paths \subseteq {p \in [size : Nat, blanks : Nat] : p.blanks <= p.size}
    /\ MayFail \in BOOLEAN

VARIABLES
    portInfo,      \* the file port.info of the server
    occupied,      \* ports that other programs have bound
    tables,        \* whether the database has its tables
    backupPath,    \* whether the backup directory exists
    server,        \* [at, port]: the server program
    accepted,      \* whether a thread serves the client
    transferInfo,  \* the file transfer.info of the client
    client         \* [at, name, path]: the client program, and what it has read

startVars == <<portInfo, occupied, tables, backupPath, server, accepted, transferInfo, client>>

serverFiles == <<portInfo, occupied>>
serverVars  == <<portInfo, occupied, tables, backupPath, server, accepted>>
clientSide  == <<transferInfo, client>>

StartUpInit ==
    /\ portInfo \in PortInfos
    /\ occupied \in {{}, {DefaultPort}}
    /\ tables = FALSE /\ backupPath = FALSE
    /\ server = [at |-> "database", port |-> Absent]
    /\ accepted = FALSE
    /\ transferInfo \in TransferInfos \cup {Absent}
    /\ client = [at |-> "requestHandler", name |-> 0, path |-> 0]

-----------------------------------------------------------------------------
(* The server: DefensiveDB(), make_backup_path, get_port_info, bind.        *)

ServerGoes(from, to) == server.at = from /\ server' = [server EXCEPT !.at = to]

(* An exception that nobody catches, or exit(1). *)
ServerStops(from) == ServerGoes(from, "ended")

CreateDb ==
    /\ \/ ServerGoes("database", "backup") /\ tables' = TRUE
       \/ MayFail /\ ServerStops("database") /\ UNCHANGED tables
    /\ UNCHANGED <<serverFiles, backupPath, accepted, clientSide>>

(* Mutant: what goes wrong is not the end. *)
MakeOrGoOn ==
    \/ ServerGoes("backup", "port") /\ backupPath' = TRUE
    \/ MayFail /\ ServerGoes("backup", "port") /\ UNCHANGED backupPath

MakeOrExit ==
    \/ ServerGoes("backup", "port") /\ backupPath' = TRUE
    \/ MayFail /\ ServerStops("backup") /\ UNCHANGED backupPath

make_backup_path == MakeOrExit /\ UNCHANGED <<serverFiles, tables, accepted, clientSide>>

(* A port.info that is not there is the default; one that is no number      *)
(* raises ValueError.                                                       *)
get_port_info ==
    /\ server.at = "port"
    /\ server' = IF portInfo = Malformed THEN [server EXCEPT !.at = "ended"]
                 ELSE [at |-> "bind", port |-> IF portInfo = Absent THEN DefaultPort ELSE portInfo]
    /\ UNCHANGED <<serverFiles, tables, backupPath, accepted, clientSide>>

CanBind(port) == port \in Ports \ occupied

set_connection ==
    /\ \/ CanBind(server.port) /\ ServerGoes("bind", "listening")
       \/ ~CanBind(server.port) /\ ServerStops("bind")
    /\ UNCHANGED <<serverFiles, tables, backupPath, accepted, clientSide>>

accept_client ==
    /\ server.at = "listening" /\ client.at \in {"setPublicKey", "main"}
    /\ ~accepted
    /\ accepted' = TRUE
    /\ UNCHANGED <<serverFiles, tables, backupPath, server, clientSide>>

-----------------------------------------------------------------------------
(* The client: the constructors of its members and of Client.               *)

ClientGoes(from, to) == client.at = from /\ client' = [client EXCEPT !.at = to]

(* getFileName of a TransferInfo that is not constructed: the name is       *)
(* undefined, and the program may crash.                                    *)
ConstructRequestHandler ==
    /\ \/ ClientGoes("requestHandler", "keys")
       \/ ClientGoes("requestHandler", "ended")
    /\ UNCHANGED <<serverVars, transferInfo>>

ConstructEncryptionHandler ==
    /\ ClientGoes("keys", "transferInfo")
    /\ UNCHANGED <<serverVars, transferInfo>>

setHostPort(t) == t.address # Malformed

isValidUserName(t) == t.userName + 1 <= 100 /\ t.userName > 0

(* Whether the path is empty is looked at before its blanks are removed.    *)
isValidPath(t) == t.path.size > 0

getTransferInfo ==
    LET t == transferInfo
        valid == t # Absent /\ setHostPort(t) /\ isValidUserName(t) /\ isValidPath(t)
    IN /\ client.at = "transferInfo"
       /\ client' = IF valid THEN [client EXCEPT !.at = "connect", !.name = t.userName,
                                                 !.path = t.path.size - t.path.blanks]
                    ELSE [client EXCEPT !.at = "ended"]
       /\ UNCHANGED <<serverVars, transferInfo>>

Reaches(t) == server.at = "listening" /\ t.address = <<Loopback, server.port>>

(* setConnection throws when nobody listens there, and Client exits.        *)
setConnection ==
    /\ client.at = "connect"
    /\ ClientGoes("connect", IF Reaches(transferInfo) THEN "setPublicKey" ELSE "ended")
    /\ UNCHANGED <<serverVars, transferInfo>>

setPublicKey == ClientGoes("setPublicKey", "main") /\ UNCHANGED <<serverVars, transferInfo>>

-----------------------------------------------------------------------------
ServerStarts == CreateDb \/ make_backup_path \/ get_port_info \/ set_connection

ClientStarts ==
    \/ ConstructRequestHandler \/ ConstructEncryptionHandler
    \/ getTransferInfo \/ setConnection \/ setPublicKey

-----------------------------------------------------------------------------
(* A client that runs main was given a name that a registration can carry   *)
(* and that me.info can hold, and has a connection to a server with its     *)
(* tables and its backup directory, at the port of transfer.info, wherever  *)
(* the server has it from (the constructors of Client and Server).          *)
MainIsReady ==
    client.at = "main" =>
        /\ client.name \in 1..99
        /\ tables /\ backupPath
        /\ server.at = "listening"
        /\ transferInfo.address = <<Loopback, server.port>>
=============================================================================
