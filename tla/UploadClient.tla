---------------------------- MODULE UploadClient ----------------------------
(***************************************************************************)
(* The client program.  On every machine the user's transfer.info names    *)
(* the user and the file; me.info and key.priv are what earlier runs left  *)
(* behind.  One run of the program is a fixed sequence of calls of main:   *)
(*                                                                         *)
(*     registerNewClient(); uploadFile(); signIn(); uploadFile();          *)
(*                                                                         *)
(* and each call is a sequence of sendAndRecieve, retried after an error   *)
(* (errorResend) or a wrong checksum (resendEncryptedMessage).  A run has  *)
(* a connection and an RSA key pair of its own.                            *)
(*                                                                         *)
(* The names of the operators do not meet those of BackupServer, so that   *)
(* FileTransfer can extend both modules.                                   *)
(***************************************************************************)
EXTENDS Connection

CONSTANTS
    Machines,
    Owner,         \* machine -> user name in transfer.info
    Upload,        \* machine -> name of the file in transfer.info
    Local,         \* machine -> content of that file
    MaxRuns,       \* bound: how often the program is started on a machine
    LocalFaults,   \* BOOLEAN: local files may be unreadable or unwritable
    Kills          \* BOOLEAN: a run may be killed

Sessions == Machines \X (1..MaxRuns)

ASSUME MachinesAssumption ==
    /\ Owner \in [Machines -> Names]
    /\ Upload \in [Machines -> Files]
    /\ Local \in [Machines -> Bodies]
    /\ MaxRuns \in Nat
    /\ LocalFaults \in BOOLEAN /\ Kills \in BOOLEAN
    /\ Conns = Sessions
    /\ PubKeys = Sessions

VARIABLES
    meInfo,    \* machine -> uuid in me.info, or None
    keyPriv,   \* machine -> key pair whose private key is in key.priv, or None
    run,       \* machine -> how often the program was started
    proc       \* machine -> the state of the program

local == <<meInfo, keyPriv>>
clientVars == <<local, run, proc>>

(* The connection and the key pair of the current run on machine m. *)
Session(m) == <<m, run[m]>>

(*   at     the call of main that runs                                     *)
(*   op     the request sendAndRecieve is about                            *)
(*   mode   "once", or inside errorResend ("error") or                     *)
(*          resendEncryptedMessage ("crc"), where tries is the loop counter*)
(*   phase  "send"   : the request is to be built and sent                 *)
(*          "await"  : the response is to be received                      *)
(*          "saveKey", "saveInfo" : createNewClientFile writes its files   *)
(*          "exit"   : the program is about to end                         *)
(*          "off", "terminated" : it ended, in the latter case by an       *)
(*                     exception that no handler catches                   *)
(*   id     clientID of the request packet                                 *)
(*   file   _filename of the request handler, which names the file of 900, *)
(*          901 and 902; None while it is what the constructor read from a *)
(*          TransferInfo that was not constructed yet                      *)
(*   aes    the AES key it uploads with                                    *)
(*   last   the response packet                                            *)
Process ==
    [at : {"register", "upload1", "signIn", "upload2"}, op : RequestCodes,
     mode : {"once", "error", "crc"}, tries : 0..1,
     phase : {"send", "await", "saveKey", "saveInfo", "exit", "off", "terminated"},
     id : Uids \cup {NoUid}, file : Files \cup {None}, aes : Nat,
     crcValid : BOOLEAN, registered : BOOLEAN, last : Response \cup {None}]

NewProcess ==
    [at |-> "register", op |-> REGISTER, mode |-> "once", tries |-> 0, phase |-> "send",
     id |-> NoUid, file |-> None, aes |-> NoKey,
     crcValid |-> TRUE, registered |-> FALSE, last |-> None]

NoProcess == [NewProcess EXCEPT !.phase = "off"]

Running(m) == proc[m].phase \notin {"off", "terminated"}

ClientTypeOK ==
    /\ meInfo \in [Machines -> Uids \cup {None}]
    /\ keyPriv \in [Machines -> PubKeys \cup {None}]
    /\ run \in [Machines -> 0..MaxRuns]
    /\ proc \in [Machines -> Process]

ClientInit ==
    /\ meInfo = [m \in Machines |-> None]
    /\ keyPriv = [m \in Machines |-> None]
    /\ run = [m \in Machines |-> 0]
    /\ proc = [m \in Machines |-> NoProcess]

-----------------------------------------------------------------------------
(* Where the program p goes. *)

Ask(p, code) == [p EXCEPT !.op = code, !.phase = "send"]

AskOnce(p, code) == Ask([p EXCEPT !.mode = "once", !.tries = 0], code)

(* Mutant: the file is sent with no exchange of keys before it. *)
SendAtOnce(p) == AskOnce(p, SEND_FILE)

BeginUpload(p) == AskOnce(p, IF p.registered THEN SEND_FILE ELSE S_PUBLIC_KEY)

(* The call of main returns, and main goes on with the next one. *)
Return(p) ==
    CASE p.at = "register" -> BeginUpload([p EXCEPT !.at = "upload1"])
      [] p.at = "upload1"  -> AskOnce([p EXCEPT !.at = "signIn"], RECONNECT)
      [] p.at = "signIn"   -> BeginUpload([p EXCEPT !.at = "upload2"])
      [] p.at = "upload2"  -> [p EXCEPT !.phase = "exit"]

(* uploadFile exits on an exception; the other calls just return false. *)
Throw(p) == IF p.at \in {"upload1", "upload2"} THEN [p EXCEPT !.phase = "exit"]
                                               ELSE Return(p)

(* Mutant: the file is confirmed whatever the checksum. *)
ProceedUnchecked(p) ==
    CASE p.op = S_PUBLIC_KEY -> AskOnce(p, SEND_FILE)
      [] p.op = SEND_FILE    -> AskOnce(p, VALID_CRC)
      [] p.op = VALID_CRC    -> Return(p)

(* uploadFile goes on after a request that was not answered with an error. *)
Proceed(p) ==
    CASE p.op = S_PUBLIC_KEY -> AskOnce(p, SEND_FILE)
      [] p.op = SEND_FILE    -> IF p.crcValid THEN AskOnce(p, VALID_CRC)
                                ELSE Ask([p EXCEPT !.mode = "crc", !.tries = 0], N_VALID_CRC)
      [] p.op = VALID_CRC    -> Return(p)

(* Mutant: whether the last attempt failed is not looked at. *)
ProceedAnyway(p) == IF p.tries < 1 THEN Ask([p EXCEPT !.tries = @ + 1], p.op) ELSE Proceed(p)

(* Mutant: the request is sent until it succeeds. *)
ResendForever(p) == IF p.last.code = GENERAL_ERROR THEN Ask(p, p.op) ELSE Proceed(p)

(* errorResend sends the request two more times in any case. *)
AfterErrorResend(p) ==
    IF p.tries < 1 THEN Ask([p EXCEPT !.tries = @ + 1], p.op)
    ELSE IF p.last.code = GENERAL_ERROR THEN Return(p) ELSE Proceed(p)

(* Mutant: the loop runs once more than it should. *)
OneMoreCrcResend(p) ==
    CASE p.op = EXIT_CRC                -> Return(p)
      [] p.op = SEND_FILE /\ p.crcValid -> AskOnce(p, VALID_CRC)
      [] OTHER -> IF p.tries < 2 THEN Ask([p EXCEPT !.tries = @ + 1], N_VALID_CRC)
                                 ELSE Ask(p, EXIT_CRC)

AfterCrcResend(p) ==
    CASE p.op = EXIT_CRC                -> Return(p)
      [] p.op = SEND_FILE /\ p.crcValid -> AskOnce(p, VALID_CRC)
      [] OTHER -> IF p.tries < 1 THEN Ask([p EXCEPT !.tries = @ + 1], N_VALID_CRC)
                                 ELSE Ask(p, EXIT_CRC)

AfterUploadReply(p) ==
    CASE p.mode = "error" -> AfterErrorResend(p)
      [] p.mode = "crc"   -> AfterCrcResend(p)
      [] p.mode = "once"  -> IF p.last.code = GENERAL_ERROR
                             THEN Ask([p EXCEPT !.mode = "error", !.tries = 0], p.op)
                             ELSE Proceed(p)

(* Mutant: the client forgets that it is registered. *)
SignInForgotten(p) ==
    IF p.op = RECONNECT /\ p.last.code = RECCONET_DENIED THEN Ask(p, REGISTER) ELSE Return(p)

AfterSignInReply(p) ==
    CASE p.op = RECONNECT /\ p.last.code = RECCONET_DENIED    -> Ask(p, REGISTER)
      [] p.op = RECONNECT /\ p.last.code = RECCONECT_APPROVED ->
            Return([p EXCEPT !.registered = TRUE])
      [] OTHER -> Return(p)

AfterReply(p) ==
    CASE p.at = "register" -> Return(p)
      [] p.at = "signIn"   -> AfterSignInReply(p)
      [] OTHER             -> AfterUploadReply(p)

-----------------------------------------------------------------------------
(* The program starts, sends and receives. *)

Goes(m, p) == proc' = [proc EXCEPT ![m] = p]

Start(m) ==
    /\ ~Running(m)
    /\ run[m] < MaxRuns
    /\ run' = [run EXCEPT ![m] = @ + 1]
    /\ Connect(<<m, run[m] + 1>>)
    /\ Goes(m, NewProcess)
    /\ UNCHANGED local

(* registreationRequest puts a filler into clientID, clientSignIn puts the  *)
(* uuid of me.info there, and the other requests use what they find.        *)
SenderId(m) ==
    CASE proc[m].op = REGISTER  -> NoUid
      [] proc[m].op = RECONNECT -> meInfo[m]
      [] OTHER                  -> proc[m].id

RequestOf(m) ==
    LET op == proc[m].op
        id == SenderId(m)
    IN CASE op = REGISTER     -> RegisterRequest(Owner[m])
         [] op = S_PUBLIC_KEY -> PublicKeyRequest(id, Session(m))
         [] op = RECONNECT    -> SignInRequest(id)
         [] op = SEND_FILE    -> FileRequest(id, Upload[m], proc[m].aes, Local[m])
         [] OTHER             -> CrcRequest(op, id, proc[m].file)

(* Mutant: that me.info is missing goes unnoticed. *)
AlwaysBuilds(m) == TRUE

CanBuild(m) == proc[m].op = RECONNECT => meInfo[m] # None

(* Mutant: nor is the answer to a confirmation waited for. *)
UnansweredVerdicts == {N_VALID_CRC, VALID_CRC}

(* After 901 the file is sent again without waiting for a response. *)
Unanswered == {N_VALID_CRC}

(* Mutant: building 828 leaves the name as it is. *)
KeepsName(p, f) == p

(* setEncryptionPayload sets the name anew. *)
SetsName(p, f) == IF p.op = SEND_FILE THEN [p EXCEPT !.file = f] ELSE p

SendRequest(m) ==
    LET p == SetsName([proc[m] EXCEPT !.id = SenderId(m)], Upload[m])
    IN /\ proc[m].phase = "send"
       /\ CanBuild(m)
       /\ Submit(Session(m), RequestOf(m))
       /\ Goes(m, IF p.op \in Unanswered THEN Ask(p, SEND_FILE)
                                          ELSE [p EXCEPT !.phase = "await"])
       /\ UNCHANGED <<local, run>>

(* me.info is missing, or the file to upload cannot be read. *)
BuildFails(m) ==
    /\ proc[m].phase = "send"
    /\ \/ ~CanBuild(m)
       \/ LocalFaults /\ proc[m].op \in {RECONNECT, SEND_FILE}
    /\ Goes(m, Throw(proc[m]))
    /\ UNCHANGED <<wires, local, run>>

(* Mutant: a run keeps the first key that it gets. *)
KeepFirstKey(p, k) == IF p.aes = NoKey THEN [p EXCEPT !.aes = k] ELSE p

TakeKey(p, k) == [p EXCEPT !.aes = k]

(* responseSelector goes by the code of the response alone.  An AES key can *)
(* be decrypted only with the private key that it was encrypted for, and    *)
(* key.priv is where it is read from.                                       *)
ReceiveResponse(m) ==
    LET a == outbox[Session(m)]
        p == [proc[m] EXCEPT !.last = a]
        givesKey == a.code \in {IN_PUBLIC_KEY_OUT_AES, RECCONECT_APPROVED}
    IN /\ proc[m].phase = "await"
       /\ Collect(Session(m))
       /\ \/ /\ a.code = INIT_REGISTRATION_SUCC
             /\ Goes(m, [p EXCEPT !.phase = "saveKey"])
          \/ /\ givesKey /\ keyPriv[m] = a.pub
             /\ Goes(m, AfterReply(TakeKey(p, a.key)))
          \/ /\ givesKey /\ (keyPriv[m] # a.pub \/ LocalFaults)
             /\ Goes(m, Throw(p))
          \/ /\ a.code = VALID_FILE_CRC
             /\ Goes(m, AfterReply([p EXCEPT !.crcValid = (a.crc = Local[m])]))
          \/ /\ a.code = VALID_FILE_CRC /\ LocalFaults
             /\ Goes(m, AfterReply([p EXCEPT !.crcValid = FALSE]))
          \/ /\ a.code \notin {INIT_REGISTRATION_SUCC, VALID_FILE_CRC} /\ ~givesKey
             /\ Goes(m, AfterReply(p))
       /\ UNCHANGED <<local, run>>

-----------------------------------------------------------------------------
(* createNewClientFile, which ends in clientID being set. *)

(* Mutant: the uuid of the request packet is saved. *)
SenderUid(m) == proc[m].id

NewUid(m) == proc[m].last.uid

SaveKey(m) ==
    /\ proc[m].phase = "saveKey"
    /\ \/ /\ keyPriv[m] = None
          /\ keyPriv' = [keyPriv EXCEPT ![m] = Session(m)]
          /\ Goes(m, [proc[m] EXCEPT !.phase = "saveInfo"])
       \/ /\ keyPriv[m] # None \/ LocalFaults
          /\ UNCHANGED keyPriv
          /\ Goes(m, Throw(proc[m]))
    /\ UNCHANGED <<wires, meInfo, run>>

SaveInfo(m) ==
    LET uid == NewUid(m)
    IN /\ proc[m].phase = "saveInfo"
       /\ \/ /\ meInfo[m] = None
             /\ meInfo' = [meInfo EXCEPT ![m] = uid]
             /\ Goes(m, Return([proc[m] EXCEPT !.id = uid]))
          \/ /\ meInfo[m] # None \/ LocalFaults
             /\ UNCHANGED meInfo
             /\ Goes(m, Throw(proc[m]))
       /\ UNCHANGED <<wires, keyPriv, run>>

-----------------------------------------------------------------------------
(* How a run loses its connection, and how it ends. *)

(* A write fails, or a read ends before the header of a response. *)
ConnectionLost(m) ==
    /\ proc[m].phase \in {"send", "await"}
    /\ link[Session(m)] \in {"dead", "cut"}
    /\ Goes(m, Throw(proc[m]))
    /\ UNCHANGED <<wires, local, run>>

Ends(m, how) ==
    /\ Hangup(Session(m))
    /\ Goes(m, [NoProcess EXCEPT !.phase = how])
    /\ UNCHANGED <<local, run>>

(* receiveInChunks throws an error_code, which is no std::exception. *)
PayloadLost(m) ==
    /\ proc[m].phase = "await"
    /\ link[Session(m)] = "cut"
    /\ outbox[Session(m)] = None
    /\ Ends(m, "terminated")

Exit(m) == proc[m].phase = "exit" /\ Ends(m, "off")

Kill(m) == Kills /\ Running(m) /\ Ends(m, "off")

KillSending(m) ==
    /\ Kills
    /\ proc[m].phase = "send"
    /\ CanBuild(m)
    /\ SubmitTorn(Session(m), RequestOf(m))
    /\ Goes(m, NoProcess)
    /\ UNCHANGED <<local, run>>

-----------------------------------------------------------------------------
(* The steps that a run takes by itself, and all that happens on a machine. *)
Runs(m) ==
    \/ SendRequest(m) \/ BuildFails(m) \/ ReceiveResponse(m)
    \/ SaveKey(m) \/ SaveInfo(m)
    \/ ConnectionLost(m) \/ PayloadLost(m) \/ Exit(m)

MachineNext(m) == Start(m) \/ Runs(m) \/ Kill(m) \/ KillSending(m)

-----------------------------------------------------------------------------
(* The client with any server that keeps to the protocol. *)

(* The codes that the handlers answer a request with; none answers 901.     *)
AnswerCodes ==
    {<<REGISTER, INIT_REGISTRATION_SUCC>>, <<REGISTER, REGISTRATION_FAIL>>,
     <<S_PUBLIC_KEY, IN_PUBLIC_KEY_OUT_AES>>,
     <<RECONNECT, RECCONECT_APPROVED>>, <<RECONNECT, RECCONET_DENIED>>,
     <<SEND_FILE, VALID_FILE_CRC>>,
     <<VALID_CRC, FILE_APPROVAL>>, <<EXIT_CRC, FILE_APPROVAL>>}
        \cup {<<op, GENERAL_ERROR>> : op \in RequestCodes \ {N_VALID_CRC}}

IsAnswer(op, a) ==
    /\ a \in Response
    /\ <<op, a.code>> \in AnswerCodes
    /\ a.code = INIT_REGISTRATION_SUCC => a.uid \in Uids
    /\ a.code \in {IN_PUBLIC_KEY_OUT_AES, RECCONECT_APPROVED} =>
           a.pub \in PubKeys /\ a.key # NoKey

(* The server takes requests and closes connections as it likes, and puts   *)
(* an answer on a connection only for a run that waits for it.              *)
ServerSide ==
    /\ UNCHANGED clientVars
    /\ WiresTypeOK'
    /\ \A c \in Conns :
          /\ link'[c] = "open" => link[c] = "open"
          /\ \/ outbox'[c] \in {outbox[c], None}
             \/ \E m \in Machines :
                   /\ c = Session(m) /\ proc[m].phase = "await"
                   /\ IsAnswer(proc[m].op, outbox'[c])

ClientNext == ServerSide \/ \E m \in Machines : MachineNext(m)

ClientSpec == WiresInit /\ ClientInit /\ [][ClientNext]_<<wires, clientVars>>

-----------------------------------------------------------------------------
(* Properties of the client, whatever the server answers. *)

(* A file is encrypted only with a key that the server delivered and that   *)
(* the private key in key.priv opened (uploadFile after 1602 or 1605).      *)
FileSentWithKey ==
    \A m \in Machines :
        proc[m].phase = "send" /\ proc[m].op = SEND_FILE =>
            proc[m].aes # NoKey /\ keyPriv[m] # None

(* A file is confirmed (900) only when the response before was a checksum,  *)
(* and the checksum is that of the local file.                              *)
ConfirmsOnlyMatches ==
    \A m \in Machines :
        LET p == proc[m]
        IN p.phase = "send" /\ p.op = VALID_CRC /\ p.mode = "once" =>
               p.last.code = VALID_FILE_CRC /\ p.last.crc = Local[m]

(* A confirmation, a complaint or an abort (900, 901, 902) names the file   *)
(* of transfer.info, although _filename is undefined when the program       *)
(* starts: an 828 was built before it in the same run (setEncryptionPayload)*)
VerdictNamesUpload ==
    \A m \in Machines :
        LET p == proc[m]
        IN p.phase = "send" /\ p.op \in {VALID_CRC, N_VALID_CRC, EXIT_CRC} =>
               p.file = Upload[m]

(* Which request, and which way of repeating it, belongs to which call of   *)
(* main.                                                                    *)
InPlace(p) ==
    /\ p.at = "register" => p.op = REGISTER
    /\ p.at = "signIn" => p.op \in {RECONNECT, REGISTER}
    /\ p.at \in {"register", "signIn"} => p.mode = "once"
    /\ p.at \in {"upload1", "upload2"} =>
           p.op \in IF p.mode = "crc" THEN {SEND_FILE, N_VALID_CRC, EXIT_CRC}
                                      ELSE {S_PUBLIC_KEY, SEND_FILE, VALID_CRC}

(* What program p of machine m may rely on, with the key pair priv in       *)
(* key.priv.                                                                *)
ProgramOK(m, p, priv) ==
    /\ p \in Process
    /\ InPlace(p)
    /\ p.aes # NoKey => priv # None
    /\ p.registered \/ p.op \notin {REGISTER, RECONNECT, S_PUBLIC_KEY} => p.aes # NoKey
    /\ p.mode = "crc" => ~p.crcValid
    /\ p.mode = "crc" \/ p.op = VALID_CRC \/ (p.op = SEND_FILE /\ p.phase = "await") =>
           p.file = Upload[m]
    /\ p.phase \in {"saveKey", "saveInfo"} =>
           p.op = REGISTER /\ p.last # None /\ p.last.uid \in Uids
    /\ p.phase = "send" /\ p.op = VALID_CRC /\ p.mode = "once" =>
           p.last # None /\ p.last.code = VALID_FILE_CRC /\ p.last.crc = Local[m]

(* A connection that no run uses yet is unused; on that of the current run  *)
(* there is a response only if the run waits for it, or nothing can be sent *)
(* any more.                                                                *)
WiresOK(m) ==
    /\ \A i \in (run[m] + 1)..MaxRuns : outbox[<<m, i>>] = None
    /\ Running(m) => run[m] > 0
    /\ run[m] > 0 /\ outbox[Session(m)] # None =>
          IF proc[m].phase = "await" THEN IsAnswer(proc[m].op, outbox[Session(m)])
                                     ELSE link[Session(m)] # "open"

(* The inductive invariant of the client, with any server that keeps to the *)
(* protocol: what ClientTypeOK, FileSentWithKey, ConfirmsOnlyMatches and      *)
(* VerdictNamesUpload follow from (Client.cpp).                             *)
ClientInv ==
    /\ ClientTypeOK /\ WiresTypeOK
    /\ \A m \in Machines : ProgramOK(m, proc[m], keyPriv[m]) /\ WiresOK(m)

(* An answer that carries an AES key. *)
GivesKey(a) == a # None /\ a.code \in {IN_PUBLIC_KEY_OUT_AES, RECCONECT_APPROVED}

(* Every run of the program ends. *)
EveryRunEnds == \A m \in Machines : Running(m) ~> ~Running(m)

-----------------------------------------------------------------------------
(* What a comment says and the program does not do. *)

(* connectionHandler.cpp, receiveData: on any error the function returns.   *)
NeverTerminates == \A m \in Machines : proc[m].phase # "terminated"
=============================================================================
