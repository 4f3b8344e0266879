---------------------------- MODULE WholeProofs ----------------------------
(***************************************************************************)
(* Proofs about the file, for any number of machines and runs whose owners *)
(* differ, when nothing fails: that a verified file is whole, and that     *)
(* every step is one of UploadLife.                                        *)
(*                                                                         *)
(* NoFailureInv is inductive next to TransferInv and OwnershipInv.  What a *)
(* thread has in hand is what the run that waits for it has sent           *)
(* (ServesRun), so that it decrypts with the right key, writes to the copy *)
(* of this machine and of no other, and sends the checksum of what it has  *)
(* written.                                                                *)
(***************************************************************************)
EXTENDS OwnershipProofs

USE DEF REGISTER, S_PUBLIC_KEY, RECONNECT, SEND_FILE, VALID_CRC, N_VALID_CRC, EXIT_CRC,
        INIT_REGISTRATION_SUCC, REGISTRATION_FAIL, IN_PUBLIC_KEY_OUT_AES, VALID_FILE_CRC,
        FILE_APPROVAL, RECCONECT_APPROVED, RECCONET_DENIED, GENERAL_ERROR, NoKey

(* Thread c works on the request of machine m. *)
Serves(c, m) ==
    /\ c = Session(m) /\ link[c] = "open" /\ inbox[c] = None /\ outbox[c] = None
    /\ Running(m) /\ proc[m].phase = "await"
    /\ req[c] \in Pending(c) /\ req[c].code = proc[m].op /\ req[c].uid = proc[m].id
    /\ AsksFor(m, req[c])
    /\ req[c].uid \in Uids /\ req[c].uid # NoUid => req[c].uid = meInfo[m]

LEMMA ServesRun ==
    ASSUME TransferInv, OwnershipInv, NoFailureInv, NEW c \in Conns,
           pc[c] \notin {"off", "handle_request"}
    PROVE  /\ \E m \in Machines : Serves(c, m)
           /\ req[c] \in Request /\ pc[c] \in StepsFor[req[c].code]
           /\ req[c].code \in {REGISTER, S_PUBLIC_KEY, RECONNECT, SEND_FILE, VALID_CRC}
<1>1. HandledOK(c) /\ IInv
  BY DEF TransferInv
<1>2. /\ req[c] \in Request /\ req[c].code \in RequestCodes \ {N_VALID_CRC}
      /\ pc[c] \in StepsFor[req[c].code]
  BY <1>1, AtWork
<1>3. req[c] \in Pending(c)
  BY <1>2, PendingTyped, PacketsAssumption DEF Pending, Idle
<1>4. link[c] = "open"
  BY <1>2, <1>3 DEF NoFailureInv, AgreementInv, Attended
<1>5. PICK m \in Machines : Running(m) /\ c = Session(m) /\ ExchangeOK(c, proc[m])
  BY <1>4 DEF TransferInv, OpenOK
<1>6. /\ proc[m].phase = "await" /\ inbox[c] = None /\ outbox[c] = None
      /\ req[c].code = proc[m].op
  BY <1>5 DEF ExchangeOK
<1>7. req[c].uid = proc[m].id /\ AsksFor(m, req[c]) /\ NoRetries(m)
  BY <1>3, <1>5, <1>6, AgreementParts DEF NoFailureInv, AwaitsAgreed, WholeInv, ContentOK
<1>8. req[c].uid \in Uids /\ req[c].uid # NoUid => req[c].uid = meInfo[m]
  BY <1>7 DEF OwnershipInv
<1>9. Serves(c, m)
  BY <1>3, <1>4, <1>5, <1>6, <1>7, <1>8 DEF Serves
<1>10. req[c].code \in {REGISTER, S_PUBLIC_KEY, RECONNECT, SEND_FILE, VALID_CRC}
  BY <1>2, <1>6, <1>7 DEF NoRetries, RequestCodes
<1>. QED
  BY <1>2, <1>9, <1>10

(* Whose row it is. *)
LEMMA ServesUser ==
    ASSUME OwnershipInv, NEW c \in Conns, NEW m \in Machines, Serves(c, m),
           Registered(req[c].uid)
    PROVE  /\ meInfo[m] = req[c].uid /\ meInfo[m] \in Uids /\ meInfo[m] # None
           /\ meInfo[m] \in GivenTo(m) /\ clients[meInfo[m]].name = Owner[m]
           /\ \A n \in Machines \ {m} : meInfo[m] \notin GivenTo(n)
<1>1. req[c].uid \in Uids /\ req[c].uid # NoUid /\ req[c].uid # None
  BY ValuesAssumption DEF Registered
<1>2. meInfo[m] = req[c].uid
  BY <1>1 DEF Serves
<1>3. meInfo[m] \in GivenTo(m)
  BY <1>1, <1>2 DEF GivenTo
<1>. QED
  BY <1>1, <1>2, <1>3 DEF OwnershipInv

(* No file is given up. *)
LEMMA NothingAborted ==
    ASSUME TransferInv, OwnershipInv, NoFailureInv, NEW c \in Conns
    PROVE  ~DeleteFromBackup(c) /\ ~DeleteUnverified(c)
<1>. SUFFICES ASSUME pc[c] \in {"delete_from_backup", "delete_unverified"}
              PROVE  FALSE
  BY DEF DeleteFromBackup, DeleteUnverified
<1>. QED
  BY ServesRun, StepsOfCode

(* The thread that saves a file saves that of the machine it serves.        *)
LEMMA ServesUpload ==
    ASSUME TransferInv, OwnershipInv, NoFailureInv, NEW c \in Conns,
           pc[c] \in {"open_file", "write_file", "add_new_file", "read_crc"}
    PROVE  \E m \in Machines :
              /\ Serves(c, m) /\ Registered(req[c].uid)
              /\ req[c].code = SEND_FILE /\ req[c].file = Upload[m] /\ req[c].file # None
              /\ Path(c) = <<Owner[m], Upload[m]>> /\ Path(c) \in Paths
<1>1. PICK m \in Machines : Serves(c, m)
  BY ServesRun
<1>2. req[c].code = SEND_FILE
  BY ServesRun, StepsOfCode
<1>3. req[c].file = Upload[m] /\ req[c].file \in Files /\ req[c].file # None
  BY <1>1, <1>2, MachinesAssumption, ValuesAssumption DEF Serves, AsksFor
<1>4. Registered(req[c].uid) /\ Path(c) \in Paths
  BY <1>3, UploaderOwnsPath DEF TransferInv
<1>5. Path(c) = <<Owner[m], Upload[m]>>
  BY <1>1, <1>3, <1>4, ServesUser DEF Path
<1>. QED
  BY <1>1, <1>2, <1>3, <1>4, <1>5

-----------------------------------------------------------------------------
(* A step of the server: the copies and the rows of files. *)

(* The machine whose run waits for thread c. *)
LEMMA ServesOne ==
    ASSUME NEW c \in Conns, NEW m \in Machines, NEW n \in Machines, Serves(c, n),
           \/ c = Session(m)
           \/ n = m
    PROVE  n = m /\ c = Session(m) /\ proc[m].phase = "await"
BY DEF Serves, Session

Begins(c, m)   == OpenFile(c) /\ Serves(c, m) /\ pc'[c] = "write_file" /\ CopyOf(m)' = Empty
Finishes(c, m) == WriteFile(c) /\ Serves(c, m) /\ CopyOf(m) = Empty /\ CopyOf(m)' = Local[m]
Keeps(c, m)    == /\ CopyOf(m)' = CopyOf(m)
                  /\ c = Session(m) => ~OpenFile(c) /\ ~WriteFile(c)

(* The copy of a machine is written by the thread that its run waits for,   *)
(* because no other user has the same directory.                            *)
LEMMA CopyStep ==
    ASSUME TransferInv, OwnershipInv, NoFailureInv, NoFailures, OwnersDiffer,
           NEW c \in Conns, Handle(c), NEW m \in Machines
    PROVE  detached' = {} /\ (Begins(c, m) \/ Finishes(c, m) \/ Keeps(c, m))
<1>. DEFINE path == <<Owner[m], Upload[m]>>
<1>1. /\ backup \in [Paths -> Content \cup {None}] /\ pc \in [Conns -> Steps]
      /\ detached = {} /\ path \in Paths
  BY ServerTyped, MachinesAssumption
  DEF TransferInv, NoFailureInv, WholeInv, Paths, UserNames
<1>2. CASE OpenFile(c)
  <2>1. PICK n \in Machines :
            Serves(c, n) /\ req[c].file # None /\ Path(c) = <<Owner[n], Upload[n]>>
    BY <1>2, ServesUpload DEF OpenFile
  <2>2. /\ backup' = [backup EXCEPT ![<<Owner[n], Upload[n]>>] = Empty] /\ detached' = {}
        /\ pc'[c] = "write_file"
    BY <1>1, <1>2, <2>1 DEF OpenFile, Opened, Goto
  <2>3. CASE n = m
    BY <1>1, <1>2, <2>1, <2>2, <2>3 DEF Begins, CopyOf
  <2>4. CASE n # m
    BY <1>1, <2>1, <2>2, <2>4, ServesOne DEF Keeps, CopyOf, OwnersDiffer
  <2>. QED
    BY <2>3, <2>4
<1>3. CASE WriteFile(c)
  <2>1. PICK n \in Machines : Serves(c, n) /\ Path(c) = <<Owner[n], Upload[n]>>
    BY <1>3, ServesUpload DEF WriteFile
  <2>2. c = Session(n) /\ ServedAt(n, {"write_file"})
    BY <1>3, <2>1, ServesOne DEF WriteFile, ServedAt
  <2>3. CopyOf(n) = Empty /\ held[c] = Local[n]
    BY <1>3, <2>2 DEF NoFailureInv, WholeInv, CopyOK, ContentOK, ServedAt, WriteFile
  <2>4. Overwrite(backup[Path(c)], held[c]) = {Local[n]}
    BY <2>1, <2>3 DEF Overwrite, CopyOf
  <2>5. /\ backup' = [backup EXCEPT ![<<Owner[n], Upload[n]>>] = Local[n]] /\ detached' = {}
    BY <1>1, <1>3, <2>1, <2>4 DEF WriteFile
  <2>6. CASE n = m
    BY <1>1, <1>3, <2>1, <2>3, <2>5, <2>6 DEF Finishes, CopyOf
  <2>7. CASE n # m
    BY <1>1, <2>1, <2>5, <2>7, ServesOne DEF Keeps, CopyOf, OwnersDiffer
  <2>. QED
    BY <2>6, <2>7
<1>4. CASE ~OpenFile(c) /\ ~WriteFile(c)
  <2>1. UNCHANGED disk
    BY <1>4, DiskWriters, NothingAborted DEF StepFails, NoFailures
  <2>. QED
    BY <1>1, <1>4, <2>1 DEF Keeps, CopyOf, disk
<1>. QED
  BY <1>2, <1>3, <1>4

LEMMA RowsWriters ==
    ASSUME NEW c \in Conns, Handle(c), files' # files
    PROVE  AddNewFile(c) \/ UpdateVerified(c) \/ DeleteUnverified(c)
BY DEF Handle, Accept, Dispatch, RejectVersion, DropUnknownCode, CloseConnection, SendResponse,
       FindUsername, AddNewClient, SetPublicKey, RecoverPublicKey, StoreAesKey, EncryptKey,
       DecryptFile, OpenFile, WriteFile, ReadCrc, DeleteFromBackup, tables

(* A row of files comes from the machine of its user, and keeps its name.   *)
LEMMA RowStep ==
    ASSUME TransferInv, OwnershipInv, NoFailureInv, NEW c \in Conns, Handle(c),
           NEW m \in Machines, meInfo[m] \in Uids
    PROVE  \/ files'[meInfo[m]] = files[meInfo[m]]
           \/ /\ AddNewFile(c) /\ Serves(c, m)
              /\ files[meInfo[m]] = None /\ files'[meInfo[m]] = NewFile(Upload[m])
           \/ /\ UpdateVerified(c) /\ Serves(c, m) /\ files[meInfo[m]] # None
              /\ files'[meInfo[m]] = [files[meInfo[m]] EXCEPT !.verified = TRUE]
<1>. DEFINE u == meInfo[m]
<1>1. files \in [Uids -> FileRow \cup {None}] /\ IInv /\ u \in GivenTo(m)
  BY ServerTyped DEF TransferInv, GivenTo
<1>2. CASE AddNewFile(c)
  <2>1. PICK n \in Machines :
            Serves(c, n) /\ Registered(req[c].uid) /\ req[c].file = Upload[n]
    BY <1>2, ServesUpload DEF AddNewFile
  <2>2. files' = InsertFile(req[c].uid, Upload[n])
    BY <1>2, <2>1 DEF AddNewFile
  <2>3. req[c].uid = u => n = m
    BY <1>1, <2>1, ServesUser
  <2>. QED
    BY <1>1, <1>2, <2>1, <2>2, <2>3 DEF InsertFile
<1>3. CASE UpdateVerified(c)
  <2>1. PICK n \in Machines : Serves(c, n)
    BY <1>3, ServesRun DEF UpdateVerified
  <2>2. /\ \/ files' = files
           \/ /\ Selected(req[c].uid, req[c].file)
              /\ files' = [files EXCEPT ![req[c].uid].verified = TRUE]
    BY <1>3 DEF UpdateVerified
  <2>3. Selected(req[c].uid, req[c].file) => Registered(req[c].uid)
    BY <1>1 DEF Selected, IInv, NoFileBeforeKeyExchange, Registered
  <2>4. Selected(req[c].uid, req[c].file) /\ req[c].uid = u => n = m
    BY <1>1, <2>1, <2>3, ServesUser
  <2>. QED
    BY <1>1, <1>3, <2>1, <2>2, <2>4 DEF Selected
<1>4. CASE files' = files
  BY <1>4
<1>. QED
  BY <1>2, <1>3, <1>4, RowsWriters, NothingAborted

(* How a thread comes to the steps that have the file in hand. *)
LEMMA WriteFollowsOpen ==
    ASSUME IInv, NEW c \in Conns, Handle(c)
    PROVE  /\ pc'[c] = "write_file" => OpenFile(c)
           /\ pc[c] = "write_file" => WriteFile(c)
<1>1. pc'[c] = "write_file" => OpenFile(c)
  BY Arrivals
<1>2. pc[c] = "write_file" => WriteFile(c)
  BY DEF Handle, Accept, Dispatch, RejectVersion, DropUnknownCode, CloseConnection,
         SendResponse, FindUsername, AddNewClient, SetPublicKey, RecoverPublicKey,
         StoreAesKey, EncryptKey, DecryptFile, OpenFile, AddNewFile, ReadCrc,
         UpdateVerified, DeleteFromBackup, DeleteUnverified
<1>. QED
  BY <1>1, <1>2

LEMMA OpenFollowsDecrypt ==
    ASSUME IInv, NEW c \in Conns, Handle(c), pc'[c] = "open_file"
    PROVE  DecryptFile(c)
<1>1. pc \in [Conns -> Steps] /\ req \in [Conns -> Request \cup {None}]
  BY ServerTyped
<1>2. ASSUME NEW step, pc' = [pc EXCEPT ![c] = step]
      PROVE  step = "open_file"
  BY <1>1, <1>2
<1>3. ~Refuse(c) /\ ~EndThread(c)
  BY <1>2 DEF Refuse, Answer, Prepare, EndThread
<1>4. ~Dispatch(c)
  <2>1. Dispatch(c) => FirstStep[inbox[c].code] # "open_file"
    BY FirstStepOf DEF Dispatch
  <2>. QED
    BY <1>2, <2>1 DEF Dispatch
<1>. QED
  BY <1>2, <1>3, <1>4
  DEF Handle, Accept, RejectVersion, DropUnknownCode, CloseConnection, SendResponse,
      FindUsername, AddNewClient, SetPublicKey, RecoverPublicKey, StoreAesKey, EncryptKey,
      OpenFile, WriteFile, AddNewFile, ReadCrc, UpdateVerified, DeleteFromBackup,
      DeleteUnverified, Goto, Hold, Prepare, Answer

LEMMA ChecksumArrives ==
    ASSUME TransferInv, OwnershipInv, NoFailureInv, NEW c \in Conns, Handle(c),
           pc'[c] = "send_response", Checks(ans'[c])
    PROVE  /\ pc[c] = "read_crc"
           /\ ans'[c].crc = backup[Path(c)] /\ backup[Path(c)] # None
<1>1. IInv /\ HandledOK(c) /\ DOMAIN ans = Conns /\ DOMAIN pc = Conns
  BY ServerTyped DEF TransferInv
<1>2. CASE ReadCrc(c)
  <2>1. ~EndThread(c)
    BY <1>1 DEF EndThread
  <2>2. ans' = [ans EXCEPT ![c] = CrcReply(req[c].uid, backup[Path(c)])]
    BY <1>2, <2>1 DEF ReadCrc, Answer, Prepare
  <2>. QED
    BY <1>1, <1>2, <2>1, <2>2, AnswerCodesOf DEF ReadCrc
<1>3. CASE UpdateVerified(c)
  <2>1. ans'[c].code = FILE_APPROVAL
    BY <1>1, <1>3, AnswerCodesOf, AnswerEffect DEF UpdateVerified
  <2>. QED
    BY <2>1 DEF Checks
<1>4. CASE EncryptKey(c)
  <2>1. req[c].code \in {S_PUBLIC_KEY, RECONNECT} /\ IsAnswer(req[c].code, ans[c])
    BY <1>1, <1>4, StepsOfCode DEF EncryptKey, HandledOK, RequestCodes
  <2>2. ans[c].code # VALID_FILE_CRC /\ ans'[c] = ans[c]
    BY <1>4, <2>1 DEF IsAnswer, AnswerCodes, EncryptKey, Goto
  <2>. QED
    BY <2>2 DEF Checks
<1>5. ans'[c].code = VALID_FILE_CRC
  BY DEF Checks
<1>. QED
  BY <1>1, <1>2, <1>3, <1>4, <1>5, Arrivals, NothingAborted

LEMMA NewUserHasNoAes ==
    ASSUME IInv, NEW c \in Conns, Handle(c), NEW u \in Uids,
           clients[u] = None, clients'[u] # None
    PROVE  clients'[u].aes = NoKey
<1>1. AddNewClient(c)
  BY NamesKept
<1>2. clients \in [Uids -> ClientRow \cup {None}]
  BY ServerTyped
<1>3. PICK v \in Uids :
          clients' = [clients EXCEPT ![v] =
                          [name |-> req[c].name, pub |-> Placeholder, aes |-> NoKey]]
  BY <1>1 DEF AddNewClient
<1>4. clients'[u] = [name |-> req[c].name, pub |-> Placeholder, aes |-> NoKey]
  BY <1>2, <1>3
<1>. QED
  BY <1>4

LEMMA RowStaysOK ==
    ASSUME TransferInv, OwnershipInv, NoFailureInv, NEW c \in Conns, Handle(c),
           UNCHANGED clientVars, NEW m \in Machines
    PROVE  RowOK(m)'
<1>1. /\ RowOK(m) /\ IInv /\ UNCHANGED meInfo
      /\ meInfo[m] \in Uids \cup {None}
      /\ files \in [Uids -> FileRow \cup {None}]
  BY ServerTyped
  DEF NoFailureInv, WholeInv, TransferInv, ClientInv, ClientTypeOK, clientVars, local
<1>2. ASSUME meInfo[m] # None, files'[meInfo[m]] # None
      PROVE  files'[meInfo[m]].file = Upload[m]
  <2>. DEFINE u == meInfo[m]
  <2>1. u \in Uids /\ (files[u] # None => files[u] \in FileRow /\ files[u].file = Upload[m])
    BY <1>1, <1>2 DEF RowOK
  <2>2. ASSUME NEW row \in FileRow
        PROVE  [row EXCEPT !.verified = TRUE].file = row.file
    BY DEF FileRow
  <2>3. NewFile(Upload[m]).file = Upload[m]
    BY DEF NewFile
  <2>. QED
    BY <1>2, <2>1, <2>2, <2>3, RowStep
<1>3. ASSUME meInfo[m] = None, NEW u \in GivenTo(m)'
      PROVE  clients'[u].aes = NoKey
  <2>1. u \in Uids
    BY DEF GivenTo
  <2>2. CASE u \in GivenTo(m)
    <3>1. clients[u] # None /\ clients[u].aes = NoKey
      BY <1>1, <1>3, <2>2 DEF RowOK, OwnershipInv, Registered
    <3>2. ~(StoreAesKey(c) /\ req[c].uid = u)
      <4>. SUFFICES ASSUME StoreAesKey(c), req[c].uid = u
                    PROVE  FALSE
        OBVIOUS
      <4>1. PICK n \in Machines : Serves(c, n)
        BY ServesRun DEF StoreAesKey
      <4>2. meInfo[n] = u /\ meInfo[n] # None /\ (m # n => u \notin GivenTo(m))
        BY <2>1, <3>1, <4>1, ServesUser DEF Registered
      <4>. QED
        BY <1>3, <2>2, <4>2
    <3>. QED
      BY <1>1, <2>1, <3>1, <3>2, AesWriters
  <2>3. CASE u \notin GivenTo(m)
    BY <1>1, <2>1, <2>3, GrantStep, NewUserHasNoAes
  <2>. QED
    BY <2>2, <2>3
<1>. QED
  BY <1>1, <1>2, <1>3 DEF RowOK

LEMMA CopyStaysOK ==
    ASSUME TransferInv, OwnershipInv, NoFailureInv, NoFailures, OwnersDiffer,
           NEW c \in Conns, Handle(c), UNCHANGED clientVars, NEW m \in Machines
    PROVE  CopyOK(m)'
<1>. DEFINE s == Session(m)
<1>1. /\ CopyOK(m) /\ IInv /\ UNCHANGED <<meInfo, run, proc>> /\ s' = s
      /\ HandledOK(c) /\ Outcome(c)
      /\ meInfo[m] \in Uids \cup {None}
      /\ Local[m] \notin {None, Empty}
      /\ proc[m].phase = "await" => s \in Conns
  BY ThreadFrame, OwnExchange, MachinesAssumption, ValuesAssumption
  DEF NoFailureInv, WholeInv, TransferInv, ClientInv, ClientTypeOK, clientVars, local,
      Session, Running
<1>2. \A d \in Conns \ {c} : pc'[d] = pc[d] /\ ans'[d] = ans[d] /\ outbox'[d] = outbox[d]
  BY ThreadFrame
<1>3. CASE Begins(c, m)
  <2>1. CopyOf(m)' = Empty /\ proc[m].phase = "await" /\ pc'[s] = "write_file"
    BY <1>3 DEF Begins, Serves
  <2>2. Empty # None
    BY ValuesAssumption
  <2>. QED
    BY <1>1, <2>1, <2>2 DEF CopyOK, ServedAt
<1>4. CASE Finishes(c, m)
  <2>1. c = s /\ pc'[c] = "add_new_file"
    BY <1>1, <1>4, ServerTyped DEF Finishes, Serves, WriteFile, Goto
  <2>2. CopyOf(m)' = Local[m]
    BY <1>4 DEF Finishes
  <2>. QED
    BY <1>1, <2>1, <2>2 DEF CopyOK, ServedAt
<1>5. CASE Keeps(c, m)
  <2>1. ServedAt(m, {"write_file"})' <=> ServedAt(m, {"write_file"})
    <3>1. c = s => pc[c] # "write_file" /\ pc'[c] # "write_file"
      BY <1>1, <1>5, WriteFollowsOpen DEF Keeps
    <3>. QED
      BY <1>1, <1>2, <3>1 DEF ServedAt
  <2>2. ASSUME ServedAt(m, {"write_file", "add_new_file", "read_crc"})'
        PROVE  HasCopy(m)
    <3>1. c = s => ServedAt(m, {"add_new_file"})
      BY <1>1, <1>5, <2>2, Arrivals DEF Keeps, ServedAt, AddNewFile
    <3>. QED
      BY <1>1, <1>2, <2>2, <3>1 DEF ServedAt, HasCopy
  <2>3. ASSUME ServedAt(m, {"send_response"})', Checks(ans[Session(m)])'
        PROVE  HasCopy(m)
    <3>1. c = s => pc[c] = "read_crc"
      BY <1>1, <2>3, ChecksumArrives DEF ServedAt, Checks
    <3>. QED
      BY <1>1, <1>2, <2>3, <3>1 DEF ServedAt, HasCopy, Checks
  <2>4. ASSUME proc'[m].phase = "await", Checks(outbox[Session(m)])'
        PROVE  HasCopy(m)
    <3>1. c = s => outbox'[c] = outbox[c] \/ (pc[c] = "send_response" /\ outbox'[c] = ans[c])
      BY <1>1, <2>4 DEF Outcome, Comes, Takes, Works, Sends, Leaves, SameWires, Checks
    <3>. QED
      BY <1>1, <1>2, <2>4, <3>1 DEF ServedAt, HasCopy, Checks
  <2>5. ASSUME meInfo'[m] # None, files'[meInfo'[m]] # None
        PROVE  HasCopy(m)
    <3>1. AddNewFile(c) /\ Serves(c, m) => ServedAt(m, {"add_new_file"})
      BY DEF AddNewFile, Serves, ServedAt
    <3>2. meInfo[m] \in Uids /\ files'[meInfo[m]] # None
      BY <1>1, <2>5
    <3>3. files[meInfo[m]] # None \/ ServedAt(m, {"add_new_file"})
      BY <3>1, <3>2, RowStep
    <3>. QED
      BY <3>2, <3>3, ValuesAssumption DEF HasCopy, ServedAt
  <2>6. HasCopy(m)' => HasCopy(m)
    BY <1>1, <2>2, <2>3, <2>4, <2>5 DEF HasCopy
  <2>. QED
    BY <1>1, <1>5, <2>1, <2>6 DEF CopyOK, Keeps
<1>. QED
  BY <1>3, <1>4, <1>5, CopyStep

LEMMA ContentStaysOK ==
    ASSUME TransferInv, OwnershipInv, NoFailureInv, NoFailures, NEW c \in Conns, Handle(c),
           UNCHANGED clientVars, NEW m \in Machines
    PROVE  ContentOK(m)'
<1>. DEFINE s == Session(m)
<1>1. /\ ContentOK(m) /\ CopyOK(m) /\ IInv /\ UNCHANGED <<meInfo, run, proc>> /\ s' = s
      /\ HandledOK(c) /\ Outcome(c)
  BY ThreadFrame
  DEF NoFailureInv, WholeInv, TransferInv, clientVars, local, Session
<1>2. /\ \A d \in Conns : Pending(d)' \subseteq Pending(d)
      /\ \A d \in Conns \ {c} : /\ pc'[d] = pc[d] /\ held'[d] = held[d] /\ ans'[d] = ans[d]
                                /\ outbox'[d] = outbox[d]
  BY ThreadFrame
<1>. SUFFICES ASSUME proc[m].phase = "await"
              PROVE  /\ \A r \in Pending(s)' : AsksFor(m, r)
                     /\ pc'[s] \in {"open_file", "write_file"} => held'[s] = Local[m]
                     /\ pc'[s] = "send_response" /\ Checks(ans'[s]) => ans'[s].crc = Local[m]
                     /\ Checks(outbox'[s]) => outbox'[s].crc = Local[m]
  BY <1>1 DEF ContentOK, AsksFor, Checks
<1>3. s \in Conns
  BY OwnExchange DEF Running
<1>4. ASSUME c = s, pc'[s] \in {"open_file", "write_file"}
      PROVE  held'[s] = Local[m]
  <2>1. CASE pc'[c] = "open_file"
    <3>1. DecryptFile(c)
      BY <1>1, <2>1, OpenFollowsDecrypt
    <3>2. Serves(c, m) /\ req[c].code = SEND_FILE
      BY <1>4, <3>1, ServesRun, ServesOne, StepsOfCode DEF DecryptFile
    <3>3. /\ req[c].body = Local[m] /\ req[c].key = proc[m].aes
          /\ req[c].uid = proc[m].id /\ proc[m].op = SEND_FILE
      BY <3>2 DEF Serves, AsksFor
    <3>4. Registered(req[c].uid) /\ clients[req[c].uid].aes = req[c].key
      BY <3>3, AgreementParts DEF NoFailureInv, UploadsAgreed, Agreed
    <3>5. Local[m] \in Bodies
      BY MachinesAssumption
    <3>6. pc'[c] # "send_response"
      BY <2>1
    <3>7. held' = [held EXCEPT ![c] = Local[m]]
      BY <3>1, <3>3, <3>4, <3>5, <3>6, <1>1, RefusalCode DEF DecryptFile, HasKey, Hold
    <3>. QED
      BY <1>1, <1>4, <3>7, ServerTyped
  <2>2. CASE pc'[c] = "write_file"
    <3>1. OpenFile(c) /\ held' = held
      BY <1>1, <2>2, Arrivals, RefusalCode DEF OpenFile, Goto
    <3>. QED
      BY <1>1, <1>4, <3>1 DEF ContentOK, OpenFile
  <2>. QED
    BY <1>4, <2>1, <2>2
<1>5. ASSUME c = s, pc'[s] = "send_response", Checks(ans'[s])
      PROVE  ans'[s].crc = Local[m]
  <2>1. /\ pc[c] = "read_crc"
        /\ ans'[c].crc = backup[Path(c)] /\ backup[Path(c)] # None
    BY <1>1, <1>5, ChecksumArrives
  <2>2. Path(c) = <<Owner[m], Upload[m]>>
    BY <1>5, <2>1, ServesUpload, ServesOne
  <2>3. CopyOf(m) \notin {None, Empty}
    BY <1>1, <1>5, <2>1, <2>2 DEF CopyOK, CopyOf, ServedAt
  <2>. QED
    BY <1>1, <1>5, <2>1, <2>2, <2>3 DEF CopyOK, CopyOf
<1>6. ASSUME c = s, Checks(outbox'[s])
      PROVE  outbox'[s].crc = Local[m]
  <2>1. outbox'[c] = outbox[c] \/ (pc[c] = "send_response" /\ outbox'[c] = ans[c])
    BY <1>1, <1>6 DEF Outcome, Comes, Takes, Works, Sends, Leaves, SameWires, Checks
  <2>. QED
    BY <1>1, <1>6, <2>1 DEF ContentOK, Checks
<1>. QED
  BY <1>1, <1>2, <1>3, <1>4, <1>5, <1>6 DEF ContentOK

LEMMA ThreadKeepsWhole ==
    ASSUME TransferInv, OwnershipInv, NoFailureInv, NoFailures, OwnersDiffer,
           NEW c \in Conns, Handle(c), UNCHANGED clientVars
    PROVE  WholeInv'
<1>1. \A m \in Machines : CopyOK(m)' /\ RowOK(m)' /\ ContentOK(m)'
  BY CopyStaysOK, RowStaysOK, ContentStaysOK
<1>2. \A m \in Machines : NoRetries(m)'
  BY DEF NoFailureInv, WholeInv, NoRetries, clientVars
<1>3. detached' = {}
  <2>1. CASE OpenFile(c) \/ WriteFile(c)
    BY <2>1 DEF NoFailureInv, WholeInv, OpenFile, WriteFile, disk
  <2>2. CASE UNCHANGED disk
    BY <2>2 DEF NoFailureInv, WholeInv, disk
  <2>. QED
    BY <2>1, <2>2, DiskWriters, NothingAborted DEF StepFails, NoFailures
<1>. QED
  BY <1>1, <1>2, <1>3 DEF WholeInv

-----------------------------------------------------------------------------
(* A step of machine m: what it does to its own run. *)

WholeStep(m) ==
    /\ OwnStep(m)
    /\ NoRetries(m)' /\ RowOK(m)' /\ ContentOK(m)'
    /\ HasCopy(m)' => HasCopy(m)
    /\ ServedAt(m, {"write_file"})' <=> ServedAt(m, {"write_file"})

LEMMA MachineKeepsWhole ==
    ASSUME TransferInv, OwnershipInv, NoFailureInv, NEW m \in Machines, WholeStep(m)
    PROVE  WholeInv'
<1>1. /\ OwnStep(m) /\ UNCHANGED <<clients, files, backup, detached, pc, req, held, ans>>
      /\ \A n \in Machines \ {m} :
            meInfo'[n] = meInfo[n] /\ run'[n] = run[n] /\ proc'[n] = proc[n]
      /\ \A c \in Conns : c # Session(m)' =>
            outbox'[c] = outbox[c] /\ Pending(c)' = Pending(c)
  BY MachineShrinks
  DEF WholeStep, OwnStep, MachineFrame, SameWires, server, thread, tables, disk
<1>2. \A n \in Machines : CopyOf(n)' = CopyOf(n)
  BY <1>1 DEF CopyOf
<1>3. \A n \in Machines : NoRetries(n) /\ CopyOK(n) /\ RowOK(n) /\ ContentOK(n)
  BY DEF NoFailureInv, WholeInv
<1>4. NoRetries(m)' /\ CopyOK(m)' /\ RowOK(m)' /\ ContentOK(m)'
  BY <1>2, <1>3 DEF WholeStep, CopyOK
<1>5. ASSUME NEW n \in Machines \ {m}
      PROVE  NoRetries(n)' /\ CopyOK(n)' /\ RowOK(n)' /\ ContentOK(n)'
  <2>1. Session(n)' = Session(n) /\ Session(n) # Session(m)'
    BY <1>1 DEF Session
  <2>2. proc[n].phase = "await" =>
            /\ outbox'[Session(n)] = outbox[Session(n)]
            /\ Pending(Session(n))' = Pending(Session(n))
    BY <1>1, <2>1, OwnExchange DEF Running
  <2>3. NoRetries(n)'
    BY <1>1, <1>3 DEF NoRetries
  <2>4. RowOK(n)'
    <3>1. GivenTo(n)' \subseteq GivenTo(n)
      BY <1>1, MachineShrinks
    <3>. QED
      BY <1>1, <1>3, <3>1 DEF RowOK
  <2>5. ContentOK(n)'
    BY <1>1, <1>3, <2>1, <2>2 DEF ContentOK, AsksFor, Checks
  <2>6. CopyOK(n)'
    <3>1. HasCopy(n)' => HasCopy(n)
      BY <1>1, <2>1, <2>2 DEF HasCopy, ServedAt, Checks
    <3>2. ServedAt(n, {"write_file"})' <=> ServedAt(n, {"write_file"})
      BY <1>1, <2>1 DEF ServedAt
    <3>. QED
      BY <1>2, <1>3, <3>1, <3>2 DEF CopyOK
  <2>. QED
    BY <2>3, <2>4, <2>5, <2>6
<1>6. (\A n \in Machines : NoRetries(n) /\ CopyOK(n) /\ RowOK(n) /\ ContentOK(n))'
  BY <1>4, <1>5
<1>. QED
  BY <1>1, <1>6 DEF WholeInv, NoFailureInv

(* A thread works for a run only while the run waits for it. *)
LEMMA NotServed ==
    ASSUME TransferInv, OwnershipInv, NoFailureInv, NEW m \in Machines,
           \/ proc[m].phase # "await" \/ link[Session(m)] # "open"
           \/ outbox[Session(m)] # None
    PROVE  ~ServedAt(m, {"write_file"})
<1>. SUFFICES ASSUME proc[m].phase = "await", pc[Session(m)] = "write_file"
              PROVE  FALSE
  BY DEF ServedAt
<1>1. Session(m) \in Conns
  BY OwnExchange DEF Running
<1>. QED
  BY <1>1, ServesRun DEF Serves

LEMMA RowKept ==
    ASSUME TransferInv, NoFailureInv, NEW m \in Machines, OwnStep(m),
           meInfo'[m] = meInfo[m]
    PROVE  RowOK(m)'
BY DEF RowOK, OwnStep, MachineFrame, server, tables, NoFailureInv, WholeInv

(* The run does not wait for an answer after the step. *)
LEMMA QuietWhole ==
    ASSUME TransferInv, OwnershipInv, NoFailureInv, NEW m \in Machines, OwnStep(m),
           \/ proc[m].phase # "await" \/ link[Session(m)] # "open"
           \/ outbox[Session(m)] # None,
           proc'[m].phase # "await", NoRetries(m)',
           proc'[m].op = VALID_CRC => HasCopy(m),
           meInfo'[m] = meInfo[m] \/ (RowOK(m)' /\ files[meInfo'[m]] = None)
    PROVE  WholeStep(m)
<1>1. RowOK(m)'
  BY RowKept
<1>2. ~ServedAt(m, {"write_file"}) /\ ~ServedAt(m, {"write_file"})'
  BY NotServed DEF ServedAt
<1>3. HasCopy(m)' => HasCopy(m)
  BY DEF HasCopy, ServedAt, OwnStep, MachineFrame, server, tables
<1>4. ContentOK(m)'
  BY DEF ContentOK
<1>. QED
  BY <1>1, <1>2, <1>3, <1>4 DEF WholeStep

LEMMA StartWhole ==
    ASSUME TransferInv, OwnershipInv, NoFailureInv, NEW m \in Machines, Start(m),
           UNCHANGED server
    PROVE  WholeStep(m)
<1>1. OwnStep(m) /\ UNCHANGED meInfo /\ proc[m].phase # "await"
  BY StartIsOwn DEF Start, local, Running
<1>2. proc'[m] = NewProcess
  BY DEF Start, Goes, TransferInv, ClientInv, ClientTypeOK
<1>3. /\ NewProcess.phase = "send" /\ NewProcess.op = REGISTER /\ NewProcess.mode = "once"
      /\ NewProcess.crcValid
  BY DEF NewProcess
<1>4. NoRetries(m)'
  BY <1>2, <1>3 DEF NoRetries
<1>. QED
  BY <1>1, <1>2, <1>3, <1>4, QuietWhole

LEMMA EndWhole ==
    ASSUME TransferInv, OwnershipInv, NoFailureInv, NEW m \in Machines, UNCHANGED server,
           PayloadLost(m) \/ Exit(m)
    PROVE  WholeStep(m)
<1>1. OwnStep(m)
  BY MachineIsOwn DEF MachineNext, Runs
<1>2. PICK how \in {"off", "terminated"} : Ends(m, how)
  BY DEF PayloadLost, Exit
<1>3. /\ UNCHANGED meInfo
      /\ proc[m].phase # "await" \/ link[Session(m)] # "open"
  BY <1>2 DEF Ends, local, PayloadLost, Exit
<1>4. proc'[m] = [NoProcess EXCEPT !.phase = how]
  BY <1>2 DEF Ends, Goes, TransferInv, ClientInv, ClientTypeOK
<1>5. LET q == [NoProcess EXCEPT !.phase = how]
      IN q.phase # "await" /\ q.op = REGISTER /\ q.mode = "once" /\ q.crcValid
  BY DEF NoProcess, NewProcess
<1>6. NoRetries(m)' /\ proc'[m].phase # "await" /\ proc'[m].op # VALID_CRC
  BY <1>4, <1>5 DEF NoRetries
<1>. QED
  BY <1>1, <1>3, <1>6, QuietWhole

(* After an exception nothing is repeated. *)
LEMMA ThrowWhole ==
    ASSUME NEW m \in Machines, NoRetries(m), NEW h \in Process,
           h.op = proc[m].op, h.mode = proc[m].mode, h.crcValid, proc'[m] = Throw(h)
    PROVE  NoRetries(m)' /\ proc'[m].phase # "await"
           /\ (proc'[m].op = VALID_CRC => proc[m].op = VALID_CRC)
<1>. DEFINE q == proc'[m]
<1>1. /\ SameMemory(q, h) /\ GoesOn(q)
      /\ h.at \in {"upload1", "upload2"} => q.op = h.op /\ q.mode = h.mode
      /\ h.at \notin {"upload1", "upload2"} => Returns(h, q)
  BY ThrowFlow
<1>2. h.at \notin {"upload1", "upload2"} =>
          q.op \in {SEND_FILE, S_PUBLIC_KEY} /\ q.mode = "once"
  <2>1. h.at \in {"register", "upload1", "signIn", "upload2"}
    BY DEF Process
  <2>. QED
    BY <1>1, <2>1 DEF Returns
<1>3. q.crcValid
  BY <1>1, Zenon DEF SameMemory
<1>4. NoRetries(m)'
  BY <1>1, <1>2, <1>3 DEF NoRetries
<1>. QED
  BY <1>1, <1>2, <1>4 DEF GoesOn

LEMMA GiveUpWhole ==
    ASSUME TransferInv, OwnershipInv, NoFailureInv, NEW m \in Machines,
           BuildFails(m) \/ ConnectionLost(m), UNCHANGED server
    PROVE  WholeStep(m)
<1>1. OwnStep(m)
  BY MachineIsOwn DEF MachineNext, Runs
<1>2. /\ proc[m] \in Process /\ proc'[m] = Throw(proc[m]) /\ UNCHANGED meInfo
      /\ proc[m].phase # "await" \/ link[Session(m)] # "open"
  BY DEF BuildFails, ConnectionLost, Goes, TransferInv, ClientInv, ClientTypeOK, local
<1>3. NoRetries(m) /\ proc[m].crcValid
  BY DEF NoFailureInv, WholeInv, NoRetries
<1>4. /\ NoRetries(m)' /\ proc'[m].phase # "await"
      /\ proc'[m].op = VALID_CRC => HasCopy(m)
  BY <1>2, <1>3, ThrowWhole DEF HasCopy
<1>. QED
  BY <1>1, <1>2, <1>4, QuietWhole

LEMMA RequestContent ==
    ASSUME NEW m \in Machines, proc[m].op = VALID_CRC => proc[m].file = Upload[m],
           NEW q, q.aes = proc[m].aes
    PROVE  LET r == RequestOf(m)
           IN /\ proc[m].op \in {SEND_FILE, VALID_CRC} => r.file = Upload[m]
              /\ proc[m].op = SEND_FILE => r.body = Local[m] /\ r.key = q.aes
<1>1. CASE proc[m].op = SEND_FILE
  BY <1>1, PacketFields DEF RequestOf
<1>2. CASE proc[m].op = VALID_CRC
  BY <1>2, PacketFields DEF RequestOf
<1>. QED
  BY <1>1, <1>2

LEMMA SendWhole ==
    ASSUME TransferInv, OwnershipInv, NoFailureInv, NEW m \in Machines, SendRequest(m),
           UNCHANGED server
    PROVE  WholeStep(m)
<1>. DEFINE c == Session(m)
            p == proc[m]
            q == proc'[m]
<1>1. /\ OwnStep(m) /\ UNCHANGED <<meInfo, files, run, pc, req, held, ans, link, outbox>>
      /\ p.phase = "send" /\ Running(m) /\ CanBuild(m) /\ NoRetries(m)
  BY SendIsOwn DEF SendRequest, server, thread, tables, Submit, Running, local,
                   NoFailureInv, WholeInv
<1>2. /\ q.mode = p.mode /\ q.aes = p.aes /\ q.op = p.op /\ q.phase = "await"
      /\ inbox'[c] = RequestOf(m) /\ link[c] = "open"
      /\ RequestOf(m).code = p.op
  BY <1>1, SendEffect, RequestsBuilt DEF TransferInv, NoRetries
<1>3. q.crcValid
  <2>1. p.crcValid
    BY <1>1 DEF NoRetries
  <2>2. q.crcValid = p.crcValid
    BY <1>1, SendEffect DEF TransferInv
  <2>. QED
    BY <2>1, <2>2, Zenon
<1>4. c \in Conns /\ ExchangeOK(c, p) /\ Session(m)' = c
  BY <1>1, <1>2, OwnExchange DEF Session
<1>5. outbox'[c] = None /\ Pending(c)' \subseteq {RequestOf(m)} /\ Idle(c)
  BY <1>1, <1>2, <1>4 DEF ExchangeOK, Idle, Pending
<1>6. NoRetries(m)'
  BY <1>1, <1>2, <1>3 DEF NoRetries
<1>7. ContentOK(m)'
  <2>1. p.op = VALID_CRC => p.file = Upload[m]
    BY <1>1, SessionInUse DEF TransferInv, ProgramOK
  <2>2. /\ p.op \in {SEND_FILE, VALID_CRC} => RequestOf(m).file = Upload[m]
        /\ p.op = SEND_FILE => RequestOf(m).body = Local[m] /\ RequestOf(m).key = q.aes
    BY <1>2, <2>1, RequestContent
  <2>3. \A r \in Pending(Session(m))' : AsksFor(m, r)'
    BY <1>2, <1>4, <1>5, <2>2 DEF AsksFor
  <2>. QED
    BY <1>1, <1>4, <1>5, <2>3 DEF ContentOK, Idle, Checks
<1>8. HasCopy(m)' => HasCopy(m)
  BY <1>1, <1>2, <1>4, <1>5 DEF HasCopy, ServedAt, Checks, Idle
<1>9. RowOK(m)'
  BY <1>1, RowKept
<1>10. ServedAt(m, {"write_file"})' <=> ServedAt(m, {"write_file"})
  BY <1>1, <1>4, <1>5 DEF ServedAt, Idle
<1>. QED
  BY <1>1, <1>6, <1>7, <1>8, <1>9, <1>10 DEF WholeStep

(* Every checksum that comes back matches, so that nothing is sent again.   *)
LEMMA ReceiveWhole ==
    ASSUME TransferInv, OwnershipInv, NoFailureInv, NoFailures, NEW m \in Machines,
           ReceiveResponse(m), UNCHANGED server
    PROVE  WholeStep(m)
<1>. DEFINE a == outbox[Session(m)]
            p == proc[m]
            q == proc'[m]
<1>0. p.phase = "await" /\ UNCHANGED meInfo
  BY DEF ReceiveResponse, local
<1>1. OwnStep(m) /\ Running(m) /\ NoRetries(m) /\ p.crcValid
  BY <1>0, MachineIsOwn DEF MachineNext, Runs, Running, NoFailureInv, WholeInv, NoRetries
<1>2. /\ p \in Process /\ InPlace(p) /\ IsAnswer(p.op, a) /\ a # None
      /\ a.code = VALID_FILE_CRC => a.crc = Local[m] /\ HasCopy(m)
      /\ p.op = SEND_FILE => a.code \in {VALID_FILE_CRC, GENERAL_ERROR}
  <2>1. /\ p \in Process /\ InPlace(p) /\ IsAnswer(p.op, a) /\ a # None
    BY <1>0, <1>1, SessionInUse, ReceiveEffect DEF TransferInv, ProgramOK
  <2>2. a.code = VALID_FILE_CRC => a.crc = Local[m] /\ HasCopy(m)
    BY <1>0, <2>1 DEF NoFailureInv, WholeInv, ContentOK, Checks, HasCopy
  <2>. QED
    BY <2>1, <2>2 DEF IsAnswer, AnswerCodes
<1>3. ASSUME NoRetries(m)', q.phase # "await", q.op = VALID_CRC => HasCopy(m)
      PROVE  WholeStep(m)
  BY <1>0, <1>1, <1>2, <1>3, QuietWhole
<1>4. CASE /\ q.phase = "saveKey" /\ q.mode = p.mode /\ q.op = p.op
           /\ q.crcValid = p.crcValid
  <2>1. q.crcValid
    BY <1>1, <1>4, Zenon
  <2>2. NoRetries(m)'
    BY <1>1, <1>4, <2>1 DEF NoRetries
  <2>. QED
    BY <1>3, <1>4, <2>2 DEF HasCopy
<1>5. CASE \E h \in Process :
              /\ q = Throw(h) /\ h.op = p.op /\ h.mode = p.mode /\ h.crcValid = p.crcValid
  <2>1. PICK h \in Process :
            /\ q = Throw(h) /\ h.op = p.op /\ h.mode = p.mode /\ h.crcValid = p.crcValid
    BY <1>5
  <2>2. h.crcValid
    BY <1>1, <2>1, Zenon
  <2>. QED
    BY <1>1, <1>3, <2>1, <2>2, ThrowWhole DEF HasCopy
<1>6. CASE \E h : Hears(m, h) /\ q = AfterReply(h)
  <2>1. PICK h : Hears(m, h) /\ q = AfterReply(h)
    BY <1>6
  <2>2. /\ h \in Process /\ InPlace(h) /\ h.last = a /\ h.at = p.at /\ h.op = p.op
        /\ h.mode = p.mode /\ IsAnswer(h.op, h.last)
    BY <1>2, <2>1 DEF Hears
  <2>3. h.crcValid
    <3>1. /\ a.code = VALID_FILE_CRC => (h.crcValid <=> a.crc = Local[m]) \/ LocalFaults
          /\ a.code # VALID_FILE_CRC => h.crcValid = p.crcValid
      BY <2>1 DEF Hears
    <3>2. CASE a.code = VALID_FILE_CRC
      BY <1>2, <3>1, <3>2 DEF NoFailures
    <3>3. CASE a.code # VALID_FILE_CRC
      <4>1. h.crcValid = p.crcValid
        BY <3>1, <3>3
      <4>. QED
        BY <1>1, <4>1, Zenon
    <3>. QED
      BY <3>2, <3>3
  <2>4. \/ Returns(h, q)
        \/ Continues(h, q)
        \/ /\ SameMemory(q, h) /\ q.op = REGISTER /\ q.phase = "send" /\ q.mode = h.mode
        \/ \E r \in Process : r.at = "signIn" /\ r.crcValid = h.crcValid /\ Returns(r, q)
    BY <2>1, <2>2, AfterReplyFlow
  <2>5. h.mode # "crc" /\ h.op \notin {N_VALID_CRC, EXIT_CRC}
    BY <1>1, <2>2 DEF NoRetries
  <2>6. CASE Returns(h, q)
    <3>1. q.crcValid
      BY <2>3, <2>6, Zenon DEF Returns, SameMemory
    <3>2. q.op \notin {N_VALID_CRC, EXIT_CRC} /\ q.mode # "crc" /\ q.phase # "await"
          /\ (q.op = VALID_CRC => h.op = VALID_CRC)
      <4>1. h.at \in {"register", "upload1", "signIn", "upload2"}
        BY <2>2 DEF Process
      <4>. QED
        BY <2>5, <2>6, <4>1 DEF Returns, GoesOn
    <3>3. NoRetries(m)'
      BY <3>1, <3>2 DEF NoRetries
    <3>. QED
      BY <1>3, <2>2, <3>2, <3>3 DEF HasCopy
  <2>7. CASE Continues(h, q)
    <3>1. q.crcValid
      BY <2>3, <2>7, Zenon DEF Continues, SameMemory
    <3>2. q.op \notin {N_VALID_CRC, EXIT_CRC} /\ q.mode # "crc" /\ q.phase # "await"
      BY <2>3, <2>5, <2>7 DEF Continues
    <3>3. q.op = VALID_CRC =>
              h.op = VALID_CRC \/ (h.op = SEND_FILE /\ h.last.code # GENERAL_ERROR)
      BY <2>5, <2>7 DEF Continues
    <3>4. q.op = VALID_CRC => HasCopy(m)
      BY <1>2, <2>2, <3>3 DEF HasCopy
    <3>5. NoRetries(m)'
      BY <3>1, <3>2 DEF NoRetries
    <3>. QED
      BY <1>3, <3>2, <3>4, <3>5
  <2>8. CASE SameMemory(q, h) /\ q.op = REGISTER /\ q.phase = "send" /\ q.mode = h.mode
    <3>1. q.crcValid
      BY <2>3, <2>8, Zenon DEF SameMemory
    <3>2. NoRetries(m)'
      BY <2>5, <2>8, <3>1 DEF NoRetries
    <3>. QED
      BY <1>3, <2>8, <3>2
  <2>9. CASE \E r \in Process : r.at = "signIn" /\ r.crcValid = h.crcValid /\ Returns(r, q)
    <3>1. PICK r \in Process : r.at = "signIn" /\ r.crcValid = h.crcValid /\ Returns(r, q)
      BY <2>9
    <3>2. q.crcValid
      BY <2>3, <3>1, Zenon DEF Returns, SameMemory
    <3>3. q.op \in {SEND_FILE, S_PUBLIC_KEY} /\ q.mode = "once" /\ q.phase = "send"
      BY <3>1 DEF Returns
    <3>4. NoRetries(m)'
      BY <3>2, <3>3 DEF NoRetries
    <3>. QED
      BY <1>3, <3>3, <3>4
  <2>. QED
    BY <2>4, <2>6, <2>7, <2>8, <2>9
<1>. QED
  BY <1>4, <1>5, <1>6, ReceiveEffect DEF TransferInv

LEMMA SavesWhole ==
    ASSUME TransferInv, OwnershipInv, NoFailureInv, NEW m \in Machines,
           SaveKey(m) \/ SaveInfo(m), UNCHANGED server
    PROVE  WholeStep(m)
<1>. DEFINE p == proc[m]
            q == proc'[m]
<1>1. /\ OwnStep(m) /\ Running(m) /\ p.phase \in {"saveKey", "saveInfo"}
      /\ NoRetries(m) /\ RowOK(m) /\ p.crcValid
      /\ UNCHANGED <<clients, files>>
  BY MachineIsOwn
  DEF MachineNext, Runs, SaveKey, SaveInfo, Running, NoFailureInv, WholeInv, NoRetries,
      server, tables
<1>2. p \in Process /\ p.op = REGISTER /\ InPlace(p) /\ p.last # None
  BY <1>1, SessionInUse DEF TransferInv, ProgramOK
<1>3. \/ meInfo'[m] = meInfo[m]
      \/ RowOK(m)' /\ files[meInfo'[m]] = None
  <2>1. CASE meInfo[m] = None /\ meInfo'[m] = p.last.uid /\ p.last.uid \in Uids
    <3>1. p.last.uid \in GivenTo(m)
      BY <1>1, <2>1 DEF GivenTo
    <3>2. clients[p.last.uid].aes = NoKey
      BY <1>1, <2>1, <3>1 DEF RowOK
    <3>3. files[p.last.uid] = None
      BY <2>1, <3>2 DEF TransferInv, IInv, NoFileBeforeKeyExchange
    <3>4. p.last.uid # None
      BY <2>1, ValuesAssumption
    <3>. QED
      BY <1>1, <2>1, <3>3, <3>4 DEF RowOK
  <2>. QED
    BY <2>1, SaveInfoEffect DEF TransferInv, SaveKey
<1>4. CASE q = Throw(p)
  <2>1. p.crcValid
    BY <1>1 DEF NoRetries
  <2>. QED
    BY <1>1, <1>2, <1>3, <1>4, <2>1, ThrowWhole, QuietWhole
<1>5. CASE SameMemory(q, p) /\ q.phase = "saveInfo" /\ q.op = p.op /\ q.mode = p.mode
  <2>1. q.crcValid
    BY <1>1, <1>5, Zenon DEF SameMemory
  <2>2. NoRetries(m)'
    BY <1>1, <1>5, <2>1 DEF NoRetries
  <2>. QED
    BY <1>1, <1>2, <1>3, <1>5, <2>2, QuietWhole
<1>6. CASE \E h \in Process : q = Return(h) /\ h.at = p.at /\ h.crcValid = p.crcValid
  <2>1. PICK h \in Process : q = Return(h) /\ h.at = p.at /\ h.crcValid = p.crcValid
    BY <1>6
  <2>2. Returns(h, q)
    BY <2>1, ReturnFlow
  <2>3. q.crcValid
    BY <1>1, <2>1, <2>2, Zenon DEF Returns, SameMemory
  <2>4. q.op \in {SEND_FILE, S_PUBLIC_KEY} /\ q.mode = "once" /\ q.phase = "send"
    <3>1. p.at \in {"register", "signIn"}
      BY <1>2 DEF InPlace, Process
    <3>. QED
      BY <2>1, <2>2, <3>1 DEF Returns
  <2>5. NoRetries(m)'
    BY <2>3, <2>4 DEF NoRetries
  <2>. QED
    BY <1>1, <1>3, <2>4, <2>5, QuietWhole
<1>. QED
  BY <1>4, <1>5, <1>6, SaveKeyEffect, SaveInfoEffect DEF TransferInv

-----------------------------------------------------------------------------
(* The theorems about the file. *)

LEMMA WholeNextKeeps ==
    ASSUME TransferInv, OwnershipInv, NoFailureInv, NoFailures, OwnersDiffer,
           [TransferNext]_transferVars
    PROVE  NoFailureInv'
<1>1. AgreementInv'
  BY AgreementNextKeeps DEF NoFailureInv, NoFailures
<1>2. ASSUME NEW m \in Machines, MachineStep(m)
      PROVE  WholeInv'
  <2>1. WholeStep(m)
    BY <1>2, StartWhole, SendWhole, GiveUpWhole, ReceiveWhole, SavesWhole, EndWhole
    DEF MachineStep, MachineNext, Runs, Kill, KillSending, NoFailures
  <2>. QED
    BY <2>1, MachineKeepsWhole
<1>3. ASSUME ServerStep
      PROVE  WholeInv'
  BY <1>3, ThreadKeepsWhole DEF ServerStep, ServerNext, StepFails, Crash, NoFailures
<1>4. ASSUME UNCHANGED transferVars
      PROVE  WholeInv'
  <2>1. UNCHANGED <<meInfo, run, proc, clients, files, backup, detached, link, inbox, outbox,
                    pc, req, held, ans>>
    BY <1>4 DEF transferVars, vars, clientVars, local, wires, tables, disk, thread
  <2>2. /\ \A m \in Machines : NoRetries(m)' /\ CopyOK(m)'
        /\ detached' = {}
    BY <2>1
    DEF NoFailureInv, WholeInv, NoRetries, CopyOK, CopyOf, HasCopy, ServedAt, Checks, Session
  <2>3. \A m \in Machines : RowOK(m)'
    BY <2>1 DEF NoFailureInv, WholeInv, RowOK, GivenTo, Grants, Session
  <2>4. \A m \in Machines : ContentOK(m)'
    BY <2>1
    DEF NoFailureInv, WholeInv, ContentOK, AsksFor, Checks, Pending, Idle, Session
  <2>. QED
    BY <2>2, <2>3, <2>4 DEF WholeInv
<1>. QED
  BY <1>1, <1>2, <1>3, <1>4 DEF TransferNext, NoFailureInv

LEMMA WholeStarts ==
    ASSUME TransferInit
    PROVE  NoFailureInv
<1>1. AgreementInv
  BY AgreementStarts
<1>2. /\ NoProcess.phase = "off" /\ NoProcess.op = REGISTER /\ NoProcess.mode = "once"
      /\ NoProcess.crcValid
  BY DEF NoProcess, NewProcess
<1>3. /\ \A m \in Machines : proc[m] = NoProcess /\ meInfo[m] = None
      /\ backup = [p \in Paths |-> None] /\ detached = {}
  BY DEF TransferInit, ClientInit, Init
<1>4. ASSUME NEW m \in Machines
      PROVE  NoRetries(m) /\ CopyOK(m) /\ RowOK(m) /\ ContentOK(m)
  <2>1. NoRetries(m) /\ ContentOK(m)
    BY <1>2, <1>3 DEF NoRetries, ContentOK
  <2>2. CopyOf(m) = None /\ None # Empty
    <3>1. <<Owner[m], Upload[m]>> \in Paths
      BY MachinesAssumption DEF Paths, UserNames
    <3>. QED
      BY <1>3, <3>1, ValuesAssumption DEF CopyOf
  <2>3. CopyOK(m)
    BY <1>2, <1>3, <2>2 DEF CopyOK, HasCopy, ServedAt
  <2>4. RowOK(m)
    <3>1. GivenTo(m) = {}
      BY <1>2, <1>3, ValuesAssumption DEF GivenTo
    <3>. QED
      BY <1>3, <3>1 DEF RowOK
  <2>. QED
    BY <2>1, <2>3, <2>4
<1>. QED
  BY <1>1, <1>3, <1>4 DEF NoFailureInv, WholeInv

(* When nothing fails, what the server has in hand and in the backup        *)
(* directory for a machine is the file of this machine, its checksum        *)
(* matches, and nothing is sent twice or given up.                          *)
THEOREM FilesAreWhole ==
    ASSUME ClientRequests(Nat) \subseteq Traffic, NoFailures, OwnersDiffer
    PROVE  TransferSpec => []NoFailureInv
<1>1. TransferInit => NoFailureInv
  BY WholeStarts
<1>2. TransferInv /\ OwnershipInv /\ NoFailureInv /\ [TransferNext]_transferVars
          => NoFailureInv'
  BY WholeNextKeeps
<1>3. Kills => TornRequests
  BY DEF NoFailures
<1>. QED
  BY <1>1, <1>2, <1>3, UuidsHaveOneOwner, TransferInvariant, PTL DEF TransferSpec

LEMMA WholeIsIntact ==
    ASSUME TransferInv, OwnershipInv, NoFailureInv
    PROVE  VerifiedMeansIntact
<1>. SUFFICES ASSUME NEW m \in Machines, meInfo[m] # None, files[meInfo[m]] # None,
                     CopyOf(m) # Local[m]
              PROVE  \E c \in Conns : pc[c] = "write_file" /\ req[c].uid = meInfo[m]
  BY DEF VerifiedMeansIntact, CopyOf
<1>1. ServedAt(m, {"write_file"})
  BY DEF NoFailureInv, WholeInv, CopyOK, HasCopy
<1>2. Session(m) \in Conns /\ pc[Session(m)] = "write_file"
  BY <1>1, OwnExchange DEF ServedAt, Running
<1>3. meInfo[m] = req[Session(m)].uid
  BY <1>2, ServesUpload, ServesUser, ServesOne
<1>. QED
  BY <1>2, <1>3

(* A row of files that is verified stands for a file that is whole          *)
(* (update_verified, save_file).                                            *)
THEOREM VerifiedFilesAreIntact ==
    ASSUME ClientRequests(Nat) \subseteq Traffic, NoFailures, OwnersDiffer
    PROVE  TransferSpec => []VerifiedMeansIntact
<1>1. TransferInv /\ OwnershipInv /\ NoFailureInv => VerifiedMeansIntact
  BY WholeIsIntact
<1>2. Kills => TornRequests
  BY DEF NoFailures
<1>. QED
  BY <1>1, <1>2, FilesAreWhole, UuidsHaveOneOwner, TransferInvariant, PTL

-----------------------------------------------------------------------------
(* Every step is one of UploadLife. *)

Still(m) == StageOf(m)' = StageOf(m) /\ CopyOf(m)' = CopyOf(m)

Climbs(m, from, to) == StageOf(m) = from /\ StageOf(m)' = to /\ CopyOf(m)' = CopyOf(m)

(* What UploadLife lets happen to one user. *)
Lives(m) ==
    \/ Climbs(m, "unknown", "registered")
    \/ Climbs(m, "registered", "keyed")
    \/ /\ StageOf(m) \in {"keyed", "stored", "verified"} /\ StageOf(m)' = StageOf(m)
       /\ CopyOf(m)' = Empty
    \/ CopyOf(m) = Empty /\ CopyOf(m)' = Local[m] /\ StageOf(m)' = StageOf(m)
    \/ CopyOf(m) = Local[m] /\ Climbs(m, "keyed", "stored")
    \/ CopyOf(m) = Local[m] /\ Climbs(m, "stored", "verified")

LEMMA StillIsStutter ==
    ASSUME \A m \in Machines : Still(m)
    PROVE  UNCHANGED Life!life
BY DEF Still, CopyOf, Life!life

LEMMA LivesIsLife ==
    ASSUME NEW m \in Machines, Lives(m), \A n \in Machines \ {m} : Still(n)
    PROVE  Life!LifeNext
<1>. DEFINE stage == [n \in Machines |-> StageOf(n)]
            copy  == [n \in Machines |-> backup[<<Owner[n], Upload[n]>>]]
<1>1. /\ stage[m] = StageOf(m) /\ copy[m] = CopyOf(m)
      /\ stage' = [stage EXCEPT ![m] = StageOf(m)']
      /\ copy' = [copy EXCEPT ![m] = CopyOf(m)']
  BY DEF Still, CopyOf
<1>2. /\ StageOf(m)' = StageOf(m) => stage' = stage
      /\ CopyOf(m)' = CopyOf(m) => copy' = copy
  BY <1>1
<1>3. CASE Climbs(m, "unknown", "registered")
  <2>1. Life!Register(m)
    BY <1>1, <1>2, <1>3 DEF Climbs, Life!Register, Life!Climb
  <2>. QED
    BY <2>1 DEF Life!LifeNext
<1>4. CASE Climbs(m, "registered", "keyed")
  <2>1. Life!AgreeKey(m)
    BY <1>1, <1>2, <1>4 DEF Climbs, Life!AgreeKey, Life!Climb
  <2>. QED
    BY <2>1 DEF Life!LifeNext
<1>5. CASE /\ StageOf(m) \in {"keyed", "stored", "verified"} /\ StageOf(m)' = StageOf(m)
           /\ CopyOf(m)' = Empty
  <2>1. Life!BeginCopy(m)
    BY <1>1, <1>2, <1>5 DEF Life!BeginCopy
  <2>. QED
    BY <2>1 DEF Life!LifeNext
<1>6. CASE CopyOf(m) = Empty /\ CopyOf(m)' = Local[m] /\ StageOf(m)' = StageOf(m)
  <2>1. Life!FinishCopy(m)
    BY <1>1, <1>2, <1>6 DEF Life!FinishCopy
  <2>. QED
    BY <2>1 DEF Life!LifeNext
<1>7. CASE CopyOf(m) = Local[m] /\ Climbs(m, "keyed", "stored")
  <2>1. Life!Record(m)
    BY <1>1, <1>2, <1>7 DEF Climbs, Life!Record, Life!Climb
  <2>. QED
    BY <2>1 DEF Life!LifeNext
<1>8. CASE CopyOf(m) = Local[m] /\ Climbs(m, "stored", "verified")
  <2>1. Life!Verify(m)
    BY <1>1, <1>2, <1>8 DEF Climbs, Life!Verify, Life!Climb
  <2>. QED
    BY <2>1 DEF Life!LifeNext
<1>. QED
  BY <1>3, <1>4, <1>5, <1>6, <1>7, <1>8 DEF Lives

(* What the tables say of a machine does not change with the rows of others.*)
LEMMA StageKept ==
    ASSUME NEW m \in Machines, meInfo'[m] = meInfo[m],
           meInfo[m] # None =>
               /\ clients'[meInfo[m]].aes = NoKey <=> clients[meInfo[m]].aes = NoKey
               /\ files'[meInfo[m]] = files[meInfo[m]]
    PROVE  StageOf(m)' = StageOf(m)
BY DEF StageOf

(* The copy is whole when nobody has it open. *)
LEMMA CopyIsWhole ==
    ASSUME NoFailureInv, NEW m \in Machines, HasCopy(m), ~ServedAt(m, {"write_file"})
    PROVE  CopyOf(m) = Local[m]
BY DEF NoFailureInv, WholeInv, CopyOK

LEMMA ThreadLives ==
    ASSUME TransferInv, OwnershipInv, NoFailureInv, NoFailures, OwnersDiffer,
           NEW c \in Conns, Handle(c), UNCHANGED clientVars, NEW m \in Machines
    PROVE  Still(m) \/ (c = Session(m) /\ Lives(m))
<1>. DEFINE u == meInfo[m]
<1>1. /\ IInv /\ UNCHANGED meInfo /\ u \in Uids \cup {None}
      /\ clients \in [Uids -> ClientRow \cup {None}]
      /\ files \in [Uids -> FileRow \cup {None}] /\ None \notin FileRow
      /\ keyCount \in Nat
  BY ServerTyped, RowsAssumption
  DEF TransferInv, ClientInv, ClientTypeOK, clientVars, local, IInv, TypeOK
<1>2. CASE Begins(c, m)
  <2>1. Registered(req[c].uid) /\ clients[req[c].uid].aes # NoKey /\ c = Session(m)
    BY <1>1, <1>2 DEF Begins, OpenFile, IInv, HandlerOK, Serves
  <2>2. u # None /\ clients[u].aes # NoKey
    BY <1>2, <2>1, ServesUser DEF Begins
  <2>3. StageOf(m) \in {"keyed", "stored", "verified"}
    BY <2>2 DEF StageOf
  <2>4. StageOf(m)' = StageOf(m)
    BY <1>1, <1>2, StageKept DEF Begins, OpenFile, tables
  <2>. QED
    BY <1>2, <2>1, <2>3, <2>4 DEF Begins, Lives
<1>3. CASE Finishes(c, m)
  <2>1. StageOf(m)' = StageOf(m)
    BY <1>1, <1>3, StageKept DEF Finishes, WriteFile, tables
  <2>. QED
    BY <1>3, <2>1 DEF Finishes, Lives, Serves
<1>4. CASE Keeps(c, m) /\ u = None
  BY <1>1, <1>4, StageKept DEF Still, Keeps
<1>5. CASE Keeps(c, m) /\ u # None
  <2>1. u \in Uids /\ clients[u] # None /\ u \in GivenTo(m)
    BY <1>1, <1>5 DEF GivenTo, OwnershipInv, Registered
  <2>2. CASE StoreAesKey(c) /\ req[c].uid = u
    <3>1. c = Session(m)
      BY <2>1, <2>2, StoresForRun DEF NoFailureInv
    <3>2. clients' = [clients EXCEPT ![u].aes = keyCount + 1] /\ files' = files
      BY <2>2 DEF StoreAesKey
    <3>3. clients'[u].aes # NoKey
      <4>1. ASSUME NEW row \in ClientRow
            PROVE  [row EXCEPT !.aes = keyCount + 1].aes = keyCount + 1
        BY DEF ClientRow
      <4>. QED
        BY <1>1, <2>1, <3>2, <4>1
    <3>4. CASE clients[u].aes = NoKey
      <4>1. files[u] = None
        BY <1>1, <2>1, <3>4 DEF IInv, NoFileBeforeKeyExchange
      <4>2. StageOf(m) = "registered" /\ StageOf(m)' = "keyed"
        BY <1>1, <1>5, <3>2, <3>3, <3>4, <4>1 DEF StageOf
      <4>. QED
        BY <1>5, <3>1, <4>2 DEF Lives, Climbs, Keeps
    <3>5. CASE clients[u].aes # NoKey
      BY <1>1, <1>5, <3>2, <3>3, <3>5, StageKept DEF Still, Keeps
    <3>. QED
      BY <3>4, <3>5
  <2>3. CASE ~(StoreAesKey(c) /\ req[c].uid = u) /\ files'[u] = files[u]
    <3>1. clients'[u].aes = clients[u].aes
      BY <1>1, <2>1, <2>3, AesWriters
    <3>. QED
      BY <1>1, <1>5, <2>3, <3>1, StageKept DEF Still, Keeps
  <2>4. CASE /\ AddNewFile(c) /\ Serves(c, m)
             /\ files[u] = None /\ files'[u] = NewFile(Upload[m])
    <3>1. c = Session(m) /\ ServedAt(m, {"add_new_file"}) /\ UNCHANGED clients
      BY <2>4 DEF AddNewFile, Serves, ServedAt
    <3>2. CopyOf(m) = Local[m]
      BY <3>1, CopyIsWhole DEF HasCopy, ServedAt
    <3>3. clients[u].aes # NoKey
      <4>1. Registered(req[c].uid) /\ clients[req[c].uid].aes # NoKey
        BY <1>1, <2>4 DEF AddNewFile, IInv, HandlerOK
      <4>. QED
        BY <2>4, <4>1, ServesUser
    <3>4. NewFile(Upload[m]) # None /\ ~NewFile(Upload[m]).verified
      <4>1. NewFile(Upload[m]) \in FileRow /\ NewFile(Upload[m]).verified = FALSE
        BY MachinesAssumption DEF NewFile, FileRow
      <4>. QED
        BY <1>1, <4>1
    <3>5. StageOf(m) = "keyed"
      BY <1>5, <2>4, <3>3 DEF StageOf
    <3>6. StageOf(m)' = "stored"
      BY <1>1, <1>5, <2>4, <3>1, <3>3, <3>4 DEF StageOf
    <3>. QED
      BY <1>5, <3>1, <3>2, <3>5, <3>6 DEF Lives, Climbs, Keeps
  <2>5. CASE /\ UpdateVerified(c) /\ Serves(c, m)
             /\ files[u] # None /\ files'[u] = [files[u] EXCEPT !.verified = TRUE]
    <3>1. c = Session(m) /\ pc[Session(m)] = "update_verified" /\ UNCHANGED clients
      BY <2>5 DEF UpdateVerified, Serves
    <3>2. CopyOf(m) = Local[m]
      BY <1>5, <2>5, <3>1, CopyIsWhole DEF HasCopy, ServedAt
    <3>3. clients[u].aes # NoKey
      BY <1>1, <2>1, <2>5 DEF IInv, NoFileBeforeKeyExchange
    <3>4. files'[u] # None /\ files'[u].verified
      <4>1. ASSUME NEW row \in FileRow
            PROVE  /\ [row EXCEPT !.verified = TRUE] \in FileRow
                   /\ [row EXCEPT !.verified = TRUE].verified = TRUE
        BY DEF FileRow
      <4>. QED
        BY <1>1, <2>1, <2>5, <4>1
    <3>5. StageOf(m) \in {"stored", "verified"}
      BY <1>5, <2>5, <3>3 DEF StageOf
    <3>6. StageOf(m)' = "verified"
      BY <1>1, <1>5, <3>1, <3>3, <3>4 DEF StageOf
    <3>. QED
      BY <1>5, <3>1, <3>2, <3>5, <3>6 DEF Lives, Climbs, Keeps, Still
  <2>. QED
    BY <2>1, <2>2, <2>3, <2>4, <2>5, RowStep DEF AddNewFile, UpdateVerified, StoreAesKey
<1>. QED
  BY <1>2, <1>3, <1>4, <1>5, CopyStep

LEMMA MachineLives ==
    ASSUME TransferInv, OwnershipInv, NoFailureInv, NEW m \in Machines, OwnStep(m),
           meInfo' \in [Machines -> Uids \cup {None}]
    PROVE  /\ \A n \in Machines \ {m} : Still(n)
           /\ Still(m) \/ Lives(m)
<1>1. /\ UNCHANGED <<clients, files, backup>>
      /\ \A n \in Machines \ {m} : meInfo'[n] = meInfo[n]
  BY DEF OwnStep, MachineFrame, server, tables, disk
<1>2. ASSUME NEW n \in Machines, meInfo'[n] = meInfo[n]
      PROVE  Still(n)
  BY <1>1, <1>2, StageKept DEF Still, CopyOf
<1>3. CASE meInfo'[m] # meInfo[m]
  <2>. DEFINE u == meInfo'[m]
  <2>1. meInfo[m] = None /\ u \in Uids /\ u # None
    BY <1>3 DEF OwnStep
  <2>2. u \in GivenTo(m)
    <3>1. u \in GivenTo(m)'
      BY <2>1 DEF GivenTo
    <3>. QED
      BY <3>1 DEF OwnStep
  <2>3. clients'[u].aes = NoKey
    BY <1>1, <2>1, <2>2 DEF NoFailureInv, WholeInv, RowOK
  <2>4. StageOf(m) = "unknown"
    BY <2>1 DEF StageOf
  <2>5. StageOf(m)' = "registered"
    BY <2>1, <2>3 DEF StageOf
  <2>6. CopyOf(m)' = CopyOf(m)
    BY <1>1 DEF CopyOf
  <2>. QED
    BY <1>1, <1>2, <2>4, <2>5, <2>6 DEF Lives, Climbs
<1>. QED
  BY <1>1, <1>2, <1>3

LEMMA NextLives ==
    ASSUME TransferInv, OwnershipInv, NoFailureInv, NoFailures, OwnersDiffer, TransferInv',
           [TransferNext]_transferVars
    PROVE  [Life!LifeNext]_(Life!life)
<1>1. ASSUME NEW m \in Machines, MachineStep(m)
      PROVE  [Life!LifeNext]_(Life!life)
  <2>1. OwnStep(m) /\ meInfo' \in [Machines -> Uids \cup {None}]
    BY <1>1, MachineIsOwn DEF MachineStep, TransferInv, ClientInv, ClientTypeOK
  <2>2. CASE Lives(m)
    BY <2>1, <2>2, MachineLives, LivesIsLife
  <2>3. CASE Still(m)
    BY <2>1, <2>3, MachineLives, StillIsStutter
  <2>. QED
    BY <2>1, <2>2, <2>3, MachineLives
<1>2. ASSUME NEW c \in Conns, Handle(c), UNCHANGED clientVars
      PROVE  [Life!LifeNext]_(Life!life)
  <2>1. CASE \A m \in Machines : Still(m)
    BY <2>1, StillIsStutter
  <2>2. CASE \E m \in Machines : ~Still(m)
    <3>1. PICK m \in Machines : ~Still(m)
      BY <2>2
    <3>2. c = Session(m) /\ Lives(m)
      BY <1>2, <3>1, ThreadLives
    <3>3. \A n \in Machines \ {m} : c # Session(n)
      BY <3>2 DEF Session
    <3>4. \A n \in Machines \ {m} : Still(n)
      BY <1>2, <3>3, ThreadLives
    <3>. QED
      BY <3>2, <3>4, LivesIsLife
  <2>. QED
    BY <2>1, <2>2
<1>3. CASE UNCHANGED transferVars
  <2>1. UNCHANGED <<meInfo, clients, files, backup>>
    BY <1>3 DEF transferVars, vars, clientVars, local, tables, disk
  <2>2. \A m \in Machines : Still(m)
    BY <2>1, StageKept DEF Still, CopyOf
  <2>. QED
    BY <2>2, StillIsStutter
<1>4. ASSUME ServerStep
      PROVE  \E c \in Conns : Handle(c) /\ UNCHANGED clientVars
  BY <1>4 DEF ServerStep, ServerNext, StepFails, Crash, NoFailures
<1>. QED
  BY <1>1, <1>2, <1>3, <1>4 DEF TransferNext

LEMMA LifeStarts ==
    ASSUME TransferInit
    PROVE  Life!LifeInit
<1>1. /\ \A m \in Machines : meInfo[m] = None
      /\ \A m \in Machines : <<Owner[m], Upload[m]>> \in Paths
      /\ backup = [p \in Paths |-> None]
  BY MachinesAssumption DEF TransferInit, ClientInit, Init, Paths, UserNames
<1>2. \A m \in Machines : StageOf(m) = "unknown"
  BY <1>1 DEF StageOf
<1>. QED
  BY <1>1, <1>2 DEF Life!LifeInit

(* When nothing fails, clients and server together do nothing to the backup *)
(* of any user that UploadLife does not do: the stages are climbed in order *)
(* and never back, and a row is written and verified only for a copy that   *)
(* is whole.                                                                *)
THEOREM ImplementsUploadLife ==
    ASSUME ClientRequests(Nat) \subseteq Traffic, NoFailures, OwnersDiffer
    PROVE  TransferSpec => KeepsOrder
<1>1. TransferInit => Life!LifeInit
  BY LifeStarts
<1>2. TransferInv /\ OwnershipInv /\ NoFailureInv /\ TransferInv'
              /\ [TransferNext]_transferVars
          => [Life!LifeNext]_(Life!life)
  BY NextLives
<1>3. Kills => TornRequests
  BY DEF NoFailures
<1>. QED
  BY <1>1, <1>2, <1>3, FilesAreWhole, UuidsHaveOneOwner, TransferInvariant, PTL
  DEF TransferSpec, KeepsOrder, Life!LifeOrder
=============================================================================
