------------------------- MODULE FileTransferProofs -------------------------
(***************************************************************************)
(* Proofs about clients and server together, for any number of machines,   *)
(* runs, users and files, with kills, torn requests, faults and crashes.   *)
(*                                                                         *)
(* TransferInv is inductive: IInv and ClientInv are so by the proofs about *)
(* the two sides, and what is new is what is on each connection.  A step   *)
(* of a thread is, for the client, one of five things (Outcome); a step of *)
(* a machine touches the connection of its current run only (RunStep).     *)
(* From TransferInv follows that FileTransfer implements BackupServer and  *)
(* the specification of a client with any server, so that all that is      *)
(* proved about the two sides holds of the whole.                          *)
(***************************************************************************)
EXTENDS FileTransfer, BackupServerProofs, UploadClientProofs

USE DEF REGISTER, S_PUBLIC_KEY, RECONNECT, SEND_FILE, VALID_CRC, N_VALID_CRC, EXIT_CRC,
        INIT_REGISTRATION_SUCC, REGISTRATION_FAIL, IN_PUBLIC_KEY_OUT_AES, VALID_FILE_CRC,
        FILE_APPROVAL, RECCONECT_APPROVED, RECCONET_DENIED, GENERAL_ERROR, NoKey

-----------------------------------------------------------------------------
(* Requests, steps and answers that belong together. *)

LEMMA StepsOfCode ==
    /\ StepsFor[REGISTER] = {"find_username", "add_new_client", "send_response"}
    /\ StepsFor[S_PUBLIC_KEY] = {"set_public_key", "recover_public_key", "store_aes_key",
                                 "encrypt", "send_response"}
    /\ StepsFor[RECONNECT] = {"recover_public_key", "store_aes_key", "encrypt",
                              "send_response"}
    /\ StepsFor[SEND_FILE] = {"decrypt_file", "open_file", "write_file", "add_new_file",
                              "read_crc", "send_response"}
    /\ StepsFor[VALID_CRC] = {"update_verified", "send_response"}
    /\ StepsFor[N_VALID_CRC] = {}
    /\ StepsFor[EXIT_CRC] = {"delete_from_backup", "delete_unverified", "send_response"}
BY DEF StepsFor, RequestCodes

LEMMA FirstSteps ==
    ASSUME NEW code \in RequestCodes
    PROVE  /\ code = N_VALID_CRC => FirstStep[code] = "handle_request"
           /\ code # N_VALID_CRC => FirstStep[code] \in StepsFor[code] \ {"encrypt", "send_response"}
BY StepsOfCode DEF FirstStep, RequestCodes

LEMMA RefusalAnswers ==
    ASSUME NEW code \in RequestCodes \ {N_VALID_CRC}, NEW uid \in Uids \cup {NoUid}
    PROVE  /\ IsAnswer(code, ErrorReply)
           /\ code = RECONNECT => IsAnswer(code, Reply(RECCONET_DENIED, uid))
           /\ code = REGISTER => IsAnswer(code, Reply(REGISTRATION_FAIL, uid))
           /\ code \in {VALID_CRC, EXIT_CRC} => IsAnswer(code, Reply(FILE_APPROVAL, uid))
           /\ code = SEND_FILE =>
                 \A content \in Content : IsAnswer(code, CrcReply(uid, content))
<1>1. ASSUME NEW a \in ResponseCodes, <<code, a>> \in AnswerCodes,
             a \notin {INIT_REGISTRATION_SUCC, IN_PUBLIC_KEY_OUT_AES, RECCONECT_APPROVED},
             NEW u \in Uids \cup {NoUid}
      PROVE  IsAnswer(code, Reply(a, u))
  <2>1. Reply(a, u) \in Response /\ Reply(a, u).code = a
    BY ReplyType DEF Reply
  <2>. QED
    BY <1>1, <2>1 DEF IsAnswer
<1>2. IsAnswer(code, ErrorReply)
  BY <1>1 DEF ErrorReply, ResponseCodes, AnswerCodes
<1>3. ASSUME code = SEND_FILE, NEW content \in Content
      PROVE  IsAnswer(code, CrcReply(uid, content))
  BY <1>3, CrcReplyType DEF IsAnswer, AnswerCodes
<1>4. /\ code = RECONNECT => IsAnswer(code, Reply(RECCONET_DENIED, uid))
      /\ code = REGISTER => IsAnswer(code, Reply(REGISTRATION_FAIL, uid))
      /\ code \in {VALID_CRC, EXIT_CRC} => IsAnswer(code, Reply(FILE_APPROVAL, uid))
  BY <1>1 DEF ResponseCodes, AnswerCodes
<1>. QED
  BY <1>2, <1>3, <1>4

LEMMA RegistrationAnswers ==
    ASSUME NEW uid \in Uids
    PROVE  IsAnswer(REGISTER, Reply(INIT_REGISTRATION_SUCC, uid))
<1>1. Reply(INIT_REGISTRATION_SUCC, uid) \in Response
  BY ReplyType DEF ResponseCodes
<1>. QED
  BY <1>1 DEF IsAnswer, AnswerCodes, Reply

LEMMA KeyAnswers ==
    ASSUME NEW op \in {S_PUBLIC_KEY, RECONNECT}, NEW uid \in Uids, NEW p \in PubKeys,
           NEW k \in Nat
    PROVE  LET code == IF op = RECONNECT THEN RECCONECT_APPROVED ELSE IN_PUBLIC_KEY_OUT_AES
           IN IsAnswer(op, KeyReply(code, uid, p, k + 1))
<1>. DEFINE code == IF op = RECONNECT THEN RECCONECT_APPROVED ELSE IN_PUBLIC_KEY_OUT_AES
            a    == KeyReply(code, uid, p, k + 1)
<1>1. a \in Response /\ a.key = k + 1
  BY KeyReplyType DEF ResponseCodes
<1>2. a.code = code /\ a.pub = p
  BY DEF KeyReply, Reply
<1>. HIDE DEF a
<1>3. IsAnswer(op, a)
  BY <1>1, <1>2 DEF IsAnswer, AnswerCodes
<1>. QED
  BY <1>3 DEF a

-----------------------------------------------------------------------------
(* What a step of the thread of connection c is for the client. *)

SameWires(c) == link'[c] = link[c] /\ inbox'[c] = inbox[c] /\ outbox'[c] = outbox[c]

(* No other connection than c is touched. *)
AloneOn(c) == \A d \in Conns \ {c} : SameWires(d)

Comes(c) ==
    /\ pc[c] = "off" /\ link[c] # "free" /\ pc'[c] = "handle_request"
    /\ SameWires(c)

Takes(c) ==
    /\ pc[c] = "handle_request"
    /\ inbox[c] # None /\ inbox'[c] = None
    /\ link'[c] = link[c] /\ outbox'[c] = outbox[c]
    /\ req'[c] = inbox[c]
    /\ IF inbox[c].code = N_VALID_CRC
       THEN pc'[c] = "handle_request"
       ELSE pc'[c] \in StepsFor[inbox[c].code] \ {"encrypt", "send_response"}

Works(c) ==
    /\ pc[c] \notin {"off", "handle_request"}
    /\ pc'[c] \in StepsFor[req[c].code] /\ req'[c] = req[c]
    /\ pc'[c] \in {"encrypt", "send_response"} => IsAnswer(req[c].code, ans'[c])
    /\ SameWires(c)

Sends(c) ==
    /\ pc[c] = "send_response" /\ pc'[c] = "handle_request"
    /\ outbox[c] = None
    /\ outbox'[c] = IF link[c] = "open" THEN ans[c] ELSE None
    /\ link'[c] = link[c] /\ inbox'[c] = inbox[c]

Leaves(c) ==
    /\ pc[c] # "off" /\ pc'[c] = "off"
    /\ link'[c] # "open" /\ inbox'[c] = None /\ outbox'[c] = outbox[c]

Outcome(c) == Comes(c) \/ Takes(c) \/ Works(c) \/ Sends(c) \/ Leaves(c)

LEMMA EndThreadLeaves ==
    ASSUME IInv, NEW c \in Conns, EndThread(c), pc[c] # "off"
    PROVE  Leaves(c) /\ AloneOn(c) /\ Others(c)
BY DEF IInv, TypeOK, WiresTypeOK, EndThread, ServerClose, Leaves, AloneOn, SameWires, Others

(* What a handler relies on when it works on a request. *)
LEMMA AtWork ==
    ASSUME IInv, NEW c \in Conns, HandledOK(c), pc[c] \notin {"off", "handle_request"}
    PROVE  /\ req[c] \in Request /\ req[c].uid \in Uids \cup {NoUid}
           /\ req[c].code \in RequestCodes \ {N_VALID_CRC}
           /\ pc[c] \in StepsFor[req[c].code]
           /\ "send_response" \in StepsFor[req[c].code]
<1>1. /\ req[c] \in Request /\ req[c].code \in RequestCodes
      /\ pc[c] \in StepsFor[req[c].code]
  BY DEF IInv, TypeOK, HandledOK
<1>2. req[c].code # N_VALID_CRC
  BY <1>1, StepsOfCode
<1>3. "send_response" \in StepsFor[req[c].code]
  BY <1>1, <1>2, StepsOfCode DEF RequestCodes
<1>. QED
  BY <1>1, <1>2, <1>3 DEF Request

(* What the ways of going on do to the thread of c and to the others.       *)
LEMMA GotoEffect ==
    ASSUME IInv, NEW c \in Conns, NEW step, Goto(c, step)
    PROVE  pc'[c] = step /\ req'[c] = req[c] /\ ans'[c] = ans[c] /\ Others(c)
BY DEF Goto, Others, IInv, TypeOK

LEMMA HoldEffect ==
    ASSUME IInv, NEW c \in Conns, NEW v, NEW step, Hold(c, v, step)
    PROVE  pc'[c] = step /\ req'[c] = req[c] /\ Others(c)
BY DEF Hold, Others, IInv, TypeOK

LEMMA PrepareEffect ==
    ASSUME IInv, NEW c \in Conns, NEW a, NEW step, Prepare(c, a, step)
    PROVE  pc'[c] = step /\ req'[c] = req[c] /\ ans'[c] = a /\ Others(c)
BY DEF Prepare, Others, IInv, TypeOK

LEMMA AnswerEffect ==
    ASSUME IInv, NEW c \in Conns, NEW a, Answer(c, a)
    PROVE  pc'[c] = "send_response" /\ req'[c] = req[c] /\ ans'[c] = a /\ Others(c)
BY PrepareEffect DEF Answer

(* A handler goes on to a step that belongs to its request, with an answer  *)
(* if that step sends one.                                                  *)
LEMMA StepWorks ==
    ASSUME NEW c \in Conns, pc[c] \notin {"off", "handle_request"}, UNCHANGED wires,
           pc'[c] \in StepsFor[req[c].code], req'[c] = req[c], Others(c),
           pc'[c] \in {"encrypt", "send_response"} => IsAnswer(req[c].code, ans'[c])
    PROVE  Works(c) /\ AloneOn(c) /\ Others(c)
BY DEF Works, AloneOn, SameWires, wires

LEMMA RefuseWorks ==
    ASSUME IInv, NEW c \in Conns, HandledOK(c), pc[c] \notin {"off", "handle_request"},
           Refuse(c), UNCHANGED wires
    PROVE  Works(c) /\ AloneOn(c) /\ Others(c)
<1>. DEFINE a == IF req[c].code = RECONNECT THEN Reply(RECCONET_DENIED, req[c].uid)
                                            ELSE ErrorReply
<1>1. Answer(c, a)
  BY DEF Refuse
<1>2. IsAnswer(req[c].code, a)
  BY AtWork, RefusalAnswers
<1>. HIDE DEF a
<1>. QED
  BY <1>1, <1>2, AtWork, AnswerEffect, StepWorks

LEMMA RegistrationWorks ==
    ASSUME IInv, NEW c \in Conns, HandledOK(c), FindUsername(c) \/ AddNewClient(c)
    PROVE  Works(c) /\ AloneOn(c) /\ Others(c)
<1>1. /\ pc[c] \in {"find_username", "add_new_client"}
      /\ pc[c] \notin {"off", "handle_request"} /\ UNCHANGED wires
  BY DEF FindUsername, AddNewClient
<1>2. req[c].code = REGISTER /\ {"add_new_client", "send_response"} \subseteq StepsFor[req[c].code]
  BY <1>1, AtWork, StepsOfCode DEF RequestCodes
<1>3. ASSUME NEW u \in Uids, NEW a \in {INIT_REGISTRATION_SUCC, REGISTRATION_FAIL},
             Answer(c, Reply(a, u))
      PROVE  Works(c) /\ AloneOn(c) /\ Others(c)
  <2>1. IsAnswer(req[c].code, Reply(a, u))
    BY <1>2, RefusalAnswers, RegistrationAnswers DEF RequestCodes
  <2>. QED
    BY <1>1, <1>2, <1>3, <2>1, AnswerEffect, StepWorks
<1>4. CASE Goto(c, "add_new_client")
  BY <1>1, <1>2, <1>4, GotoEffect, StepWorks
<1>5. CASE Refuse(c)
  BY <1>1, <1>5, RefuseWorks
<1>6. \/ Goto(c, "add_new_client") \/ Refuse(c)
      \/ \E u \in Uids, a \in {INIT_REGISTRATION_SUCC, REGISTRATION_FAIL} : Answer(c, Reply(a, u))
  BY DEF FindUsername, AddNewClient, UsersNamed
<1>. QED
  BY <1>3, <1>4, <1>5, <1>6

LEMMA KeyExchangeWorks ==
    ASSUME IInv, NEW c \in Conns, HandledOK(c),
           SetPublicKey(c) \/ RecoverPublicKey(c) \/ StoreAesKey(c) \/ EncryptKey(c)
    PROVE  Works(c) /\ AloneOn(c) /\ Others(c)
<1>1. /\ pc[c] \in {"set_public_key", "recover_public_key", "store_aes_key", "encrypt"}
      /\ pc[c] \notin {"off", "handle_request"} /\ UNCHANGED wires
  BY DEF SetPublicKey, RecoverPublicKey, StoreAesKey, EncryptKey
<1>2. /\ req[c].code \in {S_PUBLIC_KEY, RECONNECT}
      /\ {"recover_public_key", "store_aes_key", "encrypt", "send_response"}
             \subseteq StepsFor[req[c].code]
  BY <1>1, AtWork, StepsOfCode DEF RequestCodes
<1>3. CASE Refuse(c)
  BY <1>1, <1>3, RefuseWorks
<1>4. CASE Goto(c, "recover_public_key")
  BY <1>1, <1>2, <1>4, GotoEffect, StepWorks
<1>5. CASE Hold(c, clients[req[c].uid].pub, "store_aes_key")
  BY <1>1, <1>2, <1>5, HoldEffect, StepWorks
<1>6. CASE StoreAesKey(c)
  <2>. DEFINE code == IF req[c].code = RECONNECT THEN RECCONECT_APPROVED
                                                  ELSE IN_PUBLIC_KEY_OUT_AES
              a    == KeyReply(code, req[c].uid, held[c], keyCount + 1)
  <2>1. req[c].uid \in Uids /\ held[c] \in PubKeys /\ keyCount \in Nat
    BY <1>6 DEF StoreAesKey, IInv, HandlerOK, Registered, TypeOK
  <2>2. IsAnswer(req[c].code, a)
    BY <1>2, <2>1, KeyAnswers
  <2>3. Prepare(c, a, "encrypt")
    BY <1>6 DEF StoreAesKey
  <2>. HIDE DEF a
  <2>. QED
    BY <1>1, <1>2, <2>2, <2>3, PrepareEffect, StepWorks
<1>7. CASE EncryptKey(c)
  <2>1. IsAnswer(req[c].code, ans[c]) /\ Goto(c, "send_response")
    BY <1>7 DEF EncryptKey, HandledOK
  <2>. QED
    BY <1>1, <1>2, <2>1, GotoEffect, StepWorks
<1>. QED
  BY <1>3, <1>4, <1>5, <1>6, <1>7 DEF SetPublicKey, RecoverPublicKey

LEMMA UploadWorks ==
    ASSUME IInv, NEW c \in Conns, HandledOK(c),
           DecryptFile(c) \/ OpenFile(c) \/ WriteFile(c) \/ AddNewFile(c) \/ ReadCrc(c)
    PROVE  (Works(c) \/ Leaves(c)) /\ AloneOn(c) /\ Others(c)
<1>1. /\ pc[c] \in {"decrypt_file", "open_file", "write_file", "add_new_file", "read_crc"}
      /\ pc[c] \notin {"off", "handle_request"}
  BY DEF DecryptFile, OpenFile, WriteFile, AddNewFile, ReadCrc
<1>2. /\ req[c].code = SEND_FILE
      /\ {"open_file", "write_file", "add_new_file", "read_crc", "send_response"}
             \subseteq StepsFor[req[c].code]
  BY <1>1, AtWork, StepsOfCode DEF RequestCodes
<1>3. CASE EndThread(c)
  BY <1>1, <1>3, EndThreadLeaves
<1>4. CASE Refuse(c) /\ UNCHANGED wires
  BY <1>1, <1>4, RefuseWorks
<1>5. ASSUME NEW v, Hold(c, v, "open_file"), UNCHANGED wires
      PROVE  Works(c) /\ AloneOn(c) /\ Others(c)
  BY <1>1, <1>2, <1>5, HoldEffect, StepWorks
<1>6. ASSUME NEW step \in {"write_file", "add_new_file", "read_crc"}, Goto(c, step),
             UNCHANGED wires
      PROVE  Works(c) /\ AloneOn(c) /\ Others(c)
  BY <1>1, <1>2, <1>6, GotoEffect, StepWorks
<1>7. CASE ReadCrc(c) /\ ~EndThread(c)
  <2>. DEFINE a == CrcReply(req[c].uid, backup[Path(c)])
  <2>1. Answer(c, a) /\ UNCHANGED wires /\ backup[Path(c)] # None
    BY <1>7 DEF ReadCrc
  <2>2. backup[Path(c)] \in Content
    <3>1. Registered(req[c].uid) /\ req[c].file \in Files
      BY <1>7 DEF ReadCrc, IInv, HandlerOK
    <3>2. Path(c) \in Paths
      BY <3>1 DEF Path, Paths, Registered, IInv, TypeOK, ClientRow
    <3>. QED
      BY <2>1, <3>2 DEF IInv, TypeOK
  <2>3. IsAnswer(req[c].code, a)
    BY <1>1, <1>2, <2>2, AtWork, RefusalAnswers
  <2>. HIDE DEF a
  <2>. QED
    BY <1>1, <1>2, <2>1, <2>3, AnswerEffect, StepWorks
<1>. QED
  BY <1>3, <1>4, <1>5, <1>6, <1>7 DEF DecryptFile, OpenFile, WriteFile, AddNewFile, wires

LEMMA VerdictWorks ==
    ASSUME IInv, NEW c \in Conns, HandledOK(c),
           UpdateVerified(c) \/ DeleteFromBackup(c) \/ DeleteUnverified(c)
    PROVE  Works(c) /\ AloneOn(c) /\ Others(c)
<1>1. /\ pc[c] \in {"update_verified", "delete_from_backup", "delete_unverified"}
      /\ pc[c] \notin {"off", "handle_request"} /\ UNCHANGED wires
  BY DEF UpdateVerified, DeleteFromBackup, DeleteUnverified
<1>2. /\ req[c].code \in {VALID_CRC, EXIT_CRC}
      /\ pc[c] # "update_verified" => "delete_unverified" \in StepsFor[req[c].code]
  BY <1>1, AtWork, StepsOfCode DEF RequestCodes
<1>3. CASE Goto(c, "delete_unverified") /\ pc[c] # "update_verified"
  BY <1>1, <1>2, <1>3, GotoEffect, StepWorks
<1>4. CASE Answer(c, Reply(FILE_APPROVAL, req[c].uid))
  <2>. DEFINE a == Reply(FILE_APPROVAL, req[c].uid)
  <2>1. IsAnswer(req[c].code, a)
    BY <1>1, <1>2, AtWork, RefusalAnswers
  <2>. HIDE DEF a
  <2>2. Answer(c, a)
    BY <1>4 DEF a
  <2>. QED
    BY <1>1, <2>1, <2>2, AtWork, AnswerEffect, StepWorks
<1>. QED
  BY <1>3, <1>4 DEF UpdateVerified, DeleteFromBackup, DeleteUnverified

LEMMA HandleOutcome ==
    ASSUME IInv, NEW c \in Conns, HandledOK(c), Handle(c)
    PROVE  Outcome(c) /\ AloneOn(c) /\ Others(c)
<1>0. /\ pc \in [Conns -> Steps] /\ link \in [Conns -> LinkStates]
      /\ inbox \in [Conns -> Request \cup {None}] /\ outbox \in [Conns -> Response \cup {None}]
      /\ req \in [Conns -> Request \cup {None}] /\ DOMAIN held = Conns /\ DOMAIN ans = Conns
  BY DEF IInv, TypeOK, WiresTypeOK
<1>1. CASE Accept(c)
  <2>1. pc'[c] = "handle_request" /\ Others(c)
    BY <1>1, GotoEffect DEF Accept
  <2>2. Comes(c) /\ AloneOn(c)
    BY <1>1, <2>1 DEF Accept, Comes, AloneOn, SameWires, wires
  <2>. QED
    BY <2>1, <2>2 DEF Outcome
<1>2. CASE Dispatch(c)
  <2>. DEFINE code == inbox[c].code
  <2>1. /\ pc[c] = "handle_request" /\ inbox[c] # None /\ code \in RequestCodes
        /\ pc'[c] = FirstStep[code] /\ req'[c] = inbox[c] /\ inbox'[c] = None
        /\ UNCHANGED <<link, outbox>>
    BY <1>0, <1>2 DEF Dispatch, Deliver
  <2>2. Takes(c)
    BY <2>1, FirstSteps DEF Takes
  <2>3. AloneOn(c) /\ Others(c)
    BY <1>0, <1>2 DEF Dispatch, Deliver, AloneOn, SameWires, Others
  <2>. QED
    BY <2>2, <2>3 DEF Outcome
<1>3. CASE RejectVersion(c) \/ DropUnknownCode(c)
  BY <1>3 DEF RejectVersion, DropUnknownCode, Deliver, HandledOK
<1>4. CASE CloseConnection(c)
  BY <1>4, EndThreadLeaves DEF CloseConnection, Outcome
<1>5. CASE SendResponse(c)
  <2>1. Sends(c)
    BY <1>0, <1>5 DEF SendResponse, Respond, Sends
  <2>2. AloneOn(c) /\ Others(c)
    BY <1>0, <1>5 DEF SendResponse, Respond, AloneOn, SameWires, Others, IInv, TypeOK
  <2>. QED
    BY <2>1, <2>2 DEF Outcome
<1>. QED
  BY <1>1, <1>2, <1>3, <1>4, <1>5, RegistrationWorks, KeyExchangeWorks, UploadWorks,
     VerdictWorks DEF Handle, Outcome

LEMMA FailureOutcome ==
    ASSUME IInv, NEW c \in Conns, HandledOK(c), StepFails(c)
    PROVE  Outcome(c) /\ AloneOn(c) /\ Others(c)
<1>1. CASE pc[c] \notin {"off", "handle_request"} /\ Refuse(c) /\ UNCHANGED wires
  BY <1>1, RefuseWorks DEF Outcome
<1>2. CASE pc[c] = "delete_from_backup" /\ Goto(c, "delete_unverified") /\ UNCHANGED wires
  <2>1. "delete_unverified" \in StepsFor[req[c].code]
    BY <1>2, AtWork, StepsOfCode DEF RequestCodes
  <2>. QED
    BY <1>2, <2>1, GotoEffect, StepWorks DEF Outcome
<1>3. CASE pc[c] = "read_crc" /\ EndThread(c)
  BY <1>3, EndThreadLeaves DEF Outcome
<1>. QED
  BY <1>1, <1>2, <1>3 DEF StepFails, wires

-----------------------------------------------------------------------------
(* What the server does preserves the invariant, and is what ServerSide     *)
(* lets a server do.                                                        *)

LEMMA WiresTyped ==
    ASSUME IInv
    PROVE  /\ link \in [Conns -> LinkStates]
           /\ inbox \in [Conns -> Request \cup {None}]
           /\ outbox \in [Conns -> Response \cup {None}]
           /\ pc \in [Conns -> Steps] /\ req \in [Conns -> Request \cup {None}]
BY DEF IInv, TypeOK, WiresTypeOK

LEMMA StepsAreWork ==
    \A code \in RequestCodes : \A s \in StepsFor[code] : s \notin {"off", "handle_request"}
BY StepsOfCode DEF RequestCodes

LEMMA OutcomeHandled ==
    ASSUME IInv, NEW c \in Conns, HandledOK(c), Outcome(c)
    PROVE  HandledOK(c)'
<1>1. CASE Comes(c)
  BY <1>1 DEF Comes, SameWires, HandledOK
<1>2. CASE Takes(c)
  <2>1. inbox[c].code \in RequestCodes /\ inbox'[c] = None /\ req'[c] = inbox[c] /\ inbox[c] # None
    BY <1>2 DEF Takes, HandledOK
  <2>2. CASE inbox[c].code = N_VALID_CRC
    BY <1>2, <2>1, <2>2 DEF Takes, HandledOK
  <2>3. CASE inbox[c].code # N_VALID_CRC
    <3>1. pc'[c] \in StepsFor[inbox[c].code] \ {"encrypt", "send_response"}
      BY <1>2, <2>3 DEF Takes
    <3>. QED
      BY <2>1, <3>1 DEF HandledOK
  <2>. QED
    BY <2>2, <2>3
<1>3. CASE Works(c)
  <2>1. /\ req[c] # None /\ req[c].code \in RequestCodes
        /\ inbox[c] # None => inbox[c].version = VERSION /\ inbox[c].code \in RequestCodes
    BY <1>3 DEF Works, HandledOK
  <2>. QED
    BY <1>3, <2>1 DEF Works, SameWires, HandledOK
<1>4. CASE Sends(c)
  BY <1>4 DEF Sends, HandledOK
<1>5. CASE Leaves(c)
  BY <1>5 DEF Leaves, HandledOK
<1>. QED
  BY <1>1, <1>2, <1>3, <1>4, <1>5 DEF Outcome

(* On an open connection the exchange goes on.                              *)
LEMMA OutcomeExchange ==
    ASSUME IInv, NEW c \in Conns, HandledOK(c), Outcome(c), link'[c] = "open",
           NEW m \in Machines, ExchangeOK(c, proc[m]), UNCHANGED proc
    PROVE  link[c] = "open" /\ ExchangeOK(c, proc[m])'
<1>. USE DEF ExchangeOK
<1>1. CASE Comes(c)
  BY <1>1 DEF Comes, SameWires
<1>2. CASE Takes(c)
  <2>1. CASE inbox[c].code = N_VALID_CRC
    BY <1>2, <2>1 DEF Takes
  <2>2. CASE inbox[c].code # N_VALID_CRC
    <3>1. /\ pc'[c] \in StepsFor[inbox[c].code] /\ req'[c] = inbox[c]
          /\ inbox[c] # None /\ inbox[c].code \in RequestCodes
      BY <1>2, <2>2 DEF Takes, HandledOK
    <3>2. pc'[c] \notin {"off", "handle_request"}
      BY <3>1, StepsAreWork
    <3>. QED
      BY <1>2, <2>2, <3>1, <3>2 DEF Takes
  <2>. QED
    BY <2>1, <2>2
<1>3. CASE Works(c)
  <2>1. req[c].code \in RequestCodes /\ pc'[c] \in StepsFor[req[c].code]
    BY <1>3 DEF Works, HandledOK
  <2>2. pc'[c] \notin {"off", "handle_request"}
    BY <2>1, StepsAreWork
  <2>. QED
    BY <1>3, <2>2 DEF Works, SameWires
<1>4. CASE Sends(c)
  <2>1. ans[c] # None
    BY <1>4, PacketsAssumption DEF Sends, HandledOK, IsAnswer
  <2>. QED
    BY <1>4, <2>1 DEF Sends
<1>5. CASE Leaves(c)
  BY <1>5 DEF Leaves
<1>. QED
  BY <1>1, <1>2, <1>3, <1>4, <1>5 DEF Outcome

(* What is put on a connection answers the run that waits there.            *)
LEMMA OutcomeAnswers ==
    ASSUME IInv, NEW c \in Conns, HandledOK(c), OpenOK(c), Outcome(c)
    PROVE  /\ link'[c] = "open" => link[c] = "open"
           /\ \/ outbox'[c] \in {outbox[c], None}
              \/ \E m \in Machines :
                    /\ c = Session(m) /\ proc[m].phase = "await"
                    /\ IsAnswer(proc[m].op, outbox'[c])
<1>1. CASE Sends(c) /\ link[c] = "open"
  <2>1. PICK m \in Machines : Running(m) /\ c = Session(m) /\ ExchangeOK(c, proc[m])
    BY <1>1 DEF OpenOK
  <2>2. proc[m].phase = "await" /\ req[c].code = proc[m].op
    BY <1>1, <2>1 DEF Sends, ExchangeOK
  <2>3. outbox'[c] = ans[c] /\ IsAnswer(req[c].code, ans[c])
    BY <1>1 DEF Sends, HandledOK
  <2>. QED
    BY <1>1, <2>1, <2>2, <2>3 DEF Sends
<1>2. CASE Sends(c) /\ link[c] # "open"
  BY <1>2 DEF Sends
<1>3. CASE Comes(c) \/ Takes(c) \/ Works(c) \/ Leaves(c)
  BY <1>3 DEF Comes, Takes, Works, Leaves, SameWires
<1>. QED
  BY <1>1, <1>2, <1>3 DEF Outcome

LEMMA ThreadStepKeeps ==
    ASSUME TransferInv, IInv', NEW c \in Conns, Outcome(c), AloneOn(c), Others(c),
           UNCHANGED clientVars
    PROVE  TransferInv' /\ ServerSide
<1>1. /\ IInv /\ ClientInv /\ \A d \in Conns : HandledOK(d) /\ OpenOK(d)
      /\ \A m \in Machines : UnusedOK(m)
  BY DEF TransferInv
<1>2. UNCHANGED <<run, proc>>
  BY DEF clientVars
<1>3. ASSUME NEW d \in Conns \ {c}
      PROVE  /\ link'[d] = link[d] /\ inbox'[d] = inbox[d] /\ outbox'[d] = outbox[d]
             /\ pc'[d] = pc[d] /\ req'[d] = req[d] /\ ans'[d] = ans[d]
  BY DEF AloneOn, SameWires, Others
<1>4. ASSUME NEW d \in Conns PROVE HandledOK(d)'
  <2>1. CASE d = c
    BY <1>1, <2>1, OutcomeHandled
  <2>2. CASE d # c
    BY <1>1, <1>3, <2>2 DEF HandledOK
  <2>. QED
    BY <2>1, <2>2
<1>5. ASSUME NEW d \in Conns PROVE OpenOK(d)'
  <2>. SUFFICES ASSUME link'[d] = "open"
                PROVE  \E m \in Machines : (Running(m) /\ d = Session(m) /\ ExchangeOK(d, proc[m]))'
    BY DEF OpenOK
  <2>0. link[d] = "open"
    BY <1>1, <1>3, OutcomeAnswers
  <2>1. PICK m \in Machines : Running(m) /\ d = Session(m) /\ ExchangeOK(d, proc[m])
    BY <1>1, <2>0 DEF OpenOK
  <2>2. (Running(m) /\ d = Session(m))'
    BY <1>2, <2>1 DEF Running, Session
  <2>3. CASE d = c
    BY <1>1, <1>2, <2>1, <2>2, <2>3, OutcomeExchange
  <2>4. CASE d # c
    BY <1>2, <1>3, <2>1, <2>2, <2>4 DEF ExchangeOK
  <2>. QED
    BY <2>3, <2>4
<1>6. ASSUME NEW m \in Machines PROVE UnusedOK(m)'
  <2>1. ASSUME NEW i \in (run[m] + 1)..MaxRuns
        PROVE  link'[<<m, i>>] = "free" /\ inbox'[<<m, i>>] = None /\ pc'[<<m, i>>] = "off"
    <3>1. link[<<m, i>>] = "free" /\ inbox[<<m, i>>] = None /\ pc[<<m, i>>] = "off"
      BY <1>1 DEF UnusedOK
    <3>2. <<m, i>> \in Conns
      <4>1. run[m] \in Nat /\ MaxRuns \in Nat
        BY <1>1, MachinesAssumption DEF ClientInv, ClientTypeOK
      <4>2. i \in 1..MaxRuns
        BY <4>1
      <4>. QED
        BY <4>2, MachinesAssumption DEF Sessions
    <3>3. <<m, i>> # c
      BY <3>1 DEF Outcome, Comes, Takes, Works, Sends, Leaves
    <3>. QED
      BY <1>3, <3>1, <3>2, <3>3
  <2>. QED
    BY <1>2, <2>1 DEF UnusedOK
<1>7. ServerSide
  <2>1. WiresTypeOK'
    BY DEF IInv, TypeOK
  <2>2. ASSUME NEW d \in Conns
        PROVE  /\ link'[d] = "open" => link[d] = "open"
               /\ \/ outbox'[d] \in {outbox[d], None}
                  \/ \E m \in Machines :
                        /\ d = Session(m) /\ proc[m].phase = "await"
                        /\ IsAnswer(proc[m].op, outbox'[d])
    BY <1>1, <1>3, OutcomeAnswers
  <2>. QED
    BY <2>1, <2>2 DEF ServerSide
<1>8. ClientInv'
  BY <1>1, <1>7, ServerSideKeeps
<1>. QED
  BY <1>4, <1>5, <1>6, <1>7, <1>8 DEF TransferInv

(* A crash closes every open connection.                                    *)
LEMMA CrashStepKeeps ==
    ASSUME TransferInv, IInv', Crash, UNCHANGED clientVars
    PROVE  TransferInv' /\ ServerSide
<1>1. /\ IInv /\ ClientInv /\ \A m \in Machines : UnusedOK(m)
      /\ UNCHANGED <<run, outbox>>
  BY DEF TransferInv, clientVars, Crash
<1>2. ASSUME NEW c \in Conns
      PROVE  /\ link'[c] # "open" /\ (link[c] = "free" => link'[c] = "free")
             /\ inbox'[c] = None /\ pc'[c] = "off"
  BY DEF Crash
<1>3. \A c \in Conns : HandledOK(c)' /\ OpenOK(c)'
  BY <1>2 DEF HandledOK, OpenOK
<1>4. ASSUME NEW m \in Machines PROVE UnusedOK(m)'
  <2>1. ASSUME NEW i \in (run[m] + 1)..MaxRuns PROVE <<m, i>> \in Conns
    <3>1. run[m] \in Nat /\ MaxRuns \in Nat
      BY <1>1, MachinesAssumption DEF ClientInv, ClientTypeOK
    <3>2. i \in 1..MaxRuns
      BY <3>1
    <3>. QED
      BY <3>2, MachinesAssumption DEF Sessions
  <2>. QED
    BY <1>1, <1>2, <2>1 DEF UnusedOK
<1>5. ServerSide
  BY <1>1, <1>2 DEF ServerSide, IInv, TypeOK
<1>6. ClientInv'
  BY <1>1, <1>5, ServerSideKeeps
<1>. QED
  BY <1>3, <1>4, <1>5, <1>6 DEF TransferInv

LEMMA ServerStepKeeps ==
    ASSUME TransferInv, ServerStep
    PROVE  TransferInv' /\ ServerSide /\ Next
<1>1. IInv /\ \A c \in Conns : HandledOK(c)
  BY DEF TransferInv
<1>2. Next /\ UNCHANGED clientVars
  BY DEF ServerStep, Next
<1>3. IInv'
  BY <1>1, <1>2, NextKeeps
<1>4. CASE Crash
  BY <1>2, <1>3, <1>4, CrashStepKeeps
<1>5. ASSUME NEW c \in Conns, Handle(c) \/ StepFails(c)
      PROVE  TransferInv' /\ ServerSide
  <2>1. Outcome(c) /\ AloneOn(c) /\ Others(c)
    BY <1>1, <1>5, HandleOutcome, FailureOutcome
  <2>. QED
    BY <1>2, <1>3, <2>1, ThreadStepKeeps
<1>. QED
  BY <1>2, <1>4, <1>5 DEF ServerStep, ServerNext

-----------------------------------------------------------------------------
(* What a machine does. *)

LEMMA PacketHeaders ==
    /\ \A n : LET r == RegisterRequest(n) IN r.code = REGISTER /\ r.version = VERSION
    /\ \A u, k : LET r == PublicKeyRequest(u, k) IN r.code = S_PUBLIC_KEY /\ r.version = VERSION
    /\ \A u : LET r == SignInRequest(u) IN r.code = RECONNECT /\ r.version = VERSION
    /\ \A u, f, k, b : LET r == FileRequest(u, f, k, b)
                       IN r.code = SEND_FILE /\ r.version = VERSION
    /\ \A code, u, f : LET r == CrcRequest(code, u, f) IN r.code = code /\ r.version = VERSION
BY DEF RegisterRequest, PublicKeyRequest, SignInRequest, FileRequest, CrcRequest, Header

(* Every packet that a client builds is one of ClientRequests.              *)
LEMMA RequestsBuilt ==
    ASSUME ClientInv, NEW m \in Machines, proc[m].phase = "send", CanBuild(m)
    PROVE  /\ RequestOf(m) \in ClientRequests(Nat)
           /\ RequestOf(m).code = proc[m].op /\ proc[m].op \in RequestCodes
           /\ RequestOf(m).version = VERSION
<1>. DEFINE op == proc[m].op
            id == SenderId(m)
<1>1. /\ proc[m] \in Process /\ ProgramOK(m, proc[m], keyPriv[m])
      /\ run[m] \in 1..MaxRuns /\ Session(m) \in Sessions
  BY SessionInUse, MachinesAssumption DEF Running
<1>2. /\ op \in RequestCodes /\ proc[m].aes \in Nat
      /\ op \in {VALID_CRC, N_VALID_CRC, EXIT_CRC} => proc[m].file = Upload[m]
  BY <1>1 DEF Process, ProgramOK, InPlace
<1>3. /\ id \in Uids \cup {NoUid}
      /\ op = RECONNECT => id \in Uids
  <2>1. proc[m].id \in Uids \cup {NoUid} /\ meInfo[m] \in Uids \cup {None}
    BY <1>1 DEF Process, ClientInv, ClientTypeOK
  <2>. QED
    BY <2>1 DEF SenderId, CanBuild
<1>. HIDE DEF id
<1>. DEFINE Built == /\ RequestOf(m) \in ClientRequests(Nat)
                     /\ RequestOf(m).code = proc[m].op /\ proc[m].op \in RequestCodes
                     /\ RequestOf(m).version = VERSION
<1>4. RequestOf(m) = CASE op = REGISTER     -> RegisterRequest(Owner[m])
                       [] op = S_PUBLIC_KEY -> PublicKeyRequest(id, Session(m))
                       [] op = RECONNECT    -> SignInRequest(id)
                       [] op = SEND_FILE    -> FileRequest(id, Upload[m], proc[m].aes, Local[m])
                       [] OTHER             -> CrcRequest(op, id, proc[m].file)
  BY DEF RequestOf, id
<1>5. ASSUME op = REGISTER PROVE Built
  <2>1. RequestOf(m) = RegisterRequest(Owner[m])
    BY <1>4, <1>5
  <2>2. RegisterRequest(Owner[m]) \in ClientRequests(Nat)
    BY DEF ClientRequests
  <2>. QED
    BY <1>2, <1>5, <2>1, <2>2, PacketHeaders
<1>6. ASSUME op = S_PUBLIC_KEY PROVE Built
  <2>1. RequestOf(m) = PublicKeyRequest(id, Session(m))
    BY <1>4, <1>6
  <2>2. PublicKeyRequest(id, Session(m)) \in ClientRequests(Nat)
    BY <1>1, <1>3 DEF ClientRequests
  <2>. QED
    BY <1>2, <1>6, <2>1, <2>2, PacketHeaders
<1>7. ASSUME op = RECONNECT PROVE Built
  <2>1. RequestOf(m) = SignInRequest(id)
    BY <1>4, <1>7
  <2>2. SignInRequest(id) \in ClientRequests(Nat)
    BY <1>3, <1>7 DEF ClientRequests
  <2>. QED
    BY <1>2, <1>7, <2>1, <2>2, PacketHeaders
<1>8. ASSUME op = SEND_FILE PROVE Built
  <2>1. RequestOf(m) = FileRequest(id, Upload[m], proc[m].aes, Local[m])
    BY <1>4, <1>8
  <2>2. FileRequest(id, Upload[m], proc[m].aes, Local[m]) \in ClientRequests(Nat)
    BY <1>2, <1>3 DEF ClientRequests
  <2>. QED
    BY <1>2, <1>8, <2>1, <2>2, PacketHeaders
<1>9. ASSUME op \in {VALID_CRC, N_VALID_CRC, EXIT_CRC} PROVE Built
  <2>1. RequestOf(m) = CrcRequest(op, id, Upload[m])
    BY <1>2, <1>4, <1>9
  <2>2. CrcRequest(op, id, Upload[m]) \in ClientRequests(Nat)
    BY <1>3, <1>9 DEF ClientRequests
  <2>. QED
    BY <1>2, <1>9, <2>1, <2>2, PacketHeaders
<1>10. \/ op = REGISTER \/ op = S_PUBLIC_KEY \/ op = RECONNECT \/ op = SEND_FILE
       \/ op \in {VALID_CRC, N_VALID_CRC, EXIT_CRC}
  BY <1>2 DEF RequestCodes
<1>. HIDE DEF Built
<1>11. Built
  BY <1>5, <1>6, <1>7, <1>8, <1>9, <1>10
<1>. QED
  BY <1>11 DEF Built

LEMMA TornHeader ==
    ASSUME NEW r \in Request, NEW t \in Torn(r)
    PROVE  t.version = r.version /\ t.code = r.code
<1>. DEFINE s == [r EXCEPT !.name = None, !.pub = None]
            u == [s EXCEPT !.file = None, !.body = None]
            v == [r EXCEPT !.body = Garbled]
<1>1. s \in Request
  BY Zenon DEF Request, UserNames
<1>2. s.version = r.version /\ s.code = r.code /\ v.version = r.version /\ v.code = r.code
  BY DEF Request
<1>3. u = [r EXCEPT !.name = None, !.pub = None, !.file = None, !.body = None]
  OBVIOUS
<1>. HIDE DEF s
<1>4. u.version = s.version /\ u.code = s.code
  BY <1>1 DEF Request
<1>. HIDE DEF u, v
<1>5. t \in {u, v}
  BY <1>3, Zenon DEF Torn, v
<1>. QED
  BY <1>2, <1>4, <1>5

(* What a step of a run leaves on the connection of that run is all that    *)
(* has to be looked at.                                                     *)
RunStep(m) ==
    /\ Running(m) /\ UNCHANGED run /\ \E q : Goes(m, q)
    /\ \A d \in Conns \ {Session(m)} : SameWires(d)

LEMMA RunStepKeeps ==
    ASSUME TransferInv, UNCHANGED server, IInv', ClientInv', NEW m \in Machines, RunStep(m),
           inbox'[Session(m)] # None =>
               inbox'[Session(m)].version = VERSION /\ inbox'[Session(m)].code \in RequestCodes,
           link'[Session(m)] = "open" => (Running(m) /\ ExchangeOK(Session(m), proc[m]))'
    PROVE  TransferInv'
<1>1. /\ IInv /\ ClientInv /\ \A d \in Conns : HandledOK(d) /\ OpenOK(d)
      /\ \A n \in Machines : UnusedOK(n)
  BY DEF TransferInv
<1>2. UNCHANGED <<pc, req, ans, run>>
  BY DEF server, thread, RunStep
<1>3. /\ \A n \in Machines \ {m} : proc'[n] = proc[n]
      /\ \A d \in Conns \ {Session(m)} :
            link'[d] = link[d] /\ inbox'[d] = inbox[d] /\ outbox'[d] = outbox[d]
      /\ Running(m)
  BY <1>1 DEF RunStep, Goes, SameWires, ClientInv, ClientTypeOK
<1>4. ASSUME NEW d \in Conns PROVE HandledOK(d)'
  <2>1. HandledOK(d)
    BY <1>1
  <2>2. CASE d = Session(m)
    BY <1>2, <2>1, <2>2 DEF HandledOK
  <2>3. CASE d # Session(m)
    BY <1>2, <1>3, <2>1, <2>3 DEF HandledOK
  <2>. QED
    BY <2>2, <2>3
<1>5. ASSUME NEW d \in Conns PROVE OpenOK(d)'
  <2>. SUFFICES ASSUME link'[d] = "open"
                PROVE  \E n \in Machines : (Running(n) /\ d = Session(n) /\ ExchangeOK(d, proc[n]))'
    BY DEF OpenOK
  <2>1. CASE d = Session(m)
    <3>1. d = Session(m)'
      BY <1>2, <2>1 DEF Session
    <3>. QED
      BY <2>1, <3>1
  <2>2. CASE d # Session(m)
    <3>1. PICK n \in Machines : Running(n) /\ d = Session(n) /\ ExchangeOK(d, proc[n])
      BY <1>1, <1>3, <2>2 DEF OpenOK
    <3>2. n # m
      BY <2>2, <3>1
    <3>3. (Running(n) /\ d = Session(n) /\ ExchangeOK(d, proc[n]))'
      BY <1>2, <1>3, <2>2, <3>1, <3>2 DEF Running, Session, ExchangeOK
    <3>. QED
      BY <3>3
  <2>. QED
    BY <2>1, <2>2
<1>6. ASSUME NEW n \in Machines PROVE UnusedOK(n)'
  <2>1. ASSUME NEW i \in (run[n] + 1)..MaxRuns PROVE <<n, i>> \in Conns \ {Session(m)}
    <3>1. run[n] \in Nat /\ MaxRuns \in Nat
      BY <1>1, MachinesAssumption DEF ClientInv, ClientTypeOK
    <3>2. i \in 1..MaxRuns /\ i # run[n]
      BY <3>1
    <3>. QED
      BY <3>2, MachinesAssumption DEF Sessions, Session
  <2>. QED
    BY <1>1, <1>2, <1>3, <2>1 DEF UnusedOK
<1>. QED
  BY <1>4, <1>5, <1>6 DEF TransferInv

LEMMA SameWiresOf ==
    UNCHANGED wires => \A c \in Conns : SameWires(c)
BY DEF wires, SameWires

(* The connection of the run that takes a step. *)
LEMMA OwnExchange ==
    ASSUME TransferInv, NEW m \in Machines, Running(m)
    PROVE  /\ Session(m) \in Conns
           /\ HandledOK(Session(m))
           /\ link[Session(m)] = "open" => ExchangeOK(Session(m), proc[m])
<1>1. Session(m) \in Conns
  BY SessionInUse DEF TransferInv
<1>2. \A n \in Machines : Session(n) = Session(m) => n = m
  BY DEF Session
<1>. QED
  BY <1>1, <1>2 DEF TransferInv, OpenOK

LEMMA StartStep ==
    ASSUME TransferInv, NEW m \in Machines, Start(m), UNCHANGED server
    PROVE  TransferInv' /\ Next
<1>. DEFINE c == <<m, run[m] + 1>>
<1>1. /\ IInv /\ ClientInv /\ \A d \in Conns : HandledOK(d) /\ OpenOK(d)
      /\ \A n \in Machines : UnusedOK(n)
  BY DEF TransferInv
<1>2. /\ run \in [Machines -> 0..MaxRuns] /\ proc \in [Machines -> Process]
      /\ Conns = Machines \X (1..MaxRuns) /\ MaxRuns \in Nat
  BY <1>1, MachinesAssumption DEF ClientInv, ClientTypeOK, Sessions
<1>3. run[m] + 1 \in 1..MaxRuns /\ c \in Conns
  BY <1>2 DEF Start
<1>4. Connect(c) /\ ~Running(m)
  BY DEF Start
<1>5. Next
  BY <1>3, <1>4 DEF Next, ClientsNext, ClientConnects
<1>6. IInv' /\ ClientInv'
  BY <1>1, <1>5, NextKeeps, StartKeeps
<1>7. /\ proc'[m] = NewProcess /\ run'[m] = run[m] + 1
      /\ \A n \in Machines \ {m} : proc'[n] = proc[n] /\ run'[n] = run[n]
      /\ UNCHANGED <<inbox, outbox, pc, req, ans>>
  BY <1>2 DEF Start, Goes, Connect, server, thread
<1>8. \A d \in Conns \ {c} : link'[d] = link[d]
  BY <1>1, WiresTyped DEF Start, Connect
<1>9. inbox[c] = None /\ outbox[c] = None /\ pc[c] = "off"
  BY <1>1, <1>3 DEF UnusedOK, ClientInv, WiresOK
<1>10. ASSUME NEW d \in Conns PROVE HandledOK(d)'
  BY <1>1, <1>7 DEF HandledOK
<1>11. ASSUME NEW d \in Conns PROVE OpenOK(d)'
  <2>. SUFFICES ASSUME link'[d] = "open"
                PROVE  \E n \in Machines : (Running(n) /\ d = Session(n) /\ ExchangeOK(d, proc[n]))'
    BY DEF OpenOK
  <2>1. CASE d = c
    <3>1. NewProcess.phase = "send"
      BY DEF NewProcess
    <3>2. (Running(m) /\ d = Session(m) /\ ExchangeOK(d, proc[m]))'
      BY <1>7, <1>9, <2>1, <3>1 DEF Running, Session, ExchangeOK
    <3>. QED
      BY <3>2
  <2>2. CASE d # c
    <3>1. PICK n \in Machines : Running(n) /\ d = Session(n) /\ ExchangeOK(d, proc[n])
      BY <1>1, <1>8, <2>2 DEF OpenOK
    <3>2. n # m
      BY <1>4, <3>1
    <3>3. (Running(n) /\ d = Session(n) /\ ExchangeOK(d, proc[n]))'
      BY <1>7, <3>1, <3>2 DEF Running, Session, ExchangeOK
    <3>. QED
      BY <3>3
  <2>. QED
    BY <2>1, <2>2
<1>12. ASSUME NEW n \in Machines PROVE UnusedOK(n)'
  <2>1. ASSUME NEW i \in (run'[n] + 1)..MaxRuns
        PROVE  i \in (run[n] + 1)..MaxRuns /\ <<n, i>> \in Conns \ {c}
    <3>1. run[n] \in Nat /\ (n = m => run'[n] = run[n] + 1) /\ (n # m => run'[n] = run[n])
      BY <1>2, <1>7
    <3>2. i \in (run[n] + 1)..MaxRuns /\ i \in 1..MaxRuns /\ (n = m => i # run[n] + 1)
      BY <1>2, <3>1
    <3>. QED
      BY <1>2, <3>2
  <2>. QED
    BY <1>1, <1>7, <1>8, <2>1 DEF UnusedOK
<1>. QED
  BY <1>5, <1>6, <1>10, <1>11, <1>12 DEF TransferInv

LEMMA SendStep ==
    ASSUME TransferInv, ClientRequests(Nat) \subseteq Traffic, NEW m \in Machines,
           SendRequest(m), KeysLeft(m), UNCHANGED server
    PROVE  TransferInv' /\ Next
<1>. DEFINE c == Session(m)
            r == RequestOf(m)
            p == SetsName([proc[m] EXCEPT !.id = SenderId(m)], Upload[m])
            q == IF p.op \in Unanswered THEN Ask(p, SEND_FILE) ELSE [p EXCEPT !.phase = "await"]
<1>1. IInv /\ ClientInv /\ Running(m) /\ proc[m].phase = "send"
  BY DEF TransferInv, SendRequest, Running
<1>2. Submit(c, r) /\ Goes(m, q) /\ UNCHANGED run /\ CanBuild(m)
  BY DEF SendRequest
<1>3. /\ r \in Traffic /\ r.code = proc[m].op /\ r.version = VERSION
      /\ proc[m].op \in RequestCodes
  BY <1>1, <1>2, RequestsBuilt
<1>4. c \in Conns /\ ExchangeOK(c, proc[m]) /\ inbox[c] = None /\ link[c] = "open"
  BY <1>1, <1>2, OwnExchange DEF Submit
<1>5. MaySend(c) /\ KeysLeftFor(r)
  BY <1>1, <1>3, <1>4 DEF ExchangeOK, MaySend, KeysLeft, KeysLeftFor
<1>6. Next
  BY <1>2, <1>3, <1>4, <1>5 DEF Next, ClientsNext, ClientSends
<1>7. IInv' /\ ClientInv'
  BY <1>1, <1>6, NextKeeps, SendRequestKeeps
<1>8. /\ proc[m] \in Process /\ SenderId(m) \in Uids \cup {NoUid} /\ Upload[m] \in Files
      /\ proc \in [Machines -> Process]
  BY <1>1, <1>2, SessionInUse, RequestType, MachinesAssumption DEF ClientInv, ClientTypeOK
<1>9. p \in Process /\ p.op = proc[m].op
  BY <1>8, BuiltFields
<1>. HIDE DEF p, r, c
<1>10. /\ p.op = N_VALID_CRC => q.phase = "send"
       /\ p.op # N_VALID_CRC => q.phase = "await" /\ q.op = p.op
  BY <1>9 DEF Unanswered, Ask, Process
<1>. HIDE DEF q
<1>11. proc'[m] = q
  BY <1>2, <1>8 DEF Goes
<1>12. /\ inbox'[c] = r /\ \A d \in Conns \ {c} : SameWires(d)
       /\ link'[c] = link[c] /\ outbox'[c] = outbox[c]
  BY <1>1, <1>2, <1>4, WiresTyped DEF Submit, SameWires
<1>13. r # None /\ outbox[c] = None /\ UNCHANGED pc /\ pc[c] \in {"off", "handle_request"}
  BY <1>3, <1>5, PacketsAssumption, TrafficAssumption DEF MaySend, server, thread
<1>14. (Running(m) /\ ExchangeOK(c, proc[m]))'
  <2>1. c' = c
    BY <1>2 DEF c, Session
  <2>. QED
    BY <1>3, <1>9, <1>10, <1>11, <1>12, <1>13, <2>1 DEF Running, ExchangeOK
<1>15. RunStep(m)
  BY <1>1, <1>2, <1>12 DEF RunStep, c
<1>. QED
  BY <1>3, <1>6, <1>7, <1>12, <1>14, <1>15, RunStepKeeps DEF c, r

(* A run goes on without a word. *)
LEMMA QuietStep ==
    ASSUME TransferInv, NEW m \in Machines, Running(m), \E q : Goes(m, q),
           UNCHANGED <<wires, run>>, UNCHANGED server, ClientInv', Busy(m)',
           proc[m].phase # "await" \/ link[Session(m)] # "open"
    PROVE  TransferInv' /\ UNCHANGED vars
<1>. DEFINE c == Session(m)
<1>1. UNCHANGED vars
  BY DEF vars, server
<1>2. IInv'
  BY <1>1, StutterKeeps DEF TransferInv
<1>3. RunStep(m) /\ SameWires(c)
  BY OwnExchange, SameWiresOf DEF RunStep
<1>4. /\ c' = c /\ UNCHANGED pc
      /\ proc'[m].phase \notin {"await", "off", "terminated"}
  BY DEF Session, server, thread, Busy
<1>5. /\ inbox[c] # None => inbox[c].version = VERSION /\ inbox[c].code \in RequestCodes
      /\ link[c] = "open" => ExchangeOK(c, proc[m])
  BY OwnExchange DEF HandledOK
<1>6. link'[c] = "open" => (Running(m) /\ ExchangeOK(c, proc[m]))'
  BY <1>3, <1>4, <1>5 DEF Running, ExchangeOK, SameWires
<1>. HIDE DEF c
<1>7. inbox'[c] # None => inbox'[c].version = VERSION /\ inbox'[c].code \in RequestCodes
  BY <1>3, <1>5 DEF SameWires
<1>. QED
  BY <1>1, <1>2, <1>3, <1>6, <1>7, RunStepKeeps DEF c

LEMMA QuietSteps ==
    ASSUME TransferInv, NEW m \in Machines, UNCHANGED server,
           BuildFails(m) \/ SaveKey(m) \/ SaveInfo(m) \/ ConnectionLost(m)
    PROVE  TransferInv' /\ UNCHANGED vars
<1>1. /\ Running(m) /\ UNCHANGED <<wires, run>>
      /\ proc[m].phase # "await" \/ link[Session(m)] # "open"
  BY DEF BuildFails, SaveKey, SaveInfo, ConnectionLost, Running
<1>2. \E q : Goes(m, q)
  BY DEF BuildFails, SaveKey, SaveInfo, ConnectionLost
<1>3. ClientInv' /\ Busy(m)'
  BY BuildFailsKeeps, SaveKeyKeeps, SaveInfoKeeps, ConnectionLostKeeps DEF TransferInv
<1>. QED
  BY <1>1, <1>2, <1>3, QuietStep

LEMMA ReceiveStep ==
    ASSUME TransferInv, NEW m \in Machines, ReceiveResponse(m), UNCHANGED server
    PROVE  TransferInv' /\ Next
<1>. DEFINE c == Session(m)
<1>1. IInv /\ ClientInv /\ Running(m) /\ proc[m].phase = "await"
  BY DEF TransferInv, ReceiveResponse, Running
<1>2. Collect(c) /\ UNCHANGED run /\ \E q : Goes(m, q)
  BY DEF ReceiveResponse
<1>3. c \in Conns /\ (link[c] = "open" => ExchangeOK(c, proc[m])) /\ HandledOK(c)
  BY <1>1, OwnExchange
<1>4. Next
  BY <1>2, <1>3 DEF Next, ClientsNext, ClientReads
<1>5. IInv' /\ ClientInv' /\ Busy(m)'
  BY <1>1, <1>4, NextKeeps, ReceiveResponseKeeps
<1>6. /\ outbox[c] # None /\ outbox'[c] = None
      /\ link'[c] = link[c] /\ inbox'[c] = inbox[c]
      /\ \A d \in Conns \ {c} : SameWires(d)
  BY <1>1, <1>2, <1>3, WiresTyped DEF Collect, SameWires
<1>7. RunStep(m)
  BY <1>1, <1>2, <1>6 DEF RunStep
<1>8. /\ c' = c /\ UNCHANGED pc
      /\ proc'[m].phase \notin {"await", "off", "terminated"}
  BY <1>2, <1>5 DEF Session, server, thread, Busy
<1>9. link'[c] = "open" => (Running(m) /\ ExchangeOK(c, proc[m]))'
  BY <1>1, <1>3, <1>6, <1>8 DEF Running, ExchangeOK
<1>. HIDE DEF c
<1>10. inbox'[c] # None => inbox'[c].version = VERSION /\ inbox'[c].code \in RequestCodes
  BY <1>3, <1>6 DEF HandledOK
<1>. QED
  BY <1>4, <1>5, <1>7, <1>9, <1>10, RunStepKeeps DEF c

LEMMA EndStep ==
    ASSUME TransferInv, NEW m \in Machines, UNCHANGED server,
           PayloadLost(m) \/ Exit(m) \/ Kill(m)
    PROVE  TransferInv' /\ Next
<1>. DEFINE c == Session(m)
<1>1. IInv /\ ClientInv /\ Running(m)
  BY DEF TransferInv, PayloadLost, Exit, Kill, Running
<1>2. PICK how \in {"off", "terminated"} : Ends(m, how)
  BY DEF PayloadLost, Exit, Kill
<1>3. Hangup(c) /\ UNCHANGED run /\ \E q : Goes(m, q)
  BY <1>2 DEF Ends
<1>4. c \in Conns /\ HandledOK(c)
  BY <1>1, OwnExchange
<1>5. Next
  BY <1>3, <1>4 DEF Next, ClientsNext, ClientLeaves
<1>6. IInv' /\ ClientInv'
  BY <1>1, <1>2, <1>5, NextKeeps, EndsKeeps
<1>7. /\ link'[c] # "open" /\ inbox'[c] \in {inbox[c], None}
      /\ \A d \in Conns \ {c} : SameWires(d)
  BY <1>1, <1>3, <1>4, WiresTyped DEF Hangup, SameWires
<1>8. RunStep(m)
  BY <1>1, <1>3, <1>7 DEF RunStep
<1>. HIDE DEF c
<1>9. inbox'[c] # None => inbox'[c].version = VERSION /\ inbox'[c].code \in RequestCodes
  BY <1>4, <1>7 DEF HandledOK
<1>. QED
  BY <1>5, <1>6, <1>7, <1>8, <1>9, RunStepKeeps DEF c

LEMMA KillSendingStep ==
    ASSUME TransferInv, ClientRequests(Nat) \subseteq Traffic, Kills => TornRequests,
           NEW m \in Machines, KillSending(m), KeysLeft(m), UNCHANGED server
    PROVE  TransferInv' /\ Next
<1>. DEFINE c == Session(m)
            r == RequestOf(m)
<1>1. IInv /\ ClientInv /\ Running(m) /\ proc[m].phase = "send"
  BY DEF TransferInv, KillSending, Running
<1>2. /\ SubmitTorn(c, r) /\ Goes(m, NoProcess) /\ UNCHANGED run /\ CanBuild(m)
      /\ TornRequests
  BY DEF KillSending
<1>3. /\ r \in Traffic /\ r.code = proc[m].op /\ r.version = VERSION
      /\ proc[m].op \in RequestCodes
  BY <1>1, <1>2, RequestsBuilt
<1>4. c \in Conns /\ ExchangeOK(c, proc[m]) /\ inbox[c] = None /\ link[c] = "open"
  BY <1>1, <1>2, OwnExchange DEF SubmitTorn
<1>5. MaySend(c) /\ KeysLeftFor(r)
  BY <1>1, <1>3, <1>4 DEF ExchangeOK, MaySend, KeysLeft, KeysLeftFor
<1>6. Next
  BY <1>2, <1>3, <1>4, <1>5 DEF Next, ClientsNext, ClientDiesSending
<1>7. IInv' /\ ClientInv'
  BY <1>1, <1>6, NextKeeps, KillSendingKeeps
<1>. HIDE DEF c, r
<1>8. PICK t \in Torn(r) : inbox' = [inbox EXCEPT ![c] = t]
  BY <1>2 DEF SubmitTorn
<1>9. /\ inbox'[c] = t /\ link'[c] # "open"
      /\ \A d \in Conns \ {c} : SameWires(d)
  BY <1>1, <1>2, <1>4, <1>8, WiresTyped DEF SubmitTorn, SameWires
<1>10. t.version = VERSION /\ t.code \in RequestCodes
  BY <1>3, <1>8, TornHeader, TrafficAssumption
<1>11. RunStep(m)
  BY <1>1, <1>2, <1>9 DEF RunStep, c
<1>. QED
  BY <1>6, <1>7, <1>9, <1>10, <1>11, RunStepKeeps DEF c

LEMMA MachineStepKeeps ==
    ASSUME TransferInv, ClientRequests(Nat) \subseteq Traffic, Kills => TornRequests,
           NEW m \in Machines, MachineStep(m)
    PROVE  TransferInv' /\ [Next]_vars
<1>1. MachineNext(m) /\ KeysLeft(m) /\ UNCHANGED server
  BY DEF MachineStep
<1>. QED
  BY <1>1, StartStep, SendStep, QuietSteps, ReceiveStep, EndStep, KillSendingStep
  DEF MachineNext, Runs

-----------------------------------------------------------------------------
(* The theorems about the whole.  What the clients may send must be among   *)
(* what BackupServer lets clients send, and if runs may be killed, requests *)
(* may be torn.                                                             *)

LEMMA TransferNextKeeps ==
    ASSUME TransferInv, ClientRequests(Nat) \subseteq Traffic, Kills => TornRequests,
           [TransferNext]_transferVars
    PROVE  TransferInv' /\ [Next]_vars /\ [ClientNext]_<<wires, clientVars>>
<1>1. ASSUME NEW m \in Machines, MachineStep(m)
      PROVE  TransferInv' /\ [Next]_vars /\ [ClientNext]_<<wires, clientVars>>
  <2>1. ClientNext
    BY <1>1 DEF MachineStep, ClientNext
  <2>. QED
    BY <1>1, <2>1, MachineStepKeeps
<1>2. CASE ServerStep
  BY <1>2, ServerStepKeeps DEF ClientNext
<1>3. CASE UNCHANGED transferVars
  <2>1. UNCHANGED vars /\ UNCHANGED clientVars /\ UNCHANGED <<wires, clientVars>>
    BY <1>3 DEF transferVars, vars
  <2>2. /\ UNCHANGED <<link, inbox, outbox, pc, req, ans>>
        /\ UNCHANGED <<meInfo, keyPriv, run, proc>>
    BY <2>1 DEF vars, wires, thread, clientVars, local
  <2>3. IInv' /\ ClientInv'
    <3>1. IInv'
      BY <2>1, StutterKeeps DEF TransferInv
    <3>2. ClientInv'
      BY <2>2 DEF TransferInv, ClientInv, ClientTypeOK, WiresTypeOK, WiresOK, Session, Running
    <3>. QED
      BY <3>1, <3>2
  <2>4. TransferInv'
    BY <2>2, <2>3 DEF TransferInv, HandledOK, OpenOK, UnusedOK, ExchangeOK, Running, Session
  <2>. QED
    BY <2>1, <2>4
<1>. QED
  BY <1>1, <1>2, <1>3 DEF TransferNext

LEMMA TransferInitOK ==
    ASSUME TransferInit
    PROVE  TransferInv
<1>1. IInv /\ ClientInv
  BY InitInvariant, ClientInitOK DEF TransferInit, Init
<1>2. \A c \in Conns : link[c] = "free" /\ inbox[c] = None /\ pc[c] = "off"
  BY DEF TransferInit, Init, WiresInit
<1>3. \A c \in Conns : HandledOK(c) /\ OpenOK(c)
  BY <1>2 DEF HandledOK, OpenOK
<1>4. ASSUME NEW m \in Machines PROVE UnusedOK(m)
  <2>1. run[m] = 0 /\ MaxRuns \in Nat
    BY MachinesAssumption DEF TransferInit, ClientInit
  <2>2. \A i \in (run[m] + 1)..MaxRuns : <<m, i>> \in Conns
    BY <2>1, MachinesAssumption DEF Sessions
  <2>. QED
    BY <1>2, <2>2 DEF UnusedOK
<1>. QED
  BY <1>1, <1>3, <1>4 DEF TransferInv

(* Clients and server keep count of each other's packets: TransferInv holds *)
(* in every state, with kills, torn requests, faults and crashes            *)
(* (sendAndRecieve, handle_request).                                        *)
THEOREM TransferInvariant ==
    ASSUME ClientRequests(Nat) \subseteq Traffic, Kills => TornRequests
    PROVE  TransferSpec => []TransferInv
<1>1. TransferInit => TransferInv
  BY TransferInitOK
<1>2. TransferInv /\ [TransferNext]_transferVars => TransferInv'
  BY TransferNextKeeps
<1>. QED
  BY <1>1, <1>2, PTL DEF TransferSpec

(* The clients of Client.cpp drive the server as BackupServer says, so that *)
(* what is proved of BackupServer holds with them.                          *)
THEOREM ImplementsServer ==
    ASSUME ClientRequests(Nat) \subseteq Traffic, Kills => TornRequests
    PROVE  TransferSpec => ServerSpec
<1>1. TransferInit => Init
  BY DEF TransferInit
<1>2. TransferInv /\ [TransferNext]_transferVars => [Next]_vars
  BY TransferNextKeeps
<1>. QED
  BY <1>1, <1>2, TransferInvariant, PTL DEF TransferSpec, ServerSpec, Spec

(* The server of server.py is one that keeps to the protocol, so that what  *)
(* is proved of a client with any such server holds with this one.          *)
THEOREM ImplementsClient ==
    ASSUME ClientRequests(Nat) \subseteq Traffic, Kills => TornRequests
    PROVE  TransferSpec => ClientSpec
<1>1. TransferInit => WiresInit /\ ClientInit
  BY DEF TransferInit, Init
<1>2. TransferInv /\ [TransferNext]_transferVars => [ClientNext]_<<wires, clientVars>>
  BY TransferNextKeeps
<1>. QED
  BY <1>1, <1>2, TransferInvariant, PTL DEF TransferSpec, ClientSpec
=============================================================================
