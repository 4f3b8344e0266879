------------------------- MODULE BackupServerProofs -------------------------
(***************************************************************************)
(* Proofs about BackupServer, for every set of connections, users, names,  *)
(* files and requests, with every combination of faults.                   *)
(*                                                                         *)
(* IInv is inductive.  Its proof has one lemma per action.  Most actions   *)
(* leave the tables and the disk alone, and lemma RestStill covers what    *)
(* they owe to the tables; the three actions that write the table clients  *)
(* only let its rows grow (Grows), and lemma HandlerKeeps shows that what  *)
(* the other handlers rely on survives that.                               *)
(*                                                                         *)
(* The second part is about one connection at a time.  With a second one   *)
(* UniqueUserNames is refuted by the run server_duplicate_names; with one, *)
(* nobody comes between the queries of a handler, and SessionInv is        *)
(* inductive.  What a thread relies on at a step was established by the    *)
(* step before it: lemma Arrivals says which one that is.                  *)
(***************************************************************************)
EXTENDS BackupServer, TLAPS

(* The parts of IInv that are about the tables, the disk and the wires. *)
RestOK == RowsOK /\ NoFileBeforeKeyExchange /\ BackupHasOwner /\ DeliveredKeyWasStored

(* A row of clients, once there, keeps its name, a key it has is replaced   *)
(* by a key only, and its AES key by a later one only.                      *)
Grows(u) == clients[u] # None =>
    /\ clients'[u] # None
    /\ clients'[u].name = clients[u].name
    /\ clients[u].pub # Placeholder => clients'[u].pub # Placeholder
    /\ clients[u].aes <= clients'[u].aes

-----------------------------------------------------------------------------
(* The packets the handlers build have the type of packets. *)

LEMMA ReplyType ==
    ASSUME NEW code \in ResponseCodes, NEW uid \in Uids \cup {NoUid}
    PROVE  Reply(code, uid) \in Response
BY DEF Reply, Response, NoKey

LEMMA KeyReplyType ==
    ASSUME NEW code \in ResponseCodes, NEW uid \in Uids \cup {NoUid},
           NEW p \in PubKeys, NEW k \in Nat
    PROVE  /\ KeyReply(code, uid, p, k) \in Response
           /\ KeyReply(code, uid, p, k).uid = uid
           /\ KeyReply(code, uid, p, k).key = k
BY ReplyType DEF KeyReply, Reply, Response, NoKey

LEMMA CrcReplyType ==
    ASSUME NEW uid \in Uids \cup {NoUid}, NEW content \in Content
    PROVE  /\ CrcReply(uid, content) \in Response
           /\ CrcReply(uid, content).code = VALID_FILE_CRC
BY DEF CrcReply, Reply, Response, NoKey, ResponseCodes, VALID_FILE_CRC,
       INIT_REGISTRATION_SUCC, GENERAL_ERROR

LEMMA RefusalType ==
    ASSUME NEW r \in Request
    PROVE  /\ ErrorReply \in Response
           /\ Reply(RECCONET_DENIED, r.uid) \in Response
           /\ Reply(FILE_APPROVAL, r.uid) \in Response
           /\ ErrorReply.code = GENERAL_ERROR
BY DEF ErrorReply, Reply, Request, Response, NoKey, ResponseCodes,
       INIT_REGISTRATION_SUCC, RECCONET_DENIED, FILE_APPROVAL, GENERAL_ERROR

LEMMA TornType ==
    ASSUME NEW r \in Request, NEW t \in Torn(r)
    PROVE  t \in Request
BY DEF Torn, Request, UserNames

-----------------------------------------------------------------------------
(* What the other handlers rely on survives when rows of clients grow. *)

LEMMA HandlerKeeps ==
    ASSUME IInv, TypeOK', NEW c \in Conns, \A u \in Uids : Grows(u),
           pc'[c] = pc[c], req'[c] = req[c], held'[c] = held[c], ans'[c] = ans[c]
    PROVE  HandlerOK(c)' /\ AnswerOK(c)'
<1>1. /\ clients \in [Uids -> ClientRow \cup {None}]
      /\ clients' \in [Uids -> ClientRow \cup {None}]
      /\ HandlerOK(c) /\ AnswerOK(c)
  BY DEF IInv, TypeOK
<1>2. ASSUME NEW u, Registered(u)
      PROVE  /\ Registered(u)'
             /\ clients[u].pub # Placeholder => clients'[u].pub # Placeholder
             /\ clients[u].aes # NoKey => clients'[u].aes # NoKey
  <2>1. clients[u].aes \in Nat
    BY <1>1, <1>2 DEF Registered, ClientRow
  <2>2. Grows(u)
    BY <1>2 DEF Registered
  <2>. QED
    BY <1>2, <2>1, <2>2 DEF Registered, Grows, NoKey
<1>3. HandlerOK(c)'
  BY <1>1, <1>2 DEF HandlerOK
<1>4. ASSUME KeyWasStored(ans[c]), ans[c] \in Response
      PROVE  KeyWasStored(ans[c])'
  <2>1. CASE ans[c].code \notin {IN_PUBLIC_KEY_OUT_AES, RECCONECT_APPROVED}
    BY <2>1 DEF KeyWasStored
  <2>2. CASE ans[c].code \in {IN_PUBLIC_KEY_OUT_AES, RECCONECT_APPROVED}
    <3>. DEFINE u == ans[c].uid
    <3>1. Registered(u) /\ 0 < ans[c].key /\ ans[c].key <= clients[u].aes
      BY <1>4, <2>2 DEF KeyWasStored
    <3>2. Registered(u)' /\ clients[u].aes <= clients'[u].aes
      BY <1>2, <3>1 DEF Grows, Registered
    <3>3. clients[u].aes \in Nat /\ clients'[u].aes \in Nat /\ ans[c].key \in Nat
      BY <1>1, <1>4, <3>1, <3>2 DEF Registered, ClientRow, Response
    <3>4. 0 < ans[c].key /\ ans[c].key <= clients'[u].aes
      BY <3>1, <3>2, <3>3
    <3>. QED
      BY <2>2, <3>2, <3>4 DEF KeyWasStored, Registered
  <2>. QED
    BY <2>1, <2>2
<1>. QED
  BY <1>1, <1>3, <1>4 DEF AnswerOK

(* A step that leaves the table clients alone, and from the wire at most    *)
(* takes a response, owes the tables only what it does to files and backup. *)
LEMMA RestStill ==
    ASSUME IInv, UNCHANGED <<clients, keyCount>>,
           UNCHANGED files \/ NoFileBeforeKeyExchange',
           UNCHANGED backup \/ BackupHasOwner',
           \A d \in Conns : outbox'[d] \in {outbox[d], None}
    PROVE  RestOK'
<1>1. RowsOK'
  BY DEF IInv, RowsOK
<1>2. NoFileBeforeKeyExchange'
  BY DEF IInv, NoFileBeforeKeyExchange
<1>3. BackupHasOwner'
  BY DEF IInv, BackupHasOwner
<1>4. DeliveredKeyWasStored'
  BY DEF IInv, DeliveredKeyWasStored, KeyWasStored, Registered
<1>. QED
  BY <1>1, <1>2, <1>3, <1>4 DEF RestOK

(* The other threads than c stay where they are. *)
Others(c) == \A d \in Conns \ {c} :
    pc'[d] = pc[d] /\ req'[d] = req[d] /\ held'[d] = held[d] /\ ans'[d] = ans[d]

LEMMA LocalStep ==
    ASSUME IInv, NEW c \in Conns, Others(c), UNCHANGED <<clients, keyCount>>,
           UNCHANGED files \/ NoFileBeforeKeyExchange',
           UNCHANGED backup \/ BackupHasOwner',
           \A d \in Conns : outbox'[d] \in {outbox[d], None},
           TypeOK', HandlerOK(c)', AnswerOK(c)'
    PROVE  IInv'
<1>1. ASSUME NEW u \in Uids PROVE Grows(u)
  BY DEF Grows, IInv, TypeOK, ClientRow
<1>2. ASSUME NEW d \in Conns PROVE HandlerOK(d)' /\ AnswerOK(d)'
  BY <1>1, HandlerKeeps DEF Others
<1>. QED
  BY <1>2, RestStill DEF IInv, RestOK

LEMMA AcceptKeeps ==
    ASSUME IInv, NEW c \in Conns, Accept(c)
    PROVE  IInv'
<1>. USE DEF Accept, Goto
<1>1. TypeOK'
  BY DEF IInv, TypeOK, WiresTypeOK, Steps, wires, tables, disk
<1>2. HandlerOK(c)' /\ AnswerOK(c)'
  BY DEF IInv, TypeOK, HandlerOK, AnswerOK
<1>3. Others(c)
  BY DEF IInv, TypeOK, Others
<1>. QED
  BY <1>1, <1>2, <1>3, LocalStep DEF wires, tables, disk

LEMMA DispatchKeeps ==
    ASSUME IInv, NEW c \in Conns, Dispatch(c)
    PROVE  IInv'
<1>. DEFINE step == FirstStep[inbox[c].code]
<1>. USE DEF Dispatch, Deliver
<1>1. inbox[c] \in Request
  BY DEF IInv, TypeOK, WiresTypeOK
<1>2. step \in {"find_username", "set_public_key", "recover_public_key", "decrypt_file",
                "update_verified", "handle_request", "delete_from_backup"}
  BY DEF FirstStep, RequestCodes, REGISTER, S_PUBLIC_KEY, RECONNECT, SEND_FILE,
         VALID_CRC, N_VALID_CRC, EXIT_CRC
<1>. HIDE DEF step
<1>3. pc' = [pc EXCEPT ![c] = step] /\ pc'[c] = step /\ req'[c] = inbox[c]
  BY DEF IInv, TypeOK, step
<1>4. TypeOK'
  BY <1>1, <1>2, <1>3 DEF IInv, TypeOK, WiresTypeOK, Steps, wires, tables, disk
<1>5. HandlerOK(c)' /\ AnswerOK(c)'
  BY <1>1, <1>2, <1>3 DEF IInv, HandlerOK, AnswerOK
<1>6. Others(c)
  BY DEF IInv, TypeOK, Others
<1>. QED
  BY <1>4, <1>5, <1>6, LocalStep DEF IInv, TypeOK, WiresTypeOK, tables, disk

LEMMA RejectVersionKeeps ==
    ASSUME IInv, NEW c \in Conns, RejectVersion(c)
    PROVE  IInv'
<1>. USE DEF RejectVersion, Deliver, Answer, Prepare
<1>1. /\ ErrorReply \in Response
      /\ ErrorReply.code \notin {IN_PUBLIC_KEY_OUT_AES, RECCONECT_APPROVED}
  BY RefusalType DEF IInv, TypeOK, WiresTypeOK, GENERAL_ERROR, IN_PUBLIC_KEY_OUT_AES,
         RECCONECT_APPROVED
<1>2. TypeOK'
  BY <1>1 DEF IInv, TypeOK, WiresTypeOK, Steps, wires, tables, disk
<1>3. HandlerOK(c)' /\ AnswerOK(c)'
  BY <1>1 DEF IInv, TypeOK, HandlerOK, AnswerOK, KeyWasStored
<1>4. Others(c)
  BY DEF IInv, TypeOK, Others
<1>. QED
  BY <1>2, <1>3, <1>4, LocalStep DEF IInv, TypeOK, WiresTypeOK, tables, disk

LEMMA EndThreadKeeps ==
    ASSUME IInv, NEW c \in Conns, EndThread(c), UNCHANGED <<tables, disk, keyCount>>
    PROVE  IInv'
<1>. USE DEF EndThread, ServerClose
<1>1. TypeOK'
  <2>1. link' \in [Conns -> LinkStates]
    BY DEF IInv, TypeOK, WiresTypeOK, LinkStates
  <2>. QED
    BY <2>1 DEF IInv, TypeOK, WiresTypeOK, Steps, tables, disk
<1>2. HandlerOK(c)' /\ AnswerOK(c)'
  BY DEF IInv, TypeOK, HandlerOK, AnswerOK
<1>3. Others(c)
  BY DEF IInv, TypeOK, Others
<1>. QED
  BY <1>1, <1>2, <1>3, LocalStep DEF tables, disk

(* A handler that gives up, with whatever it did to the file it wrote. *)
LEMMA RefuseKeeps ==
    ASSUME IInv, NEW c \in Conns, Refuse(c), req[c] \in Request,
           UNCHANGED <<wires, tables, keyCount>>,
           backup' \in [Paths -> Content \cup {None}], detached' \subseteq Conns,
           UNCHANGED backup \/ BackupHasOwner'
    PROVE  IInv'
<1>. DEFINE a == IF req[c].code = RECONNECT
                 THEN Reply(RECCONET_DENIED, req[c].uid) ELSE ErrorReply
<1>1. a \in Response /\ a.code \notin {IN_PUBLIC_KEY_OUT_AES, RECCONECT_APPROVED}
  <2>1. a \in Response
    BY RefusalType
  <2>2. a.code \in {RECCONET_DENIED, GENERAL_ERROR}
    BY DEF ErrorReply, Reply
  <2>. QED
    BY <2>1, <2>2 DEF RECCONET_DENIED, GENERAL_ERROR, IN_PUBLIC_KEY_OUT_AES,
                      RECCONECT_APPROVED
<1>2. pc' = [pc EXCEPT ![c] = "send_response"] /\ ans' = [ans EXCEPT ![c] = a]
      /\ UNCHANGED <<req, held>>
  BY DEF Refuse, Answer, Prepare
<1>. HIDE DEF a
<1>3. TypeOK'
  BY <1>1, <1>2 DEF IInv, TypeOK, WiresTypeOK, Steps, wires, tables
<1>4. HandlerOK(c)' /\ AnswerOK(c)'
  BY <1>1, <1>2 DEF IInv, TypeOK, HandlerOK, AnswerOK, KeyWasStored
<1>5. Others(c)
  BY <1>2 DEF IInv, TypeOK, Others
<1>. QED
  BY <1>3, <1>4, <1>5, LocalStep DEF wires, tables

LEMMA SendResponseKeeps ==
    ASSUME IInv, NEW c \in Conns, SendResponse(c)
    PROVE  IInv'
<1>. USE DEF SendResponse, Respond
<1>1. ans[c] \in Response /\ KeyWasStored(ans[c])
  BY DEF IInv, AnswerOK
<1>2. TypeOK'
  BY <1>1 DEF IInv, TypeOK, WiresTypeOK, Steps, wires, tables, disk
<1>3. HandlerOK(c)' /\ AnswerOK(c)'
  BY DEF IInv, TypeOK, HandlerOK, AnswerOK
<1>4. \A d \in Conns \ {c} : HandlerOK(d)' /\ AnswerOK(d)'
  BY DEF IInv, TypeOK, HandlerOK, AnswerOK, KeyWasStored, Registered, tables
<1>5. RowsOK' /\ NoFileBeforeKeyExchange' /\ BackupHasOwner'
  BY DEF IInv, RowsOK, NoFileBeforeKeyExchange, BackupHasOwner, tables, disk
<1>6. DeliveredKeyWasStored'
  BY <1>1 DEF IInv, TypeOK, WiresTypeOK, DeliveredKeyWasStored, KeyWasStored, Registered,
              tables
<1>. QED
  BY <1>2, <1>3, <1>4, <1>5, <1>6 DEF IInv

-----------------------------------------------------------------------------
(* 825 *)

LEMMA FindUsernameKeeps ==
    ASSUME IInv, NEW c \in Conns, FindUsername(c)
    PROVE  IInv'
<1>. USE DEF FindUsername
<1>1. CASE Goto(c, "add_new_client")
  <2>. USE <1>1 DEF Goto
  <2>1. TypeOK'
    BY DEF IInv, TypeOK, WiresTypeOK, Steps, wires, tables, disk
  <2>2. HandlerOK(c)' /\ AnswerOK(c)' /\ Others(c)
    BY DEF IInv, TypeOK, HandlerOK, AnswerOK, Others
  <2>. QED
    BY <2>1, <2>2, LocalStep DEF wires, tables, disk
<1>2. ASSUME NEW u \in Uids, Answer(c, Reply(REGISTRATION_FAIL, u))
      PROVE  IInv'
  <2>. DEFINE a == Reply(REGISTRATION_FAIL, u)
  <2>1. a \in Response /\ a.code \notin {IN_PUBLIC_KEY_OUT_AES, RECCONECT_APPROVED}
    BY ReplyType DEF Reply, ResponseCodes, INIT_REGISTRATION_SUCC, REGISTRATION_FAIL,
           GENERAL_ERROR, IN_PUBLIC_KEY_OUT_AES, RECCONECT_APPROVED
  <2>2. /\ pc' = [pc EXCEPT ![c] = "send_response"] /\ ans' = [ans EXCEPT ![c] = a]
        /\ UNCHANGED <<req, held>>
    BY <1>2 DEF Answer, Prepare
  <2>. HIDE DEF a
  <2>3. TypeOK'
    BY <2>1, <2>2 DEF IInv, TypeOK, WiresTypeOK, Steps, wires, tables, disk
  <2>4. HandlerOK(c)' /\ AnswerOK(c)' /\ Others(c)
    BY <2>1, <2>2 DEF IInv, TypeOK, HandlerOK, AnswerOK, KeyWasStored, Others
  <2>. QED
    BY <2>3, <2>4, LocalStep DEF wires, tables, disk
<1>3. \A u \in UsersNamed(req[c].name) : u \in Uids
  BY DEF UsersNamed
<1>. QED
  BY <1>1, <1>2, <1>3

LEMMA AddNewClientKeeps ==
    ASSUME IInv, NEW c \in Conns, AddNewClient(c)
    PROVE  IInv'
<1>. USE DEF AddNewClient
<1>0. req[c] \in Request
  BY DEF IInv, HandlerOK
<1>1. CASE UNCHANGED clients /\ Refuse(c)
  BY <1>0, <1>1, RefuseKeeps DEF IInv, TypeOK, tables, disk
<1>2. ASSUME NEW u \in Uids, clients[u] = None,
             clients' = [clients EXCEPT ![u] =
                 [name |-> req[c].name, pub |-> Placeholder, aes |-> NoKey]],
             Answer(c, Reply(INIT_REGISTRATION_SUCC, u))
      PROVE  IInv'
  <2>. DEFINE a == Reply(INIT_REGISTRATION_SUCC, u)
              row == [name |-> req[c].name, pub |-> Placeholder, aes |-> NoKey]
  <2>1. a \in Response /\ a.code \notin {IN_PUBLIC_KEY_OUT_AES, RECCONECT_APPROVED}
    BY ReplyType DEF Reply, ResponseCodes, INIT_REGISTRATION_SUCC,
           GENERAL_ERROR, IN_PUBLIC_KEY_OUT_AES, RECCONECT_APPROVED
  <2>2. /\ pc' = [pc EXCEPT ![c] = "send_response"] /\ ans' = [ans EXCEPT ![c] = a]
        /\ UNCHANGED <<req, held, wires, files, disk, keyCount>>
    BY <1>2 DEF Answer, Prepare
  <2>3. row \in ClientRow /\ row.aes = NoKey
    BY <1>0 DEF Request, ClientRow, NoKey
  <2>4. clients' = [clients EXCEPT ![u] = row]
    BY <1>2
  <2>. HIDE DEF a, row
  <2>5. TypeOK'
    BY <2>1, <2>2, <2>3, <2>4 DEF IInv, TypeOK, WiresTypeOK, Steps, wires, disk
  <2>6. HandlerOK(c)' /\ AnswerOK(c)' /\ Others(c)
    BY <2>1, <2>2 DEF IInv, TypeOK, HandlerOK, AnswerOK, KeyWasStored, Others
  <2>7. \A v \in Uids : clients[v] # None => clients'[v] = clients[v]
    BY <1>2, <2>4 DEF IInv, TypeOK
  <2>8. \A v \in Uids : Grows(v)
    BY <2>7 DEF Grows, IInv, TypeOK, ClientRow
  <2>9. \A d \in Conns : HandlerOK(d)' /\ AnswerOK(d)'
    BY <2>5, <2>6, <2>8, HandlerKeeps DEF Others
  <2>10. RowsOK' /\ NoFileBeforeKeyExchange' /\ BackupHasOwner'
    <3>1. RowsOK'
      BY <2>2, <2>3, <2>4, <2>7 DEF IInv, TypeOK, RowsOK, NoKey
    <3>2. NoFileBeforeKeyExchange'
      BY <2>2, <2>7 DEF IInv, NoFileBeforeKeyExchange
    <3>3. BackupHasOwner'
      BY <2>2, <2>7 DEF IInv, BackupHasOwner, disk
    <3>. QED
      BY <3>1, <3>2, <3>3
  <2>11. DeliveredKeyWasStored'
    BY <2>2, <2>7 DEF IInv, DeliveredKeyWasStored, KeyWasStored, Registered, wires
  <2>. QED
    BY <2>5, <2>9, <2>10, <2>11 DEF IInv
<1>. QED
  BY <1>1, <1>2

-----------------------------------------------------------------------------
(* 826 and 827 *)

LEMMA SetPublicKeyKeeps ==
    ASSUME IInv, NEW c \in Conns, SetPublicKey(c)
    PROVE  IInv'
<1>. DEFINE u == req[c].uid
<1>. USE DEF SetPublicKey
<1>0. req[c] \in Request
  BY DEF IInv, HandlerOK
<1>1. CASE UNCHANGED clients /\ Refuse(c)
  BY <1>0, <1>1, RefuseKeeps DEF IInv, TypeOK, tables, disk
<1>2. CASE /\ req[c].pub # None
           /\ clients' = IF Registered(u)
                         THEN [clients EXCEPT ![u].pub = req[c].pub] ELSE clients
           /\ Goto(c, "recover_public_key")
  <2>1. req[c].pub \in PubKeys /\ req[c].pub # Placeholder
    BY <1>0, <1>2, ValuesAssumption DEF Request
  <2>2. clients' \in [Uids -> ClientRow \cup {None}]
    BY <1>2, <2>1 DEF IInv, TypeOK, Registered, ClientRow
  <2>3. ASSUME NEW v \in Uids
        PROVE  /\ clients[v] = None => clients'[v] = None
               /\ clients[v] # None =>
                    /\ clients'[v] # None
                    /\ clients'[v].name = clients[v].name
                    /\ clients'[v].aes = clients[v].aes
                    /\ clients[v].pub # Placeholder => clients'[v].pub # Placeholder
    <3>1. CASE Registered(u) /\ v = u
      <4>1. clients'[v] = [clients[v] EXCEPT !.pub = req[c].pub] /\ clients[v] \in ClientRow
        BY <1>2, <3>1 DEF IInv, TypeOK, Registered
      <4>2. clients'[v] \in ClientRow /\ clients[v] # None
        BY <4>1, <2>1, <3>1 DEF ClientRow, Registered
      <4>. QED
        BY <4>1, <4>2, <2>1, RowsAssumption DEF ClientRow
    <3>2. CASE ~(Registered(u) /\ v = u)
      BY <1>2, <3>2 DEF IInv, TypeOK
    <3>. QED
      BY <3>1, <3>2
  <2>4. TypeOK'
    BY <1>2, <2>2 DEF IInv, TypeOK, WiresTypeOK, Steps, Goto, wires, disk
  <2>5. HandlerOK(c)' /\ AnswerOK(c)' /\ Others(c)
    BY <1>0, <1>2 DEF IInv, TypeOK, HandlerOK, AnswerOK, Others, Goto
  <2>6. \A v \in Uids : Grows(v)
    BY <2>3 DEF Grows, IInv, TypeOK, ClientRow
  <2>7. \A d \in Conns : HandlerOK(d)' /\ AnswerOK(d)'
    BY <2>4, <2>5, <2>6, HandlerKeeps DEF Others
  <2>8. RowsOK' /\ NoFileBeforeKeyExchange'
    BY <2>3 DEF IInv, RowsOK, NoFileBeforeKeyExchange
  <2>9. BackupHasOwner'
    BY <2>3 DEF IInv, BackupHasOwner, disk
  <2>10. DeliveredKeyWasStored'
    BY <2>3 DEF IInv, DeliveredKeyWasStored, KeyWasStored, Registered, wires
  <2>. QED
    BY <2>4, <2>7, <2>8, <2>9, <2>10 DEF IInv
<1>. QED
  BY <1>1, <1>2

LEMMA RecoverPublicKeyKeeps ==
    ASSUME IInv, NEW c \in Conns, RecoverPublicKey(c)
    PROVE  IInv'
<1>. DEFINE u == req[c].uid
<1>. USE DEF RecoverPublicKey, HasPublicKey
<1>0. req[c] \in Request
  BY DEF IInv, HandlerOK
<1>1. CASE Refuse(c)
  BY <1>0, <1>1, RefuseKeeps DEF IInv, TypeOK, tables, disk
<1>2. CASE /\ Registered(u) /\ clients[u].pub # Placeholder
           /\ Hold(c, clients[u].pub, "store_aes_key")
  <2>. USE <1>2 DEF Hold
  <2>1. clients[u].pub \in PubKeys
    BY DEF IInv, TypeOK, Registered, ClientRow
  <2>2. TypeOK'
    BY <2>1 DEF IInv, TypeOK, WiresTypeOK, Steps, wires, tables, disk
  <2>3. HandlerOK(c)' /\ AnswerOK(c)' /\ Others(c)
    BY <1>0, <2>1 DEF IInv, TypeOK, HandlerOK, AnswerOK, Others, Registered, tables
  <2>. QED
    BY <2>2, <2>3, LocalStep DEF wires, tables, disk
<1>. QED
  BY <1>1, <1>2

LEMMA StoreAesKeyKeeps ==
    ASSUME IInv, NEW c \in Conns, StoreAesKey(c)
    PROVE  IInv'
<1>. DEFINE u    == req[c].uid
            k    == keyCount + 1
            code == IF req[c].code = RECONNECT THEN RECCONECT_APPROVED
                                               ELSE IN_PUBLIC_KEY_OUT_AES
            a    == KeyReply(code, u, held[c], k)
<1>1. /\ pc[c] = "store_aes_key" /\ keyCount' = k
      /\ clients' = [clients EXCEPT ![u].aes = k]
      /\ pc' = [pc EXCEPT ![c] = "encrypt"] /\ ans' = [ans EXCEPT ![c] = a]
      /\ UNCHANGED <<req, held, wires, files, disk>>
  BY DEF StoreAesKey, Prepare
<1>2. /\ req[c] \in Request /\ held[c] \in PubKeys
      /\ Registered(u) /\ clients[u].pub # Placeholder
      /\ u \in Uids /\ clients[u] \in ClientRow
      /\ k \in Nat /\ 0 < k /\ keyCount < k
  BY <1>1 DEF IInv, TypeOK, HandlerOK, Registered
<1>3. a \in Response /\ a.uid = u /\ a.key = k
  <2>1. code \in ResponseCodes
    BY DEF ResponseCodes, RECCONECT_APPROVED, IN_PUBLIC_KEY_OUT_AES,
           INIT_REGISTRATION_SUCC, GENERAL_ERROR
  <2>. QED
    BY <1>2, <2>1, KeyReplyType
<1>. HIDE DEF a, code, k
<1>4. clients' \in [Uids -> ClientRow \cup {None}]
  BY <1>1, <1>2 DEF IInv, TypeOK, ClientRow
<1>5. /\ clients'[u] = [clients[u] EXCEPT !.aes = k]
      /\ clients'[u].name = clients[u].name /\ clients'[u].pub = clients[u].pub
      /\ clients'[u].aes = k /\ clients'[u] # None
  BY <1>1, <1>2, RowsAssumption DEF IInv, TypeOK, ClientRow
<1>6. \A v \in Uids \ {u} : clients'[v] = clients[v]
  BY <1>1 DEF IInv, TypeOK
<1>7. TypeOK'
  BY <1>1, <1>2, <1>3, <1>4 DEF IInv, TypeOK, WiresTypeOK, Steps, wires, disk
<1>8. \A v \in Uids : Grows(v)
  BY <1>2, <1>5, <1>6 DEF Grows, IInv, TypeOK, RowsOK, ClientRow
<1>9. HandlerOK(c)' /\ AnswerOK(c)' /\ Others(c)
  <2>1. HandlerOK(c)'
    BY <1>1, <1>2, <1>5 DEF IInv, TypeOK, HandlerOK, Registered
  <2>2. AnswerOK(c)'
    <3>1. ans'[c] = a
      BY <1>1 DEF IInv, TypeOK
    <3>2. k <= k
      BY <1>2
    <3>3. Registered(u)'
      BY <1>1, <1>2, <1>5 DEF Registered
    <3>4. 0 < a.key /\ a.key <= clients'[a.uid].aes
      BY <1>2, <1>3, <1>5, <3>2
    <3>5. (KeyWasStored(ans[c]))'
      BY <1>1, <1>3, <3>1, <3>3, <3>4 DEF KeyWasStored, Registered
    <3>. QED
      BY <1>3, <3>1, <3>5 DEF AnswerOK
  <2>3. Others(c)
    BY <1>1 DEF IInv, TypeOK, Others
  <2>. QED
    BY <2>1, <2>2, <2>3
<1>10. \A d \in Conns : HandlerOK(d)' /\ AnswerOK(d)'
  BY <1>7, <1>8, <1>9, HandlerKeeps DEF Others
<1>11. RowsOK'
  BY <1>1, <1>2, <1>5, <1>6 DEF IInv, TypeOK, RowsOK, ClientRow
<1>12. NoFileBeforeKeyExchange'
  BY <1>1, <1>2, <1>5, <1>6 DEF IInv, NoFileBeforeKeyExchange, NoKey
<1>13. BackupHasOwner'
  BY <1>1, <1>2, <1>5, <1>6 DEF IInv, BackupHasOwner, NoKey, disk
<1>14. DeliveredKeyWasStored'
  <2>. SUFFICES ASSUME NEW d \in Conns, outbox[d] # None,
                       outbox[d].code \in {IN_PUBLIC_KEY_OUT_AES, RECCONECT_APPROVED}
                PROVE  /\ Registered(outbox[d].uid)'
                       /\ 0 < outbox[d].key
                       /\ outbox[d].key <= clients'[outbox[d].uid].aes
    BY <1>1 DEF DeliveredKeyWasStored, KeyWasStored, wires, Registered
  <2>. DEFINE v == outbox[d].uid
  <2>1. /\ Registered(v) /\ 0 < outbox[d].key /\ outbox[d].key <= clients[v].aes
        /\ outbox[d].key \in Nat
    BY DEF IInv, TypeOK, WiresTypeOK, Response, DeliveredKeyWasStored, KeyWasStored
  <2>2. clients'[v] # None /\ clients[v].aes <= clients'[v].aes
    BY <1>8, <2>1 DEF Grows, Registered
  <2>3. clients[v].aes \in Nat /\ clients'[v].aes \in Nat
    BY <1>4, <2>1, <2>2 DEF IInv, TypeOK, Registered, ClientRow
  <2>. QED
    BY <1>1, <2>1, <2>2, <2>3 DEF Registered, wires
<1>. QED
  BY <1>7, <1>10, <1>11, <1>12, <1>13, <1>14 DEF IInv

LEMMA EncryptKeyKeeps ==
    ASSUME IInv, NEW c \in Conns, EncryptKey(c)
    PROVE  IInv'
<1>. USE DEF EncryptKey, Goto
<1>1. TypeOK'
  BY DEF IInv, TypeOK, WiresTypeOK, Steps, wires, tables, disk
<1>2. HandlerOK(c)' /\ AnswerOK(c)' /\ Others(c)
  BY DEF IInv, TypeOK, HandlerOK, AnswerOK, KeyWasStored, Registered, Others, tables
<1>. QED
  BY <1>1, <1>2, LocalStep DEF wires, tables, disk

-----------------------------------------------------------------------------
(* 828 *)

LEMMA DecryptFileKeeps ==
    ASSUME IInv, NEW c \in Conns, DecryptFile(c)
    PROVE  IInv'
<1>. DEFINE u == req[c].uid
<1>. USE DEF DecryptFile, HasKey
<1>0. req[c] \in Request
  BY DEF IInv, HandlerOK
<1>1. CASE Refuse(c)
  BY <1>0, <1>1, RefuseKeeps DEF IInv, TypeOK, tables, disk
<1>2. ASSUME NEW content \in Bodies \cup {Garbled},
             Registered(u), clients[u].aes # NoKey, Hold(c, content, "open_file")
      PROVE  IInv'
  <2>. USE <1>2 DEF Hold
  <2>1. TypeOK'
    BY DEF IInv, TypeOK, WiresTypeOK, Steps, wires, tables, disk
  <2>2. HandlerOK(c)' /\ AnswerOK(c)' /\ Others(c)
    BY <1>0 DEF IInv, TypeOK, HandlerOK, AnswerOK, Others, Registered, tables
  <2>. QED
    BY <2>1, <2>2, LocalStep DEF wires, tables, disk
<1>. QED
  BY <1>1, <1>2

(* What a handler that has a file open may rely on. *)
LEMMA UploaderOwnsPath ==
    ASSUME IInv, NEW c \in Conns,
           pc[c] \in {"open_file", "write_file", "add_new_file", "read_crc"},
           req[c].file # None
    PROVE  /\ req[c] \in Request /\ req[c].file \in Files
           /\ Registered(req[c].uid)
           /\ clients[req[c].uid] \in ClientRow
           /\ clients[req[c].uid].aes # NoKey
           /\ Path(c) \in Paths /\ Path(c)[1] = clients[req[c].uid].name
<1>1. req[c] \in Request /\ Registered(req[c].uid) /\ clients[req[c].uid].aes # NoKey
  BY DEF IInv, HandlerOK
<1>2. req[c].file \in Files
  BY <1>1 DEF Request
<1>3. clients[req[c].uid] \in ClientRow
  BY <1>1 DEF IInv, TypeOK, Registered
<1>. QED
  BY <1>1, <1>2, <1>3 DEF Path, Paths, ClientRow

(* A handler may put content under its path: the owner is registered. *)
LEMMA OwnPathHasOwner ==
    ASSUME IInv, NEW c \in Conns,
           pc[c] \in {"open_file", "write_file", "add_new_file", "read_crc"},
           req[c].file # None, NEW content \in Content,
           UNCHANGED clients, backup' = [backup EXCEPT ![Path(c)] = content]
    PROVE  backup' \in [Paths -> Content \cup {None}] /\ BackupHasOwner'
<1>1. /\ Registered(req[c].uid) /\ clients[req[c].uid].aes # NoKey
      /\ Path(c) \in Paths /\ Path(c)[1] = clients[req[c].uid].name
  BY UploaderOwnsPath
<1>2. backup' \in [Paths -> Content \cup {None}]
  BY <1>1 DEF IInv, TypeOK
<1>3. ASSUME NEW p \in Paths, backup'[p] # None
      PROVE  \E u \in Uids : /\ clients[u] # None /\ clients[u].name = p[1]
                             /\ clients[u].aes # NoKey
  <2>1. CASE p = Path(c)
    BY <1>1, <2>1 DEF Registered
  <2>2. CASE p # Path(c)
    BY <1>3, <2>2 DEF IInv, TypeOK, BackupHasOwner
  <2>. QED
    BY <2>1, <2>2
<1>. QED
  BY <1>2, <1>3 DEF BackupHasOwner

LEMMA OpenFileKeeps ==
    ASSUME IInv, NEW c \in Conns, OpenFile(c)
    PROVE  IInv'
<1>. USE DEF OpenFile, Opened
<1>0. req[c] \in Request
  BY DEF IInv, HandlerOK
<1>1. CASE Refuse(c) /\ UNCHANGED disk
  BY <1>0, <1>1, RefuseKeeps DEF IInv, TypeOK, disk
<1>2. CASE /\ req[c].file # None
           /\ backup' = [backup EXCEPT ![Path(c)] = Empty]
           /\ detached' = detached \ {c}
           /\ Goto(c, "write_file")
  <2>. USE <1>2 DEF Goto
  <2>1. backup' \in [Paths -> Content \cup {None}] /\ BackupHasOwner'
    BY OwnPathHasOwner DEF Content, tables
  <2>2. TypeOK'
    BY <2>1 DEF IInv, TypeOK, WiresTypeOK, Steps, wires, tables
  <2>3. HandlerOK(c)' /\ AnswerOK(c)' /\ Others(c)
    BY <1>0, UploaderOwnsPath DEF IInv, TypeOK, HandlerOK, AnswerOK, Others, Registered, tables
  <2>. QED
    BY <2>1, <2>2, <2>3, LocalStep DEF wires, tables
<1>. QED
  BY <1>1, <1>2

LEMMA WriteFileKeeps ==
    ASSUME IInv, NEW c \in Conns, WriteFile(c)
    PROVE  IInv'
<1>. USE DEF WriteFile, Goto
<1>1. req[c] \in Request /\ req[c].file \in Files /\ req[c].file # None
      /\ held[c] \in Bodies \cup {Garbled}
  BY ValuesAssumption DEF IInv, HandlerOK
<1>2. backup' \in [Paths -> Content \cup {None}]
      /\ (UNCHANGED backup \/ BackupHasOwner')
  <2>1. CASE c \in detached
    BY <2>1 DEF IInv, TypeOK
  <2>2. CASE c \notin detached
    <3>1. PICK content \in Overwrite(backup[Path(c)], held[c]) :
              backup' = [backup EXCEPT ![Path(c)] = content]
      BY <2>2
    <3>2. content \in Content
      BY <1>1 DEF Overwrite, Content
    <3>. QED
      BY <1>1, <3>1, <3>2, OwnPathHasOwner DEF tables
  <2>. QED
    BY <2>1, <2>2
<1>3. TypeOK'
  BY <1>2 DEF IInv, TypeOK, WiresTypeOK, Steps, wires, tables
<1>4. HandlerOK(c)' /\ AnswerOK(c)' /\ Others(c)
  BY DEF IInv, TypeOK, HandlerOK, AnswerOK, Others, Registered, tables
<1>. QED
  BY <1>2, <1>3, <1>4, LocalStep DEF wires, tables

LEMMA AddNewFileKeeps ==
    ASSUME IInv, NEW c \in Conns, AddNewFile(c)
    PROVE  IInv'
<1>. DEFINE u == req[c].uid
            row == [file |-> req[c].file, verified |-> FALSE]
<1>. USE DEF AddNewFile, InsertFile, NewFile, Goto
<1>1. /\ req[c].file \in Files /\ Registered(u) /\ u \in Uids
      /\ clients[u] # None /\ clients[u].aes # NoKey /\ clients[u].pub # Placeholder
  BY DEF IInv, HandlerOK, Registered, RowsOK
<1>2. row \in FileRow
  BY <1>1 DEF FileRow
<1>3. files' \in [Uids -> FileRow \cup {None}]
  BY <1>1, <1>2 DEF IInv, TypeOK
<1>4. TypeOK'
  BY <1>3 DEF IInv, TypeOK, WiresTypeOK, Steps, wires, disk
<1>5. HandlerOK(c)' /\ AnswerOK(c)' /\ Others(c)
  BY DEF IInv, TypeOK, HandlerOK, AnswerOK, Others, Registered
<1>6. NoFileBeforeKeyExchange'
  BY <1>1 DEF IInv, TypeOK, NoFileBeforeKeyExchange
<1>. QED
  BY <1>4, <1>5, <1>6, LocalStep DEF wires, disk

LEMMA ReadCrcKeeps ==
    ASSUME IInv, NEW c \in Conns, ReadCrc(c)
    PROVE  IInv'
<1>. DEFINE content == backup[Path(c)]
            a == CrcReply(req[c].uid, content)
<1>. USE DEF ReadCrc
<1>1. CASE EndThread(c)
  BY <1>1, EndThreadKeeps DEF disk
<1>2. CASE content # None /\ Answer(c, a) /\ UNCHANGED wires
  <2>1. req[c] \in Request /\ req[c].file \in Files /\ req[c].file # None
    BY ValuesAssumption DEF IInv, HandlerOK
  <2>2. content \in Content
    BY <1>2, <2>1, UploaderOwnsPath DEF IInv, TypeOK
  <2>3. a \in Response /\ a.code \notin {IN_PUBLIC_KEY_OUT_AES, RECCONECT_APPROVED}
    <3>1. req[c].uid \in Uids \cup {NoUid}
      BY <2>1 DEF Request
    <3>. QED
      BY <2>2, <3>1, CrcReplyType DEF VALID_FILE_CRC, IN_PUBLIC_KEY_OUT_AES,
             RECCONECT_APPROVED
  <2>4. /\ pc' = [pc EXCEPT ![c] = "send_response"] /\ ans' = [ans EXCEPT ![c] = a]
        /\ UNCHANGED <<req, held>>
    BY <1>2 DEF Answer, Prepare
  <2>. HIDE DEF a
  <2>5. TypeOK'
    BY <1>2, <2>3, <2>4 DEF IInv, TypeOK, WiresTypeOK, Steps, wires, tables, disk
  <2>6. HandlerOK(c)' /\ AnswerOK(c)' /\ Others(c)
    BY <2>3, <2>4 DEF IInv, TypeOK, HandlerOK, AnswerOK, KeyWasStored, Others
  <2>. QED
    BY <1>2, <2>5, <2>6, LocalStep DEF wires, tables, disk
<1>. QED
  BY <1>1, <1>2

-----------------------------------------------------------------------------
(* 900 and 902 *)

(* A step that confirms (1604) after it changed the verified flag of rows   *)
(* of files or deleted rows.                                                *)
LEMMA ConfirmKeeps ==
    ASSUME IInv, NEW c \in Conns, req[c] \in Request,
           Answer(c, Reply(FILE_APPROVAL, req[c].uid)),
           UNCHANGED <<wires, clients, disk, keyCount>>,
           files' \in [Uids -> FileRow \cup {None}],
           \A u \in Uids : files'[u] # None => files[u] # None
    PROVE  IInv'
<1>. DEFINE a == Reply(FILE_APPROVAL, req[c].uid)
<1>1. a \in Response /\ a.code \notin {IN_PUBLIC_KEY_OUT_AES, RECCONECT_APPROVED}
  <2>1. a \in Response
    BY RefusalType
  <2>2. a.code = FILE_APPROVAL
    BY DEF Reply
  <2>. QED
    BY <2>1, <2>2 DEF FILE_APPROVAL, IN_PUBLIC_KEY_OUT_AES, RECCONECT_APPROVED
<1>2. /\ pc' = [pc EXCEPT ![c] = "send_response"] /\ ans' = [ans EXCEPT ![c] = a]
      /\ UNCHANGED <<req, held>>
  BY DEF Answer, Prepare
<1>. HIDE DEF a
<1>3. TypeOK'
  BY <1>1, <1>2 DEF IInv, TypeOK, WiresTypeOK, Steps, wires, disk
<1>4. HandlerOK(c)' /\ AnswerOK(c)' /\ Others(c)
  BY <1>1, <1>2 DEF IInv, TypeOK, HandlerOK, AnswerOK, KeyWasStored, Others
<1>5. NoFileBeforeKeyExchange'
  BY DEF IInv, NoFileBeforeKeyExchange
<1>. QED
  BY <1>3, <1>4, <1>5, LocalStep DEF wires, disk

LEMMA UpdateVerifiedKeeps ==
    ASSUME IInv, NEW c \in Conns, UpdateVerified(c)
    PROVE  IInv'
<1>. DEFINE u == req[c].uid
<1>1. req[c] \in Request
  BY DEF IInv, HandlerOK, UpdateVerified
<1>2. /\ files' \in [Uids -> FileRow \cup {None}]
      /\ \A v \in Uids : files'[v] # None => files[v] # None
  <2>1. CASE /\ u \in Uids /\ files[u] # None
             /\ files' = [files EXCEPT ![u].verified = TRUE]
    <3>1. [files[u] EXCEPT !.verified = TRUE] \in FileRow
      BY <2>1 DEF IInv, TypeOK, FileRow
    <3>. QED
      BY <2>1, <3>1 DEF IInv, TypeOK
  <2>2. CASE files' = files
    BY <2>2 DEF IInv, TypeOK
  <2>. QED
    BY <2>1, <2>2 DEF UpdateVerified, Selected
<1>. QED
  BY <1>1, <1>2, ConfirmKeeps DEF UpdateVerified, Selected

LEMMA DeleteFromBackupKeeps ==
    ASSUME IInv, NEW c \in Conns, DeleteFromBackup(c)
    PROVE  IInv'
<1>. USE DEF DeleteFromBackup, Goto
<1>1. /\ backup' \in [Paths -> Content \cup {None}] /\ detached' \subseteq Conns
      /\ \A p \in Paths : backup'[p] # None => backup[p] # None
  BY DEF IInv, TypeOK, disk
<1>2. TypeOK'
  BY <1>1 DEF IInv, TypeOK, WiresTypeOK, Steps, wires, tables
<1>3. HandlerOK(c)' /\ AnswerOK(c)' /\ Others(c)
  BY DEF IInv, TypeOK, HandlerOK, AnswerOK, Others
<1>4. BackupHasOwner'
  BY <1>1 DEF IInv, BackupHasOwner, tables
<1>. QED
  BY <1>2, <1>3, <1>4, LocalStep DEF wires, tables

LEMMA DeleteUnverifiedKeeps ==
    ASSUME IInv, NEW c \in Conns, DeleteUnverified(c)
    PROVE  IInv'
<1>1. req[c] \in Request
  BY DEF IInv, HandlerOK, DeleteUnverified
<1>2. /\ files' \in [Uids -> FileRow \cup {None}]
      /\ \A v \in Uids : files'[v] # None => files[v] # None
  BY DEF DeleteUnverified, UnverifiedRow, IInv, TypeOK
<1>. QED
  BY <1>1, <1>2, ConfirmKeeps DEF DeleteUnverified, UnverifiedRow

-----------------------------------------------------------------------------
(* Faults, crashes and clients. *)

LEMMA StepFailsKeeps ==
    ASSUME IInv, NEW c \in Conns, StepFails(c)
    PROVE  IInv'
<1>1. CASE /\ pc[c] \notin {"off", "handle_request", "send_response", "delete_from_backup"}
           /\ Refuse(c) /\ UNCHANGED <<wires, tables, disk, keyCount>>
  <2>1. req[c] \in Request
    BY <1>1 DEF IInv, HandlerOK
  <2>. QED
    BY <1>1, <2>1, RefuseKeeps DEF IInv, TypeOK, disk
<1>2. CASE /\ pc[c] = "write_file"
           /\ backup' = [backup EXCEPT ![Path(c)] = Garbled]
           /\ Refuse(c) /\ UNCHANGED <<wires, tables, detached, keyCount>>
  <2>1. req[c] \in Request /\ req[c].file \in Files /\ req[c].file # None
    BY <1>2, ValuesAssumption DEF IInv, HandlerOK
  <2>2. backup' \in [Paths -> Content \cup {None}] /\ BackupHasOwner'
    BY <1>2, <2>1, OwnPathHasOwner DEF Content, tables
  <2>. QED
    BY <1>2, <2>1, <2>2, RefuseKeeps DEF IInv, TypeOK
<1>3. CASE /\ pc[c] = "delete_from_backup" /\ Goto(c, "delete_unverified")
           /\ UNCHANGED <<wires, tables, disk, keyCount>>
  <2>. USE <1>3 DEF Goto
  <2>1. TypeOK'
    BY DEF IInv, TypeOK, WiresTypeOK, Steps, wires, tables, disk
  <2>2. HandlerOK(c)' /\ AnswerOK(c)' /\ Others(c)
    BY DEF IInv, TypeOK, HandlerOK, AnswerOK, Others
  <2>. QED
    BY <2>1, <2>2, LocalStep DEF wires, tables, disk
<1>4. CASE EndThread(c) /\ UNCHANGED <<tables, disk, keyCount>>
  BY <1>4, EndThreadKeeps
<1>. QED
  BY <1>1, <1>2, <1>3, <1>4 DEF StepFails, disk

LEMMA CrashKeeps ==
    ASSUME IInv, Crash
    PROVE  IInv'
<1>. USE DEF Crash
<1>1. TypeOK'
  <2>1. link' \in [Conns -> LinkStates]
    BY DEF IInv, TypeOK, WiresTypeOK, LinkStates
  <2>. QED
    BY <2>1 DEF IInv, TypeOK, WiresTypeOK, Steps, tables
<1>2. \A c \in Conns : HandlerOK(c)' /\ AnswerOK(c)'
  BY DEF HandlerOK, AnswerOK
<1>3. RestOK'
  BY RestStill DEF tables
<1>. QED
  BY <1>1, <1>2, <1>3 DEF IInv, RestOK

LEMMA ClientsKeep ==
    ASSUME IInv, ClientsNext
    PROVE  IInv'
<1>1. UNCHANGED server
  BY DEF ClientsNext, ClientConnects, ClientReads, ClientLeaves, ClientSends,
         ClientDiesSending
<1>2. WiresTypeOK' /\ \A d \in Conns : outbox'[d] \in {outbox[d], None}
  <2>. USE DEF IInv, TypeOK, WiresTypeOK, LinkStates
  <2>. PICK c \in Conns : \/ Connect(c) \/ Collect(c) \/ Hangup(c)
                         \/ \E r \in Traffic : Submit(c, r) \/ SubmitTorn(c, r)
    BY DEF ClientsNext, ClientConnects, ClientReads, ClientLeaves, ClientSends,
           ClientDiesSending
  <2>1. CASE Connect(c)
    BY <2>1 DEF Connect
  <2>2. CASE Collect(c)
    BY <2>2 DEF Collect
  <2>3. CASE Hangup(c)
    BY <2>3 DEF Hangup
  <2>4. ASSUME NEW r \in Traffic, Submit(c, r)
        PROVE  WiresTypeOK' /\ \A d \in Conns : outbox'[d] \in {outbox[d], None}
    BY <2>4, TrafficAssumption DEF Submit
  <2>5. ASSUME NEW r \in Traffic, SubmitTorn(c, r)
        PROVE  WiresTypeOK' /\ \A d \in Conns : outbox'[d] \in {outbox[d], None}
    <3>1. r \in Request
      BY TrafficAssumption
    <3>2. PICK t \in Torn(r) : inbox' = [inbox EXCEPT ![c] = t]
      BY <2>5 DEF SubmitTorn
    <3>3. t \in Request
      BY <3>1, TornType
    <3>. QED
      BY <2>5, <3>2, <3>3 DEF SubmitTorn
  <2>. QED
    BY <2>1, <2>2, <2>3, <2>4, <2>5
<1>. USE <1>1 DEF server, thread, tables, disk
<1>3. TypeOK'
  BY <1>2 DEF IInv, TypeOK
<1>4. \A c \in Conns : HandlerOK(c)' /\ AnswerOK(c)'
  BY DEF IInv, HandlerOK, AnswerOK, KeyWasStored, Registered
<1>5. RestOK'
  BY <1>2, RestStill
<1>. QED
  BY <1>3, <1>4, <1>5 DEF IInv, RestOK

-----------------------------------------------------------------------------
(* The invariant of the specification and what follows from it. *)

LEMMA InitInvariant == Init => IInv
<1>. SUFFICES ASSUME Init PROVE IInv
  OBVIOUS
<1>. USE DEF Init, WiresInit
<1>1. TypeOK
  BY DEF TypeOK, WiresTypeOK, LinkStates, Steps
<1>2. \A c \in Conns : HandlerOK(c) /\ AnswerOK(c)
  BY DEF HandlerOK, AnswerOK
<1>3. RowsOK /\ NoFileBeforeKeyExchange /\ BackupHasOwner /\ DeliveredKeyWasStored
  BY DEF RowsOK, NoFileBeforeKeyExchange, BackupHasOwner, DeliveredKeyWasStored
<1>. QED
  BY <1>1, <1>2, <1>3 DEF IInv

LEMMA StutterKeeps == IInv /\ UNCHANGED vars => IInv'
<1>. SUFFICES ASSUME IInv, UNCHANGED vars PROVE IInv'
  OBVIOUS
<1>. USE DEF vars, wires, tables, disk, thread
<1>1. TypeOK'
  BY DEF IInv, TypeOK, WiresTypeOK
<1>2. \A c \in Conns : HandlerOK(c)' /\ AnswerOK(c)'
  BY DEF IInv, HandlerOK, AnswerOK, KeyWasStored, Registered
<1>3. RestOK'
  BY RestStill
<1>. QED
  BY <1>1, <1>2, <1>3 DEF IInv, RestOK

LEMMA HandleKeeps ==
    ASSUME IInv, NEW c \in Conns, Handle(c)
    PROVE  IInv'
<1>1. CASE DropUnknownCode(c) \/ CloseConnection(c)
  BY <1>1, EndThreadKeeps DEF DropUnknownCode, CloseConnection
<1>. QED
  BY <1>1, AcceptKeeps, DispatchKeeps, RejectVersionKeeps, SendResponseKeeps,
     FindUsernameKeeps, AddNewClientKeeps, SetPublicKeyKeeps, RecoverPublicKeyKeeps,
     StoreAesKeyKeeps, EncryptKeyKeeps, DecryptFileKeeps, OpenFileKeeps, WriteFileKeeps,
     AddNewFileKeeps, ReadCrcKeeps, UpdateVerifiedKeeps, DeleteFromBackupKeeps,
     DeleteUnverifiedKeeps
  DEF Handle

LEMMA NextKeeps == IInv /\ [Next]_vars => IInv'
<1>. SUFFICES ASSUME IInv, [Next]_vars PROVE IInv'
  OBVIOUS
<1>. QED
  BY CrashKeeps, HandleKeeps, StepFailsKeeps, ClientsKeep, StutterKeeps
  DEF Next, ServerNext

(* The inductive invariant holds of every run of the server, with any       *)
(* number of connections and whatever fails (handle_client's threads).      *)
THEOREM ServerInvariant == Spec => []IInv
  BY InitInvariant, NextKeeps, PTL DEF Spec

(* The state of the server keeps its type. *)
THEOREM TypeCorrect == Spec => []TypeOK
<1>1. IInv => TypeOK
  BY DEF IInv
<1>. QED
  BY <1>1, ServerInvariant, PTL

(* Whatever requests arrive, a file is recorded (add_new_file_db) only for  *)
(* a user who was registered and completed the key exchange.                *)
THEOREM KeyExchangeComesFirst == Spec => []NoFileBeforeKeyExchange
<1>1. IInv => NoFileBeforeKeyExchange
  BY DEF IInv
<1>. QED
  BY <1>1, ServerInvariant, PTL

(* Every file of the backup directory (save_file) is in the directory of a  *)
(* registered user with an AES key.                                         *)
THEOREM BackupIsOwned == Spec => []BackupHasOwner
<1>1. IInv => BackupHasOwner
  BY DEF IInv
<1>. QED
  BY <1>1, ServerInvariant, PTL

(* A key that reaches a client (generate_aes_key) was stored for it first.  *)
THEOREM KeysAreStoredFirst == Spec => []DeliveredKeyWasStored
<1>1. IInv => DeliveredKeyWasStored
  BY DEF IInv
<1>. QED
  BY <1>1, ServerInvariant, PTL

-----------------------------------------------------------------------------
(* Approvals. *)

(* Only three actions write the table files. *)
LEMMA FilesWriters ==
    ASSUME IInv, [Next]_vars, files' # files
    PROVE  \E c \in Conns : AddNewFile(c) \/ UpdateVerified(c) \/ DeleteUnverified(c)
<1>1. ~ClientsNext
  BY DEF ClientsNext, ClientConnects, ClientReads, ClientLeaves, ClientSends,
         ClientDiesSending, server, tables
<1>2. ~Crash /\ \A c \in Conns : ~StepFails(c)
  BY DEF Crash, StepFails, tables
<1>3. PICK c \in Conns : Handle(c)
  BY <1>1, <1>2 DEF Next, ServerNext, vars, tables
<1>. QED
  BY <1>3 DEF Handle, Accept, Dispatch, RejectVersion, DropUnknownCode, CloseConnection,
     SendResponse, FindUsername, AddNewClient, SetPublicKey, RecoverPublicKey, StoreAesKey,
     EncryptKey, DecryptFile, OpenFile, WriteFile, ReadCrc, DeleteFromBackup, tables

LEMMA ApprovedRowStays ==
    ASSUME IInv, [Next]_vars, NEW u \in Uids, files[u] # None, files[u].verified
    PROVE  files'[u] = files[u]
<1>1. files \in [Uids -> FileRow \cup {None}] /\ files[u] \in FileRow
  BY DEF IInv, TypeOK
<1>2. [files[u] EXCEPT !.verified = TRUE] = files[u]
  BY <1>1 DEF FileRow
<1>3. ASSUME NEW c \in Conns, AddNewFile(c) PROVE files'[u] = files[u]
  BY <1>1, <1>3 DEF AddNewFile, InsertFile, NewFile
<1>4. ASSUME NEW c \in Conns, UpdateVerified(c) PROVE files'[u] = files[u]
  BY <1>1, <1>2, <1>4 DEF UpdateVerified, Selected
<1>5. ASSUME NEW c \in Conns, DeleteUnverified(c) PROVE files'[u] = files[u]
  BY <1>1, <1>5 DEF DeleteUnverified, UnverifiedRow
<1>. QED
  BY <1>3, <1>4, <1>5, FilesWriters

(* A verified row of files is final (add_new_file_db inserts OR IGNORE,     *)
(* delete_unverified deletes only verified = 0).                            *)
THEOREM ApprovalIsPermanent == Spec => VerifiedRowPermanent
<1>1. IInv /\ [Next]_vars =>
        [\A u \in Uids : files[u] # None /\ files[u].verified => files'[u] = files[u]]_vars
  BY ApprovedRowStays
<1>. QED
  BY <1>1, ServerInvariant, PTL DEF Spec, VerifiedRowPermanent

(* No 900 without a file name is on its way or being handled. *)
ApprovalsWhole ==
    \A c \in Conns :
        /\ inbox[c] # None /\ inbox[c].code = VALID_CRC => inbox[c].file # None
        /\ pc[c] = "update_verified" => req[c].file # None

WholeTraffic == ~TornRequests /\ \A r \in Traffic : r.code = VALID_CRC => r.file # None

LEMMA ApprovalsStayWhole ==
    ASSUME WholeTraffic, IInv, ApprovalsWhole, [Next]_vars
    PROVE  ApprovalsWhole'
<1>. USE DEF ApprovalsWhole
<1>0. /\ pc \in [Conns -> Steps] /\ req \in [Conns -> Request \cup {None}]
      /\ inbox \in [Conns -> Request \cup {None}]
  BY DEF IInv, TypeOK, WiresTypeOK
<1>1. CASE UNCHANGED vars
  BY <1>1 DEF vars, wires, thread
<1>2. CASE Crash
  BY <1>2 DEF Crash
<1>3. ASSUME ClientsNext PROVE ApprovalsWhole'
  <2>1. UNCHANGED <<pc, req>>
    BY <1>3 DEF ClientsNext, ClientConnects, ClientReads, ClientLeaves, ClientSends,
                ClientDiesSending, server, thread
  <2>2. ASSUME NEW c \in Conns, inbox'[c] # None, inbox'[c].code = VALID_CRC
        PROVE  inbox'[c].file # None
    <3>1. inbox'[c] \in Traffic \cup {inbox[c], None}
      <4>1. PICK d \in Conns : \/ Connect(d) \/ Collect(d) \/ Hangup(d)
                              \/ \E r \in Traffic : Submit(d, r)
        BY <1>3 DEF ClientsNext, ClientConnects, ClientReads, ClientLeaves, ClientSends,
                    ClientDiesSending, WholeTraffic
      <4>. QED
        BY <1>0, <4>1 DEF Connect, Collect, Hangup, Submit
    <3>. QED
      BY <2>2, <3>1 DEF WholeTraffic
  <2>. QED
    BY <2>1, <2>2
<1>4. ASSUME NEW c \in Conns, Handle(c) \/ StepFails(c)
      PROVE  ApprovalsWhole'
  <2>1. \A d \in Conns : inbox'[d] \in {inbox[d], None}
    BY <1>0, <1>4 DEF Handle, StepFails, EndThread, Deliver, Respond, ServerClose, wires,
       Accept, Dispatch, RejectVersion, DropUnknownCode, CloseConnection, SendResponse,
       FindUsername, AddNewClient, SetPublicKey, RecoverPublicKey, StoreAesKey, EncryptKey,
       DecryptFile, OpenFile, WriteFile, AddNewFile, ReadCrc, UpdateVerified,
       DeleteFromBackup, DeleteUnverified
  <2>2. \A d \in Conns \ {c} : pc'[d] = pc[d] /\ req'[d] = req[d]
    BY <1>0, <1>4 DEF Handle, StepFails, EndThread, Goto, Hold, Prepare, Answer, Refuse,
       Accept, Dispatch, RejectVersion, DropUnknownCode, CloseConnection, SendResponse,
       FindUsername, AddNewClient, SetPublicKey, RecoverPublicKey, StoreAesKey, EncryptKey,
       DecryptFile, OpenFile, WriteFile, AddNewFile, ReadCrc, UpdateVerified,
       DeleteFromBackup, DeleteUnverified
  <2>3. CASE Dispatch(c)
    <3>1. pc'[c] = "update_verified" => inbox[c].code = VALID_CRC
      BY <1>0, <2>3 DEF Dispatch, FirstStep, RequestCodes, REGISTER, S_PUBLIC_KEY, RECONNECT,
         SEND_FILE, VALID_CRC, N_VALID_CRC, EXIT_CRC
    <3>2. req'[c] = inbox[c] /\ inbox[c] # None
      BY <1>0, <2>3 DEF Dispatch, Deliver
    <3>. QED
      BY <2>1, <2>2, <3>1, <3>2
  <2>4. CASE ~Dispatch(c)
    <3>1. pc'[c] # "update_verified"
      BY <1>0, <1>4, <2>4 DEF Handle, StepFails, EndThread, Goto, Hold, Prepare, Answer,
         Refuse, Accept, RejectVersion, DropUnknownCode, CloseConnection, SendResponse,
         FindUsername, AddNewClient, SetPublicKey, RecoverPublicKey, StoreAesKey,
         EncryptKey, DecryptFile, OpenFile, WriteFile, AddNewFile, ReadCrc,
         UpdateVerified, DeleteFromBackup, DeleteUnverified
    <3>. QED
      BY <2>1, <2>2, <3>1
  <2>. QED
    BY <2>3, <2>4
<1>. QED
  BY <1>1, <1>2, <1>3, <1>4 DEF Next, ServerNext

(* As long as every request arrives whole, a file is approved only by a 900 *)
(* that names it (update_entry with a file name).                           *)
THEOREM ApprovalsNameTheFile ==
    ASSUME WholeTraffic
    PROVE  Spec => ApprovalNamesFile
<1>. DEFINE Named == \A u \in Uids :
          /\ files[u] # None /\ ~files[u].verified
          /\ files'[u] # None /\ files'[u].verified
          => \E c \in Conns : /\ pc[c] = "update_verified"
                              /\ req[c].uid = u
                              /\ req[c].file = files[u].file
<1>1. Init => ApprovalsWhole
  BY DEF Init, WiresInit, ApprovalsWhole
<1>2. IInv /\ ApprovalsWhole /\ [Next]_vars => ApprovalsWhole'
  BY ApprovalsStayWhole
<1>3. IInv /\ ApprovalsWhole /\ [Next]_vars => [Named]_vars
  <2>. SUFFICES ASSUME IInv, ApprovalsWhole, [Next]_vars, NEW u \in Uids,
                       files[u] # None, ~files[u].verified,
                       files'[u] # None, files'[u].verified
                PROVE  \E c \in Conns : /\ pc[c] = "update_verified"
                                        /\ req[c].uid = u
                                        /\ req[c].file = files[u].file
    OBVIOUS
  <2>1. PICK c \in Conns : AddNewFile(c) \/ UpdateVerified(c) \/ DeleteUnverified(c)
    BY FilesWriters
  <2>2. files \in [Uids -> FileRow \cup {None}]
    BY DEF IInv, TypeOK
  <2>3. UpdateVerified(c)
    BY <2>1, <2>2 DEF AddNewFile, InsertFile, NewFile, DeleteUnverified, UnverifiedRow
  <2>. QED
    BY <2>2, <2>3 DEF UpdateVerified, Selected, ApprovalsWhole
<1>. QED
  BY <1>1, <1>2, <1>3, ServerInvariant, PTL DEF Spec, ApprovalNamesFile

-----------------------------------------------------------------------------
(* One connection at a time. *)

USE DEF REGISTER, S_PUBLIC_KEY, RECONNECT, SEND_FILE, VALID_CRC, N_VALID_CRC, EXIT_CRC,
        INIT_REGISTRATION_SUCC, REGISTRATION_FAIL, IN_PUBLIC_KEY_OUT_AES, VALID_FILE_CRC,
        FILE_APPROVAL, RECCONECT_APPROVED, RECCONET_DENIED, GENERAL_ERROR, NoKey

(* The table clients, the backup directory and the threads, typed. *)
LEMMA ServerTyped ==
    ASSUME IInv
    PROVE  /\ pc \in [Conns -> Steps] /\ req \in [Conns -> Request \cup {None}]
           /\ clients \in [Uids -> ClientRow \cup {None}]
           /\ files \in [Uids -> FileRow \cup {None}]
           /\ backup \in [Paths -> Content \cup {None}]
           /\ DOMAIN held = Conns /\ DOMAIN ans = Conns
           /\ inbox \in [Conns -> Request \cup {None}]
BY DEF IInv, TypeOK, WiresTypeOK

LEMMA AnswerCodesOf ==
    /\ \A code, u : Reply(code, u).code = code
    /\ \A code, u, p, k : KeyReply(code, u, p, k).code = code
    /\ \A u, content : CrcReply(u, content).code = VALID_FILE_CRC
                       /\ CrcReply(u, content).crc = content
    /\ ErrorReply.code = GENERAL_ERROR
BY DEF Reply, KeyReply, CrcReply, ErrorReply

LEMMA RefusalCode ==
    ASSUME IInv, NEW c \in Conns, Refuse(c)
    PROVE  pc'[c] = "send_response" /\ ans'[c].code \in {RECCONET_DENIED, GENERAL_ERROR}
BY ServerTyped, AnswerCodesOf DEF Refuse, Answer, Prepare

-----------------------------------------------------------------------------
(* Which step of a thread comes before another one. *)

LEMMA FirstStepOf ==
    ASSUME NEW code \in RequestCodes
    PROVE  /\ FirstStep[code] \in {"find_username", "set_public_key", "recover_public_key",
                                   "decrypt_file", "update_verified", "handle_request",
                                   "delete_from_backup"}
           /\ FirstStep[code] = "update_verified" => code = VALID_CRC
BY DEF FirstStep, RequestCodes

LEMMA Arrivals ==
    ASSUME IInv, NEW c \in Conns, Handle(c) \/ StepFails(c)
    PROVE  /\ pc'[c] = "add_new_client" => FindUsername(c)
           /\ pc'[c] = "encrypt" => StoreAesKey(c)
           /\ pc'[c] = "write_file" => OpenFile(c)
           /\ pc'[c] = "add_new_file" => WriteFile(c)
           /\ pc'[c] = "read_crc" => AddNewFile(c)
           /\ pc'[c] = "update_verified" => Dispatch(c)
           /\ pc'[c] = "delete_unverified" =>
                 DeleteFromBackup(c) \/ (StepFails(c) /\ pc[c] = "delete_from_backup")
           /\ pc'[c] = "send_response" =>
                 \/ ReadCrc(c) \/ DeleteUnverified(c) \/ UpdateVerified(c) \/ EncryptKey(c)
                 \/ ans'[c].code \notin {VALID_FILE_CRC, FILE_APPROVAL}
<1>. DEFINE Early == {"off", "handle_request", "find_username", "set_public_key",
                      "recover_public_key", "store_aes_key", "decrypt_file", "open_file",
                      "delete_from_backup"}
            Plain == \/ pc'[c] \in Early
                     \/ /\ pc'[c] = "send_response"
                        /\ ans'[c].code \notin {VALID_FILE_CRC, FILE_APPROVAL}
<1>0. pc \in [Conns -> Steps] /\ DOMAIN ans = Conns
  BY ServerTyped
<1>1. Refuse(c) => Plain
  BY RefusalCode
<1>2. EndThread(c) => Plain
  BY <1>0 DEF EndThread
<1>3. Accept(c) \/ CloseConnection(c) \/ DropUnknownCode(c) \/ SendResponse(c) => Plain
  BY <1>0, <1>2 DEF Accept, Goto, CloseConnection, DropUnknownCode, SendResponse
<1>4. RejectVersion(c) => Plain
  BY <1>0, AnswerCodesOf DEF RejectVersion, Answer, Prepare
<1>5. Dispatch(c) => Plain \/ pc'[c] = "update_verified"
  <2>1. Dispatch(c) => pc'[c] = FirstStep[inbox[c].code] /\ inbox[c].code \in RequestCodes
    BY <1>0 DEF Dispatch
  <2>. QED
    BY <2>1, FirstStepOf
<1>6. FindUsername(c) => Plain \/ pc'[c] = "add_new_client"
  BY <1>0, AnswerCodesOf DEF FindUsername, Goto, Answer, Prepare
<1>7. AddNewClient(c) => Plain
  BY <1>0, <1>1, AnswerCodesOf DEF AddNewClient, Answer, Prepare
<1>8. SetPublicKey(c) \/ RecoverPublicKey(c) \/ DecryptFile(c) => Plain
  BY <1>0, <1>1 DEF SetPublicKey, RecoverPublicKey, DecryptFile, Goto, Hold
<1>9. /\ StoreAesKey(c) => pc'[c] = "encrypt"
      /\ OpenFile(c) => Plain \/ pc'[c] = "write_file"
      /\ WriteFile(c) => pc'[c] = "add_new_file"
      /\ AddNewFile(c) => pc'[c] = "read_crc"
      /\ DeleteFromBackup(c) => pc'[c] = "delete_unverified"
      /\ EncryptKey(c) => pc'[c] = "send_response"
  BY <1>0, <1>1 DEF StoreAesKey, OpenFile, WriteFile, AddNewFile, DeleteFromBackup,
     EncryptKey, Goto, Prepare
<1>10. /\ ReadCrc(c) => Plain \/ pc'[c] = "send_response"
       /\ DeleteUnverified(c) \/ UpdateVerified(c) => pc'[c] = "send_response"
  BY <1>0, <1>2 DEF ReadCrc, DeleteUnverified, UpdateVerified, Answer, Prepare
<1>11. StepFails(c) => Plain \/ (pc'[c] = "delete_unverified" /\ pc[c] = "delete_from_backup")
  BY <1>0, <1>1, <1>2 DEF StepFails, Goto
<1>. HIDE DEF Plain
<1>12. Plain => /\ pc'[c] \notin {"add_new_client", "encrypt", "write_file", "add_new_file",
                                 "read_crc", "update_verified", "delete_unverified"}
                /\ pc'[c] = "send_response" =>
                      ans'[c].code \notin {VALID_FILE_CRC, FILE_APPROVAL}
  BY DEF Plain
<1>. QED
  BY <1>3, <1>4, <1>5, <1>6, <1>7, <1>8, <1>9, <1>10, <1>11, <1>12 DEF Handle

-----------------------------------------------------------------------------
(* Who writes the table clients and the backup directory. *)

LEMMA ClientsWriters ==
    ASSUME NEW c \in Conns, Handle(c) \/ StepFails(c), clients' # clients
    PROVE  AddNewClient(c) \/ SetPublicKey(c) \/ StoreAesKey(c)
BY DEF Handle, StepFails, Accept, Dispatch, RejectVersion, DropUnknownCode, CloseConnection,
   SendResponse, FindUsername, RecoverPublicKey, EncryptKey, DecryptFile, OpenFile,
   WriteFile, AddNewFile, ReadCrc, UpdateVerified, DeleteFromBackup, DeleteUnverified, tables

LEMMA DiskWriters ==
    ASSUME NEW c \in Conns, Handle(c) \/ StepFails(c), UNCHANGED disk => FALSE
    PROVE  \/ OpenFile(c) \/ WriteFile(c) \/ DeleteFromBackup(c)
           \/ StepFails(c) /\ pc[c] = "write_file"
BY DEF Handle, StepFails, Accept, Dispatch, RejectVersion, DropUnknownCode, CloseConnection,
   SendResponse, FindUsername, AddNewClient, SetPublicKey, RecoverPublicKey, StoreAesKey,
   EncryptKey, DecryptFile, AddNewFile, ReadCrc, UpdateVerified, DeleteUnverified

(* Users come, and keep their names. *)
LEMMA NamesKept ==
    ASSUME IInv, NEW c \in Conns, Handle(c) \/ StepFails(c), ~AddNewClient(c), NEW u \in Uids
    PROVE  /\ clients'[u] = None <=> clients[u] = None
           /\ clients[u] # None => clients'[u].name = clients[u].name
<1>1. /\ clients \in [Uids -> ClientRow \cup {None}] /\ None \notin ClientRow
      /\ keyCount \in Nat
  BY ServerTyped, RowsAssumption DEF IInv, TypeOK
<1>2. ASSUME NEW row \in ClientRow
      PROVE  /\ \A x \in PubKeys : /\ [row EXCEPT !.pub = x].name = row.name
                                   /\ [row EXCEPT !.pub = x] \in ClientRow
             /\ \A x \in Nat : /\ [row EXCEPT !.aes = x].name = row.name
                               /\ [row EXCEPT !.aes = x] \in ClientRow
  BY DEF ClientRow
<1>3. CASE clients' = clients
  BY <1>3
<1>4. CASE SetPublicKey(c) /\ clients' # clients
  <2>1. /\ clients' = [clients EXCEPT ![req[c].uid].pub = req[c].pub]
        /\ clients[req[c].uid] \in ClientRow /\ req[c].pub \in PubKeys
    BY <1>1, <1>4 DEF SetPublicKey, Registered, IInv, HandlerOK, Request
  <2>. QED
    BY <1>1, <1>2, <2>1
<1>5. CASE StoreAesKey(c)
  <2>1. /\ clients' = [clients EXCEPT ![req[c].uid].aes = keyCount + 1]
        /\ clients[req[c].uid] \in ClientRow
    BY <1>1, <1>5 DEF StoreAesKey, Registered, IInv, HandlerOK
  <2>. QED
    BY <1>1, <1>2, <2>1
<1>. QED
  BY <1>3, <1>4, <1>5, ClientsWriters

LEMMA NamesStay ==
    ASSUME IInv, NEW c \in Conns, Handle(c) \/ StepFails(c), NEW u \in Uids,
           clients[u] # None
    PROVE  clients'[u] # None /\ clients'[u].name = clients[u].name
<1>1. CASE AddNewClient(c)
  BY <1>1, ServerTyped DEF AddNewClient
<1>2. CASE ~AddNewClient(c)
  BY <1>2, NamesKept
<1>. QED
  BY <1>1, <1>2

-----------------------------------------------------------------------------
(* One step of the only thread.  Nobody else writes the table clients or    *)
(* the backup directory between two of its steps.                           *)

LEMMA OnlyThread ==
    ASSUME OneThread, NEW c \in Conns
    PROVE  Conns = {c}
BY DEF OneThread

LEMMA NothingDetached ==
    ASSUME SessionInv, OneThread, NEW c \in Conns, Handle(c) \/ StepFails(c)
    PROVE  detached' = {}
<1>1. detached = {}
  BY DEF SessionInv
<1>2. CASE DeleteFromBackup(c)
  BY <1>1, <1>2, OnlyThread DEF DeleteFromBackup, disk
<1>3. CASE OpenFile(c) \/ WriteFile(c) \/ UNCHANGED disk
  BY <1>1, <1>3 DEF OpenFile, WriteFile, disk
<1>4. CASE StepFails(c)
  BY <1>1, <1>4 DEF StepFails, disk
<1>. QED
  BY <1>2, <1>3, <1>4, DiskWriters

LEMMA NamesStayUnique ==
    ASSUME IInv, SessionInv, NEW c \in Conns, Handle(c) \/ StepFails(c)
    PROVE  UniqueUserNames'
<1>1. UniqueUserNames /\ UndisturbedOK(c) /\ clients \in [Uids -> ClientRow \cup {None}]
  BY ServerTyped DEF SessionInv
<1>2. CASE AddNewClient(c)
  <2>1. CASE UNCHANGED clients
    BY <1>1, <2>1 DEF UniqueUserNames
  <2>2. CASE clients' # clients
    <3>1. PICK u \in Uids :
              clients' = [clients EXCEPT ![u] =
                             [name |-> req[c].name, pub |-> Placeholder, aes |-> NoKey]]
      BY <1>2, <2>2 DEF AddNewClient
    <3>2. clients'[u].name = req[c].name /\ \A v \in Uids \ {u} : clients'[v] = clients[v]
      BY <1>1, <3>1
    <3>3. \A v \in Uids : clients[v] # None => clients[v].name # req[c].name
      BY <1>1, <1>2 DEF AddNewClient, UndisturbedOK, UsersNamed
    <3>. QED
      BY <1>1, <3>2, <3>3 DEF UniqueUserNames
  <2>. QED
    BY <2>1, <2>2
<1>3. CASE ~AddNewClient(c)
  BY <1>1, <1>3, NamesKept DEF UniqueUserNames
<1>. QED
  BY <1>2, <1>3

LEMMA StaysUndisturbed ==
    ASSUME IInv, SessionInv, NEW c \in Conns, Handle(c) \/ StepFails(c)
    PROVE  UndisturbedOK(c)'
<1>1. /\ detached = {} /\ UndisturbedOK(c)
      /\ pc \in [Conns -> Steps] /\ backup \in [Paths -> Content \cup {None}]
      /\ DOMAIN held = Conns /\ DOMAIN ans = Conns
      /\ req \in [Conns -> Request \cup {None}] /\ inbox \in [Conns -> Request \cup {None}]
  BY ServerTyped DEF SessionInv
<1>2. ASSUME pc'[c] = "add_new_client" PROVE UsersNamed(req[c].name)' = {}
  <2>1. FindUsername(c)
    BY <1>2, Arrivals
  <2>2. UsersNamed(req[c].name) = {} /\ UNCHANGED <<clients, req>>
    BY <1>1, <1>2, <2>1 DEF FindUsername, Goto, Answer, Prepare, tables
  <2>. QED
    BY <2>2 DEF UsersNamed
<1>3. ASSUME pc'[c] = "write_file" PROVE backup[Path(c)]' = Empty
  <2>1. OpenFile(c)
    BY <1>3, Arrivals
  <2>2. /\ req[c].file # None /\ backup' = [backup EXCEPT ![Path(c)] = Empty]
        /\ UNCHANGED <<clients, req>>
    BY <1>1, <1>3, <2>1 DEF OpenFile, Opened, Refuse, Answer, Prepare, Goto, tables
  <2>3. Path(c) \in Paths /\ Path(c)' = Path(c)
    BY <2>1, <2>2, UploaderOwnsPath DEF OpenFile, Path
  <2>. QED
    BY <1>1, <2>2, <2>3
<1>4. ASSUME pc'[c] = "add_new_file" PROVE held'[c] # None /\ backup[Path(c)]' = held'[c]
  <2>1. WriteFile(c)
    BY <1>4, Arrivals
  <2>2. PICK content \in Overwrite(backup[Path(c)], held[c]) :
            backup' = [backup EXCEPT ![Path(c)] = content]
    BY <1>1, <2>1 DEF WriteFile
  <2>3. UNCHANGED <<clients, req, held>> /\ backup[Path(c)] = Empty
    BY <1>1, <2>1 DEF WriteFile, Goto, tables, UndisturbedOK
  <2>4. content = held[c]
    BY <2>2, <2>3 DEF Overwrite
  <2>5. held[c] \in Bodies \cup {Garbled} /\ req[c].file # None
    BY <2>1, ValuesAssumption DEF WriteFile, IInv, HandlerOK
  <2>6. Path(c) \in Paths /\ Path(c)' = Path(c)
    BY <2>1, <2>3, <2>5, UploaderOwnsPath DEF WriteFile, Path
  <2>. QED
    BY <1>1, <2>2, <2>3, <2>4, <2>5, <2>6, ValuesAssumption
<1>5. ASSUME pc'[c] = "read_crc" PROVE held'[c] # None /\ backup[Path(c)]' = held'[c]
  <2>1. AddNewFile(c)
    BY <1>5, Arrivals
  <2>2. UNCHANGED <<clients, req, held, backup>> /\ pc[c] = "add_new_file"
    BY <2>1 DEF AddNewFile, Goto, disk
  <2>. QED
    BY <1>1, <2>2 DEF UndisturbedOK, Path
<1>6. ASSUME pc'[c] = "encrypt" PROVE ans'[c].code \notin {VALID_FILE_CRC, FILE_APPROVAL}
  <2>1. StoreAesKey(c)
    BY <1>6, Arrivals
  <2>. QED
    BY <1>1, <2>1, AnswerCodesOf DEF StoreAesKey, Prepare
<1>7. ASSUME pc'[c] = "update_verified" PROVE req'[c].code # EXIT_CRC
  <2>1. Dispatch(c)
    BY <1>7, Arrivals
  <2>. QED
    BY <1>1, <1>7, <2>1, FirstStepOf DEF Dispatch
<1>. QED
  BY <1>2, <1>3, <1>4, <1>5, <1>6, <1>7 DEF UndisturbedOK

LEMMA ChecksumStaysRight ==
    ASSUME IInv, SessionInv, OneThread, NEW c \in Conns, Handle(c) \/ StepFails(c)
    PROVE  ChecksumIsOfUpload'
<1>1. UndisturbedOK(c) /\ Conns = {c} /\ DOMAIN ans = Conns
  BY ServerTyped, OnlyThread DEF SessionInv
<1>2. ASSUME pc'[c] = "send_response", ans'[c].code = VALID_FILE_CRC
      PROVE  ans'[c].crc = held'[c] /\ backup[Path(c)]' = held'[c]
  <2>1. ReadCrc(c)
    <3>1. ReadCrc(c) \/ DeleteUnverified(c) \/ UpdateVerified(c) \/ EncryptKey(c)
      BY <1>2, Arrivals
    <3>2. ~DeleteUnverified(c) /\ ~UpdateVerified(c)
      BY <1>1, <1>2, AnswerCodesOf DEF DeleteUnverified, UpdateVerified, Answer, Prepare
    <3>3. ~EncryptKey(c)
      BY <1>1, <1>2 DEF EncryptKey, Goto, UndisturbedOK
    <3>. QED
      BY <3>1, <3>2, <3>3
  <2>2. /\ Answer(c, CrcReply(req[c].uid, backup[Path(c)])) /\ pc[c] = "read_crc"
        /\ UNCHANGED <<clients, backup>>
    BY <1>2, <2>1, ServerTyped DEF ReadCrc, EndThread, tables, disk
  <2>3. /\ ans'[c].crc = backup[Path(c)] /\ UNCHANGED <<req, held>>
    BY <1>1, <2>2, AnswerCodesOf DEF Answer, Prepare
  <2>. QED
    BY <1>1, <2>2, <2>3 DEF UndisturbedOK, Path
<1>. QED
  BY <1>1, <1>2 DEF ChecksumIsOfUpload

LEMMA AbortStaysWhole ==
    ASSUME IInv, SessionInv, OneThread, ~Faults, NEW c \in Conns, Handle(c) \/ StepFails(c)
    PROVE  AbortRemovesFile' /\ AbortOK(c)'
<1>1. /\ UndisturbedOK(c) /\ AbortOK(c) /\ Conns = {c} /\ DOMAIN ans = Conns
      /\ files \in [Uids -> FileRow \cup {None}] /\ None \notin FileRow
      /\ backup \in [Paths -> Content \cup {None}]
      /\ clients \in [Uids -> ClientRow \cup {None}]
  BY ServerTyped, OnlyThread, RowsAssumption DEF SessionInv
<1>2. ~StepFails(c)
  BY DEF StepFails
<1>3. ASSUME pc'[c] = "delete_unverified", Registered(req[c].uid)', req'[c].file # None
      PROVE  backup[Path(c)]' = None
  <2>1. DeleteFromBackup(c)
    BY <1>2, <1>3, Arrivals
  <2>2. /\ UNCHANGED <<clients, req>> /\ pc[c] = "delete_from_backup"
        /\ req[c] \in Request
    BY <2>1 DEF DeleteFromBackup, Goto, tables, IInv, HandlerOK
  <2>3. Registered(req[c].uid) /\ req[c].file # None /\ Path(c)' = Path(c)
    BY <1>3, <2>2 DEF Registered, Path
  <2>4. Path(c) \in Paths
    BY <1>1, <2>2, <2>3 DEF Path, Paths, Registered, ClientRow, Request
  <2>5. backup'[Path(c)] = None
    BY <1>1, <2>1, <2>3, <2>4 DEF DeleteFromBackup, disk
  <2>. QED
    BY <2>3, <2>5
<1>4. ASSUME pc'[c] = "send_response", req'[c] # None, req'[c].code = EXIT_CRC,
             ans'[c].code = FILE_APPROVAL, Registered(req[c].uid)', req'[c].file # None
      PROVE  /\ backup[Path(c)]' = None
             /\ files'[req'[c].uid] # None /\ files'[req'[c].uid].file = req'[c].file
                    => files'[req'[c].uid].verified
  <2>1. DeleteUnverified(c)
    <3>1. ReadCrc(c) \/ DeleteUnverified(c) \/ UpdateVerified(c) \/ EncryptKey(c)
      BY <1>4, Arrivals
    <3>2. ReadCrc(c) => ans'[c].code # FILE_APPROVAL \/ pc'[c] = "off"
      BY <1>1, ServerTyped, AnswerCodesOf DEF ReadCrc, Answer, Prepare, EndThread
    <3>3. ~EncryptKey(c) /\ ~UpdateVerified(c)
      BY <1>1, <1>4 DEF EncryptKey, UpdateVerified, Answer, Prepare, Goto, UndisturbedOK
    <3>. QED
      BY <1>4, <3>1, <3>2, <3>3
  <2>2. /\ UNCHANGED <<clients, req, backup>> /\ pc[c] = "delete_unverified"
    BY <2>1 DEF DeleteUnverified, Answer, Prepare, disk
  <2>3. Registered(req[c].uid) /\ req[c].file # None /\ Path(c)' = Path(c)
    BY <1>4, <2>2 DEF Registered, Path
  <2>4. backup[Path(c)]' = None
    BY <1>1, <2>2, <2>3 DEF AbortOK
  <2>5. \/ ~UnverifiedRow(req[c].uid, req[c].file) /\ UNCHANGED files
        \/ files'[req[c].uid] = None
    BY <1>1, <2>1, <2>3 DEF DeleteUnverified, Registered
  <2>. QED
    BY <2>2, <2>3, <2>4, <2>5 DEF UnverifiedRow, Registered
<1>. QED
  BY <1>1, <1>3, <1>4 DEF AbortRemovesFile, AbortOK

(* Only the first deletion of an abort takes a file away. *)
LEMMA CopiesStay ==
    ASSUME IInv, ~Faults, NEW c \in Conns, Handle(c), ~DeleteFromBackup(c),
           NEW p \in Paths, backup[p] # None
    PROVE  backup'[p] # None
<1>1. backup \in [Paths -> Content \cup {None}]
  BY ServerTyped
<1>2. CASE OpenFile(c)
  BY <1>1, <1>2, ValuesAssumption DEF OpenFile, Opened, disk
<1>3. CASE WriteFile(c)
  <2>1. held[c] # None
    BY <1>3, ValuesAssumption DEF WriteFile, IInv, HandlerOK
  <2>2. \A old : \A content \in Overwrite(old, held[c]) : content # None
    BY <2>1, ValuesAssumption DEF Overwrite
  <2>. QED
    BY <1>1, <1>3, <2>2 DEF WriteFile
<1>4. CASE UNCHANGED disk
  BY <1>4 DEF disk
<1>. QED
  BY <1>2, <1>3, <1>4, DiskWriters DEF StepFails

LEMMA UnverifiedStaysOK ==
    ASSUME IInv, SessionInv, OneThread, ~Faults, UnverifiedOK, NEW c \in Conns, Handle(c)
    PROVE  UnverifiedOK'
<1>1. /\ UndisturbedOK(c) /\ UniqueUserNames /\ Conns = {c}
      /\ files \in [Uids -> FileRow \cup {None}] /\ None \notin FileRow
      /\ backup \in [Paths -> Content \cup {None}]
      /\ clients \in [Uids -> ClientRow \cup {None}]
      /\ pc \in [Conns -> Steps]
  BY ServerTyped, OnlyThread, RowsAssumption DEF SessionInv
<1>. SUFFICES ASSUME NEW u \in Uids, files'[u] # None, ~files'[u].verified
              PROVE  \/ backup'[<<clients'[u].name, files'[u].file>>] # None
                     \/ /\ pc'[c] = "delete_unverified"
                        /\ req'[c].uid = u /\ req'[c].file = files'[u].file
  BY DEF UnverifiedOK
<1>2. CASE AddNewFile(c) /\ files[u] = None
  <2>1. u = req[c].uid /\ files'[u].file = req[c].file /\ UNCHANGED <<clients, backup>>
    BY <1>1, <1>2 DEF AddNewFile, InsertFile, NewFile, disk
  <2>2. backup[Path(c)] # None
    BY <1>1, <1>2 DEF AddNewFile, UndisturbedOK
  <2>. QED
    BY <2>1, <2>2 DEF Path
<1>3. CASE ~(AddNewFile(c) /\ files[u] = None)
  <2>1. files[u] # None /\ ~files[u].verified /\ files'[u].file = files[u].file
    <3>1. CASE AddNewFile(c)
      BY <1>1, <1>3, <3>1 DEF AddNewFile, InsertFile, NewFile
    <3>2. CASE UpdateVerified(c)
      <4>1. CASE files'[u] = files[u]
        BY <1>1, <4>1
      <4>2. CASE files'[u] # files[u]
        <5>1. files[u] \in FileRow /\ files'[u] = [files[u] EXCEPT !.verified = TRUE]
          BY <1>1, <3>2, <4>2 DEF UpdateVerified, Selected
        <5>2. files'[u].verified = TRUE
          BY <5>1 DEF FileRow
        <5>. QED
          BY <5>2
      <4>. QED
        BY <4>1, <4>2
    <3>3. CASE DeleteUnverified(c)
      BY <1>1, <3>3 DEF DeleteUnverified, UnverifiedRow
    <3>4. CASE UNCHANGED files
      BY <3>4
    <3>. QED
      BY <1>1, <3>1, <3>2, <3>3, <3>4, FilesWriters DEF Next, ServerNext
  <2>2. clients[u] # None /\ clients'[u].name = clients[u].name
    BY <2>1, NamesStay DEF IInv, NoFileBeforeKeyExchange
  <2>. DEFINE p == <<clients[u].name, files[u].file>>
  <2>3. p \in Paths
    BY <1>1, <2>1, <2>2 DEF Paths, ClientRow, FileRow
  <2>4. CASE backup[p] # None
    <3>1. CASE DeleteFromBackup(c)
      <4>1. /\ UNCHANGED <<clients, files, req>> /\ pc'[c] = "delete_unverified"
        BY <1>1, <3>1 DEF DeleteFromBackup, Goto, tables
      <4>2. CASE backup'[p] # None
        BY <2>1, <2>2, <4>2
      <4>3. CASE backup'[p] = None
        <5>1. Registered(req[c].uid) /\ Path(c) = p
          BY <1>1, <2>3, <2>4, <3>1, <4>3 DEF DeleteFromBackup, disk
        <5>2. req[c].uid = u /\ req[c].file = files[u].file
          BY <1>1, <2>2, <5>1 DEF Path, UniqueUserNames, Registered
        <5>. QED
          BY <4>1, <5>2
      <4>. QED
        BY <4>2, <4>3
    <3>2. CASE ~DeleteFromBackup(c)
      BY <2>1, <2>2, <2>3, <2>4, <3>2, CopiesStay
    <3>. QED
      BY <3>1, <3>2
  <2>5. CASE backup[p] = None
    <3>1. /\ pc[c] = "delete_unverified" /\ req[c].uid = u /\ req[c].file = files[u].file
      BY <1>1, <2>1, <2>5 DEF UnverifiedOK
    <3>2. DeleteUnverified(c)
      BY <3>1 DEF Handle, Accept, Dispatch, RejectVersion, DropUnknownCode, CloseConnection,
         SendResponse, FindUsername, AddNewClient, SetPublicKey, RecoverPublicKey, StoreAesKey,
         EncryptKey, DecryptFile, OpenFile, WriteFile, AddNewFile, ReadCrc, UpdateVerified,
         DeleteFromBackup
    <3>3. files'[u] = None
      BY <1>1, <2>1, <3>1, <3>2 DEF DeleteUnverified, UnverifiedRow
    <3>. QED
      BY <3>3
  <2>. QED
    BY <2>4, <2>5
<1>. QED
  BY <1>2, <1>3

-----------------------------------------------------------------------------
(* The invariant and what follows from it. *)

(* What the clients do is nothing to a thread. *)
LEMMA ServerUntouched ==
    ASSUME SessionInv, UNCHANGED server
    PROVE  SessionInv'
<1>1. UNCHANGED <<clients, files, backup, detached, pc, req, held, ans>>
  BY DEF server, tables, disk, thread
<1>2. detached' = {} /\ UniqueUserNames' /\ ChecksumIsOfUpload'
  BY <1>1 DEF SessionInv, UniqueUserNames, ChecksumIsOfUpload, Path
<1>3. \A c \in Conns : UndisturbedOK(c)'
  BY <1>1 DEF SessionInv, UndisturbedOK, UsersNamed, Path
<1>4. (~Faults => AbortRemovesFile /\ \A c \in Conns : AbortOK(c))'
  BY <1>1 DEF SessionInv, AbortRemovesFile, AbortOK, Registered, Path
<1>5. (~Faults /\ ~Crashes => UnverifiedOK)'
  BY <1>1 DEF SessionInv, UnverifiedOK
<1>. QED
  BY <1>2, <1>3, <1>4, <1>5 DEF SessionInv

LEMMA SessionStarts ==
    ASSUME Init
    PROVE  SessionInv
BY DEF Init, SessionInv, UniqueUserNames, ChecksumIsOfUpload, UndisturbedOK, AbortRemovesFile,
   AbortOK, UnverifiedOK

LEMMA SessionNextKeeps ==
    ASSUME OneThread, IInv, SessionInv, [Next]_vars
    PROVE  SessionInv'
<1>1. CASE UNCHANGED vars \/ ClientsNext
  <2>1. UNCHANGED server
    BY <1>1 DEF vars, server, ClientsNext, ClientConnects, ClientSends, ClientDiesSending,
       ClientReads, ClientLeaves
  <2>. QED
    BY <2>1, ServerUntouched
<1>2. CASE Crash
  <2>1. /\ UNCHANGED <<clients, files, backup>> /\ detached' = {} /\ Crashes
        /\ \A c \in Conns : pc'[c] = "off"
    BY <1>2 DEF Crash, tables
  <2>. QED
    BY <2>1 DEF SessionInv, UniqueUserNames, ChecksumIsOfUpload, UndisturbedOK,
       AbortRemovesFile, AbortOK
<1>3. ASSUME NEW c \in Conns, Handle(c) \/ StepFails(c)
      PROVE  SessionInv'
  <2>1. detached' = {} /\ UniqueUserNames' /\ ChecksumIsOfUpload' /\ UndisturbedOK(c)'
    BY <1>3, NothingDetached, NamesStayUnique, ChecksumStaysRight, StaysUndisturbed
  <2>2. ~Faults => AbortRemovesFile' /\ AbortOK(c)'
    BY <1>3, AbortStaysWhole
  <2>3. ~Faults /\ ~Crashes => UnverifiedOK'
    BY <1>3, UnverifiedStaysOK DEF SessionInv, StepFails
  <2>. QED
    BY <2>1, <2>2, <2>3, OnlyThread DEF SessionInv
<1>. QED
  BY <1>1, <1>2, <1>3 DEF Next, ServerNext

(* What a handler leaves for its own next query is there when it comes to   *)
(* it, whatever fails, as long as one client is connected at a time.        *)
THEOREM SessionInvariant ==
    ASSUME OneThread
    PROVE  Spec => []SessionInv
<1>1. Init => SessionInv
  BY SessionStarts
<1>2. IInv /\ SessionInv /\ [Next]_vars => SessionInv'
  BY SessionNextKeeps
<1>. QED
  BY <1>1, <1>2, ServerInvariant, PTL DEF Spec

(* No two users have one name: nobody registers between find_username and   *)
(* add_new_client_db (register_new_client).                                 *)
THEOREM NamesAreUnique ==
    ASSUME OneThread
    PROVE  Spec => []UniqueUserNames
<1>1. SessionInv => UniqueUserNames
  BY DEF SessionInv
<1>. QED
  BY <1>1, SessionInvariant, PTL

(* The checksum of a 1603 is that of what was decrypted, and that is what   *)
(* the backup directory holds (save_file, build_decrypted_file_payload).    *)
THEOREM ChecksumsAreOfUploads ==
    ASSUME OneThread
    PROVE  Spec => []ChecksumIsOfUpload
<1>1. SessionInv => ChecksumIsOfUpload
  BY DEF SessionInv
<1>. QED
  BY <1>1, SessionInvariant, PTL

(* When nothing raises, an abort that is confirmed has removed the file and *)
(* its unverified row (valid_or_abort, delete_from_backup).                 *)
THEOREM AbortsRemoveFiles ==
    ASSUME OneThread, ~Faults
    PROVE  Spec => []AbortRemovesFile
<1>1. SessionInv => AbortRemovesFile
  BY DEF SessionInv
<1>. QED
  BY <1>1, SessionInvariant, PTL

(* When nothing raises and the process does not die, every row that waits   *)
(* for its approval has its file (save_file, valid_or_abort).               *)
THEOREM RowsHaveFiles ==
    ASSUME OneThread, ~Faults, ~Crashes
    PROVE  Spec => []UnverifiedRowHasFile
<1>1. SessionInv => UnverifiedRowHasFile
  BY DEF SessionInv, UnverifiedOK, UnverifiedRowHasFile
<1>. QED
  BY <1>1, SessionInvariant, PTL
=============================================================================
