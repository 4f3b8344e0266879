--------------------------- MODULE OwnershipProofs ---------------------------
(***************************************************************************)
(* Proofs of what client and server agree on: first of whose uuid is       *)
(* whose, then of whose RSA key pair and whose AES key.                    *)
(*                                                                         *)
(* The uuids are those of any number of machines, runs and users, with     *)
(* kills, torn requests, faults and crashes.                               *)
(*                                                                         *)
(* OwnershipInv is inductive next to TransferInv.  A step of a thread can  *)
(* only use up the requests that wait (ThreadFrame), and gives a uuid away *)
(* only when it registers a new user (GrantStep); a step of a machine      *)
(* touches its own me.info and its own connection only (OwnStep).          *)
(***************************************************************************)
EXTENDS TransferInvariants, FileTransferProofs

USE DEF REGISTER, S_PUBLIC_KEY, RECONNECT, SEND_FILE, VALID_CRC, N_VALID_CRC, EXIT_CRC,
        INIT_REGISTRATION_SUCC, REGISTRATION_FAIL, IN_PUBLIC_KEY_OUT_AES, VALID_FILE_CRC,
        FILE_APPROVAL, RECCONECT_APPROVED, RECCONET_DENIED, GENERAL_ERROR, NoKey

-----------------------------------------------------------------------------
(* The requests that wait. *)

LEMMA PendingTyped ==
    ASSUME TransferInv, NEW c \in Conns, NEW r \in Pending(c)
    PROVE  r \in Request /\ r.uid \in Uids \cup {NoUid} /\ r.uid # None
<1>1. /\ inbox[c] \in Request \cup {None} /\ req[c] \in Request \cup {None}
      /\ HandledOK(c)
  BY WiresTyped DEF TransferInv
<1>2. r \in Request
  BY <1>1 DEF Pending, Idle, HandledOK
<1>. QED
  BY <1>2, ValuesAssumption DEF Request

LEMMA PendingShrinks ==
    ASSUME NEW c \in Conns, Outcome(c)
    PROVE  Pending(c)' \subseteq Pending(c) /\ (link'[c] = "open" => link[c] = "open")
<1>. USE DEF Pending, Idle
<1>1. CASE Comes(c)
  BY <1>1 DEF Comes, SameWires
<1>2. CASE Takes(c)
  BY <1>2 DEF Takes
<1>3. CASE Works(c)
  BY <1>3 DEF Works, SameWires
<1>4. CASE Sends(c)
  BY <1>4 DEF Sends
<1>5. CASE Leaves(c)
  BY <1>5 DEF Leaves
<1>. QED
  BY <1>1, <1>2, <1>3, <1>4, <1>5 DEF Outcome

(* What a step of the thread of c does to its connection, and to others.    *)
LEMMA ThreadFrame ==
    ASSUME TransferInv, NEW c \in Conns, Handle(c) \/ StepFails(c)
    PROVE  /\ Outcome(c) /\ HandledOK(c)
           /\ \A d \in Conns : /\ Pending(d)' \subseteq Pending(d)
                               /\ link'[d] = "open" => link[d] = "open"
           /\ \A d \in Conns \ {c} :
                 /\ link'[d] = link[d] /\ inbox'[d] = inbox[d] /\ outbox'[d] = outbox[d]
                 /\ pc'[d] = pc[d] /\ req'[d] = req[d] /\ held'[d] = held[d]
                 /\ ans'[d] = ans[d] /\ Pending(d)' = Pending(d)
<1>1. IInv /\ HandledOK(c)
  BY DEF TransferInv
<1>2. Outcome(c) /\ AloneOn(c) /\ Others(c)
  BY <1>1, HandleOutcome, FailureOutcome
<1>3. ASSUME NEW d \in Conns \ {c}
      PROVE  /\ link'[d] = link[d] /\ inbox'[d] = inbox[d] /\ outbox'[d] = outbox[d]
             /\ pc'[d] = pc[d] /\ req'[d] = req[d] /\ held'[d] = held[d] /\ ans'[d] = ans[d]
  BY <1>2 DEF AloneOn, SameWires, Others
<1>4. \A d \in Conns \ {c} : Pending(d)' = Pending(d)
  BY <1>3 DEF Pending, Idle
<1>. QED
  BY <1>1, <1>2, <1>3, <1>4, PendingShrinks

-----------------------------------------------------------------------------
(* Uuids are given away by add_new_client_db alone. *)

LEMMA NewRow ==
    ASSUME NEW c \in Conns, req[c] \in Request
    PROVE  [name |-> req[c].name, pub |-> Placeholder, aes |-> NoKey] # None
<1>1. req[c].name \in UserNames
  BY DEF Request
<1>2. [name |-> req[c].name, pub |-> Placeholder, aes |-> NoKey] \in ClientRow
  BY <1>1 DEF ClientRow
<1>. QED
  BY <1>2, RowsAssumption

LEMMA GrantsAreNew ==
    ASSUME TransferInv, NEW c \in Conns, Handle(c) \/ StepFails(c), NEW u \in Uids,
           pc'[c] = "send_response", Grants(ans'[c], u)
    PROVE  /\ AddNewClient(c) /\ req[c].code = REGISTER /\ clients[u] = None
           /\ clients'[u] # None /\ clients'[u].name = req[c].name
<1>1. /\ IInv /\ HandledOK(c) /\ Outcome(c)
      /\ pc \in [Conns -> Steps] /\ DOMAIN ans = Conns
      /\ clients \in [Uids -> ClientRow \cup {None}]
  BY ThreadFrame, ServerTyped DEF TransferInv
<1>2. /\ pc[c] \notin {"off", "handle_request"}
      /\ IsAnswer(req[c].code, ans'[c])
  <2>1. ~Takes(c)
    BY <1>1 DEF Takes
  <2>. QED
    BY <1>1, <2>1 DEF Outcome, Comes, Works, Sends, Leaves
<1>3. req[c].code = REGISTER
  BY <1>2 DEF IsAnswer, AnswerCodes, Grants
<1>4. pc[c] \in {"find_username", "add_new_client", "send_response"}
  BY <1>1, <1>2, <1>3, AtWork, StepsOfCode
<1>5. ~Refuse(c)
  BY <1>1, RefusalCode DEF Grants
<1>6. ~StepFails(c) /\ ~FindUsername(c) /\ ~SendResponse(c)
  BY <1>1, <1>4, <1>5, AnswerCodesOf
  DEF StepFails, FindUsername, SendResponse, Goto, Answer, Prepare, Grants
<1>7. AddNewClient(c)
  BY <1>4, <1>6 DEF Handle, Accept, Dispatch, RejectVersion, DropUnknownCode, CloseConnection,
     SetPublicKey, RecoverPublicKey, StoreAesKey, EncryptKey, DecryptFile, OpenFile,
     WriteFile, AddNewFile, ReadCrc, UpdateVerified, DeleteFromBackup, DeleteUnverified
<1>8. PICK v \in Uids :
          /\ clients[v] = None
          /\ clients' = [clients EXCEPT ![v] =
                             [name |-> req[c].name, pub |-> Placeholder, aes |-> NoKey]]
          /\ Answer(c, Reply(INIT_REGISTRATION_SUCC, v))
  BY <1>5, <1>7 DEF AddNewClient
<1>9. u = v
  <2>1. ans'[c] = Reply(INIT_REGISTRATION_SUCC, v)
    BY <1>1, <1>8 DEF Answer, Prepare
  <2>. QED
    BY <2>1 DEF Grants, Reply
<1>10. clients'[u] = [name |-> req[c].name, pub |-> Placeholder, aes |-> NoKey]
  BY <1>1, <1>8, <1>9
<1>11. clients'[u] # None
  BY <1>1, <1>2, <1>10, NewRow, AtWork
<1>. QED
  BY <1>3, <1>7, <1>8, <1>9, <1>10, <1>11

(* A machine that is given another uuid registers.                          *)
LEMMA GrantStep ==
    ASSUME TransferInv, NEW c \in Conns, Handle(c) \/ StepFails(c), UNCHANGED clientVars,
           NEW m \in Machines, NEW u \in Uids, u \in GivenTo(m)', u \notin GivenTo(m)
    PROVE  /\ c = Session(m) /\ link[c] = "open"
           /\ req[c] \in Pending(c) /\ req[c].code = REGISTER
           /\ clients[u] = None /\ clients'[u] # None /\ clients'[u].name = req[c].name
<1>. DEFINE s == Session(m)
<1>1. UNCHANGED <<meInfo, run, proc>> /\ s' = s
  BY DEF clientVars, local, Session
<1>2. /\ proc[m].phase = "await"
      /\ \/ Grants(outbox'[s], u)
         \/ link'[s] = "open" /\ pc'[s] = "send_response" /\ Grants(ans'[s], u)
  BY <1>1 DEF GivenTo
<1>3. s \in Conns
  BY <1>2, OwnExchange DEF Running
<1>. HIDE DEF s
<1>4. Outcome(c) /\ (link'[s] = "open" => link[s] = "open")
  BY <1>3, ThreadFrame
<1>5. s = c
  <2>1. ASSUME s # c
        PROVE  outbox'[s] = outbox[s] /\ pc'[s] = pc[s] /\ ans'[s] = ans[s]
    BY <1>3, <2>1, ThreadFrame
  <2>. QED
    BY <1>2, <1>4, <2>1 DEF GivenTo, s
<1>6. ~Grants(outbox'[s], u)
  <2>. SUFFICES ASSUME Grants(outbox'[s], u)
                PROVE  FALSE
    OBVIOUS
  <2>1. outbox'[s] = outbox[s] \/ (link[s] = "open" /\ pc[s] = "send_response" /\ outbox'[s] = ans[s])
        \/ outbox'[s] = None
    BY <1>4, <1>5 DEF Outcome, Comes, Takes, Works, Sends, Leaves, SameWires
  <2>. QED
    BY <1>2, <2>1 DEF GivenTo, s, Grants
<1>7. /\ AddNewClient(c) /\ req[c].code = REGISTER /\ clients[u] = None
      /\ clients'[u] # None /\ clients'[u].name = req[c].name
  BY <1>2, <1>5, <1>6, GrantsAreNew
<1>8. req[c] \in Pending(c)
  BY <1>7 DEF AddNewClient, Pending, Idle
<1>. QED
  BY <1>2, <1>4, <1>5, <1>6, <1>7, <1>8 DEF s

(* A step of a thread keeps every uuid with its machine: one that is given  *)
(* away is fresh, and goes to the machine whose user it is registered for.  *)
LEMMA ThreadKeepsOwnership ==
    ASSUME TransferInv, OwnershipInv, NEW c \in Conns, Handle(c) \/ StepFails(c),
           UNCHANGED clientVars
    PROVE  OwnershipInv'
<1>1. UNCHANGED <<meInfo, run, proc>>
  BY DEF clientVars, local
<1>2. \A d \in Conns : Pending(d)' \subseteq Pending(d) /\ (link'[d] = "open" => link[d] = "open")
  BY ThreadFrame
<1>3. \A d \in Conns : \A r \in Pending(d)' : SentByOwner(d, r)'
  BY <1>1, <1>2 DEF OwnershipInv, SentByOwner, MachineOf
<1>4. ASSUME NEW u \in Uids, Registered(u)
      PROVE  Registered(u)' /\ clients'[u].name = clients[u].name
  BY <1>4, NamesStay DEF TransferInv, Registered
<1>5. ASSUME NEW m \in Machines, NEW u \in Uids, u \in GivenTo(m)', u \notin GivenTo(m)
      PROVE  /\ c = Session(m) /\ clients[u] = None
             /\ Registered(u)' /\ clients'[u].name = Owner[m]
  <2>1. /\ c = Session(m) /\ link[c] = "open"
        /\ req[c] \in Pending(c) /\ req[c].code = REGISTER
        /\ clients[u] = None /\ clients'[u] # None /\ clients'[u].name = req[c].name
    BY <1>5, GrantStep
  <2>2. SentByOwner(c, req[c])
    BY <2>1 DEF OwnershipInv
  <2>3. MachineOf(c) = m
    BY <2>1 DEF MachineOf, Session
  <2>. QED
    BY <2>1, <2>2, <2>3 DEF SentByOwner, Registered
<1>6. ASSUME NEW m \in Machines, NEW u \in GivenTo(m)'
      PROVE  /\ Registered(u)' /\ clients'[u].name = Owner[m]
             /\ \A n \in Machines \ {m} : u \notin GivenTo(n)'
  <2>1. u \in Uids
    BY DEF GivenTo
  <2>2. CASE u \in GivenTo(m)
    <3>1. /\ Registered(u) /\ clients[u].name = Owner[m]
          /\ \A n \in Machines \ {m} : u \notin GivenTo(n)
      BY <2>2 DEF OwnershipInv
    <3>. QED
      BY <1>4, <1>5, <2>1, <3>1 DEF Registered
  <2>3. CASE u \notin GivenTo(m)
    <3>1. /\ c = Session(m) /\ clients[u] = None
          /\ Registered(u)' /\ clients'[u].name = Owner[m]
      BY <1>5, <2>1, <2>3
    <3>2. ASSUME NEW n \in Machines \ {m}, u \in GivenTo(n)' PROVE FALSE
      <4>1. u \notin GivenTo(n)
        BY <3>1 DEF OwnershipInv, Registered
      <4>2. c = Session(n)
        BY <1>5, <2>1, <3>2, <4>1
      <4>. QED
        BY <3>1, <4>2 DEF Session
    <3>. QED
      BY <3>1, <3>2
  <2>. QED
    BY <2>2, <2>3
<1>7. \A m \in Machines : proc'[m].id \in {NoUid, meInfo'[m]}
  BY <1>1 DEF OwnershipInv
<1>. QED
  BY <1>3, <1>6, <1>7 DEF OwnershipInv

(* After a crash nothing is pending, and no uuid is on its way any more     *)
(* that a thread had not sent.                                              *)
LEMMA CrashShrinks ==
    ASSUME TransferInv, Crash, UNCHANGED clientVars
    PROVE  /\ UNCHANGED <<meInfo, keyPriv, run, proc, outbox, clients>>
           /\ \A c \in Conns : Pending(c)' = {} /\ link'[c] # "open" /\ pc'[c] = "off"
           /\ \A m \in Machines : GivenTo(m)' \subseteq GivenTo(m)
<1>1. UNCHANGED <<meInfo, keyPriv, run, proc, outbox, clients>>
  BY DEF clientVars, local, Crash, tables
<1>2. \A c \in Conns : inbox'[c] = None /\ pc'[c] = "off" /\ link'[c] # "open"
  BY DEF Crash
<1>3. \A c \in Conns : Pending(c)' = {}
  BY <1>2 DEF Pending, Idle
<1>4. ASSUME NEW m \in Machines
      PROVE  GivenTo(m)' \subseteq GivenTo(m)
  <2>1. Session(m)' = Session(m)
    BY <1>1 DEF Session
  <2>2. proc[m].phase = "await" => pc'[Session(m)] # "send_response"
    BY <1>2, OwnExchange DEF Running
  <2>. QED
    BY <1>1, <2>1, <2>2 DEF GivenTo
<1>. QED
  BY <1>1, <1>2, <1>3, <1>4

LEMMA CrashKeepsOwnership ==
    ASSUME TransferInv, OwnershipInv, Crash, UNCHANGED clientVars
    PROVE  OwnershipInv'
BY CrashShrinks DEF OwnershipInv, Registered

-----------------------------------------------------------------------------
(* What a run sends. *)

LEMMA PacketFields ==
    /\ \A n : LET r == RegisterRequest(n) IN r.uid = NoUid /\ r.name = n /\ r.pub = None
    /\ \A u, k : LET r == PublicKeyRequest(u, k) IN r.uid = u /\ r.pub = k
    /\ \A u : LET r == SignInRequest(u) IN r.uid = u /\ r.pub = None
    /\ \A u, f, k, b : LET r == FileRequest(u, f, k, b)
                       IN r.uid = u /\ r.pub = None /\ r.file = f /\ r.key = k /\ r.body = b
    /\ \A code, u, f : LET r == CrcRequest(code, u, f) IN r.uid = u /\ r.pub = None /\ r.file = f
BY DEF RegisterRequest, PublicKeyRequest, SignInRequest, FileRequest, CrcRequest, Header

LEMMA RequestFields ==
    ASSUME NEW m \in Machines
    PROVE  LET r == RequestOf(m)
           IN /\ r.uid = SenderId(m)
              /\ proc[m].op = REGISTER => r.name = Owner[m]
              /\ r.pub \in {None, Session(m)}
<1>1. CASE proc[m].op = REGISTER
  BY <1>1, PacketFields DEF RequestOf, SenderId
<1>2. CASE proc[m].op = S_PUBLIC_KEY
  BY <1>2, PacketFields DEF RequestOf
<1>3. CASE proc[m].op = RECONNECT
  BY <1>3, PacketFields DEF RequestOf
<1>4. CASE proc[m].op = SEND_FILE
  BY <1>4, PacketFields DEF RequestOf
<1>5. CASE proc[m].op \notin {REGISTER, S_PUBLIC_KEY, RECONNECT, SEND_FILE}
  BY <1>5, PacketFields DEF RequestOf
<1>. QED
  BY <1>1, <1>2, <1>3, <1>4, <1>5

(* The header of a torn request is whole. *)
LEMMA TornFields ==
    ASSUME NEW r \in Request, NEW t \in Torn(r)
    PROVE  t.uid = r.uid /\ t.pub \in {r.pub, None}
<1>. DEFINE s == [r EXCEPT !.name = None, !.pub = None]
            u == [s EXCEPT !.file = None, !.body = None]
            v == [r EXCEPT !.body = Garbled]
<1>1. s \in Request
  BY Zenon DEF Request, UserNames
<1>2. s.uid = r.uid /\ s.pub = None /\ v.uid = r.uid /\ v.pub = r.pub
  BY DEF Request
<1>3. u = [r EXCEPT !.name = None, !.pub = None, !.file = None, !.body = None]
  OBVIOUS
<1>. HIDE DEF s
<1>4. u.uid = s.uid /\ u.pub = s.pub
  BY <1>1 DEF Request
<1>. HIDE DEF u, v
<1>5. t \in {u, v}
  BY <1>3, Zenon DEF Torn, v
<1>. QED
  BY <1>2, <1>4, <1>5

-----------------------------------------------------------------------------
(* A step of a machine touches what is its own. *)

MachineFrame(m) ==
    /\ UNCHANGED server
    /\ \A n \in Machines \ {m} : /\ meInfo'[n] = meInfo[n] /\ keyPriv'[n] = keyPriv[n]
                                 /\ run'[n] = run[n] /\ proc'[n] = proc[n]
    /\ \A d \in Conns \ {Session(m)'} : SameWires(d)

LEMMA FrameOfStep ==
    ASSUME TransferInv, NEW m \in Machines, MachineNext(m), UNCHANGED server
    PROVE  MachineFrame(m)
<1>1. /\ meInfo \in [Machines -> Uids \cup {None}]
      /\ keyPriv \in [Machines -> PubKeys \cup {None}]
      /\ run \in [Machines -> 0..MaxRuns] /\ proc \in [Machines -> Process]
      /\ link \in [Conns -> LinkStates] /\ inbox \in [Conns -> Request \cup {None}]
      /\ outbox \in [Conns -> Response \cup {None}]
  BY WiresTyped DEF TransferInv, ClientInv, ClientTypeOK
<1>2. /\ meInfo' = meInfo \/ \E x : meInfo' = [meInfo EXCEPT ![m] = x]
      /\ keyPriv' = keyPriv \/ \E x : keyPriv' = [keyPriv EXCEPT ![m] = x]
      /\ run' = run \/ Start(m)
      /\ \E q : Goes(m, q)
  BY DEF MachineNext, Runs, Start, SendRequest, BuildFails, ReceiveResponse, SaveKey, SaveInfo,
     ConnectionLost, PayloadLost, Exit, Kill, KillSending, Ends, local
<1>3. \A n \in Machines \ {m} : /\ meInfo'[n] = meInfo[n] /\ keyPriv'[n] = keyPriv[n]
                                /\ run'[n] = run[n] /\ proc'[n] = proc[n]
  BY <1>1, <1>2 DEF Start, Goes
<1>4. CASE Start(m)
  BY <1>1, <1>3, <1>4 DEF Start, Connect, Session, SameWires, MachineFrame
<1>5. CASE run' = run
  <2>1. \/ UNCHANGED wires
        \/ Submit(Session(m), RequestOf(m)) \/ SubmitTorn(Session(m), RequestOf(m))
        \/ Collect(Session(m)) \/ Hangup(Session(m))
        \/ Start(m)
    BY DEF MachineNext, Runs, SendRequest, BuildFails, ReceiveResponse, SaveKey,
       SaveInfo, ConnectionLost, PayloadLost, Exit, Kill, KillSending, Ends
  <2>2. Session(m)' = Session(m)
    BY <1>5 DEF Session
  <2>3. \A d \in Conns \ {Session(m)} : SameWires(d)
    <3>1. CASE UNCHANGED wires
      BY <3>1, SameWiresOf
    <3>2. CASE Submit(Session(m), RequestOf(m)) \/ Collect(Session(m))
      BY <1>1, <3>2 DEF Submit, Collect, SameWires
    <3>3. CASE SubmitTorn(Session(m), RequestOf(m))
      <4>1. PICK t \in Torn(RequestOf(m)) : inbox' = [inbox EXCEPT ![Session(m)] = t]
        BY <3>3 DEF SubmitTorn
      <4>. QED
        BY <1>1, <3>3, <4>1 DEF SubmitTorn, SameWires
    <3>4. CASE Hangup(Session(m))
      <4>1. PICK t : inbox' = [inbox EXCEPT ![Session(m)] = t]
        BY <3>4 DEF Hangup
      <4>. QED
        BY <1>1, <3>4, <4>1 DEF Hangup, SameWires
    <3>. QED
      BY <1>4, <2>1, <2>2, <3>1, <3>2, <3>3, <3>4 DEF MachineFrame
  <2>. QED
    BY <1>3, <2>2, <2>3 DEF MachineFrame
<1>. QED
  BY <1>2, <1>4, <1>5

(* What has to be looked at in a step of a machine: it keeps the uuids that *)
(* it has, is given none, and sends in its own name.                        *)
OwnStep(m) ==
    /\ MachineFrame(m)
    /\ meInfo'[m] = meInfo[m] \/ meInfo[m] = None
    /\ proc'[m].id \in {NoUid, meInfo'[m]}
    /\ GivenTo(m)' \subseteq GivenTo(m)
    /\ \A r \in Pending(Session(m))' : SentByOwner(Session(m), r)'

(* A run goes on with the uuid that it has. *)
LEMMA QuietIsOwn ==
    ASSUME TransferInv, OwnershipInv, NEW m \in Machines, MachineFrame(m), Running(m),
           UNCHANGED <<wires, meInfo, run>>, proc'[m].id = proc[m].id, GoesOn(proc'[m])
    PROVE  OwnStep(m)
<1>1. /\ Session(m)' = Session(m) /\ Session(m) \in Conns
      /\ UNCHANGED <<link, inbox, outbox, pc, req, ans>>
  BY OwnExchange DEF Session, wires, MachineFrame, server, thread
<1>2. GivenTo(m)' \subseteq GivenTo(m)
  BY <1>1 DEF GivenTo, GoesOn
<1>3. \A r \in Pending(Session(m))' : SentByOwner(Session(m), r)'
  BY <1>1 DEF Pending, Idle, OwnershipInv, SentByOwner
<1>4. proc'[m].id \in {NoUid, meInfo'[m]}
  BY DEF OwnershipInv
<1>. QED
  BY <1>2, <1>3, <1>4 DEF OwnStep

LEMMA StartIsOwn ==
    ASSUME TransferInv, OwnershipInv, NEW m \in Machines, Start(m), UNCHANGED server
    PROVE  OwnStep(m)
<1>. DEFINE c == <<m, run[m] + 1>>
<1>1. MachineFrame(m)
  BY FrameOfStep DEF MachineNext
<1>2. /\ run \in [Machines -> 0..MaxRuns] /\ proc \in [Machines -> Process]
      /\ meInfo' = meInfo /\ UNCHANGED <<inbox, pc, req>>
  BY DEF TransferInv, ClientInv, ClientTypeOK, Start, local, Connect, server, thread
<1>3. Session(m)' = c /\ proc'[m] = NewProcess
  BY <1>2 DEF Start, Session, Goes
<1>4. inbox[c] = None /\ pc[c] = "off"
  <2>1. run[m] + 1 \in (run[m] + 1)..MaxRuns
    BY <1>2, MachinesAssumption DEF Start
  <2>. QED
    BY <2>1 DEF TransferInv, UnusedOK
<1>5. NewProcess.phase = "send" /\ NewProcess.id = NoUid
  BY DEF NewProcess
<1>6. Pending(Session(m))' = {}
  BY <1>2, <1>3, <1>4 DEF Pending, Idle
<1>7. GivenTo(m)' \subseteq GivenTo(m)
  BY <1>2, <1>3, <1>5 DEF GivenTo
<1>. QED
  BY <1>1, <1>2, <1>3, <1>5, <1>6, <1>7 DEF OwnStep

LEMMA SendIsOwn ==
    ASSUME TransferInv, OwnershipInv, NEW m \in Machines, SendRequest(m), UNCHANGED server
    PROVE  OwnStep(m)
<1>. DEFINE c == Session(m)
<1>1. MachineFrame(m) /\ UNCHANGED <<meInfo, run, pc, req, ans, link, outbox>> /\ CanBuild(m)
      /\ proc[m].phase = "send" /\ Running(m)
  BY FrameOfStep DEF MachineNext, Runs, SendRequest, local, server, thread, Submit, Running
<1>2. /\ proc'[m].id = SenderId(m) /\ proc'[m].phase \in {"send", "await"}
      /\ inbox'[c] = RequestOf(m) /\ link[c] = "open"
  BY SendEffect DEF TransferInv
<1>3. /\ c \in Conns /\ ExchangeOK(c, proc[m]) /\ Session(m)' = c
  BY <1>1, <1>2, OwnExchange DEF Session
<1>4. outbox[c] = None /\ Idle(c)
  BY <1>1, <1>3 DEF ExchangeOK, Idle
<1>5. SenderId(m) \in {NoUid, meInfo[m]}
  BY DEF SenderId, OwnershipInv
<1>6. /\ RequestOf(m).uid = SenderId(m) /\ RequestOf(m).code = proc[m].op
      /\ proc[m].op = REGISTER => RequestOf(m).name = Owner[m]
  BY <1>1, RequestFields, RequestsBuilt DEF TransferInv
<1>7. Pending(c)' = {RequestOf(m)} \/ Pending(c)' = {}
  BY <1>1, <1>2, <1>3, <1>4 DEF Pending, Idle
<1>8. MachineOf(c) = m
  BY DEF MachineOf, Session
<1>9. \A r \in Pending(c)' : SentByOwner(c, r)'
  <2>1. SentByOwner(c, RequestOf(m))
    BY <1>5, <1>6, <1>8 DEF SentByOwner
  <2>2. \A r : SentByOwner(c, r)' <=> SentByOwner(c, r)
    BY <1>1, <1>3 DEF SentByOwner
  <2>. QED
    BY <1>7, <2>1, <2>2
<1>10. GivenTo(m)' \subseteq GivenTo(m)
  BY <1>1, <1>2, <1>3, <1>4 DEF GivenTo, Grants, Idle
<1>. QED
  BY <1>1, <1>2, <1>3, <1>5, <1>9, <1>10 DEF OwnStep

LEMMA ReceiveIsOwn ==
    ASSUME TransferInv, OwnershipInv, NEW m \in Machines, ReceiveResponse(m), UNCHANGED server
    PROVE  OwnStep(m)
<1>. DEFINE c == Session(m)
            a == outbox[c]
            q == proc'[m]
<1>1. /\ MachineFrame(m) /\ UNCHANGED <<meInfo, run, pc, req, ans, link, inbox>>
      /\ proc[m].phase = "await" /\ Running(m)
  <2>1. MachineFrame(m)
    BY FrameOfStep DEF MachineNext, Runs
  <2>2. proc[m].phase = "await" /\ Collect(Session(m)) /\ UNCHANGED <<local, run>>
    BY DEF ReceiveResponse
  <2>. QED
    BY <2>1, <2>2 DEF local, server, thread, Collect, Running, MachineFrame
<1>2. c \in Conns /\ Session(m)' = c /\ a # None
  BY <1>1, OwnExchange DEF Session, ReceiveResponse, Collect
<1>3. \/ /\ a.code = INIT_REGISTRATION_SUCC
         /\ q.phase = "saveKey" /\ q.last = a /\ q.id = proc[m].id
      \/ q.id = proc[m].id /\ GoesOn(q)
  <2>1. CASE \E h \in Process : q = Throw(h) /\ h.id = proc[m].id
    BY <2>1, ThrowFlow DEF SameMemory
  <2>2. CASE \E h : Hears(m, h) /\ q = AfterReply(h)
    <3>1. PICK h : Hears(m, h) /\ q = AfterReply(h)
      BY <2>2
    <3>2. /\ h \in Process /\ InPlace(h) /\ IsAnswer(h.op, h.last) /\ h.id = proc[m].id
      BY <3>1, ReceiveEffect DEF Hears, TransferInv
    <3>. QED
      BY <3>1, <3>2, AfterReplyFlow DEF Returns, Continues, SameMemory, GoesOn
  <2>. QED
    BY <2>1, <2>2, ReceiveEffect DEF TransferInv
<1>4. GivenTo(m)' \subseteq GivenTo(m)
  <2>1. CASE q.phase = "saveKey" /\ q.last = a /\ a.code = INIT_REGISTRATION_SUCC
    BY <1>1, <1>2, <2>1 DEF GivenTo, Grants
  <2>2. CASE GoesOn(q)
    BY <1>1, <2>2 DEF GivenTo, GoesOn
  <2>. QED
    BY <1>3, <2>1, <2>2
<1>5. \A r \in Pending(Session(m))' : SentByOwner(Session(m), r)'
  BY <1>1, <1>2 DEF Pending, Idle, OwnershipInv, SentByOwner
<1>6. proc'[m].id \in {NoUid, meInfo'[m]}
  BY <1>1, <1>3 DEF OwnershipInv
<1>. QED
  BY <1>1, <1>4, <1>5, <1>6 DEF OwnStep

LEMMA SaveKeyIsOwn ==
    ASSUME TransferInv, OwnershipInv, NEW m \in Machines, SaveKey(m), UNCHANGED server
    PROVE  OwnStep(m)
<1>1. /\ MachineFrame(m) /\ UNCHANGED <<meInfo, run, pc, req, ans, link, inbox, outbox, wires>>
      /\ proc[m].phase = "saveKey" /\ Running(m) /\ proc[m] \in Process
  BY FrameOfStep, SessionInUse
  DEF MachineNext, Runs, SaveKey, server, thread, wires, Running, TransferInv
<1>2. CASE GoesOn(proc'[m]) /\ proc'[m].id = proc[m].id
  BY <1>1, <1>2, QuietIsOwn
<1>3. CASE proc'[m].phase = "saveInfo" /\ SameMemory(proc'[m], proc[m])
  <2>1. Session(m) \in Conns /\ Session(m)' = Session(m)
    BY <1>1, OwnExchange DEF Session
  <2>2. GivenTo(m)' \subseteq GivenTo(m)
    BY <1>1, <1>3 DEF GivenTo, SameMemory
  <2>3. \A r \in Pending(Session(m))' : SentByOwner(Session(m), r)'
    BY <1>1, <2>1 DEF Pending, Idle, OwnershipInv, SentByOwner
  <2>4. proc'[m].id \in {NoUid, meInfo'[m]}
    BY <1>1, <1>3 DEF OwnershipInv, SameMemory
  <2>. QED
    BY <1>1, <2>2, <2>3, <2>4 DEF OwnStep
<1>. QED
  BY <1>1, <1>2, <1>3, SaveKeyEffect, ThrowFlow DEF TransferInv, SameMemory

LEMMA SaveInfoIsOwn ==
    ASSUME TransferInv, OwnershipInv, NEW m \in Machines, SaveInfo(m), UNCHANGED server
    PROVE  OwnStep(m)
<1>1. /\ MachineFrame(m) /\ UNCHANGED <<run, pc, req, ans, link, inbox, outbox, wires>>
      /\ proc[m].phase = "saveInfo" /\ Running(m) /\ proc[m] \in Process
  BY FrameOfStep, SessionInUse
  DEF MachineNext, Runs, SaveInfo, server, thread, wires, Running, TransferInv
<1>2. CASE UNCHANGED meInfo /\ proc'[m] = Throw(proc[m])
  BY <1>1, <1>2, ThrowFlow, QuietIsOwn DEF SameMemory
<1>3. CASE ~(UNCHANGED meInfo /\ proc'[m] = Throw(proc[m]))
  <2>1. /\ meInfo[m] = None /\ meInfo'[m] = proc[m].last.uid /\ proc[m].last.uid \in Uids
        /\ \E h \in Process : proc'[m] = Return(h) /\ h.id = proc[m].last.uid
    BY <1>3, SaveInfoEffect DEF TransferInv
  <2>2. proc'[m].id = meInfo'[m] /\ GoesOn(proc'[m])
    BY <2>1, ReturnFlow DEF Returns, SameMemory
  <2>3. Session(m) \in Conns /\ Session(m)' = Session(m)
    BY <1>1, OwnExchange DEF Session
  <2>4. GivenTo(m)' \subseteq GivenTo(m)
    BY <1>1, <2>1, <2>2 DEF GivenTo, GoesOn
  <2>5. \A r \in Pending(Session(m))' : SentByOwner(Session(m), r)'
    <3>1. MachineOf(Session(m)) = m
      BY DEF MachineOf, Session
    <3>2. ASSUME NEW r \in Pending(Session(m)) PROVE r.uid = NoUid /\ SentByOwner(Session(m), r)
      BY <2>1, <2>3, <3>1, PendingTyped DEF OwnershipInv, SentByOwner
    <3>3. Pending(Session(m))' = Pending(Session(m))
      BY <1>1, <2>3 DEF Pending, Idle
    <3>. QED
      BY <1>1, <2>3, <3>2, <3>3 DEF SentByOwner
  <2>. QED
    BY <1>1, <2>1, <2>2, <2>4, <2>5 DEF OwnStep
<1>. QED
  BY <1>2, <1>3

LEMMA EndIsOwn ==
    ASSUME TransferInv, OwnershipInv, NEW m \in Machines, UNCHANGED server,
           PayloadLost(m) \/ Exit(m) \/ Kill(m)
    PROVE  OwnStep(m)
<1>. DEFINE c == Session(m)
<1>1. Running(m) /\ MachineFrame(m) /\ UNCHANGED <<pc, req, ans>>
  BY FrameOfStep DEF PayloadLost, Exit, Kill, Running, MachineNext, Runs, server, thread
<1>2. PICK how \in {"off", "terminated"} : Ends(m, how)
  BY DEF PayloadLost, Exit, Kill
<1>3. /\ Hangup(c) /\ UNCHANGED <<run, meInfo>>
      /\ proc'[m].phase = how /\ proc'[m].id = NoUid
  <2>1. LET q == [NoProcess EXCEPT !.phase = how] IN q.phase = how /\ q.id = NoUid
    BY DEF NoProcess, NewProcess
  <2>. QED
    BY <1>2, <2>1 DEF Ends, Goes, local, TransferInv, ClientInv, ClientTypeOK
<1>4. c \in Conns /\ Session(m)' = c /\ link'[c] # "open" /\ inbox'[c] \in {inbox[c], None}
  <2>1. c \in Conns /\ Session(m)' = c
    BY <1>1, <1>3, OwnExchange DEF Session
  <2>. QED
    BY <1>3, <2>1, WiresTyped DEF Hangup, TransferInv
<1>5. GivenTo(m)' \subseteq GivenTo(m)
  BY <1>3 DEF GivenTo
<1>6. Pending(c)' \subseteq Pending(c)
  BY <1>1, <1>4 DEF Pending, Idle
<1>7. \A r \in Pending(Session(m))' : SentByOwner(Session(m), r)'
  BY <1>3, <1>4, <1>6 DEF OwnershipInv, SentByOwner
<1>. QED
  BY <1>1, <1>3, <1>5, <1>7 DEF OwnStep

LEMMA KillSendingIsOwn ==
    ASSUME TransferInv, OwnershipInv, NEW m \in Machines, KillSending(m), UNCHANGED server
    PROVE  OwnStep(m)
<1>. DEFINE c == Session(m)
<1>1. /\ Running(m) /\ MachineFrame(m) /\ UNCHANGED <<pc, req, ans, run, meInfo>>
      /\ proc[m].phase = "send" /\ CanBuild(m)
  BY FrameOfStep DEF KillSending, Running, MachineNext, server, thread, local
<1>2. SubmitTorn(c, RequestOf(m)) /\ Goes(m, NoProcess)
  BY DEF KillSending
<1>3. proc'[m].phase = "off" /\ proc'[m].id = NoUid
  <2>1. NoProcess.phase = "off" /\ NoProcess.id = NoUid
    BY DEF NoProcess, NewProcess
  <2>. QED
    BY <1>2, <2>1 DEF Goes, TransferInv, ClientInv, ClientTypeOK
<1>4. /\ c \in Conns /\ Session(m)' = c /\ ExchangeOK(c, proc[m]) /\ link[c] = "open"
  BY <1>1, <1>2, OwnExchange DEF Session, SubmitTorn
<1>5. PICK t \in Torn(RequestOf(m)) : inbox' = [inbox EXCEPT ![c] = t]
  BY <1>2 DEF SubmitTorn
<1>6. inbox'[c] = t /\ link'[c] = "shut"
  BY <1>2, <1>4, <1>5, WiresTyped DEF SubmitTorn, TransferInv
<1>7. RequestOf(m) \in Request /\ t.uid = SenderId(m)
  BY <1>1, RequestType, RequestFields, TornFields DEF TransferInv
<1>8. GivenTo(m)' \subseteq GivenTo(m)
  BY <1>1, <1>3 DEF GivenTo
<1>9. SenderId(m) \in {NoUid, meInfo[m]}
  BY DEF SenderId, OwnershipInv
<1>10. MachineOf(c) = m
  BY DEF MachineOf, Session
<1>11. Pending(c)' \subseteq {t}
  BY <1>1, <1>4, <1>6 DEF Pending, Idle, ExchangeOK
<1>12. \A r \in Pending(Session(m))' : SentByOwner(Session(m), r)'
  BY <1>1, <1>4, <1>6, <1>7, <1>9, <1>10, <1>11 DEF SentByOwner
<1>. QED
  BY <1>1, <1>3, <1>8, <1>12 DEF OwnStep

LEMMA MachineIsOwn ==
    ASSUME TransferInv, OwnershipInv, NEW m \in Machines, MachineNext(m), UNCHANGED server
    PROVE  OwnStep(m)
<1>1. MachineFrame(m)
  BY FrameOfStep
<1>2. CASE BuildFails(m) \/ ConnectionLost(m)
  <2>1. /\ Running(m) /\ UNCHANGED <<wires, meInfo, run>> /\ Goes(m, Throw(proc[m]))
        /\ proc \in [Machines -> Process]
    BY <1>2 DEF BuildFails, ConnectionLost, Running, local, TransferInv, ClientInv, ClientTypeOK
  <2>2. proc'[m] = Throw(proc[m])
    BY <2>1 DEF Goes
  <2>. QED
    BY <1>1, <2>1, <2>2, ThrowFlow, QuietIsOwn DEF SameMemory
<1>. QED
  BY <1>1, <1>2, StartIsOwn, SendIsOwn, ReceiveIsOwn, SaveKeyIsOwn, SaveInfoIsOwn, EndIsOwn,
     KillSendingIsOwn
  DEF MachineNext, Runs

LEMMA MachineShrinks ==
    ASSUME TransferInv, NEW m \in Machines, OwnStep(m)
    PROVE  /\ \A n \in Machines : GivenTo(n)' \subseteq GivenTo(n)
           /\ \A c \in Conns : c # Session(m)' => Pending(c)' = Pending(c)
<1>1. UNCHANGED <<clients, pc, req, ans>>
  BY DEF OwnStep, MachineFrame, server, thread, tables
<1>2. ASSUME NEW c \in Conns, c # Session(m)'
      PROVE  Pending(c)' = Pending(c)
  BY <1>1, <1>2 DEF OwnStep, MachineFrame, SameWires, Pending, Idle
<1>3. ASSUME NEW n \in Machines
      PROVE  GivenTo(n)' \subseteq GivenTo(n)
  <2>1. CASE n = m
    BY <2>1 DEF OwnStep
  <2>2. CASE n # m
    <3>1. meInfo'[n] = meInfo[n] /\ proc'[n] = proc[n] /\ Session(n)' = Session(n)
      BY <2>2 DEF OwnStep, MachineFrame, Session
    <3>2. proc[n].phase = "await" => SameWires(Session(n))
      <4>1. Session(n) # Session(m)'
        BY <2>2 DEF Session
      <4>2. proc[n].phase = "await" => Session(n) \in Conns
        BY OwnExchange DEF Running
      <4>. QED
        BY <4>1, <4>2 DEF OwnStep, MachineFrame
    <3>. QED
      BY <1>1, <3>1, <3>2 DEF GivenTo, SameWires
  <2>. QED
    BY <2>1, <2>2
<1>. QED
  BY <1>2, <1>3

LEMMA MachineKeepsOwnership ==
    ASSUME TransferInv, OwnershipInv, NEW m \in Machines, OwnStep(m)
    PROVE  OwnershipInv'
<1>1. /\ UNCHANGED <<clients, pc, req, ans>>
      /\ Conns = Sessions
      /\ \A c \in Conns : MachineOf(c) \in Machines
  BY MachinesAssumption DEF OwnStep, MachineFrame, server, thread, tables, Sessions, MachineOf
<1>2. ASSUME NEW c \in Conns, NEW r \in Pending(c)'
      PROVE  SentByOwner(c, r)'
  <2>1. CASE c = Session(m)'
    BY <2>1 DEF OwnStep
  <2>2. CASE c # Session(m)'
    <3>1. link'[c] = link[c] /\ r \in Pending(c)
      BY <2>2, MachineShrinks DEF OwnStep, MachineFrame, SameWires
    <3>2. SentByOwner(c, r) /\ r.uid # None
      BY <3>1, PendingTyped DEF OwnershipInv
    <3>3. meInfo'[MachineOf(c)] = meInfo[MachineOf(c)] \/ meInfo[MachineOf(c)] = None
      BY <1>1 DEF OwnStep, MachineFrame
    <3>. QED
      BY <3>1, <3>2, <3>3 DEF SentByOwner
  <2>. QED
    BY <2>1, <2>2
<1>3. \A n \in Machines : proc'[n].id \in {NoUid, meInfo'[n]}
  BY DEF OwnershipInv, OwnStep, MachineFrame
<1>. QED
  BY <1>1, <1>2, <1>3, MachineShrinks DEF OwnershipInv, Registered

-----------------------------------------------------------------------------
(* The theorems about uuids. *)

LEMMA OwnershipNextKeeps ==
    ASSUME TransferInv, OwnershipInv, [TransferNext]_transferVars
    PROVE  OwnershipInv'
<1>1. ASSUME NEW m \in Machines, MachineStep(m)
      PROVE  OwnershipInv'
  BY <1>1, MachineIsOwn, MachineKeepsOwnership DEF MachineStep
<1>2. CASE ServerStep
  BY <1>2, ThreadKeepsOwnership, CrashKeepsOwnership DEF ServerStep, ServerNext
<1>3. CASE UNCHANGED transferVars
  <2>1. UNCHANGED <<meInfo, run, proc, clients, link, inbox, outbox, pc, req, ans>>
    BY <1>3 DEF transferVars, vars, clientVars, local, wires, tables, thread
  <2>. QED
    BY <2>1 DEF OwnershipInv, GivenTo, SentByOwner, Pending, Idle, Registered, Grants, Session
<1>. QED
  BY <1>1, <1>2, <1>3 DEF TransferNext

LEMMA OwnershipStarts ==
    ASSUME TransferInit
    PROVE  OwnershipInv
<1>1. \A c \in Conns : Pending(c) = {}
  BY DEF TransferInit, Init, WiresInit, Pending, Idle
<1>2. NoProcess.phase = "off" /\ NoProcess.id = NoUid
  BY DEF NoProcess, NewProcess
<1>3. \A m \in Machines : GivenTo(m) = {}
  BY <1>2, ValuesAssumption DEF TransferInit, ClientInit, GivenTo
<1>. QED
  BY <1>1, <1>2, <1>3 DEF TransferInit, ClientInit, OwnershipInv

(* Every uuid that is on its way to a machine or saved there is registered  *)
(* for the user of that machine and is no other machine's, and no request   *)
(* speaks for another machine (handle_registration, createNewClientFile).   *)
THEOREM UuidsHaveOneOwner ==
    ASSUME ClientRequests(Nat) \subseteq Traffic, Kills => TornRequests
    PROVE  TransferSpec => []OwnershipInv
<1>1. TransferInit => OwnershipInv
  BY OwnershipStarts
<1>2. TransferInv /\ OwnershipInv /\ [TransferNext]_transferVars => OwnershipInv'
  BY OwnershipNextKeeps
<1>. QED
  BY <1>1, <1>2, TransferInvariant, PTL DEF TransferSpec

(* What me.info says is true of the database, whoever registers at the same *)
(* time and whatever is killed or crashes (register_new_client, saveToFile).*)
THEOREM MeInfoIsTrue ==
    ASSUME ClientRequests(Nat) \subseteq Traffic, Kills => TornRequests
    PROVE  TransferSpec => []MeInfoIsRegistered
<1>1. TransferInv /\ OwnershipInv => MeInfoIsRegistered
  <2>. SUFFICES ASSUME TransferInv, OwnershipInv, NEW m \in Machines, meInfo[m] # None
                PROVE  /\ Registered(meInfo[m])
                       /\ clients[meInfo[m]].name = Owner[m]
                       /\ \A n \in Machines \ {m} : meInfo[n] # meInfo[m]
    BY DEF MeInfoIsRegistered
  <2>1. meInfo[m] \in Uids
    BY DEF TransferInv, ClientInv, ClientTypeOK
  <2>2. \A n \in Machines : meInfo[n] = meInfo[m] => meInfo[m] \in GivenTo(n)
    BY <2>1 DEF GivenTo
  <2>. QED
    BY <2>2 DEF OwnershipInv
<1>. QED
  BY <1>1, UuidsHaveOneOwner, TransferInvariant, PTL

-----------------------------------------------------------------------------
(***************************************************************************)
(* Proofs of whose RSA key pair is whose, for any number of machines, runs *)
(* and users, with kills, torn requests, faults and crashes, as long as    *)
(* the programs can read and write their local files: with a key.priv that *)
(* was saved and a me.info that was not, a later run would publish a key   *)
(* pair that nobody has saved.                                             *)
(*                                                                         *)
(* PairInv is inductive next to TransferInv and OwnershipInv.  The server  *)
(* writes a public key only for the machine that sent it (PubWriters), and *)
(* answers with what it has read back (ThreadHandlesOwnPair).              *)
(***************************************************************************)

(* A request that publishes a key publishes that in key.priv of machine m.  *)
PublishesPair(m, r) ==
    r.code = S_PUBLIC_KEY /\ r.uid # NoUid /\ r.pub # None => r.pub = keyPriv[m]

-----------------------------------------------------------------------------
(* The public keys in the table clients. *)

LEMMA PubWriters ==
    ASSUME IInv, NEW c \in Conns, Handle(c) \/ StepFails(c), NEW u \in Uids,
           clients[u] # None
    PROVE  \/ clients'[u].pub = clients[u].pub
           \/ /\ SetPublicKey(c) /\ req[c].uid = u /\ req[c].pub # None
              /\ clients'[u].pub = req[c].pub
<1>1. /\ clients \in [Uids -> ClientRow \cup {None}] /\ clients[u] \in ClientRow
      /\ keyCount \in Nat
  BY ServerTyped DEF IInv, TypeOK
<1>2. ASSUME NEW row \in ClientRow
      PROVE  /\ \A x : [row EXCEPT !.pub = x].pub = x
             /\ \A x : [row EXCEPT !.aes = x].pub = row.pub
  BY DEF ClientRow
<1>3. CASE AddNewClient(c)
  BY <1>1, <1>3 DEF AddNewClient
<1>4. CASE SetPublicKey(c) /\ clients' # clients
  <2>1. /\ clients' = [clients EXCEPT ![req[c].uid].pub = req[c].pub]
        /\ req[c].pub # None
    BY <1>4 DEF SetPublicKey
  <2>. QED
    BY <1>1, <1>2, <1>4, <2>1
<1>5. CASE StoreAesKey(c)
  <2>1. clients' = [clients EXCEPT ![req[c].uid].aes = keyCount + 1]
    BY <1>5 DEF StoreAesKey
  <2>. QED
    BY <1>1, <1>2, <2>1
<1>. QED
  BY <1>3, <1>4, <1>5, ClientsWriters

(* A user that is new has no public key yet. *)
LEMMA NewUserHasNoKey ==
    ASSUME IInv, NEW c \in Conns, Handle(c) \/ StepFails(c), NEW u \in Uids,
           clients[u] = None, clients'[u] # None
    PROVE  clients'[u].pub = Placeholder
<1>1. AddNewClient(c)
  BY NamesKept
<1>2. clients \in [Uids -> ClientRow \cup {None}]
  BY ServerTyped
<1>3. PICK v \in Uids :
          clients' = [clients EXCEPT ![v] =
                          [name |-> req[c].name, pub |-> Placeholder, aes |-> NoKey]]
  BY <1>1 DEF AddNewClient
<1>4. clients'[u] = [name |-> req[c].name, pub |-> Placeholder, aes |-> NoKey]
  BY <1>2, <1>3
<1>. QED
  BY <1>4

(* The public key that is written is in key.priv of the machine whose uuid  *)
(* it is written for.                                                       *)
LEMMA OwnPairIsPublished ==
    ASSUME TransferInv, OwnershipInv, PairInv, NEW c \in Conns, SetPublicKey(c),
           req[c].uid \in Uids, req[c].pub # None
    PROVE  /\ req[c].uid = meInfo[MachineOf(c)] /\ MachineOf(c) \in Machines
           /\ req[c].pub = keyPriv[MachineOf(c)]
<1>1. req[c] \in Pending(c) /\ pc[c] = "set_public_key"
  BY DEF SetPublicKey, Pending, Idle
<1>2. req[c].code = S_PUBLIC_KEY
  BY <1>1, AtWork, StepsOfCode DEF TransferInv, RequestCodes
<1>3. MachineOf(c) \in Machines
  BY MachinesAssumption DEF MachineOf, Sessions
<1>4. req[c].uid # NoUid
  BY ValuesAssumption
<1>. QED
  BY <1>1, <1>2, <1>3, <1>4 DEF OwnershipInv, SentByOwner, PairInv, HandlesOwnPair

(* So the key of a user changes only if the uuid is in me.info, and then to *)
(* the one in key.priv.                                                     *)
LEMMA PubStays ==
    ASSUME TransferInv, OwnershipInv, PairInv, NEW c \in Conns, Handle(c) \/ StepFails(c),
           NEW m \in Machines, NEW u \in GivenTo(m)
    PROVE  /\ clients[u] # None
           /\ \/ clients'[u].pub = clients[u].pub
              \/ u = meInfo[m] /\ clients'[u].pub = keyPriv[m]
<1>1. u \in Uids /\ clients[u] # None
  BY DEF OwnershipInv, GivenTo, Registered
<1>2. CASE clients'[u].pub # clients[u].pub
  <2>1. SetPublicKey(c) /\ req[c].uid = u /\ clients'[u].pub = req[c].pub /\ req[c].pub # None
    BY <1>1, <1>2, PubWriters DEF TransferInv
  <2>2. u = meInfo[MachineOf(c)] /\ MachineOf(c) \in Machines /\ req[c].pub = keyPriv[MachineOf(c)]
    BY <1>1, <2>1, OwnPairIsPublished
  <2>3. u \in GivenTo(MachineOf(c))
    BY <1>1, <2>2 DEF GivenTo
  <2>4. MachineOf(c) = m
    BY <2>2, <2>3 DEF OwnershipInv
  <2>. QED
    BY <1>1, <2>1, <2>2, <2>4
<1>. QED
  BY <1>1, <1>2

-----------------------------------------------------------------------------
(* What the thread has in hand. *)

LEMMA KeyArrivals ==
    ASSUME IInv, NEW c \in Conns, HandledOK(c), Handle(c) \/ StepFails(c),
           pc[c] \notin {"off", "handle_request"}
    PROVE  /\ pc'[c] = "store_aes_key" => RecoverPublicKey(c)
           /\ pc'[c] \in {"encrypt", "send_response"} =>
                 \/ StoreAesKey(c)
                 \/ pc[c] = "encrypt" /\ ans'[c] = ans[c]
                 \/ /\ ~GivesKey(ans'[c])
                    /\ req[c].code = RECONNECT => ans'[c].code # GENERAL_ERROR
<1>. DEFINE Plain == \/ pc'[c] \notin {"store_aes_key", "encrypt", "send_response"}
                     \/ /\ pc'[c] = "send_response" /\ ~GivesKey(ans'[c])
                        /\ req[c].code = RECONNECT => ans'[c].code # GENERAL_ERROR
<1>1. pc \in [Conns -> Steps] /\ DOMAIN ans = Conns /\ DOMAIN held = Conns
  BY ServerTyped
<1>2. Refuse(c) => Plain
  <2>1. Refuse(c) => /\ pc'[c] = "send_response"
                     /\ ans'[c] = IF req[c].code = RECONNECT
                                  THEN Reply(RECCONET_DENIED, req[c].uid) ELSE ErrorReply
    BY <1>1 DEF Refuse, Answer, Prepare
  <2>. QED
    BY <2>1, AnswerCodesOf DEF GivesKey
<1>3. EndThread(c) => Plain
  BY <1>1 DEF EndThread
<1>4. ASSUME NEW a, Answer(c, a),
             a.code \notin {IN_PUBLIC_KEY_OUT_AES, RECCONECT_APPROVED, GENERAL_ERROR}
      PROVE  Plain
  BY <1>1, <1>4 DEF Answer, Prepare, GivesKey
<1>5. ASSUME NEW step, Goto(c, step), step \notin {"store_aes_key", "encrypt", "send_response"}
      PROVE  Plain
  BY <1>1, <1>5 DEF Goto
<1>6. SendResponse(c) => Plain
  BY <1>1 DEF SendResponse
<1>7. EncryptKey(c) => pc'[c] = "send_response" /\ pc[c] = "encrypt" /\ ans'[c] = ans[c]
  BY <1>1 DEF EncryptKey, Goto
<1>8. StoreAesKey(c) => pc'[c] = "encrypt"
  BY <1>1 DEF StoreAesKey, Prepare
<1>9. DecryptFile(c) => Plain
  BY <1>1, <1>2 DEF DecryptFile, Hold
<1>. HIDE DEF Plain
<1>10. FindUsername(c) \/ AddNewClient(c) \/ SetPublicKey(c) => Plain
  BY <1>2, <1>4, <1>5, AnswerCodesOf DEF FindUsername, AddNewClient, SetPublicKey
<1>11. OpenFile(c) \/ WriteFile(c) \/ AddNewFile(c) \/ DeleteFromBackup(c) => Plain
  BY <1>2, <1>5 DEF OpenFile, WriteFile, AddNewFile, DeleteFromBackup
<1>12. ReadCrc(c) \/ UpdateVerified(c) \/ DeleteUnverified(c) => Plain
  BY <1>3, <1>4, AnswerCodesOf DEF ReadCrc, UpdateVerified, DeleteUnverified
<1>13. StepFails(c) => Plain
  BY <1>2, <1>3, <1>5 DEF StepFails
<1>14. RecoverPublicKey(c) => Plain \/ pc'[c] = "store_aes_key"
  BY <1>1, <1>2 DEF RecoverPublicKey, Hold
<1>15. Handle(c) \/ StepFails(c) => Plain \/ RecoverPublicKey(c) \/ StoreAesKey(c) \/ EncryptKey(c)
  BY <1>6, <1>9, <1>10, <1>11, <1>12, <1>13
  DEF Handle, Accept, Dispatch, RejectVersion, DropUnknownCode, CloseConnection
<1>16. Plain => /\ pc'[c] # "store_aes_key"
                /\ pc'[c] \in {"encrypt", "send_response"} =>
                       /\ ~GivesKey(ans'[c])
                       /\ req[c].code = RECONNECT => ans'[c].code # GENERAL_ERROR
  BY DEF Plain
<1>. QED
  BY <1>7, <1>8, <1>14, <1>15, <1>16

(* A thread that is on its way to an answer was at work on that request.    *)
LEMMA StaysAtWork ==
    ASSUME TransferInv, NEW c \in Conns, Handle(c) \/ StepFails(c),
           pc'[c] \in {"store_aes_key", "encrypt", "send_response"}
    PROVE  /\ pc[c] \notin {"off", "handle_request"} /\ req'[c] = req[c]
           /\ req[c] \in Pending(c)
<1>0. IInv /\ HandledOK(c) /\ Outcome(c)
  BY ThreadFrame DEF TransferInv
<1>1. CASE Takes(c)
  <2>1. inbox[c].code \in RequestCodes /\ pc'[c] \in StepsFor[inbox[c].code]
        /\ pc'[c] \in {"store_aes_key"} /\ inbox[c].code # N_VALID_CRC
    BY <1>0, <1>1 DEF Takes, HandledOK
  <2>2. pc[c] = "handle_request" /\ inbox[c] # None /\ inbox[c].version = VERSION
    BY <1>0, <1>1 DEF Takes, HandledOK
  <2>3. Dispatch(c)
    BY <2>1, <2>2
    DEF Handle, StepFails, Accept, RejectVersion, DropUnknownCode, CloseConnection,
        SendResponse, FindUsername, AddNewClient, SetPublicKey, RecoverPublicKey,
        StoreAesKey, EncryptKey, DecryptFile, OpenFile, WriteFile, AddNewFile, ReadCrc,
        UpdateVerified, DeleteFromBackup, DeleteUnverified
  <2>4. pc'[c] = FirstStep[inbox[c].code]
    BY <1>0, <2>3, ServerTyped DEF Dispatch
  <2>. QED
    BY <2>1, <2>4, FirstStepOf
<1>2. CASE Works(c)
  BY <1>2 DEF Works, Pending, Idle
<1>. QED
  BY <1>0, <1>1, <1>2 DEF Outcome, Comes, Sends, Leaves

LEMMA ThreadHandlesOwnPair ==
    ASSUME TransferInv, OwnershipInv, PairInv, NEW c \in Conns, Handle(c) \/ StepFails(c),
           UNCHANGED clientVars
    PROVE  HandlesOwnPair(c)'
<1>. DEFINE m == MachineOf(c)
<1>1. /\ IInv /\ HandledOK(c) /\ Outcome(c) /\ HandlesOwnPair(c)
      /\ UNCHANGED keyPriv /\ Pending(c)' \subseteq Pending(c)
      /\ m \in Machines
  BY ThreadFrame, MachinesAssumption
  DEF TransferInv, clientVars, local, PairInv, MachineOf, Sessions
<1>2. ASSUME pc'[c] \in {"store_aes_key", "encrypt", "send_response"}
      PROVE  /\ pc[c] \notin {"off", "handle_request"} /\ req'[c] = req[c]
             /\ req[c] \in Pending(c)
  BY <1>2, StaysAtWork
<1>3. ASSUME pc'[c] = "store_aes_key"
      PROVE  held'[c] = keyPriv[m]
  <2>1. RecoverPublicKey(c)
    BY <1>1, <1>2, <1>3, KeyArrivals
  <2>. DEFINE u == req[c].uid
  <2>2. HasPublicKey(u) /\ held'[c] = clients[u].pub
    BY <1>1, <1>3, <2>1, RefusalCode, ServerTyped DEF RecoverPublicKey, Hold
  <2>3. u = meInfo[m] /\ u # None
    BY <1>1, <1>2, <1>3, <2>2, ValuesAssumption
    DEF OwnershipInv, SentByOwner, HasPublicKey, Registered
  <2>. QED
    BY <1>1, <2>2, <2>3 DEF PairInv, PublishedKeyMatches, HasPublicKey
<1>4. ASSUME pc'[c] \in {"encrypt", "send_response"}
      PROVE  MeantFor(m, req[c].code, ans'[c])
  <2>1. CASE StoreAesKey(c)
    <3>1. /\ ans'[c].pub = held[c] /\ ans'[c].code # GENERAL_ERROR
          /\ pc[c] = "store_aes_key"
      BY <1>1, <2>1, ServerTyped DEF StoreAesKey, Prepare, KeyReply, Reply
    <3>. QED
      BY <1>1, <3>1 DEF HandlesOwnPair, MeantFor
  <2>2. CASE pc[c] = "encrypt" /\ ans'[c] = ans[c]
    BY <1>1, <2>2 DEF HandlesOwnPair
  <2>3. CASE ~GivesKey(ans'[c]) /\ (req[c].code = RECONNECT => ans'[c].code # GENERAL_ERROR)
    BY <2>3 DEF MeantFor
  <2>. QED
    BY <1>1, <1>2, <1>4, <2>1, <2>2, <2>3, KeyArrivals
<1>5. \A code, a : MeantFor(m, code, a)' <=> MeantFor(m, code, a)
  BY <1>1 DEF MeantFor, GivesKey
<1>6. pc'[c] \in {"encrypt", "send_response"} => MeantFor(m, req[c].code, ans[c])'
  BY <1>1, <1>2, <1>4 DEF MeantFor, GivesKey
<1>. QED
  BY <1>1, <1>3, <1>6 DEF HandlesOwnPair

-----------------------------------------------------------------------------
(* A step of the server. *)

LEMMA ThreadKeepsPairs ==
    ASSUME TransferInv, OwnershipInv, PairInv, NEW c \in Conns, Handle(c) \/ StepFails(c),
           UNCHANGED clientVars
    PROVE  PairInv'
<1>1. UNCHANGED <<meInfo, keyPriv, run, proc>> /\ IInv
  BY DEF clientVars, local, TransferInv
<1>2. /\ Outcome(c) /\ HandledOK(c)
      /\ \A d \in Conns : link'[d] = "open" => link[d] = "open"
      /\ \A d \in Conns \ {c} :
            /\ link'[d] = link[d] /\ outbox'[d] = outbox[d] /\ pc'[d] = pc[d]
            /\ req'[d] = req[d] /\ held'[d] = held[d] /\ ans'[d] = ans[d]
            /\ Pending(d)' = Pending(d)
  BY ThreadFrame
<1>3. ASSUME NEW m \in Machines
      PROVE  SavesOwnPair(m)'
  <2>1. ASSUME NEW u \in GivenTo(m)', u # meInfo[m]
        PROVE  clients'[u].pub = Placeholder
    <3>1. CASE u \in GivenTo(m)
      <4>1. clients[u].pub = Placeholder
        BY <2>1, <3>1 DEF PairInv, SavesOwnPair
      <4>. QED
        BY <2>1, <3>1, <4>1, PubStays
    <3>2. CASE u \notin GivenTo(m)
      <4>1. u \in Uids
        BY DEF GivenTo
      <4>2. clients[u] = None /\ clients'[u] # None
        BY <3>2, <4>1, GrantStep
      <4>. QED
        BY <1>1, <4>1, <4>2, NewUserHasNoKey
    <3>. QED
      BY <3>1, <3>2
  <2>2. /\ meInfo[m] # None => keyPriv[m] # None
        /\ proc[m].phase = "saveInfo" => keyPriv[m] = Session(m)
    BY DEF PairInv, SavesOwnPair
  <2>3. Session(m)' = Session(m)
    BY <1>1 DEF Session
  <2>. QED
    BY <1>1, <2>1, <2>2, <2>3 DEF SavesOwnPair
<1>4. ASSUME NEW m \in Machines
      PROVE  SignedInOK(m)' /\ PublishesSavedKey(m)'
  <2>1. SignedInOK(m) /\ PublishesSavedKey(m) /\ Session(m)' = Session(m)
    BY <1>1 DEF PairInv, Session
  <2>2. Running(m) => (link'[Session(m)] = "open" => link[Session(m)] = "open")
    BY <1>2, OwnExchange
  <2>. QED
    BY <1>1, <2>1, <2>2 DEF SignedInOK, PublishesSavedKey, Running
<1>5. ASSUME NEW m \in Machines, proc[m].phase = "await"
      PROVE  MeantFor(m, proc[m].op, outbox[Session(m)])'
  <2>. DEFINE s == Session(m)
  <2>1. s \in Conns /\ s' = s /\ MeantFor(m, proc[m].op, outbox[s])
    BY <1>1, <1>5, OwnExchange DEF PairInv, Running, Session
  <2>2. CASE outbox'[s] = outbox[s] \/ outbox'[s] = None
    BY <1>1, <2>1, <2>2 DEF MeantFor, GivesKey
  <2>3. CASE s = c /\ Sends(c) /\ link[c] = "open"
    <3>1. outbox'[c] = ans[c] /\ pc[c] = "send_response"
      BY <2>3 DEF Sends
    <3>2. req[c].code = proc[m].op
      BY <1>5, <2>3, <3>1, OwnExchange DEF ExchangeOK, Running
    <3>3. MachineOf(c) = m
      BY <2>3 DEF MachineOf, Session
    <3>4. MeantFor(m, proc[m].op, ans[c])
      BY <3>1, <3>2, <3>3 DEF PairInv, HandlesOwnPair
    <3>. QED
      BY <1>1, <2>1, <2>3, <3>1, <3>4 DEF MeantFor, GivesKey
  <2>4. CASE s = c /\ ~(Sends(c) /\ link[c] = "open")
    <3>1. outbox'[s] = outbox[s] \/ outbox'[s] = None
      BY <1>2, <2>4 DEF Outcome, Comes, Takes, Works, Sends, Leaves, SameWires
    <3>. QED
      BY <2>2, <3>1
  <2>. QED
    BY <1>2, <2>1, <2>2, <2>3, <2>4
<1>6. ASSUME NEW d \in Conns
      PROVE  HandlesOwnPair(d)'
  <2>1. CASE d = c
    BY <2>1, ThreadHandlesOwnPair
  <2>2. CASE d # c
    BY <1>1, <1>2, <2>2 DEF PairInv, HandlesOwnPair, MeantFor, GivesKey
  <2>. QED
    BY <2>1, <2>2
<1>7. PublishedKeyMatches'
  <2>1. ASSUME NEW m \in Machines, meInfo[m] # None
        PROVE  clients'[meInfo[m]].pub \in {Placeholder, keyPriv[m]}
    <3>1. meInfo[m] \in GivenTo(m)
      BY <2>1 DEF GivenTo, TransferInv, ClientInv, ClientTypeOK
    <3>2. clients[meInfo[m]].pub \in {Placeholder, keyPriv[m]}
      BY <2>1 DEF PairInv, PublishedKeyMatches
    <3>. QED
      BY <3>1, <3>2, PubStays
  <2>. QED
    BY <1>1, <2>1 DEF PublishedKeyMatches
<1>. QED
  BY <1>1, <1>3, <1>4, <1>5, <1>6, <1>7 DEF PairInv

LEMMA CrashKeepsPairs ==
    ASSUME TransferInv, PairInv, Crash, UNCHANGED clientVars
    PROVE  PairInv'
<1>1. /\ UNCHANGED <<meInfo, keyPriv, run, proc, outbox, clients>>
      /\ \A c \in Conns : Pending(c)' = {} /\ link'[c] # "open" /\ pc'[c] = "off"
      /\ \A m \in Machines : GivenTo(m)' \subseteq GivenTo(m)
  BY CrashShrinks
<1>2. ASSUME NEW m \in Machines
      PROVE  SavesOwnPair(m)' /\ SignedInOK(m)' /\ PublishesSavedKey(m)'
  <2>1. Running(m) => link'[Session(m)] # "open"
    BY <1>1, OwnExchange
  <2>. QED
    BY <1>1, <2>1 DEF PairInv, SavesOwnPair, SignedInOK, PublishesSavedKey, Running, Session
<1>3. ASSUME NEW m \in Machines, proc[m].phase = "await"
      PROVE  MeantFor(m, proc[m].op, outbox[Session(m)])'
  BY <1>1, <1>3 DEF PairInv, MeantFor, GivesKey, Session
<1>4. \A c \in Conns : HandlesOwnPair(c)'
  BY <1>1 DEF HandlesOwnPair
<1>5. PublishedKeyMatches'
  BY <1>1 DEF PairInv, PublishedKeyMatches
<1>. QED
  BY <1>1, <1>2, <1>3, <1>4, <1>5 DEF PairInv

-----------------------------------------------------------------------------
(* A step of a machine. *)

(* Only the second upload is one of a client that is signed in: it uploads  *)
(* without an exchange of keys (uploadFile).                                *)
LEMMA SignedInStays ==
    ASSUME TransferInv, NEW m \in Machines, SignedInOK(m), MachineNext(m)
    PROVE  SignedInOK(m)'
<1>. DEFINE p == proc[m]
            q == proc'[m]
<1>1. ClientInv /\ p \in Process /\ proc \in [Machines -> Process]
  BY DEF TransferInv, ClientInv, ClientTypeOK
<1>2. CASE q.registered = FALSE
  BY <1>2 DEF SignedInOK
<1>3. CASE /\ q.at = p.at /\ q.registered = p.registered
           /\ q.op \in {p.op, SEND_FILE}
  BY <1>3 DEF SignedInOK
<1>4. CASE \E h \in Process : /\ h.at = p.at /\ h.op = p.op /\ h.registered = p.registered
                              /\ Returns(h, q)
  BY <1>4 DEF SignedInOK, Returns, SameMemory
<1>5. CASE \E h \in Process : /\ h.at = p.at /\ h.op = p.op /\ h.registered = p.registered
                              /\ q = Throw(h)
  <2>1. PICK h \in Process : /\ h.at = p.at /\ h.op = p.op /\ h.registered = p.registered
                             /\ q = Throw(h)
    BY <1>5
  <2>. QED
    BY <1>3, <1>4, <2>1, ThrowFlow DEF SameMemory
<1>6. CASE \E h : Hears(m, h) /\ q = AfterReply(h) /\ IsAnswer(p.op, h.last)
  <2>1. PICK h : Hears(m, h) /\ q = AfterReply(h) /\ IsAnswer(p.op, h.last)
    BY <1>6
  <2>2. /\ h \in Process /\ InPlace(h) /\ h.at = p.at /\ h.op = p.op
        /\ h.registered = p.registered /\ IsAnswer(h.op, h.last)
    BY <2>1 DEF Hears
  <2>3. CASE Returns(h, q)
    BY <1>4, <2>2, <2>3
  <2>4. CASE Continues(h, q)
    BY <2>2, <2>4 DEF Continues, SameMemory, SignedInOK
  <2>5. CASE h.at = "signIn" /\ SameMemory(q, h)
    BY <2>2, <2>5 DEF SameMemory, SignedInOK
  <2>6. CASE \E r \in Process : r.registered /\ r.at = h.at /\ h.at = "signIn" /\ Returns(r, q)
    <3>1. q.at = "upload2" /\ q.op = SEND_FILE
      BY <2>6 DEF Returns
    <3>. QED
      BY <3>1 DEF SignedInOK
  <2>. QED
    BY <2>1, <2>2, <2>3, <2>4, <2>5, <2>6, AfterReplyFlow
<1>7. CASE ReceiveResponse(m)
  <2>1. \/ q.at = p.at /\ q.op = p.op /\ q.registered = p.registered
        \/ \E h \in Process : /\ h.at = p.at /\ h.op = p.op /\ h.registered = p.registered
                              /\ q = Throw(h)
        \/ \E h : Hears(m, h) /\ q = AfterReply(h) /\ IsAnswer(p.op, h.last)
    BY <1>1, <1>7, ReceiveEffect DEF Hears
  <2>. QED
    BY <1>3, <1>5, <1>6, <2>1
<1>8. CASE SendRequest(m)
  BY <1>1, <1>3, <1>8, SendEffect
<1>9. CASE BuildFails(m) \/ ConnectionLost(m)
  BY <1>1, <1>5, <1>9 DEF BuildFails, ConnectionLost, Goes
<1>10. CASE SaveKey(m)
  BY <1>1, <1>3, <1>5, <1>10, SaveKeyEffect DEF SameMemory
<1>11. CASE SaveInfo(m)
  <2>1. \/ q = Throw(p)
        \/ \E h \in Process : /\ h.at = p.at /\ h.op = p.op /\ h.registered = p.registered
                              /\ q = Return(h)
    BY <1>1, <1>11, SaveInfoEffect
  <2>. QED
    BY <1>1, <1>4, <1>5, <2>1, ReturnFlow
<1>12. CASE Start(m) \/ PayloadLost(m) \/ Exit(m) \/ Kill(m) \/ KillSending(m)
  <2>1. q = NewProcess \/ q = NoProcess \/ \E how : q = [NoProcess EXCEPT !.phase = how]
    BY <1>1, <1>12 DEF Start, PayloadLost, Exit, Kill, KillSending, Ends, Goes
  <2>2. /\ NewProcess.registered = FALSE /\ NoProcess.registered = FALSE
        /\ \A how : [NoProcess EXCEPT !.phase = how].registered = FALSE
    BY DEF NewProcess, NoProcess
  <2>. QED
    BY <1>2, <2>1, <2>2
<1>. QED
  BY <1>7, <1>8, <1>9, <1>10, <1>11, <1>12 DEF MachineNext, Runs

(* What has to be looked at: where the program is then, and what it sends.  *)
PairStep(m) ==
    /\ OwnStep(m)
    /\ keyPriv'[m] = keyPriv[m] \/ keyPriv[m] = None
    /\ meInfo'[m] # None => keyPriv'[m] # None
    /\ proc'[m].phase = "saveInfo" => keyPriv'[m] = Session(m)'
    /\ PublishesSavedKey(m)'
    /\ proc'[m].phase = "await" => outbox'[Session(m)'] = None
    /\ \A r \in Pending(Session(m))' : PublishesPair(m, r)

(* While there is no key.priv, nothing is under way that depends on it.     *)
LEMMA NoPairNoKey ==
    ASSUME TransferInv, PairInv, NEW c \in Conns, keyPriv[MachineOf(c)] = None
    PROVE  /\ pc[c] # "store_aes_key"
           /\ pc[c] \in {"encrypt", "send_response"} => ~GivesKey(ans[c])
<1>1. IInv /\ HandledOK(c) /\ HandlesOwnPair(c) /\ None \notin PubKeys
  BY ValuesAssumption DEF TransferInv, PairInv
<1>2. pc[c] # "store_aes_key"
  BY <1>1 DEF IInv, HandlerOK, HandlesOwnPair
<1>3. pc[c] \in {"encrypt", "send_response"} => ~GivesKey(ans[c])
  BY <1>1 DEF HandledOK, IsAnswer, HandlesOwnPair, MeantFor, GivesKey
<1>. QED
  BY <1>2, <1>3

LEMMA MachineKeepsPairs ==
    ASSUME TransferInv, OwnershipInv, PairInv, NEW m \in Machines, PairStep(m),
           meInfo'[m] \in Uids \cup {None}, SignedInOK(m)'
    PROVE  PairInv'
<1>1. /\ UNCHANGED <<clients, pc, req, held, ans>> /\ Conns = Sessions
      /\ \A c \in Conns : MachineOf(c) \in Machines
      /\ \A n \in Machines \ {m} : /\ meInfo'[n] = meInfo[n] /\ keyPriv'[n] = keyPriv[n]
                                   /\ run'[n] = run[n] /\ proc'[n] = proc[n]
      /\ \A d \in Conns : d # Session(m)' => SameWires(d)
  BY MachinesAssumption
  DEF PairStep, OwnStep, MachineFrame, server, thread, tables, Sessions, MachineOf
<1>2. /\ \A n \in Machines : GivenTo(n)' \subseteq GivenTo(n)
      /\ \A c \in Conns : c # Session(m)' => Pending(c)' = Pending(c)
  BY MachineShrinks DEF PairStep
<1>3. ASSUME NEW n \in Machines
      PROVE  SavesOwnPair(n)'
  <2>1. \A u \in GivenTo(n) \ {meInfo[n]} : clients[u].pub = Placeholder
    BY DEF PairInv, SavesOwnPair
  <2>2. CASE n = m
    <3>1. ASSUME NEW u \in GivenTo(m)', u # meInfo'[m]
          PROVE  clients[u].pub = Placeholder
      <4>1. u \in GivenTo(m) /\ u # None
        BY <1>2, ValuesAssumption DEF GivenTo
      <4>2. u # meInfo[m]
        BY <3>1, <4>1 DEF PairStep, OwnStep
      <4>. QED
        BY <2>1, <2>2, <4>1, <4>2
    <3>. QED
      BY <1>1, <2>2, <3>1 DEF SavesOwnPair, PairStep
  <2>3. CASE n # m
    BY <1>1, <1>2, <2>1, <2>3 DEF SavesOwnPair, PairInv, Session
  <2>. QED
    BY <2>2, <2>3
<1>4. ASSUME NEW n \in Machines \ {m}
      PROVE  /\ SignedInOK(n)' /\ PublishesSavedKey(n)'
             /\ proc'[n].phase = "await" => MeantFor(n, proc[n].op, outbox[Session(n)])'
  <2>1. SignedInOK(n) /\ PublishesSavedKey(n)
        /\ (proc[n].phase = "await" => MeantFor(n, proc[n].op, outbox[Session(n)]))
    BY DEF PairInv
  <2>2. Session(n)' = Session(n) /\ Session(n) # Session(m)'
    BY <1>1 DEF Session
  <2>3. Running(n) => SameWires(Session(n))
    BY <1>1, <2>2, OwnExchange
  <2>. QED
    BY <1>1, <2>1, <2>2, <2>3
    DEF SignedInOK, PublishesSavedKey, Running, SameWires, MeantFor, GivesKey
<1>5. proc'[m].phase = "await" => MeantFor(m, proc[m].op, outbox[Session(m)])'
  BY DEF PairStep, MeantFor, GivesKey
<1>6. ASSUME NEW c \in Conns
      PROVE  HandlesOwnPair(c)'
  <2>. DEFINE n == MachineOf(c)
  <2>1. HandlesOwnPair(c) /\ n \in Machines
    BY <1>1 DEF PairInv
  <2>2. keyPriv'[n] = keyPriv[n] \/ keyPriv[n] = None
    BY <1>1, <2>1 DEF PairStep
  <2>3. ASSUME NEW r \in Pending(c)'
        PROVE  PublishesPair(n, r)
    <3>1. CASE c = Session(m)'
      <4>1. n = m
        BY <3>1 DEF MachineOf, Session
      <4>. QED
        BY <3>1, <4>1 DEF PairStep
    <3>2. CASE c # Session(m)'
      BY <1>2, <2>1, <3>2 DEF HandlesOwnPair, PublishesPair
    <3>. QED
      BY <3>1, <3>2
  <2>4. CASE keyPriv'[n] = keyPriv[n]
    BY <1>1, <2>1, <2>3, <2>4 DEF HandlesOwnPair, PublishesPair, MeantFor, GivesKey
  <2>5. CASE keyPriv[n] = None
    <3>1. /\ pc[c] # "store_aes_key"
          /\ pc[c] \in {"encrypt", "send_response"} => ~GivesKey(ans[c])
      BY <2>5, NoPairNoKey
    <3>2. pc[c] \in {"encrypt", "send_response"} => MeantFor(n, req[c].code, ans[c])'
      BY <1>1, <2>1, <3>1 DEF HandlesOwnPair, MeantFor, GivesKey
    <3>. QED
      BY <1>1, <2>3, <2>5, <3>1, <3>2 DEF HandlesOwnPair, PublishesPair
  <2>. QED
    BY <2>2, <2>4, <2>5
<1>7. PublishedKeyMatches'
  <2>1. ASSUME NEW n \in Machines, meInfo'[n] # None
        PROVE  clients[meInfo'[n]].pub \in {Placeholder, keyPriv'[n]}
    <3>1. CASE meInfo'[n] = meInfo[n]
      <4>1. keyPriv'[n] = keyPriv[n]
        BY <1>1, <2>1, <3>1 DEF PairStep, PairInv, SavesOwnPair
      <4>. QED
        BY <2>1, <3>1, <4>1 DEF PairInv, PublishedKeyMatches
    <3>2. CASE meInfo'[n] # meInfo[n]
      <4>1. n = m /\ meInfo'[m] \in GivenTo(m)'
        BY <1>1, <2>1, <3>2 DEF GivenTo
      <4>2. meInfo'[m] \in GivenTo(m) \ {meInfo[m]}
        BY <1>2, <3>2, <4>1
      <4>. QED
        BY <4>1, <4>2 DEF PairInv, SavesOwnPair
    <3>. QED
      BY <3>1, <3>2
  <2>. QED
    BY <1>1, <2>1 DEF PublishedKeyMatches
<1>. QED
  BY <1>3, <1>4, <1>5, <1>6, <1>7 DEF PairInv, PairStep

(* A run that goes on and has neither sent nor saved anything.              *)
LEMMA QuietKeepsPairs ==
    ASSUME TransferInv, PairInv, NEW m \in Machines, OwnStep(m), Running(m),
           UNCHANGED <<link, inbox, local, run>>, GoesOn(proc'[m]), PublishesSavedKey(m)'
    PROVE  PairStep(m)
<1>1. /\ Session(m)' = Session(m) /\ Session(m) \in Conns
      /\ UNCHANGED <<pc, req, meInfo, keyPriv>>
  BY OwnExchange DEF Session, OwnStep, MachineFrame, server, thread, local
<1>2. Pending(Session(m))' = Pending(Session(m)) /\ MachineOf(Session(m)) = m
  BY <1>1 DEF Pending, Idle, MachineOf, Session
<1>3. \A r \in Pending(Session(m))' : PublishesPair(m, r)
  BY <1>1, <1>2 DEF PairInv, HandlesOwnPair, PublishesPair
<1>4. proc'[m].phase \notin {"saveInfo", "await"}
  BY DEF GoesOn
<1>. QED
  BY <1>1, <1>3, <1>4 DEF PairStep, PairInv, SavesOwnPair

LEMMA StartKeepsPairs ==
    ASSUME TransferInv, OwnershipInv, PairInv, NEW m \in Machines, Start(m), UNCHANGED server
    PROVE  PairStep(m)
<1>. DEFINE c == <<m, run[m] + 1>>
<1>1. OwnStep(m)
  BY StartIsOwn
<1>2. /\ run \in [Machines -> 0..MaxRuns] /\ proc \in [Machines -> Process]
      /\ UNCHANGED <<meInfo, keyPriv, inbox, pc, req>>
  BY DEF TransferInv, ClientInv, ClientTypeOK, Start, local, Connect, server, thread
<1>3. Session(m)' = c /\ proc'[m] = NewProcess
  BY <1>2 DEF Start, Session, Goes
<1>4. inbox[c] = None /\ pc[c] = "off"
  <2>1. run[m] + 1 \in (run[m] + 1)..MaxRuns
    BY <1>2, MachinesAssumption DEF Start
  <2>. QED
    BY <2>1 DEF TransferInv, UnusedOK
<1>5. NewProcess.phase = "send" /\ NewProcess.id = NoUid /\ NewProcess.registered = FALSE
  BY DEF NewProcess
<1>6. Pending(Session(m))' = {}
  BY <1>2, <1>3, <1>4 DEF Pending, Idle
<1>. QED
  BY <1>1, <1>2, <1>3, <1>5, <1>6
  DEF PairStep, PairInv, SavesOwnPair, PublishesSavedKey

(* A run sends the public key of the pair that it has saved.                *)
LEMMA SendsSavedKey ==
    ASSUME TransferInv, PairInv, NEW m \in Machines, proc[m].phase = "send", CanBuild(m),
           link[Session(m)] = "open"
    PROVE  PublishesPair(m, RequestOf(m))
<1>1. /\ RequestOf(m).code = proc[m].op /\ RequestOf(m).uid = SenderId(m)
      /\ RequestOf(m).pub \in {None, Session(m)}
  BY RequestFields, RequestsBuilt DEF TransferInv
<1>2. /\ proc[m].op = S_PUBLIC_KEY => SenderId(m) = proc[m].id
      /\ Running(m)
  BY DEF SenderId, Running
<1>3. SignedInOK(m) /\ PublishesSavedKey(m)
  BY DEF PairInv
<1>. QED
  BY <1>1, <1>2, <1>3 DEF PublishesPair, SignedInOK, PublishesSavedKey

LEMMA SendKeepsPairs ==
    ASSUME TransferInv, OwnershipInv, PairInv, NEW m \in Machines, SendRequest(m),
           UNCHANGED server
    PROVE  PairStep(m)
<1>. DEFINE c == Session(m)
            q == proc'[m]
<1>1. /\ OwnStep(m) /\ UNCHANGED <<meInfo, keyPriv, run, pc, req, link, outbox>> /\ CanBuild(m)
      /\ proc[m].phase = "send" /\ Running(m)
  BY SendIsOwn DEF SendRequest, local, server, thread, Submit, Running
<1>2. /\ q.id = SenderId(m) /\ q.at = proc[m].at /\ q.registered = proc[m].registered
      /\ \/ q.phase = "await" /\ q.op = proc[m].op
         \/ q.phase = "send" /\ q.op = SEND_FILE /\ proc[m].op = N_VALID_CRC
      /\ inbox'[c] = RequestOf(m) /\ link[c] = "open"
  BY SendEffect DEF TransferInv
<1>3. c \in Conns /\ ExchangeOK(c, proc[m]) /\ Session(m)' = c
  BY <1>1, <1>2, OwnExchange DEF Session
<1>4. outbox'[c] = None /\ Idle(c)'
  BY <1>1, <1>3 DEF ExchangeOK, Idle
<1>5. \A r \in Pending(c)' : PublishesPair(m, r)
  BY <1>1, <1>2, <1>3, <1>4, SendsSavedKey DEF Pending
<1>7. PublishesSavedKey(m)'
  <2>1. PublishesSavedKey(m) /\ (proc[m].op = REGISTER => q.id = NoUid)
        /\ (proc[m].op \notin {REGISTER, RECONNECT} => q.id = proc[m].id)
    BY <1>2 DEF PairInv, SenderId
  <2>2. CASE proc[m].op = REGISTER
    BY <2>1, <2>2 DEF PublishesSavedKey
  <2>3. CASE proc[m].op = RECONNECT
    BY <1>2, <2>3 DEF PublishesSavedKey
  <2>4. CASE proc[m].op \notin {REGISTER, RECONNECT}
    BY <1>1, <1>2, <1>3, <2>1, <2>4 DEF PublishesSavedKey
  <2>. QED
    BY <2>2, <2>3, <2>4
<1>8. q.phase # "saveInfo"
  BY <1>2
<1>. QED
  BY <1>1, <1>3, <1>4, <1>5, <1>7, <1>8 DEF PairStep, PairInv, SavesOwnPair

(* A run gives up when me.info is missing or the connection is lost.        *)
LEMMA GiveUpKeepsPairs ==
    ASSUME TransferInv, OwnershipInv, PairInv, ~LocalFaults, NEW m \in Machines,
           BuildFails(m) \/ ConnectionLost(m), UNCHANGED server
    PROVE  PairStep(m)
<1>1. OwnStep(m) /\ Running(m)
  BY MachineIsOwn DEF MachineNext, Runs, BuildFails, ConnectionLost, Running
<1>2. /\ proc[m] \in Process /\ proc'[m] = Throw(proc[m])
      /\ UNCHANGED <<link, inbox, local, run>> /\ Session(m)' = Session(m)
  BY DEF BuildFails, ConnectionLost, wires, Goes, TransferInv, ClientInv, ClientTypeOK, Session
<1>3. GoesOn(proc'[m]) /\ proc'[m].id = proc[m].id
  BY <1>2, ThrowFlow DEF SameMemory
<1>4. PublishesSavedKey(m)'
  <2>1. CASE BuildFails(m)
    <3>1. meInfo[m] = None /\ proc[m].id # None
      BY <1>2, <2>1, ValuesAssumption DEF BuildFails, CanBuild, Process
    <3>2. proc[m].id = NoUid
      BY <3>1 DEF OwnershipInv
    <3>. QED
      BY <1>3, <3>2 DEF PublishesSavedKey
  <2>2. CASE ConnectionLost(m)
    BY <1>2, <2>2 DEF ConnectionLost, PublishesSavedKey
  <2>. QED
    BY <2>1, <2>2
<1>. QED
  BY <1>1, <1>2, <1>3, <1>4, QuietKeepsPairs

LEMMA ReceiveKeepsPairs ==
    ASSUME TransferInv, OwnershipInv, PairInv, ~LocalFaults, NEW m \in Machines,
           ReceiveResponse(m), UNCHANGED server
    PROVE  PairStep(m)
<1>. DEFINE c == Session(m)
            a == outbox[c]
            p == proc[m]
            q == proc'[m]
<1>0. proc[m].phase = "await" /\ Collect(Session(m)) /\ UNCHANGED <<local, run>>
  BY DEF ReceiveResponse
<1>1. /\ OwnStep(m) /\ UNCHANGED <<link, inbox, local, run, pc, req>> /\ Running(m)
      /\ Session(m)' = Session(m)
  BY <1>0, MachineIsOwn DEF MachineNext, Runs, Collect, Running, Session, server, thread
<1>2. /\ p \in Process /\ InPlace(p) /\ p.phase = "await"
      /\ IsAnswer(p.op, a) /\ a # None
      /\ SignedInOK(m) /\ PublishesSavedKey(m) /\ MeantFor(m, p.op, a)
  BY <1>1, SessionInUse, ReceiveEffect DEF TransferInv, PairInv, ProgramOK
<1>3. CASE /\ q.phase = "saveKey" /\ p.op = REGISTER
           /\ q.at = p.at /\ q.op = p.op /\ q.id = p.id /\ q.registered = p.registered
  <2>1. c \in Conns /\ Pending(c)' = Pending(c) /\ MachineOf(c) = m
    BY <1>1, OwnExchange DEF Pending, Idle, MachineOf, Session
  <2>2. \A r \in Pending(c)' : PublishesPair(m, r)
    BY <2>1 DEF PairInv, HandlesOwnPair, PublishesPair
  <2>3. PublishesSavedKey(m)'
    BY <1>1, <1>2, <1>3 DEF PublishesSavedKey, local
  <2>. QED
    BY <1>1, <1>3, <2>2, <2>3 DEF PairStep, PairInv, SavesOwnPair, local
<1>4. CASE \E h : Hears(m, h) /\ q = AfterReply(h)
  <2>1. PICK h : Hears(m, h) /\ q = AfterReply(h)
    BY <1>4
  <2>2. /\ h \in Process /\ InPlace(h) /\ h.last = a /\ h.at = p.at /\ h.op = p.op
        /\ h.id = p.id /\ h.registered = p.registered /\ IsAnswer(h.op, h.last)
    BY <1>2, <2>1 DEF Hears
  <2>3. ~(h.op = RECONNECT /\ h.last.code = GENERAL_ERROR)
    BY <1>2, <2>2 DEF MeantFor
  <2>4. p.id # NoUid /\ link[c] = "open" =>
            p.registered \/ p.op = RECONNECT \/ keyPriv[m] = c
    BY <1>1, <1>2 DEF PublishesSavedKey
  <2>5. \/ q.registered = h.registered /\ h.op # RECONNECT
        \/ q.op = REGISTER /\ q.phase = "send" /\ ~q.registered
        \/ q.registered /\ q.at = "upload2" /\ q.op = SEND_FILE
    <3>1. CASE Returns(h, q) /\ ~(h.op = RECONNECT /\ h.last.code # GENERAL_ERROR)
      BY <2>3, <3>1 DEF Returns, SameMemory
    <3>2. CASE Continues(h, q)
      BY <2>2, <3>2 DEF Continues, SameMemory, InPlace
    <3>3. CASE h.at = "signIn" /\ SameMemory(q, h) /\ q.op = REGISTER /\ q.phase = "send"
      BY <1>2, <2>2, <3>3 DEF SignedInOK, SameMemory
    <3>4. CASE /\ h.at = "signIn"
               /\ \E r \in Process : r.registered /\ r.at = h.at /\ Returns(r, q)
      <4>1. PICK r \in Process : r.registered /\ r.at = "signIn" /\ Returns(r, q)
        BY <3>4
      <4>2. q.at = "upload2" /\ q.op = SEND_FILE
        BY <4>1 DEF Returns
      <4>3. q.registered
        BY <4>1, Zenon DEF Returns, SameMemory
      <4>. QED
        BY <4>2, <4>3
    <3>. QED
      BY <2>1, <2>2, <3>1, <3>2, <3>3, <3>4, AfterReplyFlow
  <2>6. q.id = p.id /\ GoesOn(q)
    BY <2>1, <2>2, AfterReplyFlow DEF Returns, Continues, SameMemory, GoesOn
  <2>8. PublishesSavedKey(m)'
    BY <1>1, <2>2, <2>4, <2>5, <2>6 DEF PublishesSavedKey, local
  <2>. QED
    BY <1>1, <2>6, <2>8, QuietKeepsPairs
<1>5. ~(GivesKey(a) /\ (keyPriv[m] # a.pub \/ LocalFaults))
  BY <1>2 DEF MeantFor
<1>. QED
  BY <1>3, <1>4, <1>5, ReceiveEffect DEF TransferInv

LEMMA SaveKeyKeepsPairs ==
    ASSUME TransferInv, OwnershipInv, PairInv, ~LocalFaults, NEW m \in Machines,
           SaveKey(m), UNCHANGED server
    PROVE  PairStep(m)
<1>. DEFINE c == Session(m)
            p == proc[m]
            q == proc'[m]
<1>1. /\ OwnStep(m) /\ UNCHANGED <<link, inbox, meInfo, run, pc, req>> /\ Running(m)
      /\ Session(m)' = c /\ p.phase = "saveKey"
  BY MachineIsOwn
  DEF MachineNext, Runs, SaveKey, wires, Running, Session, server, thread
<1>2. /\ p \in Process /\ p.op = REGISTER /\ PublishesSavedKey(m)
      /\ c \in Conns /\ c \in PubKeys
  BY <1>1, SessionInUse DEF TransferInv, PairInv, ProgramOK
<1>3. CASE /\ keyPriv[m] = None /\ keyPriv'[m] = c
           /\ SameMemory(q, p) /\ q.phase = "saveInfo" /\ q.at = p.at /\ q.op = p.op
  <2>1. Pending(c)' = Pending(c) /\ MachineOf(c) = m
    BY <1>1, <1>2 DEF Pending, Idle, MachineOf, Session
  <2>2. \A r \in Pending(c)' : PublishesPair(m, r)
    BY <1>2, <2>1 DEF PairInv, HandlesOwnPair, PublishesPair
  <2>3. PublishesSavedKey(m)'
    BY <1>1, <1>2, <1>3 DEF PublishesSavedKey
  <2>. QED
    BY <1>1, <1>2, <1>3, <2>2, <2>3, ValuesAssumption DEF PairStep
<1>4. CASE keyPriv[m] # None /\ UNCHANGED keyPriv /\ q = Throw(p)
  <2>1. GoesOn(q) /\ q.id = p.id /\ q.registered = p.registered
    BY <1>2, <1>4, ThrowFlow DEF SameMemory
  <2>2. PublishesSavedKey(m)'
    BY <1>1, <1>2, <1>4, <2>1 DEF PublishesSavedKey
  <2>. QED
    BY <1>1, <1>4, <2>1, <2>2, QuietKeepsPairs DEF local
<1>. QED
  BY <1>3, <1>4, SaveKeyEffect DEF TransferInv

LEMMA SaveInfoKeepsPairs ==
    ASSUME TransferInv, OwnershipInv, PairInv, ~LocalFaults, NEW m \in Machines,
           SaveInfo(m), UNCHANGED server
    PROVE  PairStep(m)
<1>. DEFINE c == Session(m)
            p == proc[m]
            q == proc'[m]
<1>1. /\ OwnStep(m) /\ UNCHANGED <<link, inbox, keyPriv, run, pc, req>> /\ Running(m)
      /\ Session(m)' = c /\ p.phase = "saveInfo"
  BY MachineIsOwn
  DEF MachineNext, Runs, SaveInfo, wires, Running, Session, server, thread
<1>2. /\ p \in Process /\ keyPriv[m] = c
      /\ c \in Conns /\ c \in PubKeys
  BY <1>1, SessionInUse DEF TransferInv, PairInv, SavesOwnPair
<1>3. GoesOn(q)
  BY <1>2, ReturnFlow, ThrowFlow, SaveInfoEffect DEF Returns, TransferInv
<1>4. PublishesSavedKey(m)'
  BY <1>1, <1>2 DEF PublishesSavedKey
<1>5. \A r \in Pending(c)' : PublishesPair(m, r)
  <2>1. Pending(c)' = Pending(c) /\ MachineOf(c) = m
    BY <1>1, <1>2 DEF Pending, Idle, MachineOf, Session
  <2>. QED
    BY <1>2, <2>1 DEF PairInv, HandlesOwnPair, PublishesPair
<1>. QED
  BY <1>1, <1>2, <1>3, <1>4, <1>5, ValuesAssumption DEF PairStep, GoesOn

LEMMA EndKeepsPairs ==
    ASSUME TransferInv, OwnershipInv, PairInv, NEW m \in Machines, UNCHANGED server,
           PayloadLost(m) \/ Exit(m) \/ Kill(m)
    PROVE  PairStep(m)
<1>. DEFINE c == Session(m)
<1>1. OwnStep(m) /\ Running(m) /\ UNCHANGED <<pc, req>>
  BY MachineIsOwn DEF PayloadLost, Exit, Kill, Running, MachineNext, Runs, server, thread
<1>2. PICK how \in {"off", "terminated"} : Ends(m, how)
  BY DEF PayloadLost, Exit, Kill
<1>3. /\ Hangup(c) /\ UNCHANGED <<run, meInfo, keyPriv>>
      /\ proc'[m].phase = how
  <2>1. [NoProcess EXCEPT !.phase = how].phase = how
    BY DEF NoProcess, NewProcess
  <2>. QED
    BY <1>2, <2>1 DEF Ends, Goes, local, TransferInv, ClientInv, ClientTypeOK
<1>4. c \in Conns /\ Session(m)' = c /\ inbox'[c] \in {inbox[c], None} /\ MachineOf(c) = m
  <2>1. c \in Conns /\ Session(m)' = c
    BY <1>1, <1>3, OwnExchange DEF Session
  <2>. QED
    BY <1>3, <2>1, WiresTyped DEF Hangup, TransferInv, MachineOf, Session
<1>5. Pending(c)' \subseteq Pending(c)
  BY <1>1, <1>4 DEF Pending, Idle
<1>6. \A r \in Pending(Session(m))' : PublishesPair(m, r)
  BY <1>4, <1>5 DEF PairInv, HandlesOwnPair, PublishesPair
<1>. QED
  BY <1>1, <1>3, <1>6
  DEF PairStep, PairInv, SavesOwnPair, PublishesSavedKey, Running

LEMMA KillSendingKeepsPairs ==
    ASSUME TransferInv, OwnershipInv, PairInv, NEW m \in Machines, KillSending(m),
           UNCHANGED server
    PROVE  PairStep(m)
<1>. DEFINE c == Session(m)
<1>1. /\ Running(m) /\ OwnStep(m) /\ UNCHANGED <<pc, req, run, meInfo, keyPriv>>
      /\ proc[m].phase = "send" /\ CanBuild(m)
  BY MachineIsOwn DEF KillSending, Running, MachineNext, server, thread, local
<1>2. SubmitTorn(c, RequestOf(m)) /\ Goes(m, NoProcess)
  BY DEF KillSending
<1>3. proc'[m].phase = "off"
  <2>1. NoProcess.phase = "off"
    BY DEF NoProcess, NewProcess
  <2>. QED
    BY <1>2, <2>1 DEF Goes, TransferInv, ClientInv, ClientTypeOK
<1>4. c \in Conns /\ Session(m)' = c /\ ExchangeOK(c, proc[m]) /\ link[c] = "open"
  BY <1>1, <1>2, OwnExchange DEF Session, SubmitTorn
<1>5. PICK t \in Torn(RequestOf(m)) : inbox' = [inbox EXCEPT ![c] = t]
  BY <1>2 DEF SubmitTorn
<1>6. inbox'[c] = t
  BY <1>4, <1>5, WiresTyped DEF TransferInv
<1>7. /\ RequestOf(m) \in Request /\ t.code = RequestOf(m).code
      /\ t.uid = RequestOf(m).uid /\ t.pub \in {RequestOf(m).pub, None}
  BY <1>1, RequestType, TornFields, TornHeader DEF TransferInv
<1>8. PublishesPair(m, t)
  <2>1. PublishesPair(m, RequestOf(m))
    BY <1>1, <1>4, SendsSavedKey
  <2>. QED
    BY <1>7, <2>1 DEF PublishesPair
<1>9. Pending(c)' \subseteq {t}
  BY <1>1, <1>4, <1>6 DEF Pending, Idle, ExchangeOK
<1>10. \A r \in Pending(Session(m))' : PublishesPair(m, r)
  BY <1>4, <1>8, <1>9
<1>. QED
  BY <1>1, <1>3, <1>10
  DEF PairStep, PairInv, SavesOwnPair, PublishesSavedKey, Running

-----------------------------------------------------------------------------
(* The theorems about key pairs. *)

LEMMA PairNextKeeps ==
    ASSUME TransferInv, OwnershipInv, PairInv, ~LocalFaults, TransferInv',
           [TransferNext]_transferVars
    PROVE  PairInv'
<1>1. ASSUME NEW m \in Machines, MachineStep(m)
      PROVE  PairInv'
  <2>1. PairStep(m)
    BY <1>1, StartKeepsPairs, SendKeepsPairs, GiveUpKeepsPairs, ReceiveKeepsPairs,
       SaveKeyKeepsPairs, SaveInfoKeepsPairs, EndKeepsPairs, KillSendingKeepsPairs
    DEF MachineStep, MachineNext, Runs
  <2>2. meInfo'[m] \in Uids \cup {None}
    BY DEF TransferInv, ClientInv, ClientTypeOK
  <2>3. SignedInOK(m)'
    BY <1>1, SignedInStays DEF PairInv, MachineStep
  <2>. QED
    BY <2>1, <2>2, <2>3, MachineKeepsPairs
<1>2. CASE ServerStep
  BY <1>2, ThreadKeepsPairs, CrashKeepsPairs DEF ServerStep, ServerNext
<1>3. CASE UNCHANGED transferVars
  <2>1. UNCHANGED <<meInfo, keyPriv, run, proc, clients, link, inbox, outbox, pc, req, held, ans>>
    BY <1>3 DEF transferVars, vars, clientVars, local, wires, tables, thread
  <2>. QED
    BY <2>1
    DEF PairInv, SavesOwnPair, SignedInOK, PublishesSavedKey, MeantFor, HandlesOwnPair,
        PublishedKeyMatches, GivesKey, GivenTo, Pending, Idle, Grants, Session, Running
<1>. QED
  BY <1>1, <1>2, <1>3 DEF TransferNext

LEMMA PairStarts ==
    ASSUME TransferInit
    PROVE  PairInv
<1>1. \A c \in Conns : Pending(c) = {} /\ pc[c] = "off"
  BY DEF TransferInit, Init, WiresInit, Pending, Idle
<1>2. NoProcess.phase = "off" /\ NoProcess.id = NoUid /\ NoProcess.registered = FALSE
  BY DEF NoProcess, NewProcess
<1>3. \A m \in Machines : GivenTo(m) = {} /\ meInfo[m] = None /\ proc[m] = NoProcess
  BY <1>2, ValuesAssumption DEF TransferInit, ClientInit, GivenTo
<1>. QED
  BY <1>1, <1>2, <1>3
  DEF PairInv, SavesOwnPair, SignedInOK, PublishesSavedKey, HandlesOwnPair, PublishedKeyMatches

(* A machine publishes no other key than the one it has saved, and what the *)
(* server prepares for it, key.priv opens (handle_public_key_uploading,     *)
(* build_encrypted_aes_payload, createNewClientFile).                       *)
THEOREM PairsHaveOneOwner ==
    ASSUME ClientRequests(Nat) \subseteq Traffic, Kills => TornRequests, ~LocalFaults
    PROVE  TransferSpec => []PairInv
<1>1. TransferInit => PairInv
  BY PairStarts
<1>2. TransferInv /\ OwnershipInv /\ PairInv /\ TransferInv' /\ [TransferNext]_transferVars
          => PairInv'
  BY PairNextKeeps
<1>. QED
  BY <1>1, <1>2, UuidsHaveOneOwner, TransferInvariant, PTL DEF TransferSpec

(* The public key in the database is the one whose private key is in        *)
(* key.priv, whatever is killed, torn or crashes (createNewClientFile saves *)
(* the pair before me.info, and 826 is sent only with what was saved).      *)
THEOREM PublishedKeysMatch ==
    ASSUME ClientRequests(Nat) \subseteq Traffic, Kills => TornRequests, ~LocalFaults
    PROVE  TransferSpec => []PublishedKeyMatches
<1>1. PairInv => PublishedKeyMatches
  BY DEF PairInv
<1>. QED
  BY <1>1, PairsHaveOneOwner, PTL

-----------------------------------------------------------------------------
(***************************************************************************)
(* Proofs of which AES key is whose, for any number of machines, runs and  *)
(* users, with faults, local faults and crashes, as long as no run is      *)
(* killed: the request of a killed run would be worked on while the next   *)
(* run uploads under the key that it replaces.                             *)
(*                                                                         *)
(* AgreementInv is inductive next to TransferInv and OwnershipInv.  A      *)
(* thread that stores a key has a run that waits for it (StoresForRun), so *)
(* that this run is not one that uploads, and no other thread of this user *)
(* is about to answer with an older key.                                   *)
(***************************************************************************)

(* A run that uploads, or that is signed in to do so, does it under the key *)
(* that the server has.                                                     *)
UploadsAgreed(m) ==
    LET p == proc[m]
    IN p.registered \/ p.op \in {SEND_FILE, N_VALID_CRC} => Agreed(p.id, p.aes)

AwaitsAgreed(m) ==
    LET p == proc[m]
        c == Session(m)
    IN p.phase = "await" =>
           /\ \A r \in Pending(c) : r.uid = p.id
           /\ GivesKey(outbox[c]) => Agreed(p.id, outbox[c].key)

AnswersAgreed(c) ==
    pc[c] \in {"encrypt", "send_response"} /\ GivesKey(ans[c]) =>
        Agreed(req[c].uid, ans[c].key)

LEMMA AgreementParts ==
    AgreementInv <=> /\ \A c \in Conns : Attended(c) /\ AnswersAgreed(c)
                     /\ \A m \in Machines : UploadsAgreed(m) /\ SignedInOK(m) /\ AwaitsAgreed(m)
BY DEF AgreementInv, UploadsAgreed, AwaitsAgreed, AnswersAgreed

-----------------------------------------------------------------------------
(* The AES keys in the table clients. *)

LEMMA AesWriters ==
    ASSUME IInv, NEW c \in Conns, Handle(c) \/ StepFails(c), NEW u \in Uids,
           clients[u] # None
    PROVE  /\ clients'[u] # None
           /\ \/ clients'[u].aes = clients[u].aes
              \/ StoreAesKey(c) /\ req[c].uid = u
<1>1. /\ clients \in [Uids -> ClientRow \cup {None}] /\ clients[u] \in ClientRow
      /\ keyCount \in Nat
  BY ServerTyped DEF IInv, TypeOK
<1>2. ASSUME NEW row \in ClientRow
      PROVE  \A x : [row EXCEPT !.pub = x].aes = row.aes
  BY DEF ClientRow
<1>3. clients'[u] # None
  BY NamesStay
<1>4. CASE AddNewClient(c)
  BY <1>1, <1>3, <1>4 DEF AddNewClient
<1>5. CASE SetPublicKey(c) /\ clients' # clients
  <2>1. clients' = [clients EXCEPT ![req[c].uid].pub = req[c].pub]
    BY <1>5 DEF SetPublicKey
  <2>. QED
    BY <1>1, <1>2, <1>3, <2>1
<1>6. CASE StoreAesKey(c)
  <2>1. clients' = [clients EXCEPT ![req[c].uid].aes = keyCount + 1]
    BY <1>6 DEF StoreAesKey
  <2>. QED
    BY <1>1, <1>3, <1>6, <2>1
<1>. QED
  BY <1>3, <1>4, <1>5, <1>6, ClientsWriters

(* The thread that stores a key stores the one that it answers with.        *)
LEMMA StoresWhatItAnswers ==
    ASSUME IInv, NEW c \in Conns, StoreAesKey(c)
    PROVE  Agreed(req[c].uid, ans[c].key)' /\ req'[c] = req[c]
<1>. DEFINE u    == req[c].uid
            code == IF req[c].code = RECONNECT THEN RECCONECT_APPROVED
                                               ELSE IN_PUBLIC_KEY_OUT_AES
<1>1. /\ clients \in [Uids -> ClientRow \cup {None}] /\ u \in Uids /\ clients[u] \in ClientRow
      /\ keyCount \in Nat /\ DOMAIN ans = Conns
  BY ServerTyped DEF IInv, TypeOK, HandlerOK, StoreAesKey, Registered
<1>2. /\ clients' = [clients EXCEPT ![u].aes = keyCount + 1]
      /\ ans' = [ans EXCEPT ![c] = KeyReply(code, u, held[c], keyCount + 1)]
      /\ req' = req
  BY DEF StoreAesKey, Prepare
<1>3. ans'[c].key = keyCount + 1
  BY <1>1, <1>2 DEF KeyReply, Reply
<1>4. clients'[u].aes = keyCount + 1 /\ clients'[u] # None
  <2>1. [clients[u] EXCEPT !.aes = keyCount + 1] \in ClientRow
    BY <1>1 DEF ClientRow
  <2>2. [clients[u] EXCEPT !.aes = keyCount + 1].aes = keyCount + 1
    BY <1>1 DEF ClientRow
  <2>. QED
    BY <1>1, <1>2, <2>1, <2>2, RowsAssumption
<1>. QED
  BY <1>1, <1>2, <1>3, <1>4 DEF Agreed, Registered

(* A key is stored for the user of the machine whose run waits for it.      *)
LEMMA StoresForRun ==
    ASSUME TransferInv, OwnershipInv, AgreementInv, NEW c \in Conns, StoreAesKey(c),
           NEW m \in Machines, req[c].uid \in GivenTo(m)
    PROVE  /\ c = Session(m) /\ proc[m].phase = "await" /\ outbox[c] = None
           /\ proc[m].op \in {S_PUBLIC_KEY, RECONNECT} /\ ~proc[m].registered
<1>1. /\ pc[c] = "store_aes_key" /\ HandledOK(c) /\ IInv
  BY DEF StoreAesKey, TransferInv
<1>2. /\ req[c] \in Pending(c) /\ req[c].code \in {S_PUBLIC_KEY, RECONNECT}
  BY <1>1, AtWork, StepsOfCode DEF Pending, Idle, RequestCodes
<1>3. link[c] = "open"
  BY <1>2 DEF AgreementInv, Attended
<1>4. PICK n \in Machines : Running(n) /\ c = Session(n) /\ ExchangeOK(c, proc[n])
  BY <1>3 DEF TransferInv, OpenOK
<1>5. proc[n].phase = "await" /\ req[c].code = proc[n].op /\ outbox[c] = None
  BY <1>1, <1>4 DEF ExchangeOK
<1>6. n = m
  <2>1. MachineOf(c) = n
    BY <1>4 DEF MachineOf, Session
  <2>2. req[c].uid \in Uids /\ req[c].uid # NoUid
    BY ValuesAssumption DEF GivenTo
  <2>3. req[c].uid \in GivenTo(n)
    BY <1>2, <2>1, <2>2 DEF OwnershipInv, SentByOwner, GivenTo
  <2>. QED
    BY <2>3 DEF OwnershipInv
<1>7. ~proc[m].registered
  <2>1. SignedInOK(m) /\ InPlace(proc[m])
    BY <1>4, <1>6, SessionInUse DEF AgreementInv, TransferInv, ProgramOK
  <2>. QED
    BY <1>2, <1>5, <1>6, <2>1 DEF SignedInOK, InPlace
<1>. QED
  BY <1>2, <1>4, <1>5, <1>6, <1>7

-----------------------------------------------------------------------------
(* A step of the server. *)

(* No key is stored for a run that uploads, or that has the answer to come. *)
LEMMA KeptFromStores ==
    ASSUME TransferInv, OwnershipInv, AgreementInv, NEW c \in Conns, NEW m \in Machines,
           Registered(proc[m].id),
           \/ proc[m].registered \/ proc[m].op \in {SEND_FILE, N_VALID_CRC}
           \/ outbox[Session(m)] # None
    PROVE  ~(StoreAesKey(c) /\ req[c].uid = proc[m].id)
<1>1. proc[m].id \in GivenTo(m)
  BY ValuesAssumption DEF OwnershipInv, GivenTo, Registered
<1>. QED
  BY <1>1, StoresForRun

(* Such a run keeps its key. *)
LEMMA KeyStays ==
    ASSUME TransferInv, OwnershipInv, AgreementInv, NEW c \in Conns,
           Handle(c) \/ StepFails(c), UNCHANGED clientVars, NEW m \in Machines, NEW k,
           Agreed(proc[m].id, k),
           \/ proc[m].registered \/ proc[m].op \in {SEND_FILE, N_VALID_CRC}
           \/ outbox[Session(m)] # None
    PROVE  Agreed(proc[m].id, k)'
<1>. DEFINE u == proc[m].id
<1>1. u \in Uids /\ clients[u] # None /\ clients[u].aes = k /\ UNCHANGED proc
  BY DEF Agreed, Registered, clientVars
<1>2. ~(StoreAesKey(c) /\ req[c].uid = u)
  BY KeptFromStores DEF Agreed
<1>3. clients'[u] # None /\ clients'[u].aes = k
  BY <1>1, <1>2, AesWriters DEF TransferInv
<1>. QED
  BY <1>1, <1>3 DEF Agreed, Registered

(* So does a thread that is about to answer. *)
LEMMA OtherAnswersStay ==
    ASSUME TransferInv, OwnershipInv, AgreementInv, NEW c \in Conns,
           Handle(c) \/ StepFails(c), NEW d \in Conns \ {c},
           pc[d] \in {"encrypt", "send_response"}, GivesKey(ans[d])
    PROVE  Agreed(req[d].uid, ans[d].key) /\ ~(StoreAesKey(c) /\ req[c].uid = req[d].uid)
<1>1. /\ Agreed(req[d].uid, ans[d].key) /\ HandledOK(d)
      /\ req[d].uid \in Uids /\ req[d].uid # NoUid
  BY ValuesAssumption, AgreementParts DEF AnswersAgreed, Agreed, Registered, TransferInv
<1>2. req[d] \in Pending(d) /\ req[d].code # N_VALID_CRC
  BY <1>1, AtWork DEF Pending, Idle, TransferInv
<1>3. link[d] = "open"
  BY <1>2 DEF AgreementInv, Attended
<1>4. PICK n \in Machines : d = Session(n)
  BY <1>3 DEF TransferInv, OpenOK
<1>5. req[d].uid \in GivenTo(n)
  <2>1. MachineOf(d) = n
    BY <1>4 DEF MachineOf, Session
  <2>. QED
    BY <1>1, <1>2, <2>1 DEF OwnershipInv, SentByOwner, GivenTo
<1>6. StoreAesKey(c) /\ req[c].uid = req[d].uid => c = Session(n)
  BY <1>5, StoresForRun
<1>. QED
  BY <1>1, <1>4, <1>6

LEMMA ThreadKeepsAgreement ==
    ASSUME TransferInv, OwnershipInv, AgreementInv, NEW c \in Conns,
           Handle(c) \/ StepFails(c), UNCHANGED clientVars
    PROVE  AgreementInv'
<1>1. UNCHANGED <<meInfo, run, proc>> /\ IInv
      /\ \A d \in Conns : Attended(d) /\ AnswersAgreed(d)
      /\ \A m \in Machines : UploadsAgreed(m) /\ SignedInOK(m) /\ AwaitsAgreed(m)
  BY AgreementParts DEF clientVars, local, TransferInv
<1>2. /\ Outcome(c) /\ HandledOK(c)
      /\ \A d \in Conns : Pending(d)' \subseteq Pending(d)
      /\ \A d \in Conns \ {c} :
            /\ link'[d] = link[d] /\ outbox'[d] = outbox[d] /\ pc'[d] = pc[d]
            /\ req'[d] = req[d] /\ ans'[d] = ans[d]
  BY ThreadFrame
<1>3. ASSUME NEW d \in Conns
      PROVE  Attended(d)'
  <2>1. link'[d] = link[d] \/ Pending(d)' = {}
    <3>1. CASE d = c /\ Leaves(c)
      BY <3>1 DEF Leaves, Pending, Idle
    <3>. QED
      BY <1>2, <3>1 DEF Outcome, Comes, Takes, Works, Sends, SameWires
  <2>. QED
    BY <1>1, <1>2, <2>1 DEF Attended
<1>4. ASSUME NEW m \in Machines
      PROVE  UploadsAgreed(m)' /\ SignedInOK(m)'
  <2>1. CASE proc[m].registered \/ proc[m].op \in {SEND_FILE, N_VALID_CRC}
    <3>1. Agreed(proc[m].id, proc[m].aes)
      BY <1>1, <2>1 DEF UploadsAgreed
    <3>2. Agreed(proc[m].id, proc[m].aes)'
      BY <1>1, <2>1, <3>1, KeyStays DEF Agreed, Registered
    <3>. QED
      BY <1>1, <3>2 DEF UploadsAgreed, SignedInOK
  <2>2. CASE ~(proc[m].registered \/ proc[m].op \in {SEND_FILE, N_VALID_CRC})
    BY <1>1, <2>2 DEF UploadsAgreed, SignedInOK
  <2>. QED
    BY <2>1, <2>2
<1>5. ASSUME NEW m \in Machines, proc[m].phase = "await"
      PROVE  AwaitsAgreed(m)'
  <2>. DEFINE s == Session(m)
              u == proc[m].id
  <2>1. /\ s \in Conns /\ s' = s
        /\ \A r \in Pending(s) : r.uid = u
        /\ GivesKey(outbox[s]) => Agreed(u, outbox[s].key)
    BY <1>1, <1>5, OwnExchange DEF AwaitsAgreed, Running, Session
  <2>2. ASSUME GivesKey(outbox'[s])
        PROVE  u \in Uids /\ clients'[u] # None /\ clients'[u].aes = outbox'[s].key
    <3>1. CASE outbox'[s] = outbox[s]
      <4>1. Agreed(proc[m].id, outbox[Session(m)].key) /\ outbox[Session(m)] # None
        BY <2>1, <2>2, <3>1 DEF GivesKey
      <4>. DEFINE k == outbox[Session(m)].key
      <4>2. /\ u \in Uids /\ clients[u] # None /\ clients[u].aes = k
            /\ ~(StoreAesKey(c) /\ req[c].uid = u)
        BY <4>1, KeptFromStores DEF Agreed, Registered
      <4>3. clients'[u] # None /\ clients'[u].aes = k
        BY <1>1, <4>2, AesWriters
      <4>. QED
        BY <3>1, <4>2, <4>3
    <3>2. CASE outbox'[s] # outbox[s]
      <4>1. s = c /\ Sends(c) /\ outbox'[c] = ans[c]
        BY <1>2, <2>1, <2>2, <3>2
        DEF Outcome, Comes, Takes, Works, Sends, Leaves, SameWires, GivesKey
      <4>2. Agreed(req[c].uid, ans[c].key) /\ req[c] \in Pending(c) /\ pc[c] = "send_response"
        BY <1>1, <2>2, <4>1 DEF AnswersAgreed, Sends, Pending, Idle
      <4>3. req[c].uid = u
        BY <2>1, <4>1, <4>2
      <4>4. ~StoreAesKey(c)
        BY <4>2 DEF StoreAesKey
      <4>5. u \in Uids /\ clients[u] # None /\ clients[u].aes = ans[c].key
        BY <4>2, <4>3 DEF Agreed, Registered
      <4>6. clients'[u] # None /\ clients'[u].aes = clients[u].aes
        BY <1>1, <4>4, <4>5, AesWriters
      <4>. QED
        BY <4>1, <4>5, <4>6
    <3>. QED
      BY <3>1, <3>2
  <2>3. GivesKey(outbox'[s]) => Agreed(u, outbox[s].key)'
    BY <1>1, <2>1, <2>2 DEF Agreed, Registered
  <2>. QED
    BY <1>1, <1>2, <2>1, <2>3 DEF AwaitsAgreed, GivesKey
<1>6. ASSUME NEW d \in Conns
      PROVE  AnswersAgreed(d)'
  <2>. SUFFICES ASSUME pc'[d] \in {"encrypt", "send_response"}, GivesKey(ans'[d])
                PROVE  Agreed(req[d].uid, ans[d].key)'
    BY DEF AnswersAgreed, GivesKey
  <2>1. CASE d # c
    <3>1. pc[d] \in {"encrypt", "send_response"} /\ GivesKey(ans[d])
      BY <1>2, <2>1
    <3>2. /\ Agreed(req[d].uid, ans[d].key)
          /\ ~(StoreAesKey(c) /\ req[c].uid = req[d].uid)
      BY <2>1, <3>1, OtherAnswersStay
    <3>. QED
      BY <1>1, <1>2, <2>1, <3>2, AesWriters DEF Agreed, Registered
  <2>2. CASE d = c
    <3>1. pc[c] \notin {"off", "handle_request"} /\ req'[c] = req[c]
      BY <2>2, StaysAtWork
    <3>2. StoreAesKey(c) \/ (pc[c] = "encrypt" /\ ans'[c] = ans[c])
      BY <1>1, <1>2, <2>2, <3>1, KeyArrivals
    <3>3. CASE StoreAesKey(c)
      BY <1>1, <2>2, <3>3, StoresWhatItAnswers
    <3>4. CASE pc[c] = "encrypt" /\ ans'[c] = ans[c]
      <4>1. Agreed(req[c].uid, ans[c].key) /\ ~StoreAesKey(c)
        BY <1>1, <2>2, <3>4 DEF AnswersAgreed, StoreAesKey
      <4>. QED
        BY <1>1, <2>2, <3>1, <3>4, <4>1, AesWriters DEF Agreed, Registered
    <3>. QED
      BY <3>2, <3>3, <3>4
  <2>. QED
    BY <2>1, <2>2
<1>7. \A m \in Machines : AwaitsAgreed(m)'
  BY <1>1, <1>5 DEF AwaitsAgreed
<1>8. (\A d \in Conns : Attended(d) /\ AnswersAgreed(d))'
      /\ (\A m \in Machines : UploadsAgreed(m) /\ SignedInOK(m) /\ AwaitsAgreed(m))'
  BY <1>3, <1>4, <1>6, <1>7
<1>. QED
  BY <1>8 DEF AgreementInv, UploadsAgreed, AwaitsAgreed, AnswersAgreed

LEMMA CrashKeepsAgreement ==
    ASSUME TransferInv, AgreementInv, Crash, UNCHANGED clientVars
    PROVE  AgreementInv'
<1>1. /\ UNCHANGED <<run, proc, outbox, clients>>
      /\ \A c \in Conns : Pending(c)' = {} /\ pc'[c] = "off"
  BY CrashShrinks
<1>2. \A m \in Machines : proc[m].phase = "await" => Session(m) \in Conns
  BY OwnExchange DEF Running
<1>3. \A c \in Conns : Attended(c)'
  BY <1>1 DEF Attended
<1>4. ASSUME NEW m \in Machines
      PROVE  UploadsAgreed(m)' /\ SignedInOK(m)' /\ AwaitsAgreed(m)'
  <2>1. UploadsAgreed(m) /\ SignedInOK(m) /\ AwaitsAgreed(m)
    BY AgreementParts
  <2>2. Session(m)' = Session(m) /\ (proc[m].phase = "await" => Pending(Session(m))' = {})
    BY <1>1, <1>2 DEF Session
  <2>. QED
    BY <1>1, <2>1, <2>2
    DEF UploadsAgreed, SignedInOK, AwaitsAgreed, Agreed, Registered, GivesKey
<1>5. (\A c \in Conns : Attended(c) /\ AnswersAgreed(c))'
      /\ (\A m \in Machines : UploadsAgreed(m) /\ SignedInOK(m) /\ AwaitsAgreed(m))'
  BY <1>1, <1>3, <1>4 DEF AnswersAgreed
<1>. QED
  BY <1>5 DEF AgreementInv, UploadsAgreed, AwaitsAgreed, AnswersAgreed

-----------------------------------------------------------------------------
(* A step of machine m: what it does to its own run. *)

AgreeStep(m) ==
    /\ OwnStep(m)
    /\ UploadsAgreed(m)'
    /\ AwaitsAgreed(m)'
    /\ Attended(Session(m))'

LEMMA MachineKeepsAgreement ==
    ASSUME TransferInv, AgreementInv, NEW m \in Machines, AgreeStep(m), SignedInOK(m)'
    PROVE  AgreementInv'
<1>1. /\ UNCHANGED <<clients, pc, req, ans>>
      /\ \A n \in Machines \ {m} : run'[n] = run[n] /\ proc'[n] = proc[n]
      /\ \A c \in Conns : c # Session(m)' =>
            SameWires(c) /\ Pending(c)' = Pending(c)
  BY MachineShrinks DEF AgreeStep, OwnStep, MachineFrame, server, thread, tables
<1>2. ASSUME NEW c \in Conns
      PROVE  Attended(c)' /\ AnswersAgreed(c)'
  <2>1. Attended(c)'
    <3>1. CASE c = Session(m)'
      BY <3>1 DEF AgreeStep
    <3>2. CASE c # Session(m)'
      BY <1>1, <3>2, AgreementParts DEF Attended, SameWires
    <3>. QED
      BY <3>1, <3>2
  <2>2. AnswersAgreed(c)'
    BY <1>1, AgreementParts DEF AnswersAgreed, Agreed, Registered
  <2>. QED
    BY <2>1, <2>2
<1>3. ASSUME NEW n \in Machines
      PROVE  UploadsAgreed(n)' /\ SignedInOK(n)' /\ AwaitsAgreed(n)'
  <2>1. CASE n = m
    BY <2>1 DEF AgreeStep
  <2>2. CASE n # m
    <3>1. UploadsAgreed(n) /\ SignedInOK(n) /\ AwaitsAgreed(n)
      BY AgreementParts
    <3>2. Session(n)' = Session(n) /\ Session(n) # Session(m)' /\ proc'[n] = proc[n]
      BY <1>1, <2>2 DEF Session
    <3>3. proc[n].phase = "await" =>
              outbox'[Session(n)] = outbox[Session(n)]
              /\ Pending(Session(n))' = Pending(Session(n))
      BY <1>1, <3>2, OwnExchange DEF Running, SameWires
    <3>4. UploadsAgreed(n)' /\ SignedInOK(n)'
      BY <1>1, <3>1, <3>2 DEF UploadsAgreed, SignedInOK, Agreed, Registered
    <3>5. AwaitsAgreed(n)'
      BY <1>1, <3>1, <3>2, <3>3 DEF AwaitsAgreed, Agreed, Registered, GivesKey
    <3>. QED
      BY <3>4, <3>5
  <2>. QED
    BY <2>1, <2>2
<1>4. (\A c \in Conns : Attended(c) /\ AnswersAgreed(c))'
      /\ (\A n \in Machines : UploadsAgreed(n) /\ SignedInOK(n) /\ AwaitsAgreed(n))'
  BY <1>2, <1>3
<1>. QED
  BY <1>4 DEF AgreementInv, UploadsAgreed, AwaitsAgreed, AnswersAgreed

(* A run goes on without a word to the server. *)
LEMMA QuietAgrees ==
    ASSUME TransferInv, AgreementInv, NEW m \in Machines, OwnStep(m), Running(m),
           UNCHANGED <<link, inbox, run>>, proc'[m].phase # "await", UploadsAgreed(m)'
    PROVE  AgreeStep(m)
<1>1. UNCHANGED <<pc, req>> /\ Session(m)' = Session(m) /\ Session(m) \in Conns
  BY OwnExchange DEF OwnStep, MachineFrame, server, thread, Session
<1>2. Attended(Session(m))'
  BY <1>1, AgreementParts DEF Attended, Pending, Idle
<1>3. AwaitsAgreed(m)'
  BY DEF AwaitsAgreed
<1>. QED
  BY <1>2, <1>3 DEF AgreeStep

(* After an exception an upload is not gone on with.                        *)
LEMMA ThrowAgrees ==
    ASSUME NEW m \in Machines, SignedInOK(m), UploadsAgreed(m), UNCHANGED clients,
           NEW h \in Process, h.at = proc[m].at, h.op = proc[m].op, h.id = proc[m].id,
           h.aes = proc[m].aes, h.registered = proc[m].registered, proc'[m] = Throw(h)
    PROVE  UploadsAgreed(m)' /\ proc'[m].phase # "await"
<1>. DEFINE p == proc[m]
            q == proc'[m]
<1>1. /\ SameMemory(q, h) /\ GoesOn(q)
      /\ h.at \in {"upload1", "upload2"} => q.op = h.op
      /\ h.at \notin {"upload1", "upload2"} => Returns(h, q)
  BY ThrowFlow
<1>2. q.id = p.id /\ q.aes = p.aes /\ q.phase # "await"
  BY <1>1 DEF SameMemory, GoesOn
<1>3. q.registered = p.registered
  BY <1>1, Zenon DEF SameMemory
<1>4. q.op = p.op \/ q.op = S_PUBLIC_KEY
  <2>1. h.at \notin {"upload1", "upload2"} => ~h.registered /\ h.at \in {"register", "signIn"}
    BY DEF SignedInOK, Process
  <2>. QED
    BY <1>1, <2>1 DEF Returns
<1>5. Agreed(p.id, p.aes) => Agreed(proc[m].id, proc[m].aes)'
  BY <1>2 DEF Agreed, Registered
<1>. QED
  BY <1>2, <1>3, <1>4, <1>5 DEF UploadsAgreed

LEMMA StartAgrees ==
    ASSUME TransferInv, OwnershipInv, AgreementInv, NEW m \in Machines, Start(m),
           UNCHANGED server
    PROVE  AgreeStep(m)
<1>. DEFINE s == <<m, run[m] + 1>>
<1>1. OwnStep(m) /\ UNCHANGED <<pc, req>> /\ UNCHANGED inbox
  BY StartIsOwn DEF Start, Connect, server, thread
<1>2. /\ run[m] \in 0..MaxRuns /\ MaxRuns \in Nat /\ run'[m] = run[m] + 1
      /\ proc'[m] = NewProcess
  BY MachinesAssumption DEF TransferInv, ClientInv, ClientTypeOK, Start, Goes
<1>3. Session(m)' = s /\ inbox[s] = None /\ pc[s] = "off"
  BY <1>2 DEF Session, TransferInv, UnusedOK, Start
<1>4. Pending(Session(m))' = {}
  BY <1>1, <1>3 DEF Pending, Idle
<1>5. /\ NewProcess.phase = "send" /\ NewProcess.op = REGISTER
      /\ NewProcess.registered = FALSE
  BY DEF NewProcess
<1>. QED
  BY <1>1, <1>2, <1>4, <1>5 DEF AgreeStep, UploadsAgreed, AwaitsAgreed, Attended

LEMMA SendAgrees ==
    ASSUME TransferInv, OwnershipInv, AgreementInv, NEW m \in Machines, SendRequest(m),
           UNCHANGED server
    PROVE  AgreeStep(m)
<1>. DEFINE c == Session(m)
            p == proc[m]
            q == proc'[m]
<1>1. /\ OwnStep(m) /\ UNCHANGED <<run, pc, req, link, outbox, clients>>
      /\ p.phase = "send" /\ Running(m)
  BY SendIsOwn DEF SendRequest, server, thread, tables, Submit, Running
<1>2. /\ q.id = SenderId(m) /\ q.aes = p.aes /\ q.registered = p.registered
      /\ p.op = N_VALID_CRC => q.phase = "send" /\ q.op = SEND_FILE
      /\ p.op # N_VALID_CRC => q.phase = "await" /\ q.op = p.op
      /\ inbox'[c] = RequestOf(m) /\ link[c] = "open"
  BY SendEffect DEF TransferInv
<1>3. c \in Conns /\ ExchangeOK(c, p) /\ Session(m)' = c
  BY <1>1, <1>2, OwnExchange DEF Session
<1>4. outbox'[c] = None /\ Pending(c)' \subseteq {RequestOf(m)}
  BY <1>1, <1>2, <1>3 DEF ExchangeOK, Idle, Pending
<1>5. InPlace(p) /\ SignedInOK(m) /\ UploadsAgreed(m)
  BY <1>1, SessionInUse, AgreementParts DEF TransferInv, ProgramOK
<1>6. UploadsAgreed(m)'
  <2>1. CASE p.registered \/ p.op \in {SEND_FILE, N_VALID_CRC}
    <3>1. q.id = p.id
      BY <1>2, <1>5, <2>1 DEF SenderId, SignedInOK, InPlace
    <3>2. Agreed(proc[m].id, proc[m].aes)'
      BY <1>1, <1>2, <1>5, <2>1, <3>1 DEF UploadsAgreed, Agreed, Registered
    <3>. QED
      BY <3>2 DEF UploadsAgreed
  <2>2. CASE ~(p.registered \/ p.op \in {SEND_FILE, N_VALID_CRC})
    BY <1>2, <2>2 DEF UploadsAgreed
  <2>. QED
    BY <2>1, <2>2
<1>7. AwaitsAgreed(m)'
  <2>1. RequestOf(m).uid = q.id
    BY <1>2, RequestFields
  <2>. QED
    BY <1>3, <1>4, <2>1 DEF AwaitsAgreed, GivesKey
<1>8. Attended(Session(m))'
  BY <1>1, <1>2, <1>3 DEF Attended
<1>. QED
  BY <1>1, <1>6, <1>7, <1>8 DEF AgreeStep

LEMMA GiveUpAgrees ==
    ASSUME TransferInv, OwnershipInv, AgreementInv, NEW m \in Machines,
           BuildFails(m) \/ ConnectionLost(m), UNCHANGED server
    PROVE  AgreeStep(m)
<1>1. OwnStep(m) /\ Running(m)
  BY MachineIsOwn DEF MachineNext, Runs, BuildFails, ConnectionLost, Running
<1>2. /\ proc[m] \in Process /\ proc'[m] = Throw(proc[m])
      /\ UNCHANGED <<link, inbox, run, clients>>
  BY DEF BuildFails, ConnectionLost, wires, Goes, TransferInv, ClientInv, ClientTypeOK,
         server, tables
<1>3. UploadsAgreed(m)' /\ proc'[m].phase # "await"
  BY <1>2, ThrowAgrees, AgreementParts
<1>. QED
  BY <1>1, <1>2, <1>3, QuietAgrees

LEMMA SavesAgree ==
    ASSUME TransferInv, OwnershipInv, AgreementInv, NEW m \in Machines,
           SaveKey(m) \/ SaveInfo(m), UNCHANGED server
    PROVE  AgreeStep(m)
<1>. DEFINE p == proc[m]
            q == proc'[m]
<1>1. OwnStep(m) /\ Running(m) /\ p.phase \in {"saveKey", "saveInfo"}
  BY MachineIsOwn DEF MachineNext, Runs, SaveKey, SaveInfo, Running
<1>2. /\ p \in Process /\ InPlace(p) /\ p.op = REGISTER
      /\ SignedInOK(m) /\ UploadsAgreed(m)
      /\ UNCHANGED <<link, inbox, run, clients>>
  BY <1>1, SessionInUse, AgreementParts
  DEF SaveKey, SaveInfo, wires, server, tables, TransferInv, ProgramOK
<1>3. ~p.registered /\ p.at \in {"register", "signIn"}
  BY <1>2 DEF SignedInOK, InPlace, Process
<1>4. CASE q = Throw(p)
  <2>1. UploadsAgreed(m)' /\ q.phase # "await"
    BY <1>2, <1>4, ThrowAgrees
  <2>. QED
    BY <1>1, <1>2, <2>1, QuietAgrees
<1>5. CASE SameMemory(q, p) /\ q.phase = "saveInfo" /\ q.op = p.op
  <2>1. ~q.registered
    BY <1>3, <1>5, Zenon DEF SameMemory
  <2>2. UploadsAgreed(m)'
    BY <1>2, <1>5, <2>1 DEF UploadsAgreed
  <2>. QED
    BY <1>1, <1>2, <1>5, <2>2, QuietAgrees
<1>6. CASE \E h \in Process : q = Return(h) /\ h.at = p.at /\ h.registered = p.registered
  <2>1. PICK h \in Process : q = Return(h) /\ h.at = p.at /\ h.registered = p.registered
    BY <1>6
  <2>2. Returns(h, q)
    BY <2>1, ReturnFlow
  <2>3. q.op = S_PUBLIC_KEY /\ q.phase = "send"
    BY <1>3, <2>1, <2>2 DEF Returns
  <2>4. ~q.registered
    BY <1>3, <2>1, <2>2, Zenon DEF Returns, SameMemory
  <2>5. UploadsAgreed(m)'
    BY <2>3, <2>4 DEF UploadsAgreed
  <2>. QED
    BY <1>1, <1>2, <2>3, <2>5, QuietAgrees
<1>. QED
  BY <1>4, <1>5, <1>6, SaveKeyEffect, SaveInfoEffect DEF TransferInv

LEMMA EndAgrees ==
    ASSUME TransferInv, OwnershipInv, AgreementInv, NEW m \in Machines, UNCHANGED server,
           PayloadLost(m) \/ Exit(m)
    PROVE  AgreeStep(m)
<1>. DEFINE c == Session(m)
<1>1. OwnStep(m) /\ Running(m) /\ UNCHANGED <<pc, req>>
  BY MachineIsOwn DEF PayloadLost, Exit, Running, MachineNext, Runs, server, thread
<1>2. PICK how \in {"off", "terminated"} : Ends(m, how)
  BY DEF PayloadLost, Exit
<1>3. /\ Hangup(c) /\ UNCHANGED run
      /\ proc'[m].phase = how /\ proc'[m].registered = FALSE /\ proc'[m].op = REGISTER
  <2>1. LET q == [NoProcess EXCEPT !.phase = how]
        IN q.phase = how /\ q.registered = FALSE /\ q.op = REGISTER
    BY DEF NoProcess, NewProcess
  <2>. QED
    BY <1>2, <2>1 DEF Ends, Goes, TransferInv, ClientInv, ClientTypeOK
<1>4. /\ c \in Conns /\ Session(m)' = c /\ inbox'[c] \in {inbox[c], None}
      /\ link[c] = "open" => ExchangeOK(c, proc[m])
  <2>1. c \in Conns /\ Session(m)' = c
    BY <1>1, <1>3, OwnExchange DEF Session
  <2>. QED
    BY <1>1, <1>3, <2>1, WiresTyped, OwnExchange DEF Hangup, TransferInv
<1>5. \A r \in Pending(c)' : r.code = N_VALID_CRC
  <2>1. Pending(c)' \subseteq Pending(c)
    BY <1>1, <1>4 DEF Pending, Idle
  <2>2. CASE Exit(m) /\ link[c] = "open"
    BY <1>4, <2>1, <2>2 DEF Exit, ExchangeOK, Pending, Idle
  <2>3. CASE link[c] # "open"
    BY <1>4, <2>1, <2>3, AgreementParts DEF Attended
  <2>. QED
    BY <2>2, <2>3 DEF PayloadLost
<1>6. Attended(Session(m))'
  BY <1>4, <1>5 DEF Attended
<1>. QED
  BY <1>1, <1>3, <1>6 DEF AgreeStep, UploadsAgreed, AwaitsAgreed

(* A run comes to upload only with the key that the answer gave it.         *)
LEMMA ReceiveAgrees ==
    ASSUME TransferInv, OwnershipInv, AgreementInv, NEW m \in Machines, ReceiveResponse(m),
           UNCHANGED server
    PROVE  AgreeStep(m)
<1>. DEFINE c == Session(m)
            a == outbox[c]
            p == proc[m]
            q == proc'[m]
<1>0. p.phase = "await" /\ Collect(Session(m)) /\ UNCHANGED run
  BY DEF ReceiveResponse
<1>1. /\ OwnStep(m) /\ UNCHANGED <<link, inbox, run, clients>> /\ Running(m)
  BY <1>0, MachineIsOwn DEF MachineNext, Runs, Collect, Running, server, tables
<1>2. /\ p \in Process /\ InPlace(p) /\ IsAnswer(p.op, a) /\ a # None
      /\ SignedInOK(m) /\ UploadsAgreed(m)
      /\ GivesKey(a) => Agreed(p.id, a.key)
  BY <1>0, <1>1, SessionInUse, ReceiveEffect, AgreementParts
  DEF TransferInv, ProgramOK, AwaitsAgreed
<1>3. CASE /\ q.phase = "saveKey" /\ p.op = REGISTER
           /\ q.op = p.op /\ q.id = p.id /\ q.registered = p.registered /\ q.aes = p.aes
  <2>1. UploadsAgreed(m)'
    BY <1>1, <1>2, <1>3 DEF UploadsAgreed, Agreed, Registered
  <2>. QED
    BY <1>1, <1>3, <2>1, QuietAgrees
<1>4. CASE \E h \in Process :
              /\ q = Throw(h) /\ h.at = p.at /\ h.op = p.op /\ h.id = p.id
              /\ h.registered = p.registered /\ h.aes = p.aes
  <2>1. UploadsAgreed(m)' /\ q.phase # "await"
    BY <1>1, <1>2, <1>4, ThrowAgrees
  <2>. QED
    BY <1>1, <2>1, QuietAgrees
<1>5. CASE \E h : Hears(m, h) /\ q = AfterReply(h)
  <2>1. PICK h : Hears(m, h) /\ q = AfterReply(h)
    BY <1>5
  <2>2. /\ h \in Process /\ InPlace(h) /\ h.last = a /\ h.at = p.at /\ h.op = p.op
        /\ h.id = p.id /\ h.registered = p.registered /\ IsAnswer(h.op, h.last)
        /\ GivesKey(a) => h.aes = a.key
        /\ ~GivesKey(a) => h.aes = p.aes
    BY <1>2, <2>1 DEF Hears
  <2>3. q.id = p.id /\ q.aes = h.aes /\ q.phase # "await"
    BY <2>1, <2>2, AfterReplyFlow DEF Returns, Continues, SameMemory, GoesOn
  <2>4. CASE GivesKey(a)
    <3>1. Registered(p.id) /\ clients[p.id].aes = a.key
      BY <1>2, <2>4 DEF Agreed
    <3>2. UploadsAgreed(m)'
      BY <1>1, <2>2, <2>3, <2>4, <3>1 DEF UploadsAgreed, Agreed, Registered
    <3>. QED
      BY <1>1, <2>3, <3>2, QuietAgrees
  <2>5. CASE ~GivesKey(a)
    <3>1. /\ a.code \notin {IN_PUBLIC_KEY_OUT_AES, RECCONECT_APPROVED}
          /\ p.op = S_PUBLIC_KEY => a.code = GENERAL_ERROR
      BY <1>2, <2>5 DEF GivesKey, IsAnswer, AnswerCodes
    <3>2. \/ Returns(h, q)
          \/ Continues(h, q)
          \/ SameMemory(q, h) /\ q.op = REGISTER
      BY <2>1, <2>2, <3>1, AfterReplyFlow
    <3>3. q.registered = p.registered
      BY <2>2, <3>2, Zenon DEF Returns, Continues, SameMemory
    <3>4. p.registered \/ q.op \in {p.op, REGISTER, RECONNECT, S_PUBLIC_KEY, VALID_CRC}
                     \/ p.op = SEND_FILE
      <4>1. CASE Returns(h, q)
        BY <2>2, <4>1 DEF Returns, Process
      <4>2. CASE Continues(h, q)
        BY <2>2, <3>1, <4>2 DEF Continues
      <4>. QED
        BY <3>2, <4>1, <4>2
    <3>5. q.registered \/ q.op \in {SEND_FILE, N_VALID_CRC} =>
              p.registered \/ p.op \in {SEND_FILE, N_VALID_CRC}
      BY <3>3, <3>4
    <3>6. UploadsAgreed(m)'
      BY <1>1, <1>2, <2>2, <2>3, <2>5, <3>5 DEF UploadsAgreed, Agreed, Registered
    <3>. QED
      BY <1>1, <2>3, <3>6, QuietAgrees
  <2>. QED
    BY <2>4, <2>5
<1>. QED
  BY <1>3, <1>4, <1>5, ReceiveEffect DEF TransferInv

-----------------------------------------------------------------------------
(* The theorems about AES keys. *)

LEMMA AgreementNextKeeps ==
    ASSUME TransferInv, OwnershipInv, AgreementInv, ~Kills, [TransferNext]_transferVars
    PROVE  AgreementInv'
<1>1. ASSUME NEW m \in Machines, MachineStep(m)
      PROVE  AgreementInv'
  <2>1. AgreeStep(m)
    BY <1>1, StartAgrees, SendAgrees, GiveUpAgrees, ReceiveAgrees, SavesAgree, EndAgrees
    DEF MachineStep, MachineNext, Runs, Kill, KillSending
  <2>2. SignedInOK(m)'
    BY <1>1, SignedInStays DEF AgreementInv, MachineStep
  <2>. QED
    BY <2>1, <2>2, MachineKeepsAgreement
<1>2. CASE ServerStep
  BY <1>2, ThreadKeepsAgreement, CrashKeepsAgreement DEF ServerStep, ServerNext
<1>3. CASE UNCHANGED transferVars
  <2>1. UNCHANGED <<run, proc, clients, link, inbox, outbox, pc, req, ans>>
    BY <1>3 DEF transferVars, vars, clientVars, local, wires, tables, thread
  <2>. QED
    BY <2>1
    DEF AgreementInv, SignedInOK, Attended, Agreed, Registered, GivesKey, Pending, Idle, Session
<1>. QED
  BY <1>1, <1>2, <1>3 DEF TransferNext

LEMMA AgreementStarts ==
    ASSUME TransferInit
    PROVE  AgreementInv
<1>1. \A c \in Conns : Pending(c) = {} /\ pc[c] = "off"
  BY DEF TransferInit, Init, WiresInit, Pending, Idle
<1>2. NoProcess.phase = "off" /\ NoProcess.op = REGISTER /\ NoProcess.registered = FALSE
  BY DEF NoProcess, NewProcess
<1>3. \A m \in Machines : proc[m] = NoProcess
  BY DEF TransferInit, ClientInit
<1>. QED
  BY <1>1, <1>2, <1>3 DEF AgreementInv, SignedInOK, Attended

(* Whoever has an AES key, or an answer with one on its way, has the key    *)
(* that the server has for this user, for as long as it can use it          *)
(* (build_encrypted_aes_payload, uploadFile).                               *)
THEOREM KeysHaveOneOwner ==
    ASSUME ClientRequests(Nat) \subseteq Traffic, ~Kills
    PROVE  TransferSpec => []AgreementInv
<1>1. TransferInit => AgreementInv
  BY AgreementStarts
<1>2. TransferInv /\ OwnershipInv /\ AgreementInv /\ [TransferNext]_transferVars
          => AgreementInv'
  BY AgreementNextKeeps
<1>. QED
  BY <1>1, <1>2, UuidsHaveOneOwner, TransferInvariant, PTL DEF TransferSpec

(* A file is sent only under the key that the server will decrypt it with,  *)
(* whatever crashes and fails, as long as no run is killed (uploadFile,     *)
(* decrypt_file).                                                           *)
THEOREM FilesAreSentUnderServerKey ==
    ASSUME ClientRequests(Nat) \subseteq Traffic, ~Kills
    PROVE  TransferSpec => []KeyAgreement
<1>1. AgreementInv => KeyAgreement
  BY DEF AgreementInv, KeyAgreement, Agreed
<1>. QED
  BY <1>1, KeysHaveOneOwner, PTL
==============================================================================
