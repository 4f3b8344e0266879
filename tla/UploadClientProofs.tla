------------------------- MODULE UploadClientProofs -------------------------
(***************************************************************************)
(* Proofs about UploadClient with any server that keeps to the protocol,   *)
(* for every set of machines, any number of runs on each, and with local   *)
(* faults and kills.                                                       *)
(*                                                                         *)
(* ClientInv is inductive.  The first lemmas are about where the program   *)
(* goes (Return, Throw, AfterReply), as functions of its state; then there *)
(* is a lemma per action, and MachineKeeps covers what they have in common:*)
(* a step of one machine does not touch the connections of another.        *)
(***************************************************************************)
EXTENDS UploadClient, TLAPS

USE DEF REGISTER, S_PUBLIC_KEY, RECONNECT, SEND_FILE, VALID_CRC, N_VALID_CRC, EXIT_CRC,
        INIT_REGISTRATION_SUCC, REGISTRATION_FAIL, IN_PUBLIC_KEY_OUT_AES, VALID_FILE_CRC,
        FILE_APPROVAL, RECCONECT_APPROVED, RECCONET_DENIED, GENERAL_ERROR, NoKey

(* What the program has learnt: it is the same in p and q. *)
SameMemory(q, p) ==
    /\ q \in Process
    /\ q.id = p.id /\ q.file = p.file /\ q.aes = p.aes
    /\ q.crcValid = p.crcValid /\ q.registered = p.registered /\ q.last = p.last

(* What holds of the program when it has taken in an answer and is about to *)
(* decide where to go.                                                      *)
Heard(m, p, priv) ==
    /\ p \in Process
    /\ InPlace(p)
    /\ IsAnswer(p.op, p.last)
    /\ p.aes # NoKey => priv # None
    /\ p.registered \/ p.op \notin {REGISTER, RECONNECT, S_PUBLIC_KEY} => p.aes # NoKey
    /\ p.mode = "crc" \/ p.op \in {VALID_CRC, SEND_FILE} => p.file = Upload[m]
    /\ p.last.code \in {IN_PUBLIC_KEY_OUT_AES, RECCONECT_APPROVED} => p.aes # NoKey
    /\ p.last.code = VALID_FILE_CRC /\ p.crcValid => p.last.crc = Local[m]
    /\ p.mode = "crc" /\ p.crcValid => p.last.code = VALID_FILE_CRC

(* The program in another phase; in a loop anew, or out of all loops; and   *)
(* in the next round of its loop.                                           *)
Phased(p, phase) == [p EXCEPT !.phase = phase]
Into(p, mode)    == [p EXCEPT !.mode = mode, !.tries = 0]
Again(p)         == [p EXCEPT !.tries = @ + 1]

GoesOn(q) == q.phase \in {"send", "exit"}

(* The run goes on and does not wait. *)
Busy(m) == proc[m].phase \in {"send", "exit", "saveKey", "saveInfo"}

-----------------------------------------------------------------------------
(* The fields of the records that the program goes to. *)

LEMMA AskFields ==
    ASSUME NEW p \in Process, NEW code \in RequestCodes
    PROVE  LET q == Ask(p, code)
           IN SameMemory(q, p) /\ q.at = p.at /\ q.op = code /\ q.phase = "send" /\ q.mode = p.mode
<1>. DEFINE q == Ask(p, code)
<1>1. q \in Process
  BY Zenon DEF Ask, Process
<1>2. q.id = p.id /\ q.file = p.file /\ q.aes = p.aes /\ q.last = p.last
  BY SMT DEF Ask, Process
<1>3. q.crcValid = p.crcValid /\ q.registered = p.registered
  BY SMT DEF Ask, Process
<1>4. q.at = p.at /\ q.op = code /\ q.phase = "send" /\ q.mode = p.mode
  BY SMT DEF Ask, Process
<1>. QED
  BY <1>1, <1>2, <1>3, <1>4, Zenon DEF SameMemory

LEMMA MoveFields ==
    ASSUME NEW p \in Process, NEW at \in {"upload1", "signIn", "upload2"}
    PROVE  LET q == [p EXCEPT !.at = at]
           IN SameMemory(q, p) /\ q.at = at /\ q.op = p.op /\ q.mode = p.mode
<1>. DEFINE q == [p EXCEPT !.at = at]
<1>1. q \in Process
  BY Zenon DEF Process
<1>2. q.id = p.id /\ q.file = p.file /\ q.aes = p.aes /\ q.last = p.last
  BY SMT DEF Process
<1>3. q.crcValid = p.crcValid /\ q.registered = p.registered
  BY SMT DEF Process
<1>4. q.at = at /\ q.op = p.op /\ q.mode = p.mode
  BY SMT DEF Process
<1>. QED
  BY <1>1, <1>2, <1>3, <1>4, Zenon DEF SameMemory

LEMMA PhaseFields ==
    ASSUME NEW p \in Process,
           NEW phase \in {"send", "await", "saveKey", "saveInfo", "exit", "off", "terminated"}
    PROVE  LET q == Phased(p, phase)
           IN SameMemory(q, p) /\ q.at = p.at /\ q.op = p.op /\ q.mode = p.mode /\ q.phase = phase
<1>. DEFINE q == Phased(p, phase)
<1>1. q \in Process
  BY Zenon DEF Phased, Process
<1>2. q.id = p.id /\ q.file = p.file /\ q.aes = p.aes /\ q.last = p.last
  BY SMT DEF Phased, Process
<1>3. q.crcValid = p.crcValid /\ q.registered = p.registered
  BY SMT DEF Phased, Process
<1>4. q.at = p.at /\ q.op = p.op /\ q.mode = p.mode /\ q.phase = phase
  BY SMT DEF Phased, Process
<1>. QED
  BY <1>1, <1>2, <1>3, <1>4, Zenon DEF SameMemory

LEMMA AgainFields ==
    ASSUME NEW p \in Process, p.tries < 1
    PROVE  LET q == Again(p)
           IN SameMemory(q, p) /\ q.at = p.at /\ q.mode = p.mode
<1>. DEFINE q == Again(p)
<1>1. q \in Process
  BY SMT DEF Again, Process
<1>2. q.id = p.id /\ q.file = p.file /\ q.aes = p.aes /\ q.last = p.last
  BY SMT DEF Again, Process
<1>3. q.crcValid = p.crcValid /\ q.registered = p.registered
  BY SMT DEF Again, Process
<1>4. q.at = p.at /\ q.mode = p.mode
  BY SMT DEF Again, Process
<1>. QED
  BY <1>1, <1>2, <1>3, <1>4, Zenon DEF SameMemory

LEMMA ModeFields ==
    ASSUME NEW p \in Process, NEW mode \in {"once", "error", "crc"}
    PROVE  LET q == Into(p, mode)
           IN SameMemory(q, p) /\ q.at = p.at /\ q.mode = mode
<1>. DEFINE q == Into(p, mode)
<1>1. q \in Process
  <2>1. 0 \in 0..1
    OBVIOUS
  <2>. QED
    BY <2>1, Zenon DEF Into, Process
<1>2. q.id = p.id /\ q.file = p.file /\ q.aes = p.aes /\ q.last = p.last
  BY SMT DEF Into, Process
<1>3. q.crcValid = p.crcValid /\ q.registered = p.registered
  BY SMT DEF Into, Process
<1>4. q.at = p.at /\ q.mode = mode
  BY SMT DEF Into, Process
<1>. QED
  BY <1>1, <1>2, <1>3, <1>4, Zenon DEF SameMemory

LEMMA AskOnceFields ==
    ASSUME NEW p \in Process, NEW code \in RequestCodes
    PROVE  LET q == AskOnce(p, code)
           IN /\ SameMemory(q, p)
              /\ q.at = p.at /\ q.op = code /\ q.phase = "send" /\ q.mode = "once"
<1>. DEFINE r == Into(p, "once")
<1>1. SameMemory(r, p) /\ r.at = p.at /\ r.mode = "once"
  BY ModeFields
<1>2. AskOnce(p, code) = Ask(r, code)
  BY DEF AskOnce, Into
<1>. HIDE DEF r
<1>. QED
  BY <1>1, <1>2, AskFields DEF SameMemory

LEMMA RegisteredFields ==
    ASSUME NEW p \in Process
    PROVE  LET q == [p EXCEPT !.registered = TRUE]
           IN /\ q \in Process /\ q.at = p.at /\ q.op = p.op /\ q.mode = p.mode
              /\ q.file = p.file /\ q.aes = p.aes /\ q.crcValid = p.crcValid /\ q.last = p.last
<1>. DEFINE q == [p EXCEPT !.registered = TRUE]
<1>1. q \in Process
  BY Zenon DEF Process
<1>2. /\ q.at = p.at /\ q.op = p.op /\ q.mode = p.mode
      /\ q.file = p.file /\ q.aes = p.aes /\ q.crcValid = p.crcValid /\ q.last = p.last
  BY SMT DEF Process
<1>. QED
  BY <1>1, <1>2, Zenon

-----------------------------------------------------------------------------
(* Where the program goes. *)

(* What the next upload of a run needs. *)
LEMMA BeginUploadOK ==
    ASSUME NEW m \in Machines, NEW priv, NEW p \in Process,
           p.at \in {"upload1", "upload2"},
           p.aes # NoKey => priv # None, p.registered => p.aes # NoKey
    PROVE  ProgramOK(m, BeginUpload(p), priv) /\ GoesOn(BeginUpload(p))
<1>. DEFINE code == IF p.registered THEN SEND_FILE ELSE S_PUBLIC_KEY
            q    == AskOnce(p, code)
<1>0. code \in RequestCodes
  BY DEF RequestCodes
<1>1. BeginUpload(p) = q
  BY DEF BeginUpload
<1>2. SameMemory(q, p) /\ q.at = p.at /\ q.op = code /\ q.phase = "send" /\ q.mode = "once"
  BY <1>0, AskOnceFields
<1>3. code \in {SEND_FILE, S_PUBLIC_KEY} /\ (code = SEND_FILE => p.aes # NoKey)
  OBVIOUS
<1>. HIDE DEF q, code
<1>. QED
  BY <1>1, <1>2, <1>3 DEF SameMemory, ProgramOK, InPlace, GoesOn

(* What a call of main leaves behind is enough for the next one. *)
LEMMA ReturnOK ==
    ASSUME NEW m \in Machines, NEW priv, NEW p \in Process, InPlace(p),
           p.aes # NoKey => priv # None,
           p.registered \/ p.op \notin {REGISTER, RECONNECT, S_PUBLIC_KEY} => p.aes # NoKey,
           p.mode = "crc" => ~p.crcValid,
           p.mode = "crc" \/ p.op = VALID_CRC => p.file = Upload[m]
    PROVE  ProgramOK(m, Return(p), priv) /\ GoesOn(Return(p))
<1>1. ASSUME NEW at \in {"upload1", "upload2"}, Return(p) = BeginUpload([p EXCEPT !.at = at])
      PROVE  ProgramOK(m, Return(p), priv) /\ GoesOn(Return(p))
  <2>. DEFINE q == [p EXCEPT !.at = at]
  <2>1. SameMemory(q, p) /\ q.at = at
    BY MoveFields
  <2>. HIDE DEF q
  <2>2. ProgramOK(m, BeginUpload(q), priv) /\ GoesOn(BeginUpload(q))
    BY <2>1, BeginUploadOK DEF SameMemory
  <2>. QED
    BY <1>1, <2>2 DEF q
<1>2. CASE p.at = "register"
  BY <1>1, <1>2 DEF Return
<1>3. CASE p.at = "upload1"
  <2>. DEFINE r == [p EXCEPT !.at = "signIn"]
              q == AskOnce(r, RECONNECT)
  <2>1. SameMemory(r, p) /\ r.at = "signIn"
    BY MoveFields
  <2>2. Return(p) = q
    BY <1>3 DEF Return
  <2>. HIDE DEF r
  <2>3. /\ SameMemory(q, r)
        /\ q.at = r.at /\ q.op = RECONNECT /\ q.phase = "send" /\ q.mode = "once"
    BY <2>1, AskOnceFields DEF SameMemory, RequestCodes
  <2>. HIDE DEF q
  <2>. QED
    BY <2>1, <2>2, <2>3 DEF SameMemory, ProgramOK, InPlace, GoesOn
<1>4. CASE p.at = "signIn"
  BY <1>1, <1>4 DEF Return
<1>5. CASE p.at = "upload2"
  <2>. DEFINE q == Phased(p, "exit")
  <2>1. SameMemory(q, p) /\ q.at = p.at /\ q.op = p.op /\ q.mode = p.mode /\ q.phase = "exit"
    BY PhaseFields
  <2>2. Return(p) = q
    BY <1>5 DEF Return, Phased
  <2>. HIDE DEF q
  <2>. QED
    BY <1>5, <2>1, <2>2 DEF SameMemory, ProgramOK, InPlace, GoesOn
<1>6. p.at \in {"register", "upload1", "signIn", "upload2"}
  BY DEF Process
<1>. QED
  BY <1>2, <1>3, <1>4, <1>5, <1>6

(* An exception leads to the next call of main, or to the end.              *)
LEMMA ThrowOK ==
    ASSUME NEW m \in Machines, NEW priv, NEW p, ProgramOK(m, p, priv)
    PROVE  ProgramOK(m, Throw(p), priv) /\ GoesOn(Throw(p))
<1>0. p \in Process
  BY DEF ProgramOK
<1>1. CASE p.at \in {"upload1", "upload2"}
  <2>. DEFINE q == Phased(p, "exit")
  <2>1. SameMemory(q, p) /\ q.at = p.at /\ q.op = p.op /\ q.mode = p.mode /\ q.phase = "exit"
    BY <1>0, PhaseFields
  <2>2. Throw(p) = q
    BY <1>1 DEF Throw, Phased
  <2>. HIDE DEF q
  <2>. QED
    BY <1>1, <2>1, <2>2 DEF SameMemory, ProgramOK, InPlace, GoesOn
<1>2. CASE p.at \notin {"upload1", "upload2"}
  <2>1. Throw(p) = Return(p)
    BY <1>2 DEF Throw
  <2>. QED
    BY <2>1, ReturnOK DEF ProgramOK
<1>. QED
  BY <1>1, <1>2

LEMMA HeardReturns ==
    ASSUME NEW m \in Machines, NEW priv, NEW p, Heard(m, p, priv),
           p.mode = "crc" => ~p.crcValid
    PROVE  ProgramOK(m, Return(p), priv) /\ GoesOn(Return(p))
BY ReturnOK DEF Heard

(* A request of an upload is asked for again, or the next one is. *)
LEMMA HeardAsks ==
    ASSUME NEW m \in Machines, NEW priv, NEW p, Heard(m, p, priv),
           p.at \in {"upload1", "upload2"},
           NEW r, SameMemory(r, p), r.at = p.at, NEW code \in RequestCodes,
           code \in IF r.mode = "crc" THEN {SEND_FILE, N_VALID_CRC, EXIT_CRC}
                                      ELSE {S_PUBLIC_KEY, SEND_FILE, VALID_CRC},
           code # S_PUBLIC_KEY => p.aes # NoKey,
           r.mode = "crc" => ~p.crcValid /\ p.file = Upload[m],
           code = VALID_CRC => p.file = Upload[m],
           code = VALID_CRC /\ r.mode = "once" =>
               p.last.code = VALID_FILE_CRC /\ p.last.crc = Local[m]
    PROVE  ProgramOK(m, Ask(r, code), priv) /\ GoesOn(Ask(r, code))
<1>. DEFINE q == Ask(r, code)
<1>1. /\ SameMemory(q, r)
      /\ q.at = r.at /\ q.op = code /\ q.phase = "send" /\ q.mode = r.mode
  BY AskFields DEF SameMemory
<1>2. p.last # None
  BY PacketsAssumption DEF Heard, IsAnswer
<1>. HIDE DEF q
<1>3. ProgramOK(m, q, priv) /\ GoesOn(q)
  BY <1>1, <1>2 DEF Heard, SameMemory, ProgramOK, InPlace, GoesOn
<1>. QED
  BY <1>3 DEF q

LEMMA HeardTwice ==
    ASSUME NEW m \in Machines, NEW priv, NEW p, Heard(m, p, priv),
           p.at \in {"upload1", "upload2"}, p.tries < 1, NEW code \in RequestCodes,
           p.mode \in {"error", "crc"}, p.mode = "error" => code = p.op,
           p.mode = "crc" => code = N_VALID_CRC /\ ~p.crcValid
    PROVE  ProgramOK(m, Ask(Again(p), code), priv) /\ GoesOn(Ask(Again(p), code))
<1>. DEFINE r == Again(p)
<1>1. SameMemory(r, p) /\ r.at = p.at /\ r.mode = p.mode
  BY AgainFields DEF Heard
<1>. HIDE DEF r
<1>2. ProgramOK(m, Ask(r, code), priv) /\ GoesOn(Ask(r, code))
  <2>1. p.mode = "error" => code \in {S_PUBLIC_KEY, SEND_FILE, VALID_CRC}
    BY DEF Heard, InPlace
  <2>2. code # S_PUBLIC_KEY => p.aes # NoKey
    BY DEF Heard, InPlace
  <2>3. p.mode = "crc" \/ code = VALID_CRC => p.file = Upload[m]
    BY DEF Heard
  <2>. QED
    BY <1>1, <2>1, <2>2, <2>3, HeardAsks
<1>. QED
  BY <1>2 DEF r

(* uploadFile confirms the file after a checksum that matched. *)
LEMMA Confirms ==
    ASSUME NEW m \in Machines, NEW priv, NEW p, Heard(m, p, priv),
           p.at \in {"upload1", "upload2"}, p.op = SEND_FILE,
           p.last.code = VALID_FILE_CRC, p.crcValid
    PROVE  ProgramOK(m, AskOnce(p, VALID_CRC), priv) /\ GoesOn(AskOnce(p, VALID_CRC))
<1>. DEFINE r == Into(p, "once")
<1>1. SameMemory(r, p) /\ r.at = p.at /\ r.mode = "once"
  BY ModeFields DEF Heard
<1>2. AskOnce(p, VALID_CRC) = Ask(r, VALID_CRC)
  BY DEF AskOnce, Into
<1>. HIDE DEF r
<1>3. /\ p.aes # NoKey /\ p.file = Upload[m] /\ p.last.crc = Local[m]
      /\ VALID_CRC \in RequestCodes
  BY DEF Heard, RequestCodes
<1>. QED
  BY <1>1, <1>2, <1>3, HeardAsks

LEMMA ProceedOK ==
    ASSUME NEW m \in Machines, NEW priv, NEW p, Heard(m, p, priv),
           p.at \in {"upload1", "upload2"}, p.mode # "crc", p.last.code # GENERAL_ERROR
    PROVE  ProgramOK(m, Proceed(p), priv) /\ GoesOn(Proceed(p))
<1>0. p.op \in {S_PUBLIC_KEY, SEND_FILE, VALID_CRC} /\ p \in Process
  BY DEF Heard, InPlace
<1>1. CASE p.op = S_PUBLIC_KEY
  <2>. DEFINE r == Into(p, "once")
  <2>1. SameMemory(r, p) /\ r.at = p.at /\ r.mode = "once"
    BY <1>0, ModeFields
  <2>2. Proceed(p) = Ask(r, SEND_FILE)
    BY <1>1 DEF Proceed, AskOnce, Into
  <2>. HIDE DEF r
  <2>3. p.last.code = IN_PUBLIC_KEY_OUT_AES
    BY <1>1 DEF Heard, IsAnswer, AnswerCodes
  <2>4. p.aes # NoKey /\ SEND_FILE \in RequestCodes
    BY <2>3 DEF Heard, RequestCodes
  <2>. QED
    BY <2>1, <2>2, <2>4, HeardAsks
<1>2. CASE p.op = SEND_FILE
  <2>1. p.last.code = VALID_FILE_CRC
    BY <1>2 DEF Heard, IsAnswer, AnswerCodes
  <2>2. CASE p.crcValid
    BY <1>2, <2>1, <2>2, Confirms DEF Proceed
  <2>3. CASE ~p.crcValid
    <3>. DEFINE r == Into(p, "crc")
    <3>1. SameMemory(r, p) /\ r.at = p.at /\ r.mode = "crc"
      BY <1>0, ModeFields
    <3>2. Proceed(p) = Ask(r, N_VALID_CRC)
      BY <1>2, <2>3 DEF Proceed, Into
    <3>. HIDE DEF r
    <3>3. p.aes # NoKey /\ p.file = Upload[m] /\ N_VALID_CRC \in RequestCodes
      BY <1>2 DEF Heard, RequestCodes
    <3>. QED
      BY <2>3, <3>1, <3>2, <3>3, HeardAsks
  <2>. QED
    BY <2>2, <2>3
<1>3. CASE p.op = VALID_CRC
  BY <1>3, HeardReturns DEF Proceed
<1>. QED
  BY <1>0, <1>1, <1>2, <1>3

LEMMA AfterErrorResendOK ==
    ASSUME NEW m \in Machines, NEW priv, NEW p, Heard(m, p, priv),
           p.at \in {"upload1", "upload2"}, p.mode = "error"
    PROVE  ProgramOK(m, AfterErrorResend(p), priv) /\ GoesOn(AfterErrorResend(p))
<1>1. CASE p.tries < 1
  <2>. DEFINE code == p.op
  <2>1. code \in RequestCodes /\ code = p.op
    BY DEF Heard, Process
  <2>2. AfterErrorResend(p) = Ask(Again(p), code)
    BY <1>1 DEF AfterErrorResend, Again
  <2>. HIDE DEF code
  <2>. QED
    BY <1>1, <2>1, <2>2, HeardTwice
<1>2. CASE ~(p.tries < 1)
  BY <1>2, HeardReturns, ProceedOK DEF AfterErrorResend
<1>. QED
  BY <1>1, <1>2

LEMMA AfterCrcResendOK ==
    ASSUME NEW m \in Machines, NEW priv, NEW p, Heard(m, p, priv),
           p.at \in {"upload1", "upload2"}, p.mode = "crc"
    PROVE  ProgramOK(m, AfterCrcResend(p), priv) /\ GoesOn(AfterCrcResend(p))
<1>0. /\ p.op \in {SEND_FILE, N_VALID_CRC, EXIT_CRC} /\ p \in Process
      /\ p.aes # NoKey /\ p.file = Upload[m]
      /\ p.crcValid => p.op = SEND_FILE /\ p.last.code = VALID_FILE_CRC
      /\ {N_VALID_CRC, EXIT_CRC} \subseteq RequestCodes
  BY DEF Heard, InPlace, IsAnswer, AnswerCodes, RequestCodes
<1>1. CASE p.op = EXIT_CRC
  BY <1>0, <1>1, HeardReturns DEF AfterCrcResend
<1>2. CASE p.crcValid
  BY <1>0, <1>2, Confirms DEF AfterCrcResend
<1>3. CASE p.op # EXIT_CRC /\ ~p.crcValid
  <2>1. CASE p.tries < 1
    <3>1. AfterCrcResend(p) = Ask(Again(p), N_VALID_CRC)
      BY <1>3, <2>1 DEF AfterCrcResend, Again
    <3>. QED
      BY <1>0, <1>3, <2>1, <3>1, HeardTwice
  <2>2. CASE ~(p.tries < 1)
    <3>1. AfterCrcResend(p) = Ask(p, EXIT_CRC)
      BY <1>3, <2>2 DEF AfterCrcResend
    <3>2. SameMemory(p, p)
      BY <1>0 DEF SameMemory
    <3>. QED
      BY <1>0, <1>3, <3>1, <3>2, HeardAsks
  <2>. QED
    BY <2>1, <2>2
<1>. QED
  BY <1>1, <1>2, <1>3

LEMMA AfterUploadReplyOK ==
    ASSUME NEW m \in Machines, NEW priv, NEW p, Heard(m, p, priv),
           p.at \in {"upload1", "upload2"}
    PROVE  ProgramOK(m, AfterUploadReply(p), priv) /\ GoesOn(AfterUploadReply(p))
<1>0. p.mode \in {"once", "error", "crc"} /\ p \in Process
  BY DEF Heard, Process
<1>1. CASE p.mode = "error"
  BY <1>1, AfterErrorResendOK DEF AfterUploadReply
<1>2. CASE p.mode = "crc"
  BY <1>2, AfterCrcResendOK DEF AfterUploadReply
<1>3. CASE p.mode = "once" /\ p.last.code = GENERAL_ERROR
  <2>. DEFINE r == Into(p, "error")
  <2>1. SameMemory(r, p) /\ r.at = p.at /\ r.mode = "error"
    BY <1>0, ModeFields
  <2>2. AfterUploadReply(p) = Ask(r, p.op)
    BY <1>3 DEF AfterUploadReply, Into
  <2>. HIDE DEF r
  <2>3. /\ p.op \in {S_PUBLIC_KEY, SEND_FILE, VALID_CRC} /\ p.op \in RequestCodes
        /\ p.op # S_PUBLIC_KEY => p.aes # NoKey
        /\ p.op = VALID_CRC => p.file = Upload[m]
    BY <1>3 DEF Heard, InPlace, RequestCodes
  <2>. QED
    BY <2>1, <2>2, <2>3, HeardAsks
<1>4. CASE p.mode = "once" /\ p.last.code # GENERAL_ERROR
  BY <1>4, ProceedOK DEF AfterUploadReply
<1>. QED
  BY <1>0, <1>1, <1>2, <1>3, <1>4

LEMMA AfterSignInReplyOK ==
    ASSUME NEW m \in Machines, NEW priv, NEW p, Heard(m, p, priv), p.at = "signIn"
    PROVE  ProgramOK(m, AfterSignInReply(p), priv) /\ GoesOn(AfterSignInReply(p))
<1>0. p.mode = "once" /\ p \in Process
  BY DEF Heard, InPlace
<1>1. CASE p.op = RECONNECT /\ p.last.code = RECCONET_DENIED
  <2>. DEFINE q == Ask(p, REGISTER)
  <2>1. /\ SameMemory(q, p) /\ q.at = p.at /\ q.op = REGISTER /\ q.phase = "send"
        /\ q.mode = p.mode
    BY <1>0, AskFields DEF RequestCodes
  <2>2. AfterSignInReply(p) = q
    BY <1>1 DEF AfterSignInReply
  <2>. HIDE DEF q
  <2>. QED
    BY <1>0, <2>1, <2>2 DEF Heard, SameMemory, ProgramOK, InPlace, GoesOn
<1>2. CASE p.op = RECONNECT /\ p.last.code = RECCONECT_APPROVED
  <2>. DEFINE q == [p EXCEPT !.registered = TRUE]
  <2>1. /\ q \in Process /\ q.at = p.at /\ q.op = p.op /\ q.mode = p.mode
        /\ q.file = p.file /\ q.aes = p.aes /\ q.crcValid = p.crcValid /\ q.last = p.last
    BY <1>0, RegisteredFields
  <2>2. AfterSignInReply(p) = Return(q)
    BY <1>2 DEF AfterSignInReply
  <2>. HIDE DEF q
  <2>3. Heard(m, q, priv)
    BY <1>2, <2>1 DEF Heard, InPlace
  <2>. QED
    BY <1>0, <2>1, <2>2, <2>3, HeardReturns
<1>3. CASE ~(p.op = RECONNECT /\ p.last.code \in {RECCONET_DENIED, RECCONECT_APPROVED})
  <2>1. AfterSignInReply(p) = Return(p)
    BY <1>3 DEF AfterSignInReply
  <2>. QED
    BY <1>0, <2>1, HeardReturns
<1>. QED
  BY <1>1, <1>2, <1>3

(* Whatever the answer, the program is in order afterwards. *)
LEMMA AfterReplyOK ==
    ASSUME NEW m \in Machines, NEW priv, NEW p, Heard(m, p, priv)
    PROVE  ProgramOK(m, AfterReply(p), priv) /\ GoesOn(AfterReply(p))
<1>0. p.at \in {"register", "upload1", "signIn", "upload2"}
  BY DEF Heard, Process
<1>1. CASE p.at = "register"
  <2>1. p.mode # "crc"
    BY <1>1 DEF Heard, InPlace
  <2>. QED
    BY <1>1, <2>1, HeardReturns DEF AfterReply
<1>2. CASE p.at = "signIn"
  BY <1>2, AfterSignInReplyOK DEF AfterReply
<1>3. CASE p.at \in {"upload1", "upload2"}
  BY <1>3, AfterUploadReplyOK DEF AfterReply
<1>. QED
  BY <1>0, <1>1, <1>2, <1>3

-----------------------------------------------------------------------------
(* Which request follows which, whatever the program relies on. *)

(* Program p, which returns from a call of main, is then at q. *)
Returns(p, q) ==
    /\ SameMemory(q, p) /\ GoesOn(q)
    /\ p.at = "register" => q.at = "upload1"
    /\ p.at = "signIn" => q.at = "upload2"
    /\ p.at \in {"register", "signIn"} =>
          /\ q.op = IF p.registered THEN SEND_FILE ELSE S_PUBLIC_KEY
          /\ q.phase = "send" /\ q.mode = "once"
    /\ p.at = "upload1" => q.at = "signIn" /\ q.op = RECONNECT /\ q.mode = "once"
    /\ p.at = "upload2" => q.at = "upload2" /\ q.op = p.op /\ q.phase = "exit" /\ q.mode = p.mode

(* Program p, which is in a call of main, asks for the same request again,  *)
(* or for the next one of an upload.                                        *)
Continues(p, q) ==
    /\ p.at \in {"upload1", "upload2"}
    /\ SameMemory(q, p) /\ q.at = p.at /\ q.phase = "send"
    /\ \/ q.op = p.op
       \/ q.op = SEND_FILE /\ p.op = S_PUBLIC_KEY /\ p.last.code # GENERAL_ERROR
       \/ /\ q.op = VALID_CRC /\ p.op = SEND_FILE /\ p.crcValid
          /\ p.mode = "crc" \/ p.last.code # GENERAL_ERROR
       \/ q.op \in {N_VALID_CRC, EXIT_CRC} /\ p.op = SEND_FILE /\ ~p.crcValid
    /\ q.mode = "crc" => p.mode = "crc" \/ ~p.crcValid

LEMMA ReturnFlow ==
    ASSUME NEW p \in Process
    PROVE  Returns(p, Return(p))
<1>1. ASSUME NEW at \in {"upload1", "upload2"}
      PROVE  LET q == BeginUpload([p EXCEPT !.at = at])
             IN /\ SameMemory(q, p) /\ GoesOn(q) /\ q.at = at
                /\ q.op = IF p.registered THEN SEND_FILE ELSE S_PUBLIC_KEY
                /\ q.phase = "send" /\ q.mode = "once"
  <2>. DEFINE r    == [p EXCEPT !.at = at]
              code == IF r.registered THEN SEND_FILE ELSE S_PUBLIC_KEY
  <2>1. SameMemory(r, p) /\ r.at = at
    BY MoveFields
  <2>2. BeginUpload(r) = AskOnce(r, code) /\ code \in RequestCodes
    BY DEF BeginUpload, RequestCodes
  <2>. HIDE DEF r
  <2>3. /\ SameMemory(AskOnce(r, code), r) /\ AskOnce(r, code).at = r.at
        /\ AskOnce(r, code).op = code
        /\ AskOnce(r, code).phase = "send" /\ AskOnce(r, code).mode = "once"
    BY <2>1, <2>2, AskOnceFields DEF SameMemory
  <2>4. /\ SameMemory(BeginUpload(r), p) /\ BeginUpload(r).at = at
        /\ BeginUpload(r).op = IF p.registered THEN SEND_FILE ELSE S_PUBLIC_KEY
        /\ BeginUpload(r).phase = "send" /\ BeginUpload(r).mode = "once"
    BY <2>1, <2>2, <2>3 DEF SameMemory
  <2>. QED
    BY <2>4 DEF GoesOn, r
<1>2. CASE p.at = "register"
  <2>1. Return(p) = BeginUpload([p EXCEPT !.at = "upload1"])
    BY <1>2 DEF Return
  <2>. QED
    BY <1>1, <1>2, <2>1 DEF Returns
<1>3. CASE p.at = "signIn"
  <2>1. Return(p) = BeginUpload([p EXCEPT !.at = "upload2"])
    BY <1>3 DEF Return
  <2>. QED
    BY <1>1, <1>3, <2>1 DEF Returns
<1>4. CASE p.at = "upload1"
  <2>. DEFINE r == [p EXCEPT !.at = "signIn"]
              q == AskOnce(r, RECONNECT)
  <2>1. SameMemory(r, p) /\ r.at = "signIn"
    BY MoveFields
  <2>2. Return(p) = q
    BY <1>4 DEF Return
  <2>. HIDE DEF r
  <2>3. /\ SameMemory(q, r)
        /\ q.at = r.at /\ q.op = RECONNECT /\ q.phase = "send" /\ q.mode = "once"
    BY <2>1, AskOnceFields DEF SameMemory, RequestCodes
  <2>. HIDE DEF q
  <2>. QED
    BY <1>4, <2>1, <2>2, <2>3 DEF SameMemory, Returns, GoesOn
<1>5. CASE p.at = "upload2"
  <2>. DEFINE q == Phased(p, "exit")
  <2>1. SameMemory(q, p) /\ q.at = p.at /\ q.op = p.op /\ q.mode = p.mode /\ q.phase = "exit"
    BY PhaseFields
  <2>2. Return(p) = q
    BY <1>5 DEF Return, Phased
  <2>. HIDE DEF q
  <2>. QED
    BY <1>5, <2>1, <2>2 DEF Returns, GoesOn
<1>6. p.at \in {"register", "upload1", "signIn", "upload2"}
  BY DEF Process
<1>. QED
  BY <1>2, <1>3, <1>4, <1>5, <1>6

LEMMA ThrowFlow ==
    ASSUME NEW p \in Process
    PROVE  LET q == Throw(p)
           IN /\ SameMemory(q, p) /\ GoesOn(q)
              /\ p.at \in {"upload1", "upload2"} =>
                    q.at = p.at /\ q.op = p.op /\ q.mode = p.mode /\ q.phase = "exit"
              /\ p.at \notin {"upload1", "upload2"} => Returns(p, q)
<1>1. CASE p.at \in {"upload1", "upload2"}
  <2>. DEFINE q == Phased(p, "exit")
  <2>1. SameMemory(q, p) /\ q.at = p.at /\ q.op = p.op /\ q.mode = p.mode /\ q.phase = "exit"
    BY PhaseFields
  <2>2. Throw(p) = q
    BY <1>1 DEF Throw, Phased
  <2>. HIDE DEF q
  <2>. QED
    BY <1>1, <2>1, <2>2 DEF GoesOn
<1>2. CASE p.at \notin {"upload1", "upload2"}
  <2>1. Throw(p) = Return(p)
    BY <1>2 DEF Throw
  <2>. QED
    BY <1>2, <2>1, ReturnFlow DEF Returns
<1>. QED
  BY <1>1, <1>2

LEMMA UploadFlow ==
    ASSUME NEW p \in Process, InPlace(p), IsAnswer(p.op, p.last),
           p.at \in {"upload1", "upload2"}
    PROVE  LET q == AfterUploadReply(p) IN Returns(p, q) \/ Continues(p, q)
<1>0. /\ p.op \in RequestCodes \ {N_VALID_CRC} /\ p.mode \in {"once", "error", "crc"}
      /\ RequestCodes = {REGISTER, S_PUBLIC_KEY, RECONNECT, SEND_FILE,
                         VALID_CRC, N_VALID_CRC, EXIT_CRC}
      /\ p.op \in IF p.mode = "crc" THEN {SEND_FILE, N_VALID_CRC, EXIT_CRC}
                                    ELSE {S_PUBLIC_KEY, SEND_FILE, VALID_CRC}
      /\ p.tries \in 0..1
  BY DEF Process, IsAnswer, AnswerCodes, InPlace, RequestCodes
<1>1. Returns(p, Return(p))
  BY ReturnFlow
<1>2. ASSUME NEW code \in RequestCodes
      PROVE  /\ SameMemory(Ask(p, code), p) /\ Ask(p, code).at = p.at
             /\ Ask(p, code).op = code /\ Ask(p, code).phase = "send"
             /\ Ask(p, code).mode = p.mode
             /\ SameMemory(AskOnce(p, code), p) /\ AskOnce(p, code).at = p.at
             /\ AskOnce(p, code).op = code /\ AskOnce(p, code).phase = "send"
             /\ AskOnce(p, code).mode = "once"
  BY AskFields, AskOnceFields
<1>3. ASSUME NEW code \in RequestCodes, NEW mode \in {"error", "crc"}
      PROVE  LET q == Ask([p EXCEPT !.mode = mode, !.tries = 0], code)
             IN SameMemory(q, p) /\ q.at = p.at /\ q.op = code /\ q.phase = "send" /\ q.mode = mode
  <2>1. LET r == Into(p, mode) IN SameMemory(r, p) /\ r.at = p.at /\ r.mode = mode
    BY ModeFields
  <2>2. Into(p, mode) = [p EXCEPT !.mode = mode, !.tries = 0]
    BY DEF Into
  <2>3. LET r == Into(p, mode)
            q == Ask(r, code)
        IN SameMemory(q, r) /\ q.at = r.at /\ q.op = code /\ q.phase = "send" /\ q.mode = r.mode
    BY <2>1, AskFields DEF SameMemory
  <2>4. LET q == Ask(Into(p, mode), code)
        IN SameMemory(q, p) /\ q.at = p.at /\ q.op = code /\ q.phase = "send" /\ q.mode = mode
    BY <2>1, <2>3 DEF SameMemory
  <2>. QED
    BY <2>2, <2>4
<1>4. ASSUME NEW code \in RequestCodes, p.tries < 1
      PROVE  LET q == Ask([p EXCEPT !.tries = @ + 1], code)
             IN SameMemory(q, p) /\ q.at = p.at /\ q.op = code /\ q.phase = "send" /\ q.mode = p.mode
  <2>1. LET r == Again(p) IN SameMemory(r, p) /\ r.at = p.at /\ r.mode = p.mode
    BY <1>4, AgainFields
  <2>2. Again(p) = [p EXCEPT !.tries = @ + 1]
    BY DEF Again
  <2>3. LET r == Again(p)
            q == Ask(r, code)
        IN SameMemory(q, r) /\ q.at = r.at /\ q.op = code /\ q.phase = "send" /\ q.mode = r.mode
    BY <2>1, AskFields DEF SameMemory
  <2>4. LET q == Ask(Again(p), code)
        IN SameMemory(q, p) /\ q.at = p.at /\ q.op = code /\ q.phase = "send" /\ q.mode = p.mode
    BY <2>1, <2>3 DEF SameMemory
  <2>. QED
    BY <2>2, <2>4
<1>5. ASSUME p.mode # "crc", p.last.code # GENERAL_ERROR
      PROVE  LET q == Proceed(p) IN Returns(p, q) \/ Continues(p, q)
  <2>1. CASE p.op = S_PUBLIC_KEY
    <3>1. Proceed(p) = AskOnce(p, SEND_FILE)
      BY <2>1 DEF Proceed
    <3>. QED
      BY <1>0, <1>2, <1>5, <2>1, <3>1 DEF Continues
  <2>2. CASE p.op = SEND_FILE /\ p.crcValid
    <3>1. Proceed(p) = AskOnce(p, VALID_CRC)
      BY <2>2 DEF Proceed
    <3>. QED
      BY <1>0, <1>2, <1>5, <2>2, <3>1 DEF Continues
  <2>3. CASE p.op = SEND_FILE /\ ~p.crcValid
    <3>1. Proceed(p) = Ask([p EXCEPT !.mode = "crc", !.tries = 0], N_VALID_CRC)
      BY <2>3 DEF Proceed
    <3>. QED
      BY <1>0, <1>3, <2>3, <3>1 DEF Continues
  <2>4. CASE p.op = VALID_CRC
    <3>1. Proceed(p) = Return(p)
      BY <2>4 DEF Proceed
    <3>. QED
      BY <1>1, <3>1
  <2>. QED
    BY <1>0, <1>5, <2>1, <2>2, <2>3, <2>4
<1>6. CASE p.mode = "error"
  <2>1. AfterUploadReply(p) = AfterErrorResend(p)
    BY <1>6 DEF AfterUploadReply
  <2>2. CASE p.tries < 1
    <3>1. AfterErrorResend(p) = Ask([p EXCEPT !.tries = @ + 1], p.op)
      BY <2>2 DEF AfterErrorResend
    <3>. QED
      BY <1>0, <1>4, <1>6, <2>1, <2>2, <3>1 DEF Continues
  <2>3. CASE ~(p.tries < 1)
    BY <1>1, <1>5, <1>6, <2>1, <2>3 DEF AfterErrorResend
  <2>. QED
    BY <2>2, <2>3
<1>7. CASE p.mode = "crc"
  <2>1. AfterUploadReply(p) = AfterCrcResend(p)
    BY <1>7 DEF AfterUploadReply
  <2>2. CASE p.op = EXIT_CRC
    <3>1. AfterCrcResend(p) = Return(p)
      BY <2>2 DEF AfterCrcResend
    <3>. QED
      BY <1>1, <2>1, <3>1
  <2>3. CASE p.op = SEND_FILE /\ p.crcValid
    <3>1. AfterCrcResend(p) = AskOnce(p, VALID_CRC)
      BY <2>3 DEF AfterCrcResend
    <3>. QED
      BY <1>0, <1>2, <1>7, <2>1, <2>3, <3>1 DEF Continues
  <2>4. CASE p.op = SEND_FILE /\ ~p.crcValid
    <3>1. AfterCrcResend(p) = IF p.tries < 1 THEN Ask([p EXCEPT !.tries = @ + 1], N_VALID_CRC)
                                             ELSE Ask(p, EXIT_CRC)
      BY <2>4 DEF AfterCrcResend
    <3>. QED
      BY <1>0, <1>2, <1>4, <1>7, <2>1, <2>4, <3>1 DEF Continues
  <2>. QED
    BY <1>0, <1>7, <2>2, <2>3, <2>4
<1>8. CASE p.mode = "once"
  <2>1. CASE p.last.code = GENERAL_ERROR
    <3>1. AfterUploadReply(p) = Ask([p EXCEPT !.mode = "error", !.tries = 0], p.op)
      BY <1>8, <2>1 DEF AfterUploadReply
    <3>. QED
      BY <1>0, <1>3, <3>1 DEF Continues
  <2>2. CASE p.last.code # GENERAL_ERROR
    <3>1. AfterUploadReply(p) = Proceed(p)
      BY <1>8, <2>2 DEF AfterUploadReply
    <3>. QED
      BY <1>5, <1>8, <2>2, <3>1
  <2>. QED
    BY <2>1, <2>2
<1>. QED
  BY <1>0, <1>6, <1>7, <1>8

(* What the program does with an answer. *)
LEMMA AfterReplyFlow ==
    ASSUME NEW p \in Process, InPlace(p), IsAnswer(p.op, p.last)
    PROVE  LET q == AfterReply(p)
           IN \/ Returns(p, q) /\ ~(p.op = RECONNECT /\ p.last.code # GENERAL_ERROR)
              \/ Continues(p, q)
              \/ /\ p.at = "signIn" /\ p.op = RECONNECT /\ p.last.code = RECCONET_DENIED
                 /\ SameMemory(q, p) /\ q.at = p.at /\ q.op = REGISTER
                 /\ q.phase = "send" /\ q.mode = p.mode
              \/ /\ p.at = "signIn" /\ p.op = RECONNECT /\ p.last.code = RECCONECT_APPROVED
                 /\ \E r \in Process :
                       /\ r.registered /\ r.at = p.at /\ r.id = p.id /\ r.aes = p.aes
                       /\ r.crcValid = p.crcValid /\ r.last = p.last /\ Returns(r, q)
<1>0. /\ p.at \in {"register", "upload1", "signIn", "upload2"}
      /\ p.op = RECONNECT => p.last.code \in {RECCONECT_APPROVED, RECCONET_DENIED, GENERAL_ERROR}
      /\ p.at # "signIn" => p.op # RECONNECT
  BY DEF Process, IsAnswer, AnswerCodes, RequestCodes, InPlace
<1>1. CASE p.at = "register"
  <2>1. AfterReply(p) = Return(p)
    BY <1>1 DEF AfterReply
  <2>. QED
    BY <1>0, <1>1, <2>1, ReturnFlow
<1>2. CASE p.at \in {"upload1", "upload2"}
  <2>1. AfterReply(p) = AfterUploadReply(p)
    BY <1>2 DEF AfterReply
  <2>. QED
    BY <1>0, <1>2, <2>1, UploadFlow
<1>3. CASE p.at = "signIn"
  <2>0. AfterReply(p) = AfterSignInReply(p)
    BY <1>3 DEF AfterReply
  <2>1. CASE p.op = RECONNECT /\ p.last.code = RECCONET_DENIED
    <3>1. AfterSignInReply(p) = Ask(p, REGISTER)
      BY <2>1 DEF AfterSignInReply
    <3>. QED
      BY <1>3, <2>0, <2>1, <3>1, AskFields DEF RequestCodes
  <2>2. CASE p.op = RECONNECT /\ p.last.code = RECCONECT_APPROVED
    <3>. DEFINE r == [p EXCEPT !.registered = TRUE]
    <3>1. AfterSignInReply(p) = Return(r)
      BY <2>2 DEF AfterSignInReply
    <3>2. /\ r \in Process /\ r.at = p.at /\ r.aes = p.aes /\ r.crcValid = p.crcValid
          /\ r.last = p.last
      BY RegisteredFields
    <3>3. r.id = p.id /\ r.registered
      BY SMT DEF Process
    <3>. HIDE DEF r
    <3>. QED
      BY <1>3, <2>0, <2>2, <3>1, <3>2, <3>3, ReturnFlow
  <2>3. CASE ~(p.op = RECONNECT /\ p.last.code \in {RECCONECT_APPROVED, RECCONET_DENIED})
    <3>1. AfterSignInReply(p) = Return(p)
      BY <2>3 DEF AfterSignInReply
    <3>. QED
      BY <1>0, <2>0, <2>3, <3>1, ReturnFlow
  <2>. QED
    BY <2>1, <2>2, <2>3
<1>. QED
  BY <1>0, <1>1, <1>2, <1>3

-----------------------------------------------------------------------------
(* What the steps of a machine have in common. *)

LEMMA SessionInUse ==
    ASSUME ClientInv, NEW m \in Machines, Running(m)
    PROVE  /\ run[m] \in 1..MaxRuns /\ Session(m) \in Conns /\ Session(m) \in PubKeys
           /\ proc[m] \in Process /\ ProgramOK(m, proc[m], keyPriv[m])
<1>1. run[m] \in 0..MaxRuns /\ run[m] > 0 /\ MaxRuns \in Nat
  BY MachinesAssumption DEF ClientInv, ClientTypeOK, WiresOK
<1>2. run[m] \in 1..MaxRuns
  BY <1>1
<1>. QED
  BY <1>2, MachinesAssumption DEF ClientInv, ProgramOK, Session, Sessions

(* A step of machine m touches no connection but that of its current run.   *)
LEMMA MachineKeeps ==
    ASSUME ClientInv, NEW m \in Machines, Running(m), NEW q, Goes(m, q),
           UNCHANGED run,
           meInfo' \in [Machines -> Uids \cup {None}],
           keyPriv' \in [Machines -> PubKeys \cup {None}],
           \A n \in Machines \ {m} : keyPriv'[n] = keyPriv[n],
           ProgramOK(m, q, keyPriv'[m]),
           WiresTypeOK',
           \A c \in Conns \ {Session(m)} : outbox'[c] = outbox[c] /\ link'[c] = link[c],
           outbox'[Session(m)] # None =>
               IF q.phase = "await" THEN IsAnswer(q.op, outbox'[Session(m)])
                                    ELSE link'[Session(m)] # "open"
    PROVE  ClientInv' /\ proc'[m] = q
<1>1. /\ run \in [Machines -> 0..MaxRuns] /\ proc \in [Machines -> Process]
      /\ Conns = Machines \X (1..MaxRuns) /\ MaxRuns \in Nat
  BY MachinesAssumption DEF ClientInv, ClientTypeOK, Sessions
<1>2. proc'[m] = q /\ \A n \in Machines \ {m} : proc'[n] = proc[n]
  BY <1>1 DEF Goes
<1>3. ClientTypeOK'
  BY <1>1 DEF Goes, ProgramOK, ClientTypeOK
<1>4. ASSUME NEW n \in Machines PROVE ProgramOK(n, proc'[n], keyPriv'[n])
  BY <1>2 DEF ClientInv
<1>5. ASSUME NEW n \in Machines, NEW i \in (run[n] + 1)..MaxRuns
      PROVE  outbox'[<<n, i>>] = None
  <2>1. run[n] \in 0..MaxRuns
    BY <1>1
  <2>2. i \in 1..MaxRuns /\ i # run[n]
    BY <1>1, <2>1
  <2>3. <<n, i>> \in Conns /\ <<n, i>> # Session(m)
    BY <1>1, <2>2 DEF Session
  <2>4. outbox[<<n, i>>] = None
    BY DEF ClientInv, WiresOK
  <2>. QED
    BY <2>3, <2>4
<1>6. run[m] > 0
  BY SessionInUse, <1>1
<1>7. WiresOK(m)'
  BY <1>2, <1>5, <1>6 DEF WiresOK, Session, Running
<1>8. ASSUME NEW n \in Machines \ {m} PROVE WiresOK(n)'
  <2>1. WiresOK(n)
    BY DEF ClientInv
  <2>2. CASE run[n] > 0
    <3>1. run[n] \in 1..MaxRuns
      BY <1>1, <2>2
    <3>2. Session(n) \in Conns /\ Session(n) # Session(m)
      BY <1>1, <3>1 DEF Session
    <3>3. outbox'[Session(n)] = outbox[Session(n)] /\ link'[Session(n)] = link[Session(n)]
      BY <3>2
    <3>. QED
      BY <1>2, <1>5, <2>1, <3>3 DEF WiresOK, Session, Running
  <2>3. CASE ~(run[n] > 0)
    BY <1>2, <1>5, <2>1, <2>3 DEF WiresOK, Running
  <2>. QED
    BY <2>2, <2>3
<1>. QED
  BY <1>2, <1>3, <1>4, <1>7, <1>8 DEF ClientInv

(* A step that leaves the wires alone and does not end up waiting. *)
LEMMA QuietKeeps ==
    ASSUME ClientInv, NEW m \in Machines, Running(m), NEW q, Goes(m, q),
           UNCHANGED <<wires, run>>, q.phase # "await",
           meInfo' \in [Machines -> Uids \cup {None}],
           keyPriv' \in [Machines -> PubKeys \cup {None}],
           \A n \in Machines \ {m} : keyPriv'[n] = keyPriv[n],
           ProgramOK(m, q, keyPriv'[m]),
           proc[m].phase # "await" \/ link[Session(m)] # "open"
    PROVE  ClientInv' /\ proc'[m] = q
<1>1. WiresTypeOK'
  BY DEF ClientInv, WiresTypeOK, wires
<1>2. outbox[Session(m)] # None => link[Session(m)] # "open"
  <2>1. run[m] > 0 /\ WiresOK(m)
    BY DEF ClientInv, WiresOK
  <2>. QED
    BY <2>1 DEF WiresOK
<1>. QED
  BY <1>1, <1>2, MachineKeeps DEF wires

-----------------------------------------------------------------------------
(* The program starts, sends and receives. *)

LEMMA NewProcessOK ==
    ASSUME NEW m \in Machines, NEW priv
    PROVE  /\ ProgramOK(m, NewProcess, priv) /\ NewProcess.phase = "send"
           /\ \A how \in {"off", "terminated"} :
                 LET q == [NoProcess EXCEPT !.phase = how]
                 IN ProgramOK(m, q, priv) /\ q.phase = how
           /\ ProgramOK(m, NoProcess, priv) /\ NoProcess.phase = "off"
<1>1. /\ NewProcess \in Process
      /\ NewProcess.at = "register" /\ NewProcess.op = REGISTER /\ NewProcess.mode = "once"
      /\ NewProcess.aes = NoKey /\ ~NewProcess.registered /\ NewProcess.phase = "send"
  BY DEF NewProcess, Process, RequestCodes
<1>. DEFINE Fresh(q) == SameMemory(q, NewProcess) /\ q.at = "register" /\ q.op = REGISTER
                          /\ q.mode = "once"
<1>2. Fresh(NoProcess) /\ NoProcess.phase = "off"
  <2>. DEFINE q == Phased(NewProcess, "off")
  <2>1. /\ SameMemory(q, NewProcess) /\ q.phase = "off"
        /\ q.at = NewProcess.at /\ q.op = NewProcess.op /\ q.mode = NewProcess.mode
    BY <1>1, PhaseFields
  <2>2. NoProcess = q
    BY DEF NoProcess, Phased
  <2>. HIDE DEF q
  <2>. QED
    BY <1>1, <2>1, <2>2
<1>3. ASSUME NEW how \in {"off", "terminated"}
      PROVE  LET q == [NoProcess EXCEPT !.phase = how] IN Fresh(q) /\ q.phase = how
  <2>. DEFINE q == Phased(NoProcess, how)
  <2>1. NoProcess \in Process
    BY <1>2 DEF SameMemory
  <2>2. /\ SameMemory(q, NoProcess) /\ q.phase = how
        /\ q.at = NoProcess.at /\ q.op = NoProcess.op /\ q.mode = NoProcess.mode
    BY <2>1, PhaseFields
  <2>. HIDE DEF q
  <2>3. Fresh(q) /\ q.phase = how
    BY <1>2, <2>2 DEF SameMemory
  <2>. QED
    BY <2>3 DEF q, Phased
<1>4. ASSUME NEW q, Fresh(q), q.phase \in {"send", "off", "terminated"}
      PROVE  ProgramOK(m, q, priv)
  BY <1>1, <1>4 DEF SameMemory, ProgramOK, InPlace
<1>5. Fresh(NewProcess)
  BY <1>1 DEF SameMemory
<1>. HIDE DEF Fresh
<1>6. ProgramOK(m, NewProcess, priv) /\ ProgramOK(m, NoProcess, priv)
  BY <1>1, <1>2, <1>4, <1>5
<1>7. ASSUME NEW how \in {"off", "terminated"}
      PROVE  LET q == [NoProcess EXCEPT !.phase = how] IN ProgramOK(m, q, priv) /\ q.phase = how
  BY <1>3, <1>4
<1>. QED
  BY <1>1, <1>2, <1>6, <1>7

LEMMA StartKeeps ==
    ASSUME ClientInv, NEW m \in Machines, Start(m)
    PROVE  ClientInv'
<1>. DEFINE c == <<m, run[m] + 1>>
<1>1. /\ run \in [Machines -> 0..MaxRuns] /\ proc \in [Machines -> Process]
      /\ Conns = Machines \X (1..MaxRuns) /\ MaxRuns \in Nat
  BY MachinesAssumption DEF ClientInv, ClientTypeOK, Sessions
<1>2. run[m] + 1 \in 1..MaxRuns /\ c \in Conns
  BY <1>1 DEF Start
<1>3. outbox[c] = None
  BY <1>2 DEF ClientInv, WiresOK
<1>4. ClientTypeOK' /\ WiresTypeOK'
  <2>1. NewProcess \in Process
    BY NewProcessOK DEF ProgramOK
  <2>2. run' \in [Machines -> 0..MaxRuns]
    BY <1>1, <1>2 DEF Start
  <2>3. proc' \in [Machines -> Process] /\ UNCHANGED local
    BY <1>1, <2>1 DEF Start, Goes
  <2>4. WiresTypeOK'
    BY <1>2 DEF Start, Connect, ClientInv, WiresTypeOK, LinkStates
  <2>. QED
    BY <2>2, <2>3, <2>4 DEF ClientInv, ClientTypeOK, local
<1>5. /\ proc'[m] = NewProcess /\ run'[m] = run[m] + 1
      /\ \A n \in Machines \ {m} : proc'[n] = proc[n] /\ run'[n] = run[n]
  BY <1>1 DEF Start, Goes
<1>6. UNCHANGED <<outbox, keyPriv>> /\ \A d \in Conns \ {c} : link'[d] = link[d]
  BY DEF Start, Connect, local, ClientInv, WiresTypeOK
<1>7. ASSUME NEW n \in Machines PROVE ProgramOK(n, proc'[n], keyPriv'[n])
  BY <1>5, <1>6, NewProcessOK DEF ClientInv
<1>8. WiresOK(m)'
  <2>1. run'[m] > 0 /\ Session(m)' = c
    BY <1>1, <1>5 DEF Session
  <2>2. ASSUME NEW i \in (run'[m] + 1)..MaxRuns PROVE outbox'[<<m, i>>] = None
    <3>1. run[m] \in 0..MaxRuns
      BY <1>1
    <3>2. i \in (run[m] + 1)..MaxRuns
      BY <1>1, <1>5, <3>1
    <3>. QED
      BY <1>6, <3>2 DEF ClientInv, WiresOK
  <2>. QED
    BY <1>3, <1>6, <2>1, <2>2 DEF WiresOK
<1>9. ASSUME NEW n \in Machines \ {m} PROVE WiresOK(n)'
  <2>1. WiresOK(n)
    BY DEF ClientInv
  <2>2. CASE run[n] > 0
    <3>1. run[n] \in 1..MaxRuns
      BY <1>1, <2>2
    <3>2. Session(n) \in Conns /\ Session(n) # c
      BY <1>1, <3>1 DEF Session
    <3>. QED
      BY <1>5, <1>6, <2>1, <3>2 DEF WiresOK, Session, Running
  <2>3. CASE ~(run[n] > 0)
    BY <1>5, <1>6, <2>1, <2>3 DEF WiresOK, Running
  <2>. QED
    BY <2>2, <2>3
<1>. QED
  BY <1>4, <1>7, <1>8, <1>9 DEF ClientInv

(* What the program builds has the type of requests. *)
LEMMA RequestType ==
    ASSUME ClientInv, NEW m \in Machines, Running(m), CanBuild(m)
    PROVE  /\ SenderId(m) \in Uids \cup {NoUid}
           /\ RequestOf(m) \in Request
<1>. DEFINE op == proc[m].op
            id == SenderId(m)
<1>1. /\ proc[m].op \in RequestCodes /\ proc[m].id \in Uids \cup {NoUid} /\ proc[m].aes \in Nat
      /\ proc[m].file \in Files \cup {None} /\ meInfo[m] \in Uids \cup {None}
      /\ Session(m) \in PubKeys
  BY SessionInUse DEF Process, ClientInv, ClientTypeOK
<1>2. /\ Owner[m] \in Names /\ Upload[m] \in Files /\ Local[m] \in Bodies
  BY MachinesAssumption
<1>3. id \in Uids \cup {NoUid}
  BY <1>1 DEF SenderId, CanBuild
<1>. HIDE DEF id
<1>4. RegisterRequest(Owner[m]) \in Request
  BY <1>2 DEF RegisterRequest, Header, Request, UserNames, VERSION
<1>5. PublicKeyRequest(id, Session(m)) \in Request
  BY <1>1, <1>3 DEF PublicKeyRequest, Header, Request, UserNames, VERSION
<1>6. SignInRequest(id) \in Request
  BY <1>3 DEF SignInRequest, Header, Request, UserNames, VERSION
<1>7. FileRequest(id, Upload[m], proc[m].aes, Local[m]) \in Request
  <2>1. ASSUME NEW f \in Files, NEW k \in Nat, NEW b \in Bodies
        PROVE  FileRequest(id, f, k, b) \in Request
    <3>. DEFINE h == Header(SEND_FILE, id)
    <3>1. h \in Request
      BY <1>3 DEF Header, Request, UserNames, VERSION
    <3>2. f \in Files \cup {None} /\ b \in Bodies \cup {Garbled, None}
      OBVIOUS
    <3>3. FileRequest(id, f, k, b) = [[[h EXCEPT !.file = f] EXCEPT !.key = k] EXCEPT !.body = b]
      BY DEF FileRequest
    <3>. HIDE DEF h
    <3>4. [h EXCEPT !.file = f] \in Request
      BY <3>1, <3>2, Zenon DEF Request
    <3>5. [[h EXCEPT !.file = f] EXCEPT !.key = k] \in Request
      BY <3>4, Zenon DEF Request
    <3>6. [[[h EXCEPT !.file = f] EXCEPT !.key = k] EXCEPT !.body = b] \in Request
      BY <3>5, <3>2, Zenon DEF Request
    <3>. QED
      BY <3>3, <3>6
  <2>. QED
    BY <1>1, <1>2, <2>1
<1>8. CrcRequest(op, id, proc[m].file) \in Request
  <2>1. op \in Nat
    BY <1>1 DEF RequestCodes
  <2>. QED
    BY <1>1, <1>3, <2>1 DEF CrcRequest, Header, Request, UserNames, VERSION
<1>9. \/ RequestOf(m) = RegisterRequest(Owner[m])
      \/ RequestOf(m) = PublicKeyRequest(SenderId(m), Session(m))
      \/ RequestOf(m) = SignInRequest(SenderId(m))
      \/ RequestOf(m) = FileRequest(SenderId(m), Upload[m], proc[m].aes, Local[m])
      \/ RequestOf(m) = CrcRequest(proc[m].op, SenderId(m), proc[m].file)
  BY DEF RequestOf
<1>. QED
  BY <1>3, <1>4, <1>5, <1>6, <1>7, <1>8, <1>9 DEF id

LEMMA SubmitType ==
    ASSUME WiresTypeOK, NEW c \in Conns, NEW r \in Request, Submit(c, r)
    PROVE  WiresTypeOK' /\ UNCHANGED <<link, outbox>> /\ link[c] = "open"
BY DEF WiresTypeOK, Submit

(* What building a request does to the program. *)
LEMMA BuiltFields ==
    ASSUME NEW p \in Process, NEW id \in Uids \cup {NoUid}, NEW f \in Files
    PROVE  LET q == SetsName([p EXCEPT !.id = id], f)
           IN /\ q \in Process /\ q.at = p.at /\ q.op = p.op /\ q.mode = p.mode
              /\ q.id = id
              /\ q.aes = p.aes /\ q.crcValid = p.crcValid /\ q.registered = p.registered
              /\ q.file = IF p.op = SEND_FILE THEN f ELSE p.file
<1>. DEFINE r == [p EXCEPT !.id = id]
            q == [r EXCEPT !.file = f]
<1>1. r \in Process
  BY Zenon DEF Process
<1>2. /\ r.id = id /\ r.at = p.at /\ r.op = p.op /\ r.mode = p.mode /\ r.aes = p.aes /\ r.file = p.file
      /\ r.crcValid = p.crcValid /\ r.registered = p.registered
  BY SMT DEF Process
<1>. HIDE DEF r
<1>3. q \in Process
  BY <1>1, Zenon DEF Process
<1>4. /\ q.id = r.id /\ q.at = r.at /\ q.op = r.op /\ q.mode = r.mode /\ q.aes = r.aes /\ q.file = f
      /\ q.crcValid = r.crcValid /\ q.registered = r.registered
  BY <1>1, SMT DEF Process
<1>5. SetsName(r, f) = IF r.op = SEND_FILE THEN q ELSE r
  BY Zenon DEF SetsName
<1>. HIDE DEF q
<1>6. LET s == SetsName(r, f)
      IN /\ s \in Process /\ s.id = id /\ s.at = p.at /\ s.op = p.op /\ s.mode = p.mode
         /\ s.aes = p.aes /\ s.crcValid = p.crcValid /\ s.registered = p.registered
         /\ s.file = IF p.op = SEND_FILE THEN f ELSE p.file
  BY <1>1, <1>2, <1>3, <1>4, <1>5
<1>. QED
  BY <1>6 DEF r

LEMMA SendRequestKeeps ==
    ASSUME ClientInv, NEW m \in Machines, SendRequest(m)
    PROVE  ClientInv'
<1>. DEFINE p == SetsName([proc[m] EXCEPT !.id = SenderId(m)], Upload[m])
            q == IF p.op \in Unanswered THEN Ask(p, SEND_FILE) ELSE [p EXCEPT !.phase = "await"]
<1>1. Running(m) /\ proc[m].phase = "send"
  BY DEF SendRequest, Running
<1>2. /\ Session(m) \in Conns /\ run[m] \in 1..MaxRuns
      /\ proc[m] \in Process /\ ProgramOK(m, proc[m], keyPriv[m])
  BY <1>1, SessionInUse
<1>3. SenderId(m) \in Uids \cup {NoUid} /\ RequestOf(m) \in Request
  BY <1>1, RequestType DEF SendRequest
<1>4. WiresTypeOK' /\ UNCHANGED <<link, outbox>> /\ link[Session(m)] = "open"
  BY <1>2, <1>3, SubmitType DEF SendRequest, ClientInv
<1>5. outbox[Session(m)] = None
  <2>1. run[m] > 0 /\ WiresOK(m)
    BY <1>1 DEF ClientInv, WiresOK
  <2>. QED
    BY <1>1, <1>4, <2>1 DEF WiresOK
<1>6. Goes(m, q) /\ UNCHANGED <<local, run>>
  BY Zenon DEF SendRequest
<1>7. /\ p \in Process /\ p.at = proc[m].at /\ p.op = proc[m].op /\ p.mode = proc[m].mode
      /\ p.aes = proc[m].aes /\ p.crcValid = proc[m].crcValid
      /\ p.registered = proc[m].registered
      /\ p.file = IF proc[m].op = SEND_FILE THEN Upload[m] ELSE proc[m].file
  BY <1>2, <1>3, MachinesAssumption, BuiltFields
<1>. HIDE DEF p
<1>8. ProgramOK(m, q, keyPriv[m])
  <2>1. CASE p.op \in Unanswered
    <3>. DEFINE s == Ask(p, SEND_FILE)
    <3>1. /\ SameMemory(s, p) /\ s.at = p.at /\ s.op = SEND_FILE /\ s.phase = "send"
          /\ s.mode = p.mode
      BY <1>7, AskFields DEF RequestCodes
    <3>2. q = s
      BY <2>1
    <3>. HIDE DEF q, s
    <3>. QED
      BY <1>2, <1>7, <2>1, <3>1, <3>2 DEF SameMemory, ProgramOK, InPlace, Unanswered
  <2>2. CASE p.op \notin Unanswered
    <3>. DEFINE s == Phased(p, "await")
    <3>1. /\ SameMemory(s, p) /\ s.at = p.at /\ s.op = p.op /\ s.phase = "await"
          /\ s.mode = p.mode
      BY <1>7, PhaseFields
    <3>2. q = s
      BY <2>2 DEF Phased
    <3>. HIDE DEF q, s
    <3>. QED
      BY <1>2, <1>7, <2>2, <3>1, <3>2 DEF SameMemory, ProgramOK, InPlace, Unanswered
  <2>. QED
    BY <2>1, <2>2
<1>. HIDE DEF q
<1>. QED
  BY <1>1, <1>4, <1>5, <1>6, <1>8, MachineKeeps DEF local, ClientInv, ClientTypeOK

LEMMA BuildFailsKeeps ==
    ASSUME ClientInv, NEW m \in Machines, BuildFails(m)
    PROVE  ClientInv' /\ Busy(m)'
<1>1. Running(m) /\ proc[m].phase = "send"
  BY DEF BuildFails, Running
<1>2. ProgramOK(m, Throw(proc[m]), keyPriv[m]) /\ GoesOn(Throw(proc[m]))
  BY <1>1, SessionInUse, ThrowOK
<1>3. Goes(m, Throw(proc[m])) /\ UNCHANGED <<wires, local, run>>
  BY DEF BuildFails
<1>. QED
  BY <1>1, <1>2, <1>3, QuietKeeps DEF local, GoesOn, Busy, ClientInv, ClientTypeOK

LEMMA ConnectionLostKeeps ==
    ASSUME ClientInv, NEW m \in Machines, ConnectionLost(m)
    PROVE  ClientInv' /\ Busy(m)'
<1>1. Running(m) /\ link[Session(m)] # "open"
  BY DEF ConnectionLost, Running
<1>2. ProgramOK(m, Throw(proc[m]), keyPriv[m]) /\ GoesOn(Throw(proc[m]))
  BY <1>1, SessionInUse, ThrowOK
<1>3. Goes(m, Throw(proc[m])) /\ UNCHANGED <<wires, local, run>>
  BY DEF ConnectionLost
<1>. QED
  BY <1>1, <1>2, <1>3, QuietKeeps DEF local, GoesOn, Busy, ClientInv, ClientTypeOK

(* What taking in an answer does to the program. *)
Noted(p, a)     == [p EXCEPT !.last = a]
Judged(p, x, y) == [p EXCEPT !.crcValid = (x = y)]
Unjudged(p)     == [p EXCEPT !.crcValid = FALSE]

LEMMA NotedFields ==
    ASSUME NEW p \in Process, NEW a \in Response
    PROVE  LET q == Noted(p, a)
           IN /\ q \in Process /\ q.at = p.at /\ q.op = p.op /\ q.mode = p.mode
              /\ q.phase = p.phase /\ q.id = p.id /\ q.file = p.file /\ q.aes = p.aes
              /\ q.crcValid = p.crcValid /\ q.registered = p.registered /\ q.last = a
<1>. DEFINE q == Noted(p, a)
<1>0. a \in Response \cup {None}
  OBVIOUS
<1>1. q \in Process
  BY <1>0, Zenon DEF Noted, Process
<1>2. /\ q.at = p.at /\ q.op = p.op /\ q.mode = p.mode /\ q.phase = p.phase
      /\ q.id = p.id /\ q.file = p.file /\ q.aes = p.aes /\ q.last = a
  BY SMT DEF Noted, Process
<1>3. q.crcValid = p.crcValid /\ q.registered = p.registered
  BY SMT DEF Noted, Process
<1>. QED
  BY <1>1, <1>2, <1>3, Zenon

LEMMA TakeKeyFields ==
    ASSUME NEW p \in Process, NEW k \in Nat
    PROVE  LET q == TakeKey(p, k)
           IN /\ q \in Process /\ q.at = p.at /\ q.op = p.op /\ q.mode = p.mode
              /\ q.id = p.id /\ q.file = p.file /\ q.aes = k /\ q.last = p.last
              /\ q.crcValid = p.crcValid /\ q.registered = p.registered
<1>. DEFINE q == TakeKey(p, k)
<1>1. q \in Process
  BY Zenon DEF TakeKey, Process
<1>2. /\ q.at = p.at /\ q.op = p.op /\ q.mode = p.mode
      /\ q.id = p.id /\ q.file = p.file /\ q.aes = k /\ q.last = p.last
  BY SMT DEF TakeKey, Process
<1>3. q.crcValid = p.crcValid /\ q.registered = p.registered
  BY SMT DEF TakeKey, Process
<1>. QED
  BY <1>1, <1>2, <1>3, Zenon

LEMMA JudgedFields ==
    ASSUME NEW p \in Process, NEW x, NEW y
    PROVE  LET q == Judged(p, x, y)
           IN /\ q \in Process /\ q.at = p.at /\ q.op = p.op /\ q.mode = p.mode
              /\ q.id = p.id /\ q.file = p.file /\ q.aes = p.aes /\ q.last = p.last
              /\ (q.crcValid <=> x = y) /\ q.registered = p.registered
<1>. DEFINE q == Judged(p, x, y)
<1>1. q \in Process
  <2>1. (x = y) \in BOOLEAN
    OBVIOUS
  <2>. QED
    BY <2>1, Zenon DEF Judged, Process
<1>2. /\ q.at = p.at /\ q.op = p.op /\ q.mode = p.mode
      /\ q.id = p.id /\ q.file = p.file /\ q.aes = p.aes /\ q.last = p.last
  BY SMT DEF Judged, Process
<1>3. q.registered = p.registered
  BY SMT DEF Judged, Process
<1>4. q.crcValid <=> x = y
  BY Zenon DEF Judged, Process
<1>. QED
  BY <1>1, <1>2, <1>3, <1>4, Zenon

LEMMA UnjudgedFields ==
    ASSUME NEW p \in Process
    PROVE  LET q == Unjudged(p)
           IN /\ q \in Process /\ q.at = p.at /\ q.op = p.op /\ q.mode = p.mode
              /\ q.id = p.id /\ q.file = p.file /\ q.aes = p.aes /\ q.last = p.last
              /\ ~q.crcValid /\ q.registered = p.registered
<1>. DEFINE q == Unjudged(p)
<1>1. q \in Process
  BY Zenon DEF Unjudged, Process
<1>2. /\ q.at = p.at /\ q.op = p.op /\ q.mode = p.mode
      /\ q.id = p.id /\ q.file = p.file /\ q.aes = p.aes /\ q.last = p.last
  BY SMT DEF Unjudged, Process
<1>3. ~q.crcValid /\ q.registered = p.registered
  BY SMT DEF Unjudged, Process
<1>. QED
  BY <1>1, <1>2, <1>3, Zenon

LEMMA ReceiveResponseKeeps ==
    ASSUME ClientInv, NEW m \in Machines, ReceiveResponse(m)
    PROVE  ClientInv' /\ Busy(m)'
<1>. DEFINE a        == outbox[Session(m)]
            p        == [proc[m] EXCEPT !.last = a]
            saved    == [p EXCEPT !.phase = "saveKey"]
            judged   == [p EXCEPT !.crcValid = (a.crc = Local[m])]
            unjudged == [p EXCEPT !.crcValid = FALSE]
            givesKey == a.code \in {IN_PUBLIC_KEY_OUT_AES, RECCONECT_APPROVED}
<1>1. Running(m) /\ proc[m].phase = "await"
  BY DEF ReceiveResponse, Running
<1>2. /\ Session(m) \in Conns /\ run[m] \in 1..MaxRuns
      /\ proc[m] \in Process /\ ProgramOK(m, proc[m], keyPriv[m])
  BY <1>1, SessionInUse
<1>3. IsAnswer(proc[m].op, a) /\ a \in Response
  <2>1. WiresOK(m) /\ run[m] > 0 /\ a # None
    BY <1>1 DEF ClientInv, WiresOK, ReceiveResponse, Collect
  <2>. QED
    BY <1>1, <2>1 DEF WiresOK, IsAnswer
<1>4. /\ UNCHANGED <<link, inbox, local, run>>
      /\ outbox' = [outbox EXCEPT ![Session(m)] = None]
  BY DEF ReceiveResponse, Collect
<1>5. /\ WiresTypeOK' /\ outbox'[Session(m)] = None
      /\ \A c \in Conns \ {Session(m)} : outbox'[c] = outbox[c]
  BY <1>2, <1>4 DEF ClientInv, WiresTypeOK
<1>6. ASSUME NEW q, Goes(m, q), ProgramOK(m, q, keyPriv[m]), q.phase = "saveKey" \/ GoesOn(q)
      PROVE  ClientInv' /\ Busy(m)'
  BY <1>1, <1>4, <1>5, <1>6, MachineKeeps DEF local, ClientInv, ClientTypeOK, GoesOn, Busy
<1>7. /\ p \in Process /\ p.at = proc[m].at /\ p.op = proc[m].op /\ p.mode = proc[m].mode
      /\ p.phase = "await" /\ p.file = proc[m].file /\ p.aes = proc[m].aes
      /\ p.crcValid = proc[m].crcValid /\ p.registered = proc[m].registered /\ p.last = a
  <2>1. p = Noted(proc[m], a)
    BY DEF Noted
  <2>. HIDE DEF p
  <2>. QED
    BY <1>1, <1>2, <1>3, <2>1, NotedFields
<1>8. \/ /\ a.code = INIT_REGISTRATION_SUCC
         /\ Goes(m, saved)
      \/ /\ givesKey /\ keyPriv[m] = a.pub
         /\ Goes(m, AfterReply(TakeKey(p, a.key)))
      \/ /\ givesKey /\ (keyPriv[m] # a.pub \/ LocalFaults)
         /\ Goes(m, Throw(p))
      \/ /\ a.code = VALID_FILE_CRC
         /\ Goes(m, AfterReply(judged))
      \/ /\ a.code = VALID_FILE_CRC /\ LocalFaults
         /\ Goes(m, AfterReply(unjudged))
      \/ /\ a.code \notin {INIT_REGISTRATION_SUCC, VALID_FILE_CRC} /\ ~givesKey
         /\ Goes(m, AfterReply(p))
  BY Zenon DEF ReceiveResponse
<1>9. /\ saved = Phased(p, "saveKey")
      /\ judged = Judged(p, a.crc, Local[m])
      /\ unjudged = Unjudged(p)
  BY Zenon DEF Phased, Judged, Unjudged
<1>. HIDE DEF p, saved, judged, unjudged
<1>10. ASSUME NEW q, q \in Process, q.at = p.at, q.op = p.op, q.mode = p.mode,
             q.file = p.file, q.last = a, q.registered = p.registered,
             q.aes = p.aes \/ (q.aes # NoKey /\ keyPriv[m] # None),
             givesKey => q.aes # NoKey,
             q.crcValid => a.code = VALID_FILE_CRC \/ q.crcValid = p.crcValid,
             a.code = VALID_FILE_CRC /\ q.crcValid => a.crc = Local[m]
      PROVE  Heard(m, q, keyPriv[m])
  BY <1>1, <1>2, <1>3, <1>7, <1>10 DEF Heard, ProgramOK, InPlace
<1>11. CASE a.code = INIT_REGISTRATION_SUCC /\ Goes(m, saved)
  <2>. DEFINE q == Phased(p, "saveKey")
  <2>1. /\ SameMemory(q, p) /\ q.at = p.at /\ q.op = p.op /\ q.mode = p.mode
        /\ q.phase = "saveKey"
    BY <1>7, PhaseFields
  <2>. HIDE DEF q
  <2>2. proc[m].op = REGISTER /\ a.uid \in Uids
    BY <1>3, <1>11 DEF IsAnswer, AnswerCodes
  <2>3. a # None
    BY <1>3, PacketsAssumption
  <2>4. ProgramOK(m, q, keyPriv[m])
    BY <1>1, <1>2, <1>7, <2>1, <2>2, <2>3 DEF SameMemory, ProgramOK, InPlace
  <2>. QED
    BY <1>6, <1>11, <1>9, <2>1, <2>4 DEF q
<1>12. CASE givesKey /\ keyPriv[m] = a.pub /\ Goes(m, AfterReply(TakeKey(p, a.key)))
  <2>. DEFINE q == TakeKey(p, a.key)
  <2>1. a.pub \in PubKeys /\ a.key # NoKey /\ a.key \in Nat
    BY <1>3, <1>12 DEF IsAnswer, Response
  <2>2. keyPriv[m] # None
    BY <1>12, <2>1, ValuesAssumption
  <2>3. /\ q \in Process /\ q.at = p.at /\ q.op = p.op /\ q.mode = p.mode
        /\ q.file = p.file /\ q.aes = a.key /\ q.last = p.last
        /\ q.crcValid = p.crcValid /\ q.registered = p.registered
    BY <1>7, <2>1, TakeKeyFields
  <2>. HIDE DEF q
  <2>4. a.code # VALID_FILE_CRC
    BY <1>12
  <2>5. Heard(m, q, keyPriv[m])
    BY <1>7, <1>10, <2>1, <2>2, <2>3, <2>4
  <2>6. ProgramOK(m, AfterReply(q), keyPriv[m]) /\ GoesOn(AfterReply(q))
    BY <2>5, AfterReplyOK
  <2>. QED
    BY <1>6, <1>12, <2>6 DEF q
<1>13. CASE givesKey /\ Goes(m, Throw(p))
  <2>1. ProgramOK(m, p, keyPriv[m])
    BY <1>1, <1>2, <1>7 DEF ProgramOK, InPlace
  <2>. QED
    BY <1>6, <1>13, <2>1, ThrowOK
<1>14. ASSUME NEW q, q \in Process, q.at = p.at, q.op = p.op, q.mode = p.mode,
              q.file = p.file, q.aes = p.aes, q.last = p.last, q.registered = p.registered,
              q.crcValid => a.crc = Local[m],
              a.code = VALID_FILE_CRC, Goes(m, AfterReply(q))
       PROVE  ClientInv' /\ Busy(m)'
  <2>1. Heard(m, q, keyPriv[m])
    BY <1>7, <1>10, <1>14
  <2>2. ProgramOK(m, AfterReply(q), keyPriv[m]) /\ GoesOn(AfterReply(q))
    BY <2>1, AfterReplyOK
  <2>. QED
    BY <1>6, <1>14, <2>2
<1>15. CASE /\ a.code \notin {INIT_REGISTRATION_SUCC, VALID_FILE_CRC} /\ ~givesKey
            /\ Goes(m, AfterReply(p))
  <2>1. Heard(m, p, keyPriv[m])
    BY <1>7, <1>10, <1>15
  <2>2. ProgramOK(m, AfterReply(p), keyPriv[m]) /\ GoesOn(AfterReply(p))
    BY <2>1, AfterReplyOK
  <2>. QED
    BY <1>6, <1>15, <2>2
<1>16. CASE a.code = VALID_FILE_CRC /\ Goes(m, AfterReply(judged))
  BY <1>7, <1>9, <1>14, <1>16, JudgedFields
<1>17. CASE a.code = VALID_FILE_CRC /\ Goes(m, AfterReply(unjudged))
  BY <1>7, <1>9, <1>14, <1>17, UnjudgedFields
<1>. HIDE DEF givesKey, a
<1>. QED
  BY <1>8, <1>11, <1>12, <1>13, <1>15, <1>16, <1>17

-----------------------------------------------------------------------------
(* createNewClientFile *)

LEMMA SaveKeyKeeps ==
    ASSUME ClientInv, NEW m \in Machines, SaveKey(m)
    PROVE  ClientInv' /\ Busy(m)'
<1>. DEFINE q == Phased(proc[m], "saveInfo")
<1>1. Running(m) /\ proc[m].phase = "saveKey"
  BY DEF SaveKey, Running
<1>2. /\ Session(m) \in PubKeys
      /\ proc[m] \in Process /\ ProgramOK(m, proc[m], keyPriv[m])
  BY <1>1, SessionInUse
<1>3. /\ UNCHANGED <<wires, meInfo, run>>
      /\ meInfo \in [Machines -> Uids \cup {None}]
      /\ keyPriv \in [Machines -> PubKeys \cup {None}]
  BY DEF SaveKey, ClientInv, ClientTypeOK
<1>4. \/ keyPriv' = [keyPriv EXCEPT ![m] = Session(m)] /\ Goes(m, q)
      \/ UNCHANGED keyPriv /\ Goes(m, Throw(proc[m]))
  BY DEF SaveKey, Phased
<1>5. CASE keyPriv' = [keyPriv EXCEPT ![m] = Session(m)] /\ Goes(m, q)
  <2>1. /\ SameMemory(q, proc[m]) /\ q.at = proc[m].at /\ q.op = proc[m].op
        /\ q.mode = proc[m].mode /\ q.phase = "saveInfo"
    BY <1>2, PhaseFields
  <2>. HIDE DEF q
  <2>2. /\ keyPriv'[m] # None /\ keyPriv' \in [Machines -> PubKeys \cup {None}]
        /\ \A n \in Machines \ {m} : keyPriv'[n] = keyPriv[n]
    BY <1>2, <1>3, <1>5, ValuesAssumption
  <2>3. ProgramOK(m, q, keyPriv'[m])
    BY <1>1, <1>2, <2>1, <2>2 DEF SameMemory, ProgramOK, InPlace
  <2>. QED
    BY <1>1, <1>3, <1>5, <2>1, <2>2, <2>3, QuietKeeps DEF Busy
<1>6. CASE UNCHANGED keyPriv /\ Goes(m, Throw(proc[m]))
  <2>1. ProgramOK(m, Throw(proc[m]), keyPriv[m]) /\ GoesOn(Throw(proc[m]))
    BY <1>2, ThrowOK
  <2>. QED
    BY <1>1, <1>3, <1>6, <2>1, QuietKeeps DEF GoesOn, Busy
<1>. QED
  BY <1>4, <1>5, <1>6

Named(p, id) == [p EXCEPT !.id = id]

LEMMA NamedFields ==
    ASSUME NEW p \in Process, NEW id \in Uids
    PROVE  LET q == Named(p, id)
           IN /\ q \in Process /\ q.at = p.at /\ q.op = p.op /\ q.mode = p.mode
              /\ q.id = id /\ q.file = p.file /\ q.aes = p.aes /\ q.last = p.last
              /\ q.crcValid = p.crcValid /\ q.registered = p.registered
<1>. DEFINE q == Named(p, id)
<1>0. id \in Uids \cup {NoUid}
  OBVIOUS
<1>1. q \in Process
  BY <1>0, Zenon DEF Named, Process
<1>2. /\ q.at = p.at /\ q.op = p.op /\ q.mode = p.mode
      /\ q.id = id /\ q.file = p.file /\ q.aes = p.aes /\ q.last = p.last
  BY SMT DEF Named, Process
<1>3. q.crcValid = p.crcValid /\ q.registered = p.registered
  BY SMT DEF Named, Process
<1>. QED
  BY <1>1, <1>2, <1>3, Zenon

LEMMA SaveInfoKeeps ==
    ASSUME ClientInv, NEW m \in Machines, SaveInfo(m)
    PROVE  ClientInv' /\ Busy(m)'
<1>. DEFINE uid == proc[m].last.uid
            q   == Named(proc[m], uid)
<1>1. Running(m) /\ proc[m].phase = "saveInfo"
  BY DEF SaveInfo, Running
<1>2. proc[m] \in Process /\ ProgramOK(m, proc[m], keyPriv[m])
  BY <1>1, SessionInUse
<1>3. /\ UNCHANGED <<wires, keyPriv, run>>
      /\ meInfo \in [Machines -> Uids \cup {None}]
      /\ keyPriv \in [Machines -> PubKeys \cup {None}]
  BY DEF SaveInfo, ClientInv, ClientTypeOK
<1>4. \/ meInfo' = [meInfo EXCEPT ![m] = uid] /\ Goes(m, Return(q))
      \/ UNCHANGED meInfo /\ Goes(m, Throw(proc[m]))
  BY DEF SaveInfo, NewUid, Named
<1>5. uid \in Uids
  BY <1>1, <1>2 DEF ProgramOK
<1>6. CASE meInfo' = [meInfo EXCEPT ![m] = uid] /\ Goes(m, Return(q))
  <2>1. /\ q \in Process /\ q.at = proc[m].at /\ q.op = proc[m].op
        /\ q.mode = proc[m].mode /\ q.file = proc[m].file /\ q.aes = proc[m].aes
        /\ q.crcValid = proc[m].crcValid /\ q.registered = proc[m].registered
    BY <1>2, <1>5, NamedFields
  <2>. HIDE DEF q
  <2>2. ProgramOK(m, Return(q), keyPriv[m]) /\ GoesOn(Return(q))
    <3>1. InPlace(q)
      BY <1>2, <2>1 DEF ProgramOK, InPlace
    <3>. QED
      BY <1>2, <2>1, <3>1, ReturnOK DEF ProgramOK
  <2>3. meInfo' \in [Machines -> Uids \cup {None}]
    BY <1>3, <1>5, <1>6
  <2>. QED
    BY <1>1, <1>3, <1>6, <2>2, <2>3, QuietKeeps DEF GoesOn, Busy
<1>7. CASE UNCHANGED meInfo /\ Goes(m, Throw(proc[m]))
  <2>1. ProgramOK(m, Throw(proc[m]), keyPriv[m]) /\ GoesOn(Throw(proc[m]))
    BY <1>2, ThrowOK
  <2>. QED
    BY <1>1, <1>3, <1>7, <2>1, QuietKeeps DEF GoesOn, Busy
<1>. QED
  BY <1>4, <1>6, <1>7

-----------------------------------------------------------------------------
(* What the steps of a run do to the program, for invariants other than     *)
(* ClientInv.                                                               *)

(* Program h is that of machine m after it has taken in the answer.         *)
Hears(m, h) ==
    LET p == proc[m]
        a == outbox[Session(m)]
    IN /\ h \in Process /\ InPlace(h) /\ h.last = a
       /\ h.at = p.at /\ h.op = p.op /\ h.mode = p.mode /\ h.id = p.id /\ h.file = p.file
       /\ h.registered = p.registered
       /\ GivesKey(a) => h.aes = a.key /\ keyPriv[m] = a.pub
       /\ ~GivesKey(a) => h.aes = p.aes
       /\ a.code = VALID_FILE_CRC => (h.crcValid <=> a.crc = Local[m]) \/ LocalFaults
       /\ a.code # VALID_FILE_CRC => h.crcValid = p.crcValid

LEMMA ReceiveEffect ==
    ASSUME ClientInv, NEW m \in Machines, ReceiveResponse(m)
    PROVE  LET p == proc[m]
               a == outbox[Session(m)]
               q == proc'[m]
           IN /\ IsAnswer(p.op, a) /\ a # None /\ p.phase = "await"
              /\ \/ /\ a.code = INIT_REGISTRATION_SUCC /\ p.op = REGISTER
                    /\ q.phase = "saveKey" /\ q.last = a
                    /\ q.at = p.at /\ q.op = p.op /\ q.mode = p.mode /\ q.id = p.id
                    /\ q.file = p.file /\ q.registered = p.registered /\ q.aes = p.aes
                    /\ q.crcValid = p.crcValid
                 \/ /\ GivesKey(a) /\ (keyPriv[m] # a.pub \/ LocalFaults)
                    /\ \E h \in Process :
                          /\ q = Throw(h) /\ h.at = p.at /\ h.op = p.op /\ h.mode = p.mode
                          /\ h.id = p.id /\ h.file = p.file /\ h.registered = p.registered
                          /\ h.aes = p.aes /\ h.crcValid = p.crcValid
                 \/ \E h : Hears(m, h) /\ q = AfterReply(h)
<1>. DEFINE a        == outbox[Session(m)]
            p        == [proc[m] EXCEPT !.last = a]
            saved    == [p EXCEPT !.phase = "saveKey"]
            judged   == [p EXCEPT !.crcValid = (a.crc = Local[m])]
            unjudged == [p EXCEPT !.crcValid = FALSE]
            givesKey == a.code \in {IN_PUBLIC_KEY_OUT_AES, RECCONECT_APPROVED}
<1>1. Running(m) /\ proc[m].phase = "await"
  BY DEF ReceiveResponse, Running
<1>2. /\ proc \in [Machines -> Process]
      /\ proc[m] \in Process /\ ProgramOK(m, proc[m], keyPriv[m])
  BY <1>1, SessionInUse DEF ClientInv, ClientTypeOK
<1>3. IsAnswer(proc[m].op, a) /\ a \in Response /\ a # None /\ (GivesKey(a) <=> givesKey)
  <2>1. WiresOK(m) /\ run[m] > 0 /\ a # None
    BY <1>1 DEF ClientInv, WiresOK, ReceiveResponse, Collect
  <2>. QED
    BY <1>1, <2>1 DEF WiresOK, IsAnswer, GivesKey
<1>4. /\ p \in Process /\ p.at = proc[m].at /\ p.op = proc[m].op /\ p.mode = proc[m].mode
      /\ p.id = proc[m].id /\ p.file = proc[m].file /\ p.aes = proc[m].aes
      /\ p.crcValid = proc[m].crcValid /\ p.registered = proc[m].registered /\ p.last = a
  <2>1. p = Noted(proc[m], a)
    BY DEF Noted
  <2>. HIDE DEF p
  <2>. QED
    BY <1>1, <1>2, <1>3, <2>1, NotedFields
<1>5. \/ /\ a.code = INIT_REGISTRATION_SUCC
         /\ Goes(m, saved)
      \/ /\ givesKey /\ keyPriv[m] = a.pub
         /\ Goes(m, AfterReply(TakeKey(p, a.key)))
      \/ /\ givesKey /\ (keyPriv[m] # a.pub \/ LocalFaults)
         /\ Goes(m, Throw(p))
      \/ /\ a.code = VALID_FILE_CRC
         /\ Goes(m, AfterReply(judged))
      \/ /\ a.code = VALID_FILE_CRC /\ LocalFaults
         /\ Goes(m, AfterReply(unjudged))
      \/ /\ a.code \notin {INIT_REGISTRATION_SUCC, VALID_FILE_CRC} /\ ~givesKey
         /\ Goes(m, AfterReply(p))
  BY Zenon DEF ReceiveResponse
<1>6. /\ saved = Phased(p, "saveKey")
      /\ judged = Judged(p, a.crc, Local[m])
      /\ unjudged = Unjudged(p)
  BY Zenon DEF Phased, Judged, Unjudged
<1>7. \A q : Goes(m, q) => proc'[m] = q
  BY <1>2 DEF Goes
<1>. HIDE DEF p, saved, judged, unjudged
<1>8. InPlace(p) /\ (givesKey => a.code # VALID_FILE_CRC)
  BY <1>2, <1>4 DEF ProgramOK, InPlace
<1>9. CASE a.code = INIT_REGISTRATION_SUCC /\ Goes(m, saved)
  <2>. DEFINE q == Phased(p, "saveKey")
  <2>1. /\ SameMemory(q, p) /\ q.at = p.at /\ q.op = p.op /\ q.mode = p.mode
        /\ q.phase = "saveKey"
    BY <1>4, PhaseFields
  <2>2. proc'[m] = q
    BY <1>6, <1>7, <1>9
  <2>. HIDE DEF q
  <2>3. proc[m].op = REGISTER
    BY <1>3, <1>9 DEF IsAnswer, AnswerCodes
  <2>. QED
    BY <1>1, <1>3, <1>4, <1>9, <2>1, <2>2, <2>3 DEF SameMemory
<1>10. CASE givesKey /\ keyPriv[m] = a.pub /\ Goes(m, AfterReply(TakeKey(p, a.key)))
  <2>. DEFINE q == TakeKey(p, a.key)
  <2>1. /\ q \in Process /\ q.at = p.at /\ q.op = p.op /\ q.mode = p.mode
        /\ q.id = p.id /\ q.file = p.file /\ q.aes = a.key /\ q.last = p.last
        /\ q.crcValid = p.crcValid /\ q.registered = p.registered
    <3>1. a.key \in Nat
      BY <1>3 DEF Response
    <3>. QED
      BY <1>4, <3>1, TakeKeyFields
  <2>2. proc'[m] = AfterReply(q)
    BY <1>7, <1>10
  <2>. HIDE DEF q
  <2>3. /\ q.last = a /\ q.at = proc[m].at /\ q.op = proc[m].op /\ q.mode = proc[m].mode
        /\ q.id = proc[m].id /\ q.file = proc[m].file
    BY <1>4, <2>1
  <2>4. q.registered = proc[m].registered /\ q.crcValid = proc[m].crcValid
    BY <1>4, <2>1
  <2>5. InPlace(q) /\ GivesKey(a) /\ a.code # VALID_FILE_CRC
    BY <1>3, <1>8, <1>10, <2>1 DEF InPlace
  <2>6. q \in Process /\ q.aes = a.key /\ keyPriv[m] = a.pub
    BY <1>10, <2>1
  <2>7. Hears(m, q)
    BY <2>3, <2>4, <2>5, <2>6, Zenon DEF Hears
  <2>. QED
    BY <1>1, <1>3, <2>2, <2>7
<1>11. CASE givesKey /\ (keyPriv[m] # a.pub \/ LocalFaults) /\ Goes(m, Throw(p))
  BY <1>1, <1>3, <1>4, <1>7, <1>11
<1>12. CASE a.code = VALID_FILE_CRC /\ Goes(m, AfterReply(judged))
  <2>. DEFINE q == Judged(p, a.crc, Local[m])
  <2>1. /\ q \in Process /\ q.at = p.at /\ q.op = p.op /\ q.mode = p.mode
        /\ q.id = p.id /\ q.file = p.file /\ q.aes = p.aes /\ q.last = p.last
        /\ q.registered = p.registered
    BY <1>4, JudgedFields
  <2>2. q.crcValid <=> a.crc = Local[m]
    BY <1>4, Zenon DEF Judged, Process
  <2>. HIDE DEF q
  <2>3. InPlace(q) /\ ~GivesKey(a)
    BY <1>3, <1>8, <1>12, <2>1 DEF InPlace
  <2>4. Hears(m, q)
    <3>1. /\ q \in Process /\ InPlace(q) /\ q.last = a
          /\ q.at = proc[m].at /\ q.op = proc[m].op /\ q.mode = proc[m].mode
          /\ q.id = proc[m].id /\ q.file = proc[m].file
          /\ q.registered = proc[m].registered /\ q.aes = proc[m].aes
      BY <1>4, <2>1, <2>3
    <3>2. ~GivesKey(a) /\ a.code = VALID_FILE_CRC
      BY <1>12, <2>3
    <3>. HIDE DEF a
    <3>3. Hears(m, q)
      BY <2>2, <3>1, <3>2, Zenon DEF Hears, a
    <3>. QED
      BY <3>3
  <2>. QED
    BY <1>1, <1>3, <1>6, <1>7, <1>12, <2>4 DEF q
<1>13. CASE a.code = VALID_FILE_CRC /\ LocalFaults /\ Goes(m, AfterReply(unjudged))
  <2>1. Hears(m, unjudged)
    BY <1>3, <1>4, <1>6, <1>8, <1>13, UnjudgedFields DEF Hears, InPlace
  <2>. QED
    BY <1>1, <1>3, <1>7, <1>13, <2>1
<1>14. CASE /\ a.code \notin {INIT_REGISTRATION_SUCC, VALID_FILE_CRC} /\ ~givesKey
            /\ Goes(m, AfterReply(p))
  <2>1. Hears(m, p)
    BY <1>3, <1>4, <1>8, <1>14 DEF Hears
  <2>. QED
    BY <1>1, <1>3, <1>7, <1>14, <2>1
<1>. HIDE DEF givesKey, a
<1>. QED
  BY <1>5, <1>9, <1>10, <1>11, <1>12, <1>13, <1>14

LEMMA SendEffect ==
    ASSUME ClientInv, NEW m \in Machines, SendRequest(m)
    PROVE  LET p == proc[m]
               q == proc'[m]
           IN /\ q.id = SenderId(m) /\ SenderId(m) \in Uids \cup {NoUid}
              /\ q.at = p.at /\ q.mode = p.mode /\ q.aes = p.aes
              /\ q.crcValid = p.crcValid /\ q.registered = p.registered
              /\ p.op = N_VALID_CRC => q.phase = "send" /\ q.op = SEND_FILE
              /\ p.op # N_VALID_CRC => q.phase = "await" /\ q.op = p.op
              /\ inbox'[Session(m)] = RequestOf(m) /\ link[Session(m)] = "open"
<1>. DEFINE p == SetsName([proc[m] EXCEPT !.id = SenderId(m)], Upload[m])
            q == IF p.op \in Unanswered THEN Ask(p, SEND_FILE) ELSE [p EXCEPT !.phase = "await"]
<1>1. Running(m) /\ proc[m].phase = "send"
  BY DEF SendRequest, Running
<1>2. /\ Session(m) \in Conns
      /\ proc[m] \in Process /\ proc \in [Machines -> Process]
  BY <1>1, SessionInUse DEF ClientInv, ClientTypeOK
<1>3. SenderId(m) \in Uids \cup {NoUid} /\ RequestOf(m) \in Request
  BY <1>1, RequestType DEF SendRequest
<1>4. inbox'[Session(m)] = RequestOf(m) /\ link[Session(m)] = "open"
  BY <1>2, <1>3 DEF SendRequest, ClientInv, Submit, WiresTypeOK
<1>5. proc'[m] = q
  <2>1. Goes(m, q)
    BY Zenon DEF SendRequest
  <2>. QED
    BY <1>2, <2>1 DEF Goes
<1>6. /\ p \in Process /\ p.at = proc[m].at /\ p.op = proc[m].op /\ p.mode = proc[m].mode
      /\ p.aes = proc[m].aes /\ p.crcValid = proc[m].crcValid
      /\ p.registered = proc[m].registered /\ p.id = SenderId(m)
  BY <1>2, <1>3, MachinesAssumption, BuiltFields
<1>. HIDE DEF p
<1>7. CASE p.op \in Unanswered
  <2>. DEFINE s == Ask(p, SEND_FILE)
  <2>1. /\ SameMemory(s, p) /\ s.at = p.at /\ s.op = SEND_FILE /\ s.phase = "send"
        /\ s.mode = p.mode
    BY <1>6, AskFields DEF RequestCodes
  <2>2. q = s
    BY <1>7
  <2>. HIDE DEF q, s
  <2>. QED
    BY <1>3, <1>4, <1>5, <1>6, <1>7, <2>1, <2>2 DEF SameMemory, Unanswered
<1>8. CASE p.op \notin Unanswered
  <2>. DEFINE s == Phased(p, "await")
  <2>1. /\ SameMemory(s, p) /\ s.at = p.at /\ s.op = p.op /\ s.phase = "await"
        /\ s.mode = p.mode
    BY <1>6, PhaseFields
  <2>2. q = s
    BY <1>8 DEF Phased
  <2>. HIDE DEF q, s
  <2>. QED
    BY <1>3, <1>4, <1>5, <1>6, <1>8, <2>1, <2>2 DEF SameMemory, Unanswered
<1>. QED
  BY <1>7, <1>8

(* createNewClientFile goes on to me.info, or gives up.                     *)
LEMMA SaveKeyEffect ==
    ASSUME ClientInv, NEW m \in Machines, SaveKey(m)
    PROVE  LET p == proc[m]
               q == proc'[m]
           IN \/ /\ keyPriv[m] = None /\ keyPriv'[m] = Session(m)
                 /\ SameMemory(q, p) /\ q.phase = "saveInfo"
                 /\ q.at = p.at /\ q.op = p.op /\ q.mode = p.mode
              \/ /\ keyPriv[m] # None \/ LocalFaults
                 /\ UNCHANGED keyPriv /\ q = Throw(p)
<1>. DEFINE q == Phased(proc[m], "saveInfo")
<1>1. /\ proc[m] \in Process /\ proc \in [Machines -> Process]
      /\ keyPriv \in [Machines -> PubKeys \cup {None}]
  BY DEF ClientInv, ClientTypeOK
<1>2. /\ SameMemory(q, proc[m]) /\ q.at = proc[m].at /\ q.op = proc[m].op
      /\ q.mode = proc[m].mode /\ q.phase = "saveInfo"
  BY <1>1, PhaseFields
<1>3. \/ /\ keyPriv[m] = None /\ keyPriv' = [keyPriv EXCEPT ![m] = Session(m)]
         /\ Goes(m, q)
      \/ /\ keyPriv[m] # None \/ LocalFaults
         /\ UNCHANGED keyPriv /\ Goes(m, Throw(proc[m]))
  BY DEF SaveKey, Phased
<1>. HIDE DEF q
<1>. QED
  BY <1>1, <1>2, <1>3 DEF Goes

LEMMA SaveInfoEffect ==
    ASSUME ClientInv, NEW m \in Machines, SaveInfo(m)
    PROVE  LET p == proc[m]
               q == proc'[m]
           IN /\ p.last.uid \in Uids
              /\ \/ /\ meInfo[m] = None /\ meInfo'[m] = p.last.uid
                    /\ \E h \in Process :
                          /\ q = Return(h) /\ h.id = p.last.uid
                          /\ h.at = p.at /\ h.op = p.op /\ h.mode = p.mode /\ h.aes = p.aes
                          /\ h.registered = p.registered /\ h.crcValid = p.crcValid
                 \/ /\ meInfo[m] # None \/ LocalFaults
                    /\ UNCHANGED meInfo /\ q = Throw(p)
<1>. DEFINE uid == proc[m].last.uid
            q   == Named(proc[m], uid)
<1>1. /\ proc[m] \in Process /\ proc \in [Machines -> Process]
      /\ meInfo \in [Machines -> Uids \cup {None}]
  BY DEF ClientInv, ClientTypeOK
<1>2. uid \in Uids
  BY DEF SaveInfo, ClientInv, ProgramOK
<1>3. /\ q \in Process /\ q.id = uid /\ q.at = proc[m].at /\ q.op = proc[m].op
      /\ q.mode = proc[m].mode /\ q.aes = proc[m].aes
      /\ q.crcValid = proc[m].crcValid /\ q.registered = proc[m].registered
  BY <1>1, <1>2, NamedFields
<1>4. \/ /\ meInfo[m] = None /\ meInfo' = [meInfo EXCEPT ![m] = uid]
         /\ Goes(m, Return(q))
      \/ /\ meInfo[m] # None \/ LocalFaults
         /\ UNCHANGED meInfo /\ Goes(m, Throw(proc[m]))
  BY DEF SaveInfo, NewUid, Named
<1>. HIDE DEF q, uid
<1>5. CASE /\ meInfo[m] = None /\ meInfo' = [meInfo EXCEPT ![m] = uid]
           /\ Goes(m, Return(q))
  <2>1. meInfo'[m] = uid /\ proc'[m] = Return(q)
    BY <1>1, <1>5 DEF Goes
  <2>. QED
    BY <1>2, <1>3, <1>5, <2>1 DEF uid
<1>6. CASE /\ meInfo[m] # None \/ LocalFaults
           /\ UNCHANGED meInfo /\ Goes(m, Throw(proc[m]))
  BY <1>1, <1>2, <1>6 DEF Goes, uid
<1>. QED
  BY <1>4, <1>5, <1>6

-----------------------------------------------------------------------------
(* How a run ends. *)

LEMMA EndsKeeps ==
    ASSUME ClientInv, NEW m \in Machines, Running(m), NEW how \in {"off", "terminated"},
           Ends(m, how)
    PROVE  ClientInv'
<1>. DEFINE c == Session(m)
            q == [NoProcess EXCEPT !.phase = how]
<1>1. c \in Conns
  BY SessionInUse
<1>2. Goes(m, q) /\ UNCHANGED <<local, run>> /\ Hangup(c)
  BY Zenon DEF Ends
<1>3. ProgramOK(m, q, keyPriv[m]) /\ q.phase = how
  BY NewProcessOK
<1>. HIDE DEF q
<1>4. /\ WiresTypeOK'
      /\ outbox'[c] = None
      /\ \A d \in Conns \ {c} : outbox'[d] = outbox[d] /\ link'[d] = link[d]
  BY <1>1, <1>2 DEF Hangup, ClientInv, WiresTypeOK, LinkStates
<1>. QED
  BY <1>2, <1>3, <1>4, MachineKeeps DEF local, ClientInv, ClientTypeOK

LEMMA TornRequestType ==
    ASSUME NEW r \in Request, NEW t \in Torn(r)
    PROVE  t \in Request
<1>1. [r EXCEPT !.name = None, !.pub = None, !.file = None, !.body = None] \in Request
  <2>1. [r EXCEPT !.name = None, !.pub = None] \in Request
    BY Zenon DEF Request, UserNames
  <2>2. ASSUME NEW s \in Request PROVE [s EXCEPT !.file = None, !.body = None] \in Request
    BY Zenon DEF Request
  <2>. QED
    BY <2>1, <2>2, Zenon
<1>2. [r EXCEPT !.body = Garbled] \in Request
  BY SMT DEF Request, UserNames
<1>. QED
  BY <1>1, <1>2, Zenon DEF Torn

LEMMA KillSendingKeeps ==
    ASSUME ClientInv, NEW m \in Machines, KillSending(m)
    PROVE  ClientInv'
<1>. DEFINE c == Session(m)
<1>1. Running(m)
  BY DEF KillSending, Running
<1>2. c \in Conns /\ RequestOf(m) \in Request
  BY <1>1, SessionInUse, RequestType DEF KillSending
<1>3. PICK t \in Torn(RequestOf(m)) :
          /\ inbox' = [inbox EXCEPT ![c] = t]
          /\ link' = [link EXCEPT ![c] = "shut"]
          /\ outbox' = [outbox EXCEPT ![c] = None]
  BY DEF KillSending, SubmitTorn
<1>4. t \in Request
  BY <1>2, <1>3, TornRequestType
<1>5. /\ WiresTypeOK'
      /\ outbox'[c] = None
      /\ \A d \in Conns \ {c} : outbox'[d] = outbox[d] /\ link'[d] = link[d]
  BY <1>2, <1>3, <1>4 DEF ClientInv, WiresTypeOK, LinkStates
<1>6. ProgramOK(m, NoProcess, keyPriv[m])
  BY NewProcessOK
<1>7. Goes(m, NoProcess) /\ UNCHANGED <<local, run>>
  BY DEF KillSending
<1>. QED
  BY <1>1, <1>5, <1>6, <1>7, MachineKeeps DEF local, ClientInv, ClientTypeOK

-----------------------------------------------------------------------------
(* The invariant. *)

LEMMA MachineNextKeeps ==
    ASSUME ClientInv, NEW m \in Machines, MachineNext(m)
    PROVE  ClientInv'
<1>1. CASE Start(m)
  BY <1>1, StartKeeps
<1>2. CASE SendRequest(m)
  BY <1>2, SendRequestKeeps
<1>3. CASE BuildFails(m)
  BY <1>3, BuildFailsKeeps
<1>4. CASE ReceiveResponse(m)
  BY <1>4, ReceiveResponseKeeps
<1>5. CASE SaveKey(m)
  BY <1>5, SaveKeyKeeps
<1>6. CASE SaveInfo(m)
  BY <1>6, SaveInfoKeeps
<1>7. CASE ConnectionLost(m)
  BY <1>7, ConnectionLostKeeps
<1>8. CASE PayloadLost(m)
  BY <1>8, EndsKeeps DEF PayloadLost, Running
<1>9. CASE Exit(m)
  BY <1>9, EndsKeeps DEF Exit, Running
<1>10. CASE Kill(m)
  BY <1>10, EndsKeeps DEF Kill
<1>11. CASE KillSending(m)
  BY <1>11, KillSendingKeeps
<1>. QED
  BY <1>1, <1>2, <1>3, <1>4, <1>5, <1>6, <1>7, <1>8, <1>9, <1>10, <1>11
     DEF MachineNext, Runs

LEMMA ServerSideKeeps ==
    ASSUME ClientInv, ServerSide
    PROVE  ClientInv'
<1>1. /\ WiresTypeOK' /\ UNCHANGED <<meInfo, keyPriv, run, proc>>
      /\ \A c \in Conns :
            /\ link'[c] = "open" => link[c] = "open"
            /\ \/ outbox'[c] \in {outbox[c], None}
               \/ \E m \in Machines :
                     /\ c = Session(m) /\ proc[m].phase = "await"
                     /\ IsAnswer(proc[m].op, outbox'[c])
  BY DEF ServerSide, clientVars, local
<1>2. /\ Conns = Machines \X (1..MaxRuns) /\ MaxRuns \in Nat
      /\ run \in [Machines -> 0..MaxRuns]
  BY MachinesAssumption DEF ClientInv, ClientTypeOK, Sessions
<1>3. ClientTypeOK' /\ \A m \in Machines : ProgramOK(m, proc'[m], keyPriv'[m])
  BY <1>1 DEF ClientInv, ClientTypeOK
<1>4. ASSUME NEW m \in Machines PROVE WiresOK(m)'
  <2>0. WiresOK(m) /\ run[m] \in 0..MaxRuns
    BY <1>2 DEF ClientInv
  <2>1. ASSUME NEW i \in (run[m] + 1)..MaxRuns PROVE outbox'[<<m, i>>] = None
    <3>1. i \in 1..MaxRuns /\ i # run[m]
      BY <1>2, <2>0
    <3>2. <<m, i>> \in Conns /\ \A n \in Machines : <<m, i>> # Session(n)
      BY <1>2, <3>1 DEF Session
    <3>3. outbox[<<m, i>>] = None
      BY <2>0 DEF WiresOK
    <3>. QED
      BY <1>1, <3>2, <3>3
  <2>2. CASE run[m] > 0
    <3>1. run[m] \in 1..MaxRuns
      BY <1>2, <2>0, <2>2
    <3>2. Session(m) \in Conns /\ \A n \in Machines : Session(n) = Session(m) => n = m
      BY <1>2, <3>1 DEF Session
    <3>3. \/ outbox'[Session(m)] \in {outbox[Session(m)], None}
          \/ proc[m].phase = "await" /\ IsAnswer(proc[m].op, outbox'[Session(m)])
      BY <1>1, <3>2
    <3>4. link'[Session(m)] = "open" => link[Session(m)] = "open"
      BY <1>1, <3>2
    <3>. QED
      BY <1>1, <2>0, <2>1, <3>3, <3>4 DEF WiresOK, Session, Running
  <2>3. CASE ~(run[m] > 0)
    BY <1>1, <2>0, <2>1, <2>3 DEF WiresOK, Session, Running
  <2>. QED
    BY <2>2, <2>3
<1>. QED
  BY <1>1, <1>3, <1>4 DEF ClientInv

LEMMA ClientInitOK ==
    ASSUME WiresInit, ClientInit
    PROVE  ClientInv
<1>1. Conns = Machines \X (1..MaxRuns) /\ MaxRuns \in Nat
  BY MachinesAssumption DEF Sessions
<1>2. WiresTypeOK
  BY DEF WiresInit, WiresTypeOK, LinkStates
<1>3. ASSUME NEW m \in Machines PROVE ProgramOK(m, NoProcess, None) /\ NoProcess \in Process
  BY NewProcessOK DEF ProgramOK
<1>4. ClientTypeOK
  BY <1>1, <1>3 DEF ClientInit, ClientTypeOK
<1>5. ASSUME NEW m \in Machines PROVE WiresOK(m)
  <2>1. run[m] = 0 /\ ~Running(m)
    BY NewProcessOK DEF ClientInit, Running
  <2>2. ASSUME NEW i \in (run[m] + 1)..MaxRuns PROVE outbox[<<m, i>>] = None
    BY <1>1, <2>1 DEF WiresInit
  <2>. QED
    BY <2>1, <2>2 DEF WiresOK
<1>. QED
  BY <1>2, <1>3, <1>4, <1>5 DEF ClientInv, ClientInit

(* ClientInv holds in every state (all of Client.cpp). *)
THEOREM ClientInvariant == ClientSpec => []ClientInv
<1>1. WiresInit /\ ClientInit => ClientInv
  BY ClientInitOK
<1>2. ClientInv /\ [ClientNext]_<<wires, clientVars>> => ClientInv'
  <2>. SUFFICES ASSUME ClientInv, [ClientNext]_<<wires, clientVars>> PROVE ClientInv'
    OBVIOUS
  <2>1. CASE \E m \in Machines : MachineNext(m)
    BY <2>1, MachineNextKeeps
  <2>2. CASE ServerSide
    BY <2>2, ServerSideKeeps
  <2>3. CASE UNCHANGED <<wires, clientVars>>
    BY <2>3 DEF ClientInv, ClientTypeOK, WiresTypeOK, WiresOK, Session, Running,
       wires, clientVars, local
  <2>. QED
    BY <2>1, <2>2, <2>3 DEF ClientNext
<1>. QED
  BY <1>1, <1>2, PTL DEF ClientSpec

(* The state of the client keeps its type: in particular no run takes a     *)
(* response for something it is not, and no retry goes past its bound       *)
(* (errorResend, resendEncryptedMessage).                                   *)
THEOREM ClientTypeCorrect == ClientSpec => []ClientTypeOK
<1>1. ClientInv => ClientTypeOK
  BY DEF ClientInv
<1>. QED
  BY <1>1, ClientInvariant, PTL

(* FileSentWithKey: no file is sent under a key that was not delivered      *)
(* (uploadFile, recieveAesKey).                                             *)
THEOREM FilesAreSentWithKeys == ClientSpec => []FileSentWithKey
<1>1. ClientInv => FileSentWithKey
  BY DEF ClientInv, ProgramOK, FileSentWithKey
<1>. QED
  BY <1>1, ClientInvariant, PTL

(* ConfirmsOnlyMatches: no file is confirmed whose checksum did not match   *)
(* (uploadFile, checkSum).                                                  *)
THEOREM OnlyMatchesAreConfirmed == ClientSpec => []ConfirmsOnlyMatches
<1>1. ClientInv => ConfirmsOnlyMatches
  BY DEF ClientInv, ProgramOK, ConfirmsOnlyMatches
<1>. QED
  BY <1>1, ClientInvariant, PTL

(* VerdictNamesUpload: 900, 901 and 902 name the file of transfer.info,     *)
(* never what _filename was before it was set (setEncryptionPayload).       *)
THEOREM VerdictsNameTheUpload == ClientSpec => []VerdictNamesUpload
<1>1. ClientInv => VerdictNamesUpload
  <2>. SUFFICES ASSUME ClientInv, NEW m \in Machines, proc[m].phase = "send",
                       proc[m].op \in {VALID_CRC, N_VALID_CRC, EXIT_CRC}
                PROVE  proc[m].file = Upload[m]
    BY DEF VerdictNamesUpload
  <2>1. ProgramOK(m, proc[m], keyPriv[m])
    BY DEF ClientInv
  <2>. QED
    BY <2>1 DEF ProgramOK, InPlace, Process
<1>. QED
  BY <1>1, ClientInvariant, PTL
=============================================================================
