--------------------------- MODULE AttemptProofs ----------------------------
(***************************************************************************)
(* Proofs of how often uploadFile sends the file, for any machines, any    *)
(* number of runs on each, with local faults and kills, and with any       *)
(* server that keeps to the protocol.                                      *)
(*                                                                         *)
(* AttemptsInv is inductive next to ClientInv.  The lemmas follow the      *)
(* count through the functions that say where the program goes.            *)
(***************************************************************************)
EXTENDS Attempts, UploadClientProofs

USE DEF REGISTER, S_PUBLIC_KEY, RECONNECT, SEND_FILE, VALID_CRC, N_VALID_CRC, EXIT_CRC

(* The count after the program went from p to q. *)
Counted(p, q, n) == IF q.at # p.at THEN 0 ELSE n

(* The program goes from p to q, and on from there. *)
Follows(p, q, n) == SendsOK(q, Counted(p, q, n)) /\ GoesOn(q)

(* Nothing is said of a program that is not in uploadFile, or leaves it.    *)
LEMMA CountElsewhere ==
    ASSUME NEW q, NEW n \in 0..5, q.at \notin {"upload1", "upload2"}, q.phase = "send"
    PROVE  SendsOK(q, n)
  BY DEF SendsOK

(* The program asks for the first time in a loop. *)
LEMMA AskInLoop ==
    ASSUME NEW p \in Process, NEW mode \in {"once", "error", "crc"},
           NEW code \in RequestCodes, NEW q,
           q = Ask(Into(p, mode), code)
    PROVE  /\ q.at = p.at /\ q.op = code /\ q.phase = "send"
           /\ q.mode = mode /\ q.tries = 0
<1>1. q.at = p.at /\ q.op = code /\ q.phase = "send"
  BY SMT DEF Ask, Into, Process
<1>2. q.mode = mode /\ q.tries = 0
  BY SMT DEF Ask, Into, Process
<1>. QED
  BY <1>1, <1>2, Zenon

LEMMA AskAgain ==
    ASSUME NEW p \in Process, p.tries < 1, NEW code \in RequestCodes, NEW q,
           q = Ask([p EXCEPT !.tries = @ + 1], code)
    PROVE  /\ q.at = p.at /\ q.op = code /\ q.phase = "send"
           /\ q.mode = p.mode /\ q.tries = p.tries + 1
<1>1. q.at = p.at /\ q.op = code /\ q.phase = "send"
  BY SMT DEF Ask, Process
<1>2. q.mode = p.mode /\ q.tries = p.tries + 1
  BY SMT DEF Ask, Process
<1>. QED
  BY <1>1, <1>2, Zenon

LEMMA AskSame ==
    ASSUME NEW p \in Process, NEW code \in RequestCodes, NEW q,
           q = Ask(p, code)
    PROVE  /\ q.at = p.at /\ q.op = code /\ q.phase = "send"
           /\ q.mode = p.mode /\ q.tries = p.tries
<1>1. q.at = p.at /\ q.op = code /\ q.phase = "send"
  BY SMT DEF Ask, Process
<1>2. q.mode = p.mode /\ q.tries = p.tries
  BY SMT DEF Ask, Process
<1>. QED
  BY <1>1, <1>2, Zenon

(* On its way out the program sends nothing. *)
LEMMA ExitCounted ==
    ASSUME NEW p \in Process, NEW n, SendsOK(p, n), NEW q, q = [p EXCEPT !.phase = "exit"]
    PROVE  SendsOK(q, n) /\ q.at = p.at /\ q.phase = "exit"
<1>1. q.at = p.at /\ q.op = p.op /\ q.phase = "exit"
  BY SMT DEF Process
<1>. QED
  BY <1>1 DEF SendsOK

(* A new call of uploadFile begins with a count of 0, and main ends after   *)
(* the last one.                                                            *)
LEMMA ReturnCounted ==
    ASSUME NEW p \in Process, NEW n, SendsOK(p, n)
    PROVE  Follows(p, Return(p), n)
<1>1. p.at \in {"register", "upload1", "signIn", "upload2"}
  BY DEF Process
<1>2. ASSUME NEW at \in {"upload1", "upload2"}, p.at # at
      PROVE  /\ BeginUpload([p EXCEPT !.at = at]).at = at
             /\ BeginUpload([p EXCEPT !.at = at]).phase = "send"
             /\ SendsOK(BeginUpload([p EXCEPT !.at = at]), 0)
  <2>. DEFINE r == [p EXCEPT !.at = at]
              q == BeginUpload(r)
  <2>1. SameMemory(r, p) /\ r.at = at
    BY MoveFields
  <2>2. r \in Process
    BY <2>1 DEF SameMemory
  <2>. HIDE DEF r
  <2>3. PICK code \in {S_PUBLIC_KEY, SEND_FILE} :
          q = Ask(Into(r, "once"), code)
    BY DEF BeginUpload, AskOnce, Into
  <2>4. code \in RequestCodes
    BY DEF RequestCodes
  <2>. HIDE DEF q
  <2>5. q.at = r.at /\ q.op = code /\ q.phase = "send" /\ q.mode = "once" /\ q.tries = 0
    BY <2>2, <2>3, <2>4, AskInLoop
  <2>6. SendsOK(q, 0)
    BY <2>5 DEF SendsOK, Before
  <2>. QED
    BY <2>1, <2>5, <2>6 DEF q, r
<1>3. CASE p.at = "register"
  <2>1. Return(p) = BeginUpload([p EXCEPT !.at = "upload1"])
    BY <1>3 DEF Return
  <2>. QED
    BY <1>2, <1>3, <2>1 DEF Follows, GoesOn, Counted
<1>4. CASE p.at = "upload1"
  <2>. DEFINE q == AskOnce([p EXCEPT !.at = "signIn"], RECONNECT)
  <2>1. q.at = "signIn" /\ q.phase = "send"
    BY SMT DEF AskOnce, Ask, Process
  <2>2. Return(p) = q
    BY <1>4 DEF Return
  <2>3. 0 \in 0..5
    OBVIOUS
  <2>. HIDE DEF q
  <2>. QED
    BY <1>4, <2>1, <2>2, <2>3, CountElsewhere DEF Follows, GoesOn, Counted
<1>5. CASE p.at = "signIn"
  <2>1. Return(p) = BeginUpload([p EXCEPT !.at = "upload2"])
    BY <1>5 DEF Return
  <2>. QED
    BY <1>2, <1>5, <2>1 DEF Follows, GoesOn, Counted
<1>6. CASE p.at = "upload2"
  <2>1. Return(p) = [p EXCEPT !.phase = "exit"]
    BY <1>6 DEF Return
  <2>. QED
    BY <2>1, ExitCounted DEF Follows, GoesOn, Counted
<1>. QED
  BY <1>1, <1>3, <1>4, <1>5, <1>6

LEMMA ThrowCounted ==
    ASSUME NEW p \in Process, NEW n, SendsOK(p, n)
    PROVE  Follows(p, Throw(p), n)
<1>1. CASE p.at \in {"upload1", "upload2"}
  <2>1. Throw(p) = [p EXCEPT !.phase = "exit"]
    BY <1>1 DEF Throw
  <2>. QED
    BY <2>1, ExitCounted DEF Follows, GoesOn, Counted
<1>2. CASE p.at \notin {"upload1", "upload2"}
  <2>1. Throw(p) = Return(p)
    BY <1>2 DEF Throw
  <2>. QED
    BY <2>1, ReturnCounted
<1>. QED
  BY <1>1, <1>2

-----------------------------------------------------------------------------
(* What uploadFile does with an answer. *)

Uploading(p) == p.at \in {"upload1", "upload2"} /\ p.phase = "await" /\ InPlace(p)

(* The file is confirmed, or the loop after a wrong checksum is entered.    *)
LEMMA ProceedCounted ==
    ASSUME NEW p \in Process, Uploading(p), NEW n, SendsOK(p, n),
           p.mode \in {"once", "error"}, p.mode = "error" => p.tries = 1
    PROVE  Follows(p, Proceed(p), n)
<1>1. p.op \in {S_PUBLIC_KEY, SEND_FILE, VALID_CRC}
  BY DEF Uploading, InPlace
<1>2. ASSUME NEW code \in {SEND_FILE, VALID_CRC}, NEW q, q = AskOnce(p, code),
             code = SEND_FILE => n = 0
      PROVE  Follows(p, q, n)
  <2>1. code \in RequestCodes
    BY DEF RequestCodes
  <2>2. q = Ask(Into(p, "once"), code)
    BY <1>2 DEF AskOnce, Into
  <2>3. q.at = p.at /\ q.op = code /\ q.phase = "send" /\ q.mode = "once" /\ q.tries = 0
    BY <2>1, <2>2, AskInLoop
  <2>. QED
    BY <1>2, <2>3 DEF SendsOK, Before, Follows, GoesOn, Counted
<1>3. CASE p.op = S_PUBLIC_KEY
  <2>1. Proceed(p) = AskOnce(p, SEND_FILE) /\ n = 0
    BY <1>3 DEF Proceed, SendsOK, Uploading
  <2>. QED
    BY <1>2, <2>1
<1>4. CASE p.op = SEND_FILE /\ p.crcValid
  <2>1. Proceed(p) = AskOnce(p, VALID_CRC)
    BY <1>4 DEF Proceed
  <2>. QED
    BY <1>2, <2>1
<1>5. CASE p.op = SEND_FILE /\ ~p.crcValid
  <2>. DEFINE q == Proceed(p)
  <2>1. q = Ask(Into(p, "crc"), N_VALID_CRC)
    BY <1>5 DEF Proceed, Into
  <2>2. N_VALID_CRC \in RequestCodes
    BY DEF RequestCodes
  <2>. HIDE DEF q
  <2>3. q.at = p.at /\ q.op = N_VALID_CRC /\ q.phase = "send" /\ q.mode = "crc" /\ q.tries = 0
    BY <2>1, <2>2, AskInLoop
  <2>4. n \in 1..3
    BY <1>5 DEF SendsOK, Before, Uploading
  <2>5. Follows(p, q, n)
    BY <2>3, <2>4 DEF SendsOK, Before, Follows, GoesOn, Counted
  <2>. QED
    BY <2>5 DEF q
<1>6. CASE p.op = VALID_CRC
  <2>1. Proceed(p) = Return(p)
    BY <1>6 DEF Proceed
  <2>. QED
    BY <2>1, ReturnCounted
<1>. QED
  BY <1>1, <1>3, <1>4, <1>5, <1>6

LEMMA AfterErrorResendCounted ==
    ASSUME NEW p \in Process, Uploading(p), NEW n, SendsOK(p, n), p.mode = "error"
    PROVE  Follows(p, AfterErrorResend(p), n)
<1>1. p.op \in {S_PUBLIC_KEY, SEND_FILE, VALID_CRC} /\ p.op \in RequestCodes /\ p.tries \in 0..1
  BY DEF Uploading, InPlace, Process
<1>2. CASE p.tries < 1
  <2>. DEFINE q == AfterErrorResend(p)
  <2>1. q = Ask([p EXCEPT !.tries = @ + 1], p.op)
    BY <1>2 DEF AfterErrorResend
  <2>. HIDE DEF q
  <2>2. /\ q.at = p.at /\ q.op = p.op /\ q.phase = "send"
        /\ q.mode = "error" /\ q.tries = p.tries + 1
    BY <1>1, <1>2, <2>1, AskAgain
  <2>3. Follows(p, q, n)
    BY <1>1, <1>2, <2>2 DEF SendsOK, Before, Follows, GoesOn, Counted, Uploading
  <2>. QED
    BY <2>3 DEF q
<1>3. CASE ~(p.tries < 1) /\ p.last.code = GENERAL_ERROR
  <2>1. AfterErrorResend(p) = Return(p)
    BY <1>3 DEF AfterErrorResend
  <2>. QED
    BY <2>1, ReturnCounted
<1>4. CASE ~(p.tries < 1) /\ p.last.code # GENERAL_ERROR
  <2>1. AfterErrorResend(p) = Proceed(p) /\ p.tries = 1
    BY <1>1, <1>4 DEF AfterErrorResend
  <2>. QED
    BY <2>1, ProceedCounted
<1>. QED
  BY <1>2, <1>3, <1>4

LEMMA AfterCrcResendCounted ==
    ASSUME NEW p \in Process, Uploading(p), NEW n, SendsOK(p, n), p.mode = "crc"
    PROVE  Follows(p, AfterCrcResend(p), n)
<1>. DEFINE q == AfterCrcResend(p)
<1>1. p.op \in {SEND_FILE, EXIT_CRC} /\ p.tries \in 0..1
  BY DEF Uploading, InPlace, SendsOK, Process
<1>2. {VALID_CRC, N_VALID_CRC, EXIT_CRC} \subseteq RequestCodes
  BY DEF RequestCodes
<1>3. CASE p.op = EXIT_CRC
  <2>1. q = Return(p)
    BY <1>3 DEF AfterCrcResend
  <2>. QED
    BY <2>1, ReturnCounted
<1>4. CASE p.op = SEND_FILE /\ p.crcValid
  <2>1. q = Ask(Into(p, "once"), VALID_CRC)
    BY <1>4 DEF AfterCrcResend, AskOnce, Into
  <2>. HIDE DEF q
  <2>2. q.at = p.at /\ q.op = VALID_CRC /\ q.phase = "send" /\ q.mode = "once"
    BY <1>2, <2>1, AskInLoop
  <2>3. Follows(p, q, n)
    BY <2>2 DEF SendsOK, Follows, GoesOn, Counted
  <2>. QED
    BY <2>3 DEF q
<1>5. CASE p.op = SEND_FILE /\ ~p.crcValid /\ p.tries < 1
  <2>1. q = Ask([p EXCEPT !.tries = @ + 1], N_VALID_CRC)
    BY <1>5 DEF AfterCrcResend
  <2>. HIDE DEF q
  <2>2. /\ q.at = p.at /\ q.op = N_VALID_CRC /\ q.phase = "send"
        /\ q.mode = "crc" /\ q.tries = p.tries + 1
    BY <1>2, <1>5, <2>1, AskAgain
  <2>3. Follows(p, q, n)
    BY <1>1, <1>5, <2>2 DEF SendsOK, Before, Follows, GoesOn, Counted, Uploading
  <2>. QED
    BY <2>3 DEF q
<1>6. CASE p.op = SEND_FILE /\ ~p.crcValid /\ ~(p.tries < 1)
  <2>1. q = Ask(p, EXIT_CRC)
    BY <1>6 DEF AfterCrcResend
  <2>. HIDE DEF q
  <2>2. q.at = p.at /\ q.op = EXIT_CRC /\ q.phase = "send"
    BY <1>2, <2>1, AskSame
  <2>3. n >= 3
    BY <1>1, <1>6 DEF SendsOK, Before, Uploading
  <2>4. Follows(p, q, n)
    BY <2>2, <2>3 DEF SendsOK, Follows, GoesOn, Counted
  <2>. QED
    BY <2>4 DEF q
<1>. QED
  BY <1>1, <1>3, <1>4, <1>5, <1>6

LEMMA AfterUploadReplyCounted ==
    ASSUME NEW p \in Process, Uploading(p), NEW n, SendsOK(p, n)
    PROVE  Follows(p, AfterUploadReply(p), n)
<1>. DEFINE q == AfterUploadReply(p)
<1>1. p.mode \in {"once", "error", "crc"} /\ p.op \in RequestCodes
  BY DEF Process
<1>2. CASE p.mode = "error"
  <2>1. q = AfterErrorResend(p)
    BY <1>2 DEF AfterUploadReply
  <2>. QED
    BY <1>2, <2>1, AfterErrorResendCounted
<1>3. CASE p.mode = "crc"
  <2>1. q = AfterCrcResend(p)
    BY <1>3 DEF AfterUploadReply
  <2>. QED
    BY <1>3, <2>1, AfterCrcResendCounted
<1>4. CASE p.mode = "once" /\ p.last.code = GENERAL_ERROR
  <2>1. q = Ask(Into(p, "error"), p.op)
    BY <1>4 DEF AfterUploadReply, Into
  <2>2. p.op \in {S_PUBLIC_KEY, SEND_FILE, VALID_CRC}
    BY <1>4 DEF Uploading, InPlace
  <2>. HIDE DEF q
  <2>3. q.at = p.at /\ q.op = p.op /\ q.phase = "send" /\ q.mode = "error" /\ q.tries = 0
    BY <1>1, <2>1, AskInLoop
  <2>4. Follows(p, q, n)
    BY <1>4, <2>2, <2>3 DEF SendsOK, Before, Follows, GoesOn, Counted, Uploading
  <2>. QED
    BY <2>4 DEF q
<1>5. CASE p.mode = "once" /\ p.last.code # GENERAL_ERROR
  <2>1. q = Proceed(p)
    BY <1>5 DEF AfterUploadReply
  <2>. QED
    BY <1>5, <2>1, ProceedCounted
<1>. QED
  BY <1>1, <1>2, <1>3, <1>4, <1>5

-----------------------------------------------------------------------------
(* What the program learns does not change the count. *)
SamePlace(q, p) ==
    /\ q \in Process
    /\ q.at = p.at /\ q.op = p.op /\ q.phase = p.phase /\ q.mode = p.mode /\ q.tries = p.tries

LEMMA PlaceCounts ==
    ASSUME NEW p \in Process, NEW q, SamePlace(q, p), NEW n, SendsOK(p, n), InPlace(p)
    PROVE  SendsOK(q, n) /\ InPlace(q) /\ \A r : Follows(q, r, n) => Follows(p, r, n)
<1>1. SendsOK(q, n)
  <2>1. Before(q) = Before(p)
    BY DEF SamePlace, Before
  <2>. QED
    BY <2>1 DEF SamePlace, SendsOK
<1>2. InPlace(q)
  BY DEF SamePlace, InPlace
<1>3. \A r : Follows(q, r, n) => Follows(p, r, n)
  BY DEF SamePlace, Follows, Counted
<1>. QED
  BY <1>1, <1>2, <1>3

LEMMA RegisteredPlace ==
    ASSUME NEW p \in Process
    PROVE  SamePlace([p EXCEPT !.registered = TRUE], p)
<1>1. [p EXCEPT !.registered = TRUE] \in Process
  BY Zenon DEF Process
<1>. QED
  BY <1>1, SMT DEF SamePlace, Process

LEMMA NamedPlace ==
    ASSUME NEW p \in Process, NEW id \in Uids \cup {NoUid}
    PROVE  SamePlace([p EXCEPT !.id = id], p)
<1>1. [p EXCEPT !.id = id] \in Process
  BY Zenon DEF Process
<1>. QED
  BY <1>1, SMT DEF SamePlace, Process

LEMMA SetsNamePlace ==
    ASSUME NEW p \in Process, NEW f \in Files
    PROVE  SamePlace([p EXCEPT !.file = f], p)
<1>1. [p EXCEPT !.file = f] \in Process
  BY Zenon DEF Process
<1>. QED
  BY <1>1, SMT DEF SamePlace, Process

LEMMA NotedPlace ==
    ASSUME NEW p \in Process, NEW a \in Response \cup {None}
    PROVE  SamePlace(Noted(p, a), p)
<1>1. Noted(p, a) \in Process
  BY Zenon DEF Noted, Process
<1>. QED
  BY <1>1, SMT DEF SamePlace, Noted, Process

LEMMA TakeKeyPlace ==
    ASSUME NEW p \in Process, NEW k \in Nat
    PROVE  SamePlace(TakeKey(p, k), p)
<1>1. TakeKey(p, k) \in Process
  BY Zenon DEF TakeKey, Process
<1>. QED
  BY <1>1, SMT DEF SamePlace, TakeKey, Process

LEMMA UnjudgedPlace ==
    ASSUME NEW p \in Process
    PROVE  SamePlace(Unjudged(p), p)
<1>1. Unjudged(p) \in Process
  BY Zenon DEF Unjudged, Process
<1>. QED
  BY <1>1, SMT DEF SamePlace, Unjudged, Process

LEMMA JudgedPlace ==
    ASSUME NEW p \in Process, NEW x, NEW y
    PROVE  SamePlace(Judged(p, x, y), p)
<1>1. (x = y) \in BOOLEAN
  OBVIOUS
<1>2. Judged(p, x, y) \in Process
  BY <1>1, Zenon DEF Judged, Process
<1>. QED
  BY <1>2, SMT DEF SamePlace, Judged, Process

LEMMA PlaceTwice ==
    ASSUME NEW p, NEW q, NEW r, SamePlace(r, q), SamePlace(q, p)
    PROVE  SamePlace(r, p)
  BY DEF SamePlace

LEMMA AfterSignInReplyCounted ==
    ASSUME NEW p \in Process, p.at = "signIn", InPlace(p), NEW n, SendsOK(p, n)
    PROVE  Follows(p, AfterSignInReply(p), n)
<1>. DEFINE q == AfterSignInReply(p)
            r == [p EXCEPT !.registered = TRUE]
<1>1. CASE p.op = RECONNECT /\ p.last.code = RECCONET_DENIED
  <2>1. q = Ask(p, REGISTER) /\ REGISTER \in RequestCodes
    BY <1>1 DEF AfterSignInReply, RequestCodes, RECCONET_DENIED, RECCONECT_APPROVED
  <2>. HIDE DEF q
  <2>2. q.at = "signIn" /\ q.phase = "send"
    BY <2>1, AskSame
  <2>3. SendsOK(q, n)
    BY <2>2, CountElsewhere DEF SendsOK
  <2>. QED
    BY <2>2, <2>3 DEF Follows, Counted, GoesOn, q
<1>2. CASE p.op = RECONNECT /\ p.last.code = RECCONECT_APPROVED
  <2>1. q = Return(r)
    BY <1>2 DEF AfterSignInReply, RECCONET_DENIED, RECCONECT_APPROVED
  <2>. HIDE DEF q
  <2>2. SamePlace(r, p)
    BY RegisteredPlace
  <2>. HIDE DEF r
  <2>3. r \in Process /\ SendsOK(r, n)
    BY <2>2, PlaceCounts DEF SamePlace
  <2>4. Follows(p, Return(r), n)
    BY <2>2, <2>3, PlaceCounts, ReturnCounted
  <2>. QED
    BY <2>1, <2>4 DEF q
<1>3. CASE p.op # RECONNECT \/ p.last.code \notin {RECCONET_DENIED, RECCONECT_APPROVED}
  <2>1. q = Return(p)
    BY <1>3 DEF AfterSignInReply
  <2>. QED
    BY <2>1, ReturnCounted
<1>. QED
  BY <1>1, <1>2, <1>3

LEMMA AfterReplyCounted ==
    ASSUME NEW p \in Process, InPlace(p), p.phase = "await", NEW n, SendsOK(p, n)
    PROVE  Follows(p, AfterReply(p), n)
<1>1. CASE p.at = "register"
  BY <1>1, ReturnCounted DEF AfterReply
<1>2. CASE p.at = "signIn"
  BY <1>2, AfterSignInReplyCounted DEF AfterReply
<1>3. CASE p.at \in {"upload1", "upload2"}
  <2>1. AfterReply(p) = AfterUploadReply(p) /\ Uploading(p)
    BY <1>3 DEF AfterReply, Uploading
  <2>. QED
    BY <2>1, AfterUploadReplyCounted
<1>. QED
  BY <1>1, <1>2, <1>3 DEF Process

-----------------------------------------------------------------------------
(* The steps of a machine. *)

LEMMA CountOf ==
    ASSUME CountSends, NEW m \in Machines
    PROVE  sends'[m] =
             IF ~Running(m)' \/ proc'[m].at # proc[m].at THEN 0
             ELSE IF proc[m].phase = "send" /\ proc[m].op = SEND_FILE /\ proc'[m].phase = "await"
                  THEN sends[m] + 1 ELSE sends[m]
  BY Zenon DEF CountSends

LEMMA ProgramKnown ==
    ASSUME ClientInv, AttemptsInv, NEW m \in Machines
    PROVE  proc[m] \in Process /\ InPlace(proc[m]) /\ SendsOK(proc[m], sends[m])
  BY DEF ClientInv, ProgramOK, AttemptsInv

(* It is enough that the count of machine m is right. *)
LEMMA OneMachineCounts ==
    ASSUME ClientInv, AttemptsInv, CountSends, NEW m \in Machines, NEW q, Goes(m, q),
           SendsOK(q, sends'[m])
    PROVE  AttemptsInv'
<1>1. proc'[m] = q /\ \A k \in Machines \ {m} : proc'[k] = proc[k]
  BY DEF Goes, ClientInv, ClientTypeOK
<1>2. ASSUME NEW k \in Machines \ {m} PROVE SendsOK(proc'[k], sends'[k])
  <2>1. SendsOK(proc[k], sends[k]) /\ proc'[k] = proc[k]
    BY <1>1 DEF AttemptsInv
  <2>2. CASE Running(k)'
    <3>1. sends'[k] = sends[k]
      BY <2>1, <2>2, CountOf
    <3>. QED
      BY <2>1, <3>1
  <2>3. CASE ~Running(k)'
    <3>1. sends'[k] = 0
      BY <2>3, CountOf
    <3>2. proc[k].phase \in {"off", "terminated"}
      BY <2>1, <2>3 DEF Running
    <3>. QED
      BY <2>1, <3>1, <3>2 DEF SendsOK
  <2>. QED
    BY <2>2, <2>3
<1>. QED
  BY <1>1, <1>2 DEF AttemptsInv

LEMMA GoingOnCounts ==
    ASSUME ClientInv, AttemptsInv, CountSends, NEW m \in Machines, NEW q, Goes(m, q),
           Follows(proc[m], q, sends[m])
    PROVE  AttemptsInv'
<1>1. proc'[m] = q
  BY DEF Goes, ClientInv, ClientTypeOK
<1>2. q.phase \in {"send", "exit"} /\ SendsOK(q, Counted(proc[m], q, sends[m]))
  BY DEF Follows, GoesOn
<1>3. sends'[m] = Counted(proc[m], q, sends[m])
  BY <1>1, <1>2, CountOf DEF Running, Counted
<1>. QED
  BY <1>2, <1>3, OneMachineCounts

LEMMA StoppingCounts ==
    ASSUME ClientInv, AttemptsInv, CountSends, NEW m \in Machines, NEW q, Goes(m, q),
           q.phase \in {"off", "terminated"}, q.at = "register"
    PROVE  AttemptsInv'
<1>1. proc'[m] = q
  BY DEF Goes, ClientInv, ClientTypeOK
<1>2. sends'[m] = 0
  BY <1>1, CountOf DEF Running
<1>3. SendsOK(q, sends'[m])
  BY <1>2 DEF SendsOK
<1>. QED
  BY <1>3, OneMachineCounts

LEMMA StartCounts ==
    ASSUME ClientInv, AttemptsInv, CountSends, NEW m \in Machines, Start(m)
    PROVE  AttemptsInv'
<1>1. Goes(m, NewProcess) /\ ~Running(m)
  BY DEF Start
<1>2. NewProcess.at = "register" /\ NewProcess.phase = "send"
  BY DEF NewProcess
<1>3. proc'[m] = NewProcess
  BY <1>1 DEF Goes, ClientInv, ClientTypeOK
<1>4. sends'[m] \in 0..5
  BY <1>2, <1>3, CountOf, ProgramKnown DEF SendsOK
<1>5. SendsOK(NewProcess, sends'[m])
  BY <1>2, <1>4, CountElsewhere
<1>. QED
  BY <1>1, <1>5, OneMachineCounts

LEMMA ThrowingCounts ==
    ASSUME ClientInv, AttemptsInv, CountSends, NEW m \in Machines, Goes(m, Throw(proc[m]))
    PROVE  AttemptsInv'
  BY ProgramKnown, ThrowCounted, GoingOnCounts

(* 828 is counted when it is sent; after 901 it is sent without an answer.  *)
LEMMA SendingCounts ==
    ASSUME ClientInv, AttemptsInv, CountSends, NEW m \in Machines, SendRequest(m)
    PROVE  AttemptsInv'
<1>. DEFINE p == proc[m]
            r == SetsName([p EXCEPT !.id = SenderId(m)], Upload[m])
            n == sends[m]
<1>1. /\ p.phase = "send"
      /\ Goes(m, IF r.op \in Unanswered THEN Ask(r, SEND_FILE) ELSE [r EXCEPT !.phase = "await"])
  BY DEF SendRequest
<1>2. p \in Process /\ InPlace(p) /\ SendsOK(p, n)
  BY ProgramKnown
<1>3. SamePlace(r, p)
  <2>. DEFINE o == [p EXCEPT !.id = SenderId(m)]
  <2>1. SenderId(m) \in Uids \cup {NoUid} /\ Upload[m] \in Files
    <3>1. Running(m)
      BY <1>1 DEF Running
    <3>. QED
      BY <1>1, <3>1, RequestType, MachinesAssumption DEF SendRequest
  <2>2. SamePlace(o, p)
    BY <1>2, <2>1, NamedPlace
  <2>. HIDE DEF o
  <2>3. o \in Process
    BY <2>2 DEF SamePlace
  <2>4. SamePlace([o EXCEPT !.file = Upload[m]], o)
    BY <2>1, <2>3, SetsNamePlace
  <2>5. SamePlace([o EXCEPT !.file = Upload[m]], p)
    BY <2>2, <2>4, PlaceTwice
  <2>6. r \in {[o EXCEPT !.file = Upload[m]], o}
    BY DEF SetsName, o
  <2>. HIDE DEF r
  <2>. QED
    BY <2>2, <2>5, <2>6
<1>. HIDE DEF p, r, n
<1>4. p.tries \in 0..1 /\ n \in 0..5
  BY <1>2 DEF Process, SendsOK
<1>5. CASE r.op = N_VALID_CRC
  <2>. DEFINE q == Ask(r, SEND_FILE)
  <2>1. Goes(m, q)
    BY <1>1, <1>5 DEF Unanswered
  <2>2. SEND_FILE \in RequestCodes
    BY DEF RequestCodes
  <2>3. /\ q.at = r.at /\ q.op = SEND_FILE /\ q.phase = "send"
        /\ q.mode = r.mode /\ q.tries = r.tries
    BY <1>3, <2>2, AskSame DEF SamePlace
  <2>. HIDE DEF q
  <2>4. Before(q) = Before(p)
    BY <1>3, <2>3 DEF SamePlace, Before
  <2>5. Follows(p, q, n)
    BY <1>1, <1>2, <1>3, <1>5, <2>3, <2>4 DEF SamePlace, SendsOK, Follows, Counted, GoesOn
  <2>. QED
    BY <2>1, <2>5, GoingOnCounts DEF p, n
<1>6. CASE r.op # N_VALID_CRC
  <2>. DEFINE q == [r EXCEPT !.phase = "await"]
  <2>1. Goes(m, q)
    BY <1>1, <1>6 DEF Unanswered
  <2>2. /\ q.at = r.at /\ q.op = r.op /\ q.phase = "await"
        /\ q.mode = r.mode /\ q.tries = r.tries
    BY <1>3, SMT DEF SamePlace, Process
  <2>. HIDE DEF q
  <2>3. Before(q) = Before(p)
    BY <1>3, <2>2 DEF SamePlace, Before
  <2>4. proc'[m] = q
    BY <2>1 DEF Goes, ClientInv, ClientTypeOK
  <2>5. sends'[m] = IF p.op = SEND_FILE THEN n + 1 ELSE n
    BY <1>1, <1>3, <2>2, <2>4, CountOf DEF SamePlace, Running, p, n
  <2>6. CASE p.op = SEND_FILE
    <3>1. p.at \in {"upload1", "upload2"}
      BY <1>2, <2>6 DEF InPlace, Process
    <3>2. n \in Before(p) /\ Before(p) \subseteq 0..4
      BY <1>1, <1>2, <1>4, <2>6, <3>1 DEF SendsOK, Before, Process
    <3>3. SendsOK(q, n + 1)
      BY <1>3, <1>4, <2>2, <2>3, <2>6, <3>2 DEF SamePlace, SendsOK
    <3>. QED
      BY <2>1, <2>5, <2>6, <3>3, OneMachineCounts
  <2>7. CASE p.op # SEND_FILE
    <3>1. SendsOK(q, n)
      BY <1>2, <1>3, <1>6, <2>2, <2>7 DEF SamePlace, SendsOK
    <3>. QED
      BY <2>1, <2>5, <2>7, <3>1, OneMachineCounts
  <2>. QED
    BY <2>6, <2>7
<1>. QED
  BY <1>5, <1>6

(* Which answer it is does not matter for the count. *)
LEMMA ReceivingCounts ==
    ASSUME ClientInv, AttemptsInv, CountSends, NEW m \in Machines, ReceiveResponse(m)
    PROVE  AttemptsInv'
<1>. DEFINE a == outbox[Session(m)]
            p == [proc[m] EXCEPT !.last = a]
            n == sends[m]
            givesKey == a.code \in {IN_PUBLIC_KEY_OUT_AES, RECCONECT_APPROVED}
<1>1. Running(m) /\ proc[m].phase = "await"
  BY DEF ReceiveResponse, Running
<1>2. proc[m] \in Process /\ InPlace(proc[m]) /\ SendsOK(proc[m], n)
  BY ProgramKnown
<1>3. a \in Response \cup {None}
  BY <1>1, SessionInUse DEF ClientInv, WiresTypeOK
<1>4. a # None
  BY DEF ReceiveResponse, Collect
<1>5. SamePlace(p, proc[m])
  BY <1>2, <1>3, NotedPlace DEF Noted
<1>6. /\ p \in Process /\ InPlace(p) /\ SendsOK(p, n) /\ p.phase = "await"
      /\ \A q : Follows(p, q, n) => Follows(proc[m], q, n)
  BY <1>1, <1>2, <1>5, PlaceCounts DEF SamePlace
<1>7. \/ Goes(m, [p EXCEPT !.phase = "saveKey"])
      \/ Goes(m, AfterReply(TakeKey(p, a.key)))
      \/ Goes(m, Throw(p))
      \/ Goes(m, AfterReply(Judged(p, a.crc, Local[m])))
      \/ Goes(m, AfterReply(Unjudged(p)))
      \/ Goes(m, AfterReply(p))
  BY Zenon DEF ReceiveResponse, Judged, Unjudged
<1>8. a.key \in Nat
  BY <1>3, <1>4 DEF Response
<1>. HIDE DEF p, a, givesKey
<1>9. ASSUME NEW r, SamePlace(r, p), Goes(m, AfterReply(r)) PROVE AttemptsInv'
  <2>1. /\ r \in Process /\ InPlace(r) /\ SendsOK(r, n) /\ r.phase = "await"
        /\ \A q : Follows(r, q, n) => Follows(p, q, n)
    BY <1>6, <1>9, PlaceCounts DEF SamePlace
  <2>2. Follows(r, AfterReply(r), n)
    BY <2>1, AfterReplyCounted
  <2>. QED
    BY <1>6, <1>9, <2>1, <2>2, GoingOnCounts
<1>10. CASE Goes(m, [p EXCEPT !.phase = "saveKey"])
  <2>. DEFINE q == [p EXCEPT !.phase = "saveKey"]
  <2>1. q.at = p.at /\ q.op = p.op /\ q.phase = "saveKey"
    BY <1>6, SMT DEF Process
  <2>. HIDE DEF q
  <2>2. SendsOK(q, n)
    BY <1>6, <2>1 DEF SendsOK
  <2>3. proc'[m] = q
    BY <1>10 DEF Goes, ClientInv, ClientTypeOK, q
  <2>4. sends'[m] = n
    BY <1>1, <1>5, <2>1, <2>3, CountOf DEF SamePlace, Running
  <2>. QED
    BY <1>10, <2>2, <2>4, OneMachineCounts DEF q
<1>11. CASE Goes(m, Throw(p))
  BY <1>6, <1>11, ThrowCounted, GoingOnCounts
<1>12. SamePlace(p, p)
  BY <1>6 DEF SamePlace
<1>. QED
  BY <1>6, <1>7, <1>8, <1>9, <1>10, <1>11, <1>12, TakeKeyPlace, JudgedPlace, UnjudgedPlace

LEMMA SavingKeyCounts ==
    ASSUME ClientInv, AttemptsInv, CountSends, NEW m \in Machines, SaveKey(m)
    PROVE  AttemptsInv'
<1>. DEFINE p == proc[m]
            q == [p EXCEPT !.phase = "saveInfo"]
<1>1. p \in Process /\ SendsOK(p, sends[m]) /\ p.phase = "saveKey"
  BY ProgramKnown DEF SaveKey
<1>2. CASE Goes(m, q)
  <2>1. q.at = p.at /\ q.op = p.op /\ q.phase = "saveInfo"
    BY <1>1, SMT DEF Process
  <2>. HIDE DEF q
  <2>2. SendsOK(q, sends[m])
    BY <1>1, <2>1 DEF SendsOK
  <2>3. proc'[m] = q
    BY <1>2 DEF Goes, ClientInv, ClientTypeOK
  <2>4. sends'[m] = sends[m]
    BY <1>1, <2>1, <2>3, CountOf DEF Running
  <2>. QED
    BY <1>2, <2>2, <2>4, OneMachineCounts
<1>. QED
  BY <1>2, ThrowingCounts DEF SaveKey

LEMMA SavingInfoCounts ==
    ASSUME ClientInv, AttemptsInv, CountSends, NEW m \in Machines, SaveInfo(m)
    PROVE  AttemptsInv'
<1>. DEFINE p == proc[m]
            r == [p EXCEPT !.id = NewUid(m)]
            n == sends[m]
<1>1. p \in Process /\ InPlace(p) /\ SendsOK(p, n)
  BY ProgramKnown
<1>2. NewUid(m) \in Uids
  BY DEF SaveInfo, NewUid, ClientInv, ProgramOK
<1>3. SamePlace(r, p)
  BY <1>1, <1>2, NamedPlace
<1>4. Goes(m, Return(r)) \/ Goes(m, Throw(p))
  BY DEF SaveInfo
<1>. HIDE DEF p, r, n
<1>5. r \in Process /\ SendsOK(r, n) /\ \A q : Follows(r, q, n) => Follows(p, q, n)
  BY <1>1, <1>3, PlaceCounts DEF SamePlace
<1>6. Follows(p, Return(r), n)
  BY <1>5, ReturnCounted
<1>. QED
  BY <1>4, <1>6, GoingOnCounts, ThrowingCounts DEF p, n

LEMMA MachineCounts ==
    ASSUME ClientInv, AttemptsInv, CountSends, NEW m \in Machines, MachineNext(m)
    PROVE  AttemptsInv'
<1>1. CASE BuildFails(m) \/ ConnectionLost(m)
  BY <1>1, ThrowingCounts DEF BuildFails, ConnectionLost
<1>2. CASE PayloadLost(m) \/ Exit(m) \/ Kill(m)
  <2>1. PICK how \in {"off", "terminated"} : Ends(m, how)
    BY <1>2, Zenon DEF PayloadLost, Exit, Kill
  <2>. DEFINE q == [NoProcess EXCEPT !.phase = how]
  <2>2. Goes(m, q)
    BY <2>1, Zenon DEF Ends
  <2>3. q.phase \in {"off", "terminated"} /\ q.at = "register"
    BY DEF NoProcess, NewProcess
  <2>. HIDE DEF q
  <2>. QED
    BY <2>2, <2>3, StoppingCounts
<1>3. CASE KillSending(m)
  <2>1. Goes(m, NoProcess)
    BY <1>3 DEF KillSending
  <2>2. NoProcess.phase = "off" /\ NoProcess.at = "register"
    BY DEF NoProcess, NewProcess
  <2>. QED
    BY <2>1, <2>2, StoppingCounts
<1>. QED
  BY <1>1, <1>2, <1>3, StartCounts, SendingCounts, ReceivingCounts, SavingKeyCounts,
     SavingInfoCounts
  DEF MachineNext, Runs

LEMMA StillCounts ==
    ASSUME AttemptsInv, UNCHANGED <<proc, sends>>
    PROVE  AttemptsInv'
  BY DEF AttemptsInv

LEMMA CountInitOK ==
    ASSUME ClientInit, CountInit
    PROVE  AttemptsInv
<1>1. NoProcess.at = "register" /\ NoProcess.phase = "off"
  BY DEF NoProcess, NewProcess
<1>2. ASSUME NEW m \in Machines PROVE proc[m] = NoProcess /\ sends[m] = 0
  BY DEF ClientInit, CountInit
<1>. QED
  BY <1>1, <1>2 DEF AttemptsInv, SendsOK

(* The client that is counted is the client. *)
LEMMA CountingIsHarmless == CountedSpec => ClientSpec
<1>1. [CountedNext]_<<wires, clientVars, sends>> => [ClientNext]_<<wires, clientVars>>
  BY DEF CountedNext, ClientNext
<1>. QED
  BY <1>1, PTL DEF CountedSpec, ClientSpec

(* How often the file was sent is known at each place of uploadFile         *)
(* (uploadFile, errorResend, resendEncryptedMessage).                       *)
THEOREM AttemptsInvariant == CountedSpec => []AttemptsInv
<1>1. WiresInit /\ ClientInit /\ CountInit => AttemptsInv
  BY CountInitOK
<1>2. ClientInv /\ AttemptsInv /\ [CountedNext]_<<wires, clientVars, sends>> => AttemptsInv'
  <2>. SUFFICES ASSUME ClientInv, AttemptsInv, [CountedNext]_<<wires, clientVars, sends>>
                PROVE  AttemptsInv'
    OBVIOUS
  <2>1. CASE \E m \in Machines : MachineNext(m) /\ CountSends
    BY <2>1, MachineCounts
  <2>2. CASE ServerSide /\ UNCHANGED sends
    BY <2>2, StillCounts DEF ServerSide, clientVars
  <2>3. CASE UNCHANGED <<wires, clientVars, sends>>
    BY <2>3, StillCounts DEF clientVars
  <2>. QED
    BY <2>1, <2>2, <2>3 DEF CountedNext
<1>. QED
  BY <1>1, <1>2, CountingIsHarmless, ClientInvariant, PTL DEF CountedSpec

(* One uploadFile sends the file at most five times, whatever the server    *)
(* answers, and gives up on it (902) only when it was sent at least three   *)
(* times (uploadFile, errorResend, resendEncryptedMessage).                 *)
THEOREM AttemptsAreBounded == CountedSpec => []AttemptsBounded
<1>1. ASSUME ClientInv, AttemptsInv PROVE AttemptsBounded
  <2>. SUFFICES ASSUME NEW m \in Machines
                PROVE  /\ sends[m] <= 5
                       /\ proc[m].phase = "send" /\ proc[m].op = EXIT_CRC => sends[m] >= 3
    BY DEF AttemptsBounded
  <2>1. proc[m] \in Process /\ InPlace(proc[m]) /\ SendsOK(proc[m], sends[m])
    BY <1>1, ProgramKnown
  <2>. QED
    BY <2>1 DEF SendsOK, InPlace, Process
<1>. QED
  BY <1>1, CountingIsHarmless, ClientInvariant, AttemptsInvariant, PTL
=============================================================================
