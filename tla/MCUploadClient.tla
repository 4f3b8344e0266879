--------------------------- MODULE MCUploadClient ---------------------------
(* The client on its own, with a server that gives any answer the protocol  *)
(* has for a request, and may close the connection at any time.             *)
EXTENDS Attempts

CONSTANTS m1, u1, n1, f1, b1, Closes

OneOwner  == [m \in Machines |-> n1]
OneUpload == [m \in Machines |-> f1]
OneLocal  == [m \in Machines |-> b1]

mcVars == <<wires, clientVars, sends>>

Answers(r) ==
    CASE r.code = REGISTER     -> {Reply(INIT_REGISTRATION_SUCC, u1),
                                   Reply(REGISTRATION_FAIL, u1), ErrorReply}
      [] r.code = S_PUBLIC_KEY -> {KeyReply(IN_PUBLIC_KEY_OUT_AES, r.uid, r.pub, 1), ErrorReply}
      [] r.code = RECONNECT    -> {KeyReply(RECCONECT_APPROVED, r.uid, p, 2) : p \in PubKeys}
                                      \cup {Reply(RECCONET_DENIED, r.uid)}
      [] r.code = SEND_FILE    -> {CrcReply(r.uid, b1), CrcReply(r.uid, Garbled), ErrorReply}
      [] OTHER                 -> {Reply(FILE_APPROVAL, r.uid), ErrorReply}

AnswerAny(c) ==
    /\ inbox[c] # None
    /\ link[c] = "open"
    /\ inbox' = [inbox EXCEPT ![c] = None]
    /\ IF inbox[c].code = N_VALID_CRC
       THEN UNCHANGED outbox
       ELSE /\ outbox[c] = None
            /\ \E a \in Answers(inbox[c]) : outbox' = [outbox EXCEPT ![c] = a]
    /\ UNCHANGED link

Close(c) ==
    /\ link[c] = "shut" \/ (Closes /\ link[c] = "open")
    /\ ServerClose(c)

CloseHalfway(c) ==
    /\ Closes
    /\ inbox[c] # None
    /\ link[c] = "open"
    /\ link' = [link EXCEPT ![c] = "cut"]
    /\ inbox' = [inbox EXCEPT ![c] = None]
    /\ UNCHANGED outbox

AnyServer(c) == AnswerAny(c) \/ Close(c) \/ CloseHalfway(c)

MCInit == WiresInit /\ ClientInit /\ CountInit

MCNext ==
    \/ \E m \in Machines : MachineNext(m) /\ CountSends
    \/ \E c \in Conns : AnyServer(c) /\ UNCHANGED <<clientVars, sends>>

MCSpec == MCInit /\ [][MCNext]_mcVars

(* The operating system runs the program; the server answers or closes.     *)
MCFairSpec ==
    /\ MCSpec
    /\ \A m \in Machines : WF_mcVars(Runs(m) /\ CountSends)
    /\ \A c \in Conns : WF_mcVars(AnyServer(c) /\ UNCHANGED <<clientVars, sends>>)
=============================================================================
