------------------------------ MODULE Protocol ------------------------------
(***************************************************************************)
(* The wire protocol between Client/ (C++) and Server/ (Python): request   *)
(* and response codes, and what a request and a response carry.            *)
(*                                                                         *)
(* A field that a request does not carry is None.  None also stands for a  *)
(* payload field that never arrived: the header and the payload are two    *)
(* writes of the sender, and receive_payload accepts a payload that the    *)
(* end of the stream cut short.                                            *)
(*                                                                         *)
(* An AES key is a number, in the order in which the server stored them,   *)
(* and NoKey is the literal the server inserts until a key is generated.   *)
(* A checksum is the content it was computed from: two contents that       *)
(* differ are taken to have different checksums.                           *)
(***************************************************************************)
EXTENDS Naturals

CONSTANTS
    Conns,        \* connections (a client socket and its server thread)
    Uids,         \* the UUIDs the server may generate
    NoUid,        \* the filler "ignoreignoreign" of a REGISTER header
    Names,        \* user names
    Files,        \* file names
    PubKeys,      \* RSA public keys
    Placeholder,  \* the literal b'public_key' of a fresh clients row
    Bodies,       \* contents of the users' files
    Empty,        \* content of a file opened for writing and not written
    Garbled,      \* content that is no user's file
    None          \* absent

ASSUME ValuesAssumption ==
    /\ NoUid \notin Uids
    /\ Placeholder \notin PubKeys
    /\ Empty \notin Bodies /\ Garbled \notin Bodies /\ Empty # Garbled
    /\ None \notin Uids \cup {NoUid} \cup Names \cup Files \cup Nat
    /\ None \notin PubKeys \cup {Placeholder} \cup Bodies \cup {Empty, Garbled}

-----------------------------------------------------------------------------
(* Request codes and response codes. *)
REGISTER     == 825
S_PUBLIC_KEY == 826
RECONNECT    == 827
SEND_FILE    == 828
VALID_CRC    == 900
N_VALID_CRC  == 901
EXIT_CRC     == 902

INIT_REGISTRATION_SUCC == 1600
REGISTRATION_FAIL      == 1601
IN_PUBLIC_KEY_OUT_AES  == 1602
VALID_FILE_CRC         == 1603
FILE_APPROVAL          == 1604
RECCONECT_APPROVED     == 1605
RECCONET_DENIED        == 1606
GENERAL_ERROR          == 1607

VERSION == 3

RequestCodes  == {REGISTER, S_PUBLIC_KEY, RECONNECT, SEND_FILE,
                  VALID_CRC, N_VALID_CRC, EXIT_CRC}
ResponseCodes == INIT_REGISTRATION_SUCC..GENERAL_ERROR

NoKey     == 0
UserNames == Names \cup {None}
Content   == Bodies \cup {Empty, Garbled}

-----------------------------------------------------------------------------
(* Requests. *)
Request == [version : Nat, code : Nat, uid : Uids \cup {NoUid},
            name : UserNames, pub : PubKeys \cup {None}, key : Nat,
            file : Files \cup {None}, body : Bodies \cup {Garbled, None}]

Header(code, uid) ==
    [version |-> VERSION, code |-> code, uid |-> uid, name |-> None,
     pub |-> None, key |-> NoKey, file |-> None, body |-> None]

RegisterRequest(name)       == [Header(REGISTER, NoUid) EXCEPT !.name = name]
PublicKeyRequest(uid, pub)  == [Header(S_PUBLIC_KEY, uid) EXCEPT !.pub = pub]
SignInRequest(uid)          == Header(RECONNECT, uid)
FileRequest(uid, f, k, b)   ==
    [Header(SEND_FILE, uid) EXCEPT !.file = f, !.key = k, !.body = b]
CrcRequest(code, uid, file) == [Header(code, uid) EXCEPT !.file = file]

(* The header arrived and the sender was gone before the payload did; the  *)
(* payload of SEND_FILE, written in chunks, may also be cut in its content. *)
Torn(r) ==
    {[r EXCEPT !.name = None, !.pub = None, !.file = None, !.body = None]}
        \cup (IF r.code = SEND_FILE THEN {[r EXCEPT !.body = Garbled]} ELSE {})

(* Responses. *)
Response == [code : ResponseCodes, uid : Uids \cup {NoUid},
             pub : PubKeys \cup {None}, key : Nat, crc : Content \cup {None}]

Reply(code, uid) ==
    [code |-> code, uid |-> uid, pub |-> None, key |-> NoKey, crc |-> None]

(* AES key k encrypted with public key p. *)
KeyReply(code, uid, p, k) == [Reply(code, uid) EXCEPT !.pub = p, !.key = k]

CrcReply(uid, content) == [Reply(VALID_FILE_CRC, uid) EXCEPT !.crc = content]

ErrorReply == Reply(GENERAL_ERROR, NoUid)

ASSUME PacketsAssumption == None \notin Request /\ None \notin Response
=============================================================================
