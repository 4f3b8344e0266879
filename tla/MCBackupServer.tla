--------------------------- MODULE MCBackupServer ---------------------------
(* Small instances of BackupServer. *)
EXTENDS BackupServer, TLC

CONSTANTS c1, c2, u1, u2, n1, n2, f1, f2, p1, p2, b1, b2

AnyConnection == Permutations(Conns)

(* One user on two connections: every request that concerns it. *)
OneUserTraffic ==
    {RegisterRequest(n1), PublicKeyRequest(u1, p1), SignInRequest(u1),
     FileRequest(u1, f1, 1, b1), FileRequest(u1, f2, 1, b1),
     CrcRequest(VALID_CRC, u1, f1), CrcRequest(EXIT_CRC, u1, f1)}

(* The same without the second file, for the runs with faults. *)
FaultyTraffic ==
    {RegisterRequest(n1), PublicKeyRequest(u1, p1), SignInRequest(u1),
     FileRequest(u1, f1, 1, b1),
     CrcRequest(VALID_CRC, u1, f1), CrcRequest(EXIT_CRC, u1, f1)}

(* One connection that is used for two users, with a key that is not        *)
(* current, a sender that is nobody, a file without a name, an unknown code. *)
SessionTraffic ==
    {RegisterRequest(n1), RegisterRequest(n2),
     PublicKeyRequest(u1, p1), PublicKeyRequest(u2, p2), SignInRequest(u1),
     PublicKeyRequest(NoUid, p1), [FileRequest(u1, f1, 1, b1) EXCEPT !.file = None],
     FileRequest(u2, f1, 2, b2), [SignInRequest(u1) EXCEPT !.code = 1],
     CrcRequest(N_VALID_CRC, u1, f1)}
        \cup {FileRequest(u1, f, 1, b) : f \in {f1, f2}, b \in {b1, b2}}
        \cup {CrcRequest(code, u1, f) : code \in {VALID_CRC, EXIT_CRC}, f \in {f1, f2}}

(* The way of a file, a packet of another version, and an unknown code. *)
OddTraffic ==
    {RegisterRequest(n1), PublicKeyRequest(u1, p1), FileRequest(u1, f1, 1, b1),
     CrcRequest(N_VALID_CRC, u1, f1),
     [SignInRequest(u1) EXCEPT !.version = 2], [SignInRequest(u1) EXCEPT !.code = 1]}
=============================================================================
