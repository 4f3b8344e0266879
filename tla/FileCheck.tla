----------------------------- MODULE FileCheck ------------------------------
(***************************************************************************)
(* The file itself, from the client's disk to the backup directory and     *)
(* back as a checksum: sizes, padding and checksums are computed here,     *)
(* where BackupServer and UploadClient take a file for a value and its     *)
(* checksum for its content.                                               *)
(*                                                                         *)
(* The client looks at its file twice, when it builds 828 and when it      *)
(* checks 1603, and the user may save or remove it at any time.  What      *)
(* uploadFile does after each answer to 828 is here too, down to its       *)
(* verdict: the server may fail at any 828 and answer 1607.  Keys are      *)
(* right here (KeyAgreement of FileTransfer), so that a ciphertext is      *)
(* written as what it decrypts to; its length is what matters.             *)
(***************************************************************************)
EXTENDS Cksum

CONSTANTS
    Block,           \* UID_SIZE, which is also the block size of AES (16)
    Max16, Max32,    \* the largest uint16_t and uint32_t
    Fixed,           \* FIXED_ENCRYPTION_PAYLOAD (267)
    Contents,        \* what the local file may contain
    Missing,         \* there is no local file
    Longs,           \* sizes of an unsigned long: 32 bits on Windows, 64 elsewhere
    MaxDisturbances  \* bound: how often the file changes or cannot be read

ASSUME FileAssumption ==
    /\ Block \in Nat \ {0} /\ Block < 2^ByteBits
    /\ Max16 \in Nat /\ Max32 \in Nat /\ (Max32 + 1) % Block = 0
    /\ Fixed \in Nat /\ Fixed + (Max16 + 1) * Block <= Max32
    /\ Contents \subseteq Seq(Byte) /\ Missing \notin Contents
    /\ \A long \in Longs : long \in Nat /\ long >= Width
    /\ MaxDisturbances \in Nat

VARIABLES
    file,       \* the local file
    phase,      \* where the exchange is
    mode,       \* "once", or inside errorResend ("error") or
                \* resendEncryptedMessage ("crc")
    tries,      \* the counter of that loop
    packet,     \* the sizes in the payload of 828
    read,       \* binaryData: what the client read from the file
    cipher,     \* the encrypted file
    stored,     \* the file in the backup directory
    crc,        \* the checksum in 1603
    refused,    \* how many 828 of resendEncryptedMessage were answered 1607
    disturbed,  \* how often the file changed or could not be read
    long        \* bits of an unsigned long in this build

loop == <<mode, tries, refused>>
fileVars == <<file, phase, loop, packet, read, cipher, stored, crc, disturbed, long>>

Ended == phase \in {"confirmed", "aborted", "failed"}

NoSizes == [orig |-> 0, total |-> 0, content |-> 0, payload |-> 0]

FileInit ==
    /\ file \in Contents \cup {Missing}
    /\ phase = "open" /\ packet = NoSizes
    /\ mode = "once" /\ tries = 0 /\ refused = 0
    /\ read = <<>> /\ cipher = <<>> /\ stored = Missing /\ crc = {}
    /\ disturbed = 0
    /\ long \in Longs

-----------------------------------------------------------------------------
(* Sizes. *)

Wrap32(n) == n % (Max32 + 1)

(* Counting up to a multiple of the block size, in 32 bits. *)
RoundedUp(size) == Wrap32(((size + Block - 1) \div Block) * Block)

totalEncryptedPacket(size) == RoundedUp(size) \div Block

(* Mutant: the size of the ciphertext is not looked at. *)
AnyLength(c) == TRUE

Fits32(c) == Len(c) <= Max32

(* AES in CBC mode fills up the last block, or adds one (PKCS7). *)
encryptMsg(plain) ==
    LET n == Block - (Len(plain) % Block)
    IN plain \o [i \in 1..n |-> Bits(n)]

(* Mutant: all bytes at the end that look like padding are removed. *)
StripAll(c) ==
    LET kept == {i \in 1..Len(c) : c[i] # Last(c)}
    IN SubSeq(c, 1, IF kept = {} THEN 0 ELSE CHOOSE i \in kept : \A j \in kept : j <= i)

(* A byte of padding is read as the number it was written for. *)
PaddingIsRead == \A n \in 1..Block : Value(Bits(n)) = n

Unpad(c) == SubSeq(c, 1, Len(c) - Value(Last(c)))

-----------------------------------------------------------------------------
(* The client builds 828. *)

(* The file is opened and its size taken. *)
MeasureFile ==
    LET size == Len(file)
    IN /\ phase = "open"
       /\ file # Missing
       /\ size <= Max32
       /\ totalEncryptedPacket(size) <= Max16
       /\ packet' = [NoSizes EXCEPT !.orig = size, !.total = totalEncryptedPacket(size)]
       /\ phase' = "measured"
       /\ UNCHANGED <<file, loop, read, cipher, stored, crc, disturbed, long>>

(* The file is read, as far as it was measured, and encrypted. *)
SendFile ==
    LET plain == SubSeq(file, 1, packet.orig)
        c     == encryptMsg(plain)
    IN /\ phase = "measured"
       /\ packet.orig <= Len(file)
       /\ Fits32(c)
       /\ read' = plain
       /\ cipher' = c
       /\ packet' = [packet EXCEPT !.content = Wrap32(Len(c)), !.payload = Wrap32(Fixed + Len(c))]
       /\ phase' = "sent"
       /\ UNCHANGED <<file, loop, stored, crc, disturbed, long>>

(* encryptFile returns false, and uploadFile exits. *)
CannotSend ==
    /\ \/ phase = "open" /\ file = Missing
       \/ phase = "open" /\ file # Missing /\ Len(file) > Max32
       \/ phase = "open" /\ file # Missing /\ totalEncryptedPacket(Len(file)) > Max16
       \/ phase = "measured" /\ Len(file) < packet.orig
       \/ phase = "measured" /\ Len(file) >= packet.orig
            /\ ~Fits32(encryptMsg(SubSeq(file, 1, packet.orig)))
    /\ phase' = "failed"
    /\ UNCHANGED <<file, loop, packet, read, cipher, stored, crc, disturbed, long>>

-----------------------------------------------------------------------------
(* The server stores the file, reads it again and answers 1603.             *)
HandleEncryptedFile ==
    LET plain == Unpad(cipher)
    IN /\ phase = "sent"
       /\ stored' = plain
       /\ crc' = memcrc(plain)
       /\ phase' = "answered"
       /\ UNCHANGED <<file, loop, packet, read, cipher, disturbed, long>>

(* A step of handle_encrypted_file raises, before the file is opened, while *)
(* it is written or after that, and the answer is 1607; or there is none,   *)
(* as readfile exits or the connection is lost, and uploadFile exits.       *)
HandleFails ==
    LET plain == Unpad(cipher)
    IN /\ phase = "sent"
       /\ stored' \in {stored} \cup {SubSeq(plain, 1, n) : n \in 0..Len(plain)}
       /\ phase' \in {"refused", "failed"}
       /\ UNCHANGED <<file, loop, packet, read, cipher, crc, disturbed, long>>

-----------------------------------------------------------------------------
(* Where uploadFile goes after an answer. *)

Resend(how, n) == phase' = "open" /\ mode' = how /\ tries' = n

(* 900 is sent, or 902, or uploadFile returns with neither.                 *)
Finish(how) == phase' = how /\ UNCHANGED <<mode, tries>>

Proceed(valid) == IF valid THEN Finish("confirmed") ELSE Resend("crc", 0)

(* The request is sent two more times, whatever the first answer to it.     *)
errorResend(error, valid) ==
    IF tries < 1 THEN Resend("error", tries + 1)
    ELSE IF error THEN Finish("failed") ELSE Proceed(valid)

(* 901 and 828 again, at most twice, and then 902; an error counts.         *)
resendEncryptedMessage(valid) ==
    IF valid THEN Finish("confirmed")
    ELSE IF tries < 1 THEN Resend("crc", tries + 1) ELSE Finish("aborted")

After(error, valid) ==
    \/ mode = "once" /\ error /\ Resend("error", 0)
    \/ mode = "once" /\ ~error /\ Proceed(valid)
    \/ mode = "error" /\ errorResend(error, valid)
    \/ mode = "crc" /\ resendEncryptedMessage(valid)

-----------------------------------------------------------------------------
(* The client receives 1603 and checks it, or 1607.                         *)

Judge(valid) ==
    /\ phase = "answered"
    /\ After(FALSE, valid)
    /\ UNCHANGED <<file, refused, packet, read, cipher, stored, crc, long>>

readfile == IF file = Missing THEN NoFileCrc(long) ELSE memcrcLong(file, long)

checkSum == Judge(readfile = crc) /\ UNCHANGED disturbed

(* The file is there and cannot be opened: the checksum is that of a buffer *)
(* that nothing was read into.                                              *)
CheckUnread ==
    /\ file # Missing
    /\ disturbed < MaxDisturbances
    /\ \E valid \in BOOLEAN : Judge(valid)
    /\ disturbed' = disturbed + 1

(* In resendEncryptedMessage the checksum before was wrong, and _crcValid   *)
(* is still false.                                                          *)
TakeError ==
    /\ phase = "refused"
    /\ After(TRUE, FALSE)
    /\ refused' = IF mode = "crc" THEN refused + 1 ELSE refused
    /\ UNCHANGED <<file, packet, read, cipher, stored, crc, disturbed, long>>

-----------------------------------------------------------------------------
(* The user saves the file, or removes it while it is not open.             *)
Disturb ==
    /\ ~Ended
    /\ disturbed < MaxDisturbances
    /\ disturbed' = disturbed + 1
    /\ file' \in (Contents \cup {Missing}) \ {file}
    /\ phase = "measured" => file' # Missing
    /\ UNCHANGED <<phase, loop, packet, read, cipher, stored, crc, long>>

ClientSteps ==
    MeasureFile \/ SendFile \/ CannotSend \/ checkSum \/ CheckUnread \/ TakeError

FileNext == ClientSteps \/ HandleEncryptedFile \/ HandleFails \/ Disturb

FileSpec == FileInit /\ [][FileNext]_fileVars

-----------------------------------------------------------------------------
(* Properties. *)

(* The sizes in an 828 agree with what it carries, up to the largest file:  *)
(* the original size, the number of packets that hold it, and two 32-bit    *)
(* sizes that did not wrap (getFileSizes, totalEncryptedPacket, encryptFile)*)
SizesAgree ==
    phase = "sent" =>
        /\ packet.orig = Len(read)
        /\ packet.total * Block >= packet.orig
        /\ packet.total > 0 => (packet.total - 1) * Block < packet.orig
        /\ packet.content = Len(cipher)
        /\ packet.payload = Fixed + Len(cipher)

(* What the server stores is what the client read, whatever its length and  *)
(* its last bytes (encryptMsg and decrypt_file).                            *)
StoredAsRead == phase = "answered" => stored = read

(* The checksum of 1603 is that of the cksum command (memcrc of cksum.py).  *)
CksumIsPosix == phase = "answered" => crc = Posix(stored)

(* A file is confirmed only if the server has what was read for it, and the *)
(* file that the check could read has the checksum of the one stored.  A    *)
(* file that is gone is confirmed only where -1, the value for that, has    *)
(* the width of a checksum, and is the checksum of the stored file          *)
(* (checkSum, readfile of cksum_new.cpp).                                   *)
ConfirmedMeansStored ==
    [][phase' = "confirmed" /\ disturbed' = disturbed =>
        /\ stored = read
        /\ IF file = Missing THEN long = Width /\ memcrc(stored) = 0..(Width - 1)
           ELSE memcrc(file) = memcrc(stored)]_fileVars

(* A file is given up (902) only if it changed or could not be read at      *)
(* least once, and each of the three times that it was sent is accounted    *)
(* for by such a change or by an error of the server: the two programs      *)
(* agree on the checksum of every file that stays as it is                  *)
(* (resendEncryptedMessage, memcrc of both).                                *)
AbortedOnlyIfDisturbed ==
    phase = "aborted" => disturbed > 0 /\ disturbed + refused > 2
=============================================================================
