---------------------------- MODULE MCFileCheck -----------------------------
(* A small instance of FileCheck: bytes of two bits, checksums of four.     *)
EXTENDS FileCheck, CksumTables

(* x^4 + x + 1 *)
SmallGenerator == {0, 1}

(* The remainder of each byte times x^4. *)
SmallTable == [t \in Byte |-> Times(t, Width)]

(* Full and partial blocks, endings that look like padding, pairs that      *)
(* differ in one byte or in two, a content with the checksum -1, the most   *)
(* packets, and sizes next to the largest, where rounding up wraps.         *)
Varied ==
    {<<>>, <<{}>>, <<{0}>>, <<{1}>>, <<{}, {0}>>, <<{0}, {0}>>, <<{1}, {0}>>,
     <<{0}, {1}, {0}>>, <<{0}, {1}, {0, 1}, {1}>>, <<{0}, {1}, {0, 1}, {0}>>}
        \cup {[i \in 1..n |-> {0}] : n \in {6, 7, 14, 15, 16}}

-----------------------------------------------------------------------------
(* What a checksum is trusted for, among the files that can be stored.      *)

Stored == UNION {{SubSeq(c, 1, n) : n \in 0..Len(c)} : c \in Varied}

(* Two files of one length that differ within one stretch of Width bits.    *)
NearMiss(a, b) ==
    /\ a # b /\ Len(a) = Len(b)
    /\ \A i, j \in 1..Len(a) : a[i] # b[i] /\ a[j] # b[j] => (j - i + 1) * ByteBits <= Width

(* Two such files have different checksums. *)
ASSUME NearMissesDetected == \A a, b \in Stored : NearMiss(a, b) => memcrc(a) # memcrc(b)

-----------------------------------------------------------------------------
(* The same operators at the width of the programs, with their tables.      *)
Real == INSTANCE Cksum WITH Width <- 32, ByteBits <- 8, Generator <- Number(\h04c1, \h1db7),
                            crctab <- ServerTable, crctab0 <- ClientTable

(* The tables are the same, and each entry is the remainder of its index    *)
(* times x^32.                                                              *)
ASSUME RealTables ==
    /\ Len(ServerEntries) = 512 /\ Len(ClientEntries) = 512
    /\ Real!TablesAgree
    /\ \A t \in Real!Byte : ServerTable[t] = Real!Times(t, 32)

(* Padding is read as it was written, here and in blocks of 16 bytes.       *)
ASSUME SamePadding == PaddingIsRead /\ \A n \in 1..16 : Real!Value(Real!Bits(n)) = n

(* "abc" has the checksum 48aa78a2, and an empty file ffffffff.             *)
ASSUME KnownChecksums ==
    LET abc == [i \in 1..3 |-> Real!Bits(96 + i)]
    IN /\ Real!Posix(abc) = Number(\h48aa, \h78a2) /\ Real!Posix(<<>>) = 0..31
       /\ Real!memcrc(abc) = Real!Posix(abc) /\ Real!memcrc(<<>>) = 0..31
       /\ \A bits \in {32, 64} : Real!memcrcLong(abc, bits) = Real!Posix(abc)
=============================================================================
