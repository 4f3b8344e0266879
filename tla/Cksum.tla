------------------------------- MODULE Cksum --------------------------------
(***************************************************************************)
(* The checksum of a file, as both programs compute it: the server in      *)
(* Python (cksum.py), where integers have any size, the client in C++      *)
(* (cksum_new.cpp), where they have the size of an unsigned long.  The two *)
(* are written independently and have to agree; both claim to be the cksum *)
(* command of POSIX, which is stated here by its definition.               *)
(*                                                                         *)
(* A word is the set of the positions of its one-bits: exclusive or is the *)
(* symmetric difference, a shift moves each position, and a word is also a *)
(* polynomial over the field of two elements, which is what a checksum is  *)
(* about.                                                                  *)
(***************************************************************************)
EXTENDS Integers, Sequences, SequencesExt, FiniteSetsExt

CONSTANTS
    Width,      \* bits of a checksum (32)
    ByteBits,   \* bits of a byte (8)
    Generator,  \* the polynomial without its term of degree Width (0x04c11db7)
    crctab,     \* the table of cksum.py
    crctab0     \* crctab[0] of cksum_new.cpp

Word == SUBSET (0..(Width - 1))
Byte == SUBSET (0..(ByteBits - 1))

(* The two programs have the same table. *)
TablesAgree == crctab \in [Byte -> Word] /\ crctab0 = crctab

ASSUME CksumAssumption ==
    /\ Width \in Nat /\ ByteBits \in Nat \ {0} /\ ByteBits <= Width
    /\ Generator \subseteq 0..(Width - 1)
    /\ TablesAgree

Xor(a, b) == (a \ b) \cup (b \ a)

Bits(n)  == {i \in 0..(ByteBits - 1) : (n \div 2^i) % 2 = 1}
Value(b) == SumSet({2^i : i \in b})

(* n & 0xffffffff *)
UNSIGNED(n) == n \cap (0..(Width - 1))

ShiftLeft(s, k)  == {i + k : i \in s}
ShiftRight(s, k) == {i - k : i \in {j \in s : j >= k}}

(* The polynomial s times x^k, modulo the generator. *)
Times(s, k) ==
    LET TimesX(p, i) == LET q == ShiftLeft(p, 1)
                        IN IF Width \in q THEN Xor(q \ {Width}, Generator) ELSE q
    IN FoldLeft(TimesX, s, [i \in 1..k |-> i])

(* A loop that takes one turn for each of the bytes, from 0. *)
Loop(turn, bytes) == FoldLeft(LAMBDA s, ch : turn[<<s, ch>>], {}, bytes)

-----------------------------------------------------------------------------
(* The server. *)

(* The bytes of a length, the lowest first, and none for 0. *)
LengthBytes[n \in Nat] ==
    IF n = 0 THEN <<>>
    ELSE <<Bits(n % 2^ByteBits)>> \o LengthBytes[n \div 2^ByteBits]

(* Mutant: the highest byte of the length is entered first. *)
LengthReversed(b) == b \o Reverse(LengthBytes[Len(b)])

(* What the two loops of memcrc run over, the content and its length.       *)
Entered(b) == b \o LengthBytes[Len(b)]

(* One turn of its loops, with the checksum so far and the next byte.       *)
Enter == [at \in Word \X Byte |->
    Xor(UNSIGNED(ShiftLeft(at[1], ByteBits)),
        crctab[Xor(ShiftRight(at[1], Width - ByteBits), at[2])])]

memcrc(b) == (0..(Width - 1)) \ Loop(Enter, Entered(b))

-----------------------------------------------------------------------------
(* The client. *)

(* The value of an expression of a type with so many bits. *)
Narrow(s, bits) == {i \in s : i < bits}

ClientEntered(b) == b \o LengthBytes[Len(b)]

(* With an unsigned long of so many bits. *)
EnterLong(long) == [at \in Word \X Byte |->
    Xor(UNSIGNED(Narrow(ShiftLeft(at[1], ByteBits), long)),
        crctab0[Xor(ShiftRight(at[1], Width - ByteBits), at[2])])]

memcrcLong(b, long) == UNSIGNED((0..(long - 1)) \ Loop(EnterLong(long), ClientEntered(b)))

(* Mutant: -1 has as many bits as a checksum. *)
NoFileWord(long) == 0..(Width - 1)

(* (unsigned long) -1, which readfile returns when there is no file. *)
NoFileCrc(long) == 0..(long - 1)

-----------------------------------------------------------------------------
(* The definition of POSIX: the bits of the content and of its length, the  *)
(* first the highest, are a polynomial; it is multiplied by x^Width, and    *)
(* the checksum is the complement of the remainder.                         *)
Posix(b) ==
    LET message == b \o LengthBytes[Len(b)]
        terms   == {ByteBits * (Len(message) - i) + j : i \in 1..Len(message), j \in 0..(ByteBits - 1)}
        ones    == {k \in terms : k % ByteBits \in message[Len(message) - k \div ByteBits]}
    IN (0..(Width - 1)) \ FoldSet(LAMBDA k, s : Xor(Times({0}, Width + k), s), {}, ones)
=============================================================================
