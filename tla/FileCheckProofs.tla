-------------------------- MODULE FileCheckProofs ---------------------------
(***************************************************************************)
(* Proofs about FileCheck, for every width of words, size of blocks and    *)
(* sizes of integers that the assumptions allow, any set of files and any  *)
(* number of disturbances.                                                 *)
(*                                                                         *)
(* That the two programs have the same table is an assumption about the    *)
(* constants (CksumAssumption), which TLC evaluates on the literal tables. *)
(* One fact is a hypothesis where it is needed: PaddingIsRead, that a byte *)
(* of padding is read as the number it was written for.  It is about a     *)
(* fold, which only an induction unrolls; TLC evaluates it for the small   *)
(* words and for bytes of eight bits.                                      *)
(***************************************************************************)
EXTENDS FileCheck, SequenceTheorems, TLAPS

-----------------------------------------------------------------------------
(* Division. *)

LEMMA Division ==
    ASSUME NEW n \in Nat, NEW b \in Nat \ {0}
    PROVE  /\ n \div b \in Nat /\ n % b \in 0..(b - 1)
           /\ n = b * (n \div b) + (n % b)
  BY SMT

(* Of two multiples, one is less only if it is by one multiple. *)
LEMMA Multiples ==
    ASSUME NEW b \in Nat \ {0}, NEW p \in Int, NEW q \in Int
    PROVE  /\ b * p \in Int /\ b * q \in Int
           /\ b * (p + 1) = b * p + b
           /\ b * p < b * q => p + 1 <= q
           /\ p <= q => b * p <= b * q
<1>1. b * p \in Int /\ b * q \in Int /\ b * (p + 1) = b * p + b
  BY SMT
<1>2. ASSUME b * p < b * q, q <= p PROVE FALSE
  BY <1>2, SMT
<1>3. ASSUME p <= q PROVE b * p <= b * q
  BY <1>3, SMT
<1>. QED
  BY <1>1, <1>2, <1>3, SMT

LEMMA DivisionOfMultiple ==
    ASSUME NEW b \in Nat \ {0}, NEW p \in Nat
    PROVE  (b * p) \div b = p
  BY SMT

LEMMA DivisionOfSmall ==
    ASSUME NEW b \in Nat \ {0}, NEW n \in 0..(b - 1)
    PROVE  n % b = n
  BY SMT

(* Rounding up: so many blocks hold a size, and one less does not. *)
LEMMA RoundsUp ==
    ASSUME NEW n \in Nat, NEW b \in Nat \ {0}
    PROVE  /\ (n + b - 1) \div b \in Nat
           /\ n <= b * ((n + b - 1) \div b)
           /\ b * ((n + b - 1) \div b) < n + b
<1>. DEFINE m == n + b - 1
<1>1. m \in Nat
  OBVIOUS
<1>2. m \div b \in Nat /\ m % b \in 0..(b - 1) /\ m = b * (m \div b) + (m % b)
  BY <1>1, Division
<1>3. b * (m \div b) \in Int
  BY <1>2, SMT
<1>. QED
  BY <1>2, <1>3, SMT

-----------------------------------------------------------------------------
(* Sizes. *)

(* The length of a ciphertext. *)
CipherLen(n) == n + (Block - (n % Block))

LEMMA WrapOfSmall ==
    ASSUME NEW n \in 0..Max32
    PROVE  Wrap32(n) = n
<1>1. Max32 + 1 \in Nat \ {0} /\ n \in 0..((Max32 + 1) - 1)
  BY FileAssumption
<1>. QED
  BY <1>1, DivisionOfSmall DEF Wrap32

(* Where rounding up wraps, the ciphertext is too long by one byte.         *)
LEMMA SizesFit ==
    ASSUME NEW n \in 0..Max32, totalEncryptedPacket(n) <= Max16, CipherLen(n) <= Max32
    PROVE  /\ totalEncryptedPacket(n) \in Nat
           /\ totalEncryptedPacket(n) * Block >= n
           /\ (totalEncryptedPacket(n) - 1) * Block < n
           /\ CipherLen(n) \in Nat
           /\ Fixed + CipherLen(n) \in 0..Max32
<1>. DEFINE q == (n + Block - 1) \div Block
            d == n \div Block
            k == (Max32 + 1) \div Block
<1>1. Block \in Nat \ {0} /\ Max32 \in Nat /\ Max16 \in Nat /\ Fixed \in Nat /\ n \in Nat
  BY FileAssumption
<1>2. q \in Nat /\ n <= Block * q /\ Block * q < n + Block
  BY <1>1, RoundsUp
<1>3. d \in Nat /\ n % Block \in 0..(Block - 1) /\ n = Block * d + (n % Block)
  BY <1>1, Division
<1>4. k \in Nat /\ Max32 + 1 = Block * k
  <2>1. k \in Nat /\ Max32 + 1 = Block * k + ((Max32 + 1) % Block)
    BY <1>1, Division, Max32 + 1 \in Nat
  <2>. QED
    BY <2>1, <1>1, FileAssumption, SMT
<1>. HIDE DEF q, d, k
<1>5. CipherLen(n) = Block * (d + 1) /\ Block * (d + 1) = Block * d + Block
  <2>1. Block * (d + 1) = Block * d + Block /\ Block * d \in Int
    BY <1>1, <1>3, SMT
  <2>. QED
    BY <2>1, <1>1, <1>3 DEF CipherLen
<1>6. Block * q <= Max32
  <2>. SUFFICES ASSUME Block * k <= Block * q PROVE FALSE
    BY <1>1, <1>2, <1>4, SMT
  <2>1. Block * (k - 1) < Block * (d + 1)
    BY <1>1, <1>2, <1>3, <1>4, <1>5, Multiples, SMT
  <2>2. k <= d + 1
    BY <2>1, <1>1, <1>3, <1>4, Multiples, SMT
  <2>3. Block * k <= Block * (d + 1)
    BY <2>2, <1>1, <1>3, <1>4, Multiples, d + 1 \in Int
  <2>4. Max32 + 1 <= CipherLen(n)
    BY <2>3, <1>4, <1>5
  <2>5. CipherLen(n) \in Int
    BY <1>1, <1>3, SMT DEF CipherLen
  <2>. QED
    BY <2>4, <2>5, <1>1, SMT
<1>7. totalEncryptedPacket(n) = q
  <2>1. Block * q = q * Block /\ Block * q \in 0..Max32
    BY <1>1, <1>2, <1>6, SMT
  <2>2. RoundedUp(n) = Block * q
    BY <2>1, WrapOfSmall DEF RoundedUp, q
  <2>. QED
    BY <2>2, <1>1, <1>2, DivisionOfMultiple DEF totalEncryptedPacket
<1>8. q * Block = Block * q /\ (q - 1) * Block = Block * q - Block
  BY <1>1, <1>2, SMT
<1>9. Block * (d + 1) <= Block * (Max16 + 1)
  <2>1. d < q + 1
    <3>1. Block * d < Block * (q + 1)
      BY <1>1, <1>2, <1>3, Multiples, SMT
    <3>. QED
      BY <3>1, <1>1, <1>2, <1>3, Multiples, SMT
  <2>2. d + 1 <= Max16 + 1
    BY <2>1, <1>1, <1>2, <1>3, <1>7, SMT
  <2>. QED
    BY <2>2, <1>1, <1>3, Multiples, d + 1 \in Int, Max16 + 1 \in Int
<1>10. Block * (Max16 + 1) = (Max16 + 1) * Block /\ Block * (Max16 + 1) \in Int
  BY <1>1, SMT
<1>11. CipherLen(n) \in Nat
  BY <1>1, <1>3, SMT DEF CipherLen
<1>12. Fixed + CipherLen(n) \in 0..Max32
  BY <1>1, <1>5, <1>9, <1>10, <1>11, FileAssumption, SMT
<1>13. Block * q \in Int
  BY <1>1, <1>2, SMT
<1>. QED
  BY <1>1, <1>2, <1>7, <1>8, <1>11, <1>12, <1>13, SMT

-----------------------------------------------------------------------------
(* The cipher. *)

LEMMA EncryptedLength ==
    ASSUME NEW p \in Seq(Byte)
    PROVE  /\ encryptMsg(p) \in Seq(Byte)
           /\ Len(encryptMsg(p)) = CipherLen(Len(p))
<1>. DEFINE n == Block - (Len(p) % Block)
            pad == [i \in 1..n |-> Bits(n)]
<1>1. Block \in Nat \ {0} /\ Len(p) \in Nat
  BY FileAssumption
<1>2. n \in 1..Block
  BY <1>1, Division, SMT
<1>3. Bits(n) \in Byte
  BY DEF Bits, Byte
<1>. HIDE DEF n
<1>4. pad \in Seq(Byte) /\ Len(pad) = n
  <2>1. n \in Nat /\ pad \in [1..n -> Byte]
    BY <1>1, <1>2, <1>3
  <2>2. pad \in Seq(Byte)
    BY <2>1, SeqDef
  <2>. QED
    BY <2>1, <2>2, LenProperties
<1>5. p \o pad \in Seq(Byte) /\ Len(p \o pad) = Len(p) + n
  BY <1>4, ConcatProperties
<1>6. encryptMsg(p) = p \o pad
  BY DEF encryptMsg, n
<1>. QED
  BY <1>5, <1>6 DEF CipherLen, n

LEMMA ConcatRight ==
    ASSUME NEW S, NEW s \in Seq(S), NEW t \in Seq(S),
           NEW i \in 1..(Len(s) + Len(t)), ~(i <= Len(s))
    PROVE  (s \o t)[i] = t[i - Len(s)]
  BY ConcatProperties

(* What is encrypted is what is decrypted, with full blocks and without,    *)
(* and whatever the last bytes of the file are (encryptMsg, decrypt_file).  *)
LEMMA DecryptedAsEncrypted ==
    ASSUME PaddingIsRead, NEW p \in Seq(Byte)
    PROVE  Unpad(encryptMsg(p)) = p
<1>. DEFINE n == Block - (Len(p) % Block)
            pad == [i \in 1..n |-> Bits(n)]
<1>1. Block \in Nat \ {0} /\ Len(p) \in Nat
  BY FileAssumption
<1>2. n \in 1..Block
  BY <1>1, Division, SMT
<1>3. Bits(n) \in Byte
  BY DEF Bits, Byte
<1>4. Value(Bits(n)) = n
  BY <1>2 DEF PaddingIsRead
<1>. HIDE DEF n
<1>5. pad \in Seq(Byte) /\ Len(pad) = n
  <2>1. n \in Nat /\ pad \in [1..n -> Byte]
    BY <1>1, <1>2, <1>3
  <2>2. pad \in Seq(Byte)
    BY <2>1, SeqDef
  <2>. QED
    BY <2>1, <2>2, LenProperties
<1>6. pad[n] = Bits(n)
  BY <1>2
<1>7. encryptMsg(p) = p \o pad
  BY DEF encryptMsg, n
<1>. HIDE DEF pad
<1>8. p \o pad \in Seq(Byte) /\ Len(p \o pad) = Len(p) + n
  BY <1>5, ConcatProperties
<1>9. (p \o pad)[Len(p) + n] = Bits(n)
  <2>1. Len(p) + n \in 1..(Len(p) + Len(pad)) /\ ~(Len(p) + n <= Len(p))
    BY <1>1, <1>2, <1>5
  <2>2. (p \o pad)[Len(p) + n] = pad[Len(p) + n - Len(p)]
    BY <2>1, <1>5, ConcatRight
  <2>3. Len(p) + n - Len(p) = n
    BY <1>1, <1>2
  <2>. QED
    BY <2>2, <2>3, <1>6
<1>10. Last(p \o pad) = Bits(n)
  BY <1>8, <1>9 DEF Last
<1>11. SubSeq(p \o pad, 1, Len(p)) = p
  BY <1>1, <1>5
<1>12. (Len(p) + n) - n = Len(p)
  BY <1>1, <1>2
<1>. QED
  BY <1>4, <1>8, <1>10, <1>11, <1>12, <1>7 DEF Unpad

-----------------------------------------------------------------------------
(* The two checksums. *)

(* One turn of the loops is the same, though one is computed in a wider     *)
(* word.                                                                    *)
LEMMA TurnsAgree ==
    ASSUME NEW bits \in Longs
    PROVE  EnterLong(bits) = Enter
<1>1. bits \in Nat /\ bits >= Width /\ Width \in Nat
  BY FileAssumption, CksumAssumption
<1>2. ASSUME NEW s PROVE UNSIGNED(Narrow(s, bits)) = UNSIGNED(s)
  BY <1>1, SMT DEF UNSIGNED, Narrow
<1>3. crctab0 = crctab
  BY CksumAssumption DEF TablesAgree
<1>4. \A s : UNSIGNED(Narrow(s, bits)) = UNSIGNED(s)
  BY <1>2
<1>. QED
  BY <1>3, <1>4, Zenon DEF EnterLong, Enter

(* The checksums of every file are the same (memcrc of both programs).      *)
LEMMA ChecksumsAgree ==
    ASSUME NEW bits \in Longs, NEW b
    PROVE  memcrcLong(b, bits) = memcrc(b)
<1>1. bits \in Nat /\ bits >= Width /\ Width \in Nat
  BY FileAssumption, CksumAssumption
<1>2. ClientEntered(b) = Entered(b)
  BY DEF ClientEntered, Entered
<1>3. ASSUME NEW s PROVE UNSIGNED((0..(bits - 1)) \ s) = (0..(Width - 1)) \ s
  BY <1>1, SMT DEF UNSIGNED
<1>4. Loop(EnterLong(bits), ClientEntered(b)) = Loop(Enter, Entered(b))
  BY <1>2, TurnsAgree
<1>. QED
  BY <1>3, <1>4 DEF memcrcLong, memcrc

-----------------------------------------------------------------------------
(* Sizes.  What was measured is what is read: the file may be replaced in   *)
(* between, and then it is too short, or only its beginning is read.        *)

Phases == {"open", "measured", "sent", "answered", "refused", "confirmed", "aborted", "failed"}

Measured(n) == [NoSizes EXCEPT !.orig = n, !.total = totalEncryptedPacket(n)]

SizeInv ==
    /\ file \in Contents \cup {Missing}
    /\ phase \in Phases
    /\ long \in Longs
    /\ phase = "measured" =>
         /\ file # Missing
         /\ \E n \in 0..Max32 : packet = Measured(n) /\ totalEncryptedPacket(n) <= Max16
    /\ phase \in {"sent", "answered"} => read \in Seq(Byte)
    /\ phase = "sent" => cipher = encryptMsg(read)
    /\ SizesAgree

LEMMA LengthOfFile ==
    ASSUME file \in Contents \cup {Missing}, file # Missing
    PROVE  file \in Seq(Byte) /\ Len(file) \in Nat
<1>1. file \in Seq(Byte)
  BY FileAssumption
<1>. QED
  BY <1>1, LenProperties

LEMMA SendFileKeepsSizes ==
    ASSUME SizeInv, SendFile
    PROVE  SizeInv'
<1>. DEFINE n == packet.orig
            plain == SubSeq(file, 1, n)
<1>1. PICK k \in 0..Max32 : packet = Measured(k) /\ totalEncryptedPacket(k) <= Max16
  BY DEF SizeInv, SendFile
<1>2. n = k /\ packet.total = totalEncryptedPacket(k)
  BY <1>1 DEF Measured, NoSizes
<1>3. packet' = [packet EXCEPT !.content = Wrap32(Len(encryptMsg(plain))),
                               !.payload = Wrap32(Fixed + Len(encryptMsg(plain)))]
  BY DEF SendFile
<1>4. /\ packet'.orig = k /\ packet'.total = totalEncryptedPacket(k)
      /\ packet'.content = Wrap32(Len(encryptMsg(plain)))
      /\ packet'.payload = Wrap32(Fixed + Len(encryptMsg(plain)))
  BY <1>1, <1>2, <1>3 DEF Measured, NoSizes
<1>5. file \in Seq(Byte) /\ Len(file) \in Nat
  BY LengthOfFile DEF SizeInv, SendFile
<1>6. n \in Nat /\ n <= Len(file)
  BY <1>2, FileAssumption DEF SendFile
<1>7. plain \in Seq(Byte) /\ Len(plain) = k
  BY <1>2, <1>5, <1>6, SubSeqProperties
<1>. HIDE DEF plain
<1>8. Len(encryptMsg(plain)) = CipherLen(k)
  BY <1>7, EncryptedLength
<1>9. CipherLen(k) <= Max32
  BY <1>8 DEF SendFile, Fits32, plain
<1>10. /\ totalEncryptedPacket(k) \in Nat
       /\ totalEncryptedPacket(k) * Block >= k
       /\ (totalEncryptedPacket(k) - 1) * Block < k
       /\ CipherLen(k) \in Nat
       /\ Fixed + CipherLen(k) \in 0..Max32
  BY <1>1, <1>9, SizesFit
<1>11. CipherLen(k) \in 0..Max32
  BY <1>9, <1>10, FileAssumption
<1>12. Wrap32(CipherLen(k)) = CipherLen(k) /\ Wrap32(Fixed + CipherLen(k)) = Fixed + CipherLen(k)
  BY <1>10, <1>11, WrapOfSmall
<1>13. read' = plain /\ cipher' = encryptMsg(plain) /\ phase' = "sent"
  BY DEF SendFile, plain
<1>14. SizesAgree'
  <2>1. /\ packet'.orig = Len(read') /\ packet'.total * Block >= packet'.orig
        /\ (packet'.total - 1) * Block < packet'.orig
    BY <1>4, <1>7, <1>10, <1>13
  <2>2. packet'.content = Len(cipher') /\ packet'.payload = Fixed + Len(cipher')
    BY <1>4, <1>8, <1>12, <1>13
  <2>. QED
    BY <2>1, <2>2 DEF SizesAgree
<1>. QED
  BY <1>7, <1>13, <1>14 DEF SizeInv, SendFile, Phases

LEMMA FileInitSizes == FileInit => SizeInv
  BY DEF FileInit, SizeInv, SizesAgree, Phases

LEMMA MeasureFileKeepsSizes ==
    ASSUME SizeInv, MeasureFile
    PROVE  SizeInv'
<1>1. Len(file) \in 0..Max32
  BY LengthOfFile, FileAssumption DEF SizeInv, MeasureFile
<1>2. packet' = Measured(Len(file)) /\ totalEncryptedPacket(Len(file)) <= Max16
  BY DEF MeasureFile, Measured
<1>. QED
  BY <1>1, <1>2 DEF SizeInv, SizesAgree, MeasureFile, Phases

(* Where uploadFile may be after an answer. *)
Outcomes == {"open", "confirmed", "aborted", "failed"}

LEMMA WhereAfter ==
    ASSUME NEW error, NEW valid, After(error, valid)
    PROVE  phase' \in Outcomes
  BY DEF After, Proceed, errorResend, resendEncryptedMessage, Resend, Finish, Outcomes

(* The steps after which nothing is said about sizes. *)
LEMMA OtherStepsKeepSizes ==
    ASSUME SizeInv,
           CannotSend \/ HandleEncryptedFile \/ HandleFails \/ checkSum \/ CheckUnread \/ TakeError
    PROVE  SizeInv'
<1>1. CASE CannotSend
  BY <1>1 DEF SizeInv, SizesAgree, CannotSend, Phases
<1>2. CASE HandleEncryptedFile
  BY <1>2 DEF SizeInv, SizesAgree, HandleEncryptedFile, Phases
<1>3. CASE HandleFails
  BY <1>3 DEF SizeInv, SizesAgree, HandleFails, Phases
<1>4. ASSUME NEW valid, Judge(valid)
      PROVE  /\ phase' \in Outcomes
             /\ UNCHANGED <<file, packet, read, cipher, stored, crc, long>>
  BY <1>4, WhereAfter DEF Judge
<1>5. CASE TakeError
  <2>1. phase' \in Outcomes
    BY <1>5, WhereAfter DEF TakeError
  <2>. QED
    BY <1>5, <2>1 DEF SizeInv, SizesAgree, TakeError, Phases, Outcomes
<1>6. CASE checkSum
  BY <1>4, <1>6 DEF SizeInv, SizesAgree, checkSum, Phases, Outcomes
<1>7. CASE CheckUnread
  BY <1>4, <1>7 DEF SizeInv, SizesAgree, CheckUnread, Phases, Outcomes
<1>. QED
  BY <1>1, <1>2, <1>6, <1>7, <1>3, <1>5

LEMMA DisturbKeepsSizes ==
    ASSUME SizeInv, Disturb
    PROVE  SizeInv'
  BY DEF SizeInv, SizesAgree, Disturb

LEMMA SizesKept ==
    ASSUME SizeInv, [FileNext]_fileVars
    PROVE  SizeInv'
<1>1. CASE UNCHANGED fileVars
  BY <1>1 DEF SizeInv, SizesAgree, fileVars
<1>. QED
  BY <1>1, MeasureFileKeepsSizes, SendFileKeepsSizes, OtherStepsKeepSizes, DisturbKeepsSizes
  DEF FileNext, ClientSteps

(* From the look at its size to the answer of the server, the sizes in the  *)
(* packet are those of what was read, and of what it is encrypted to        *)
(* (getFileSizes, encryptFile).                                             *)
THEOREM SizesInvariant == FileSpec => []SizeInv
<1>1. FileInit => SizeInv
  BY FileInitSizes
<1>2. SizeInv /\ [FileNext]_fileVars => SizeInv'
  BY SizesKept
<1>. QED
  BY <1>1, <1>2, PTL DEF FileSpec

(* The sizes that an 828 carries are those of what was read and what is     *)
(* sent, for every file that is sent at all, whatever the sizes of blocks   *)
(* and of integers (getFileSizes, totalEncryptedPacket, encryptFile).       *)
THEOREM SizesAlwaysAgree == FileSpec => []SizesAgree
<1>1. SizeInv => SizesAgree
  BY DEF SizeInv
<1>. QED
  BY <1>1, SizesInvariant, PTL

-----------------------------------------------------------------------------
(* The stored file. *)

LEMMA StoredKept ==
    ASSUME PaddingIsRead, SizeInv, StoredAsRead, [FileNext]_fileVars
    PROVE  StoredAsRead'
<1>1. CASE HandleEncryptedFile
  <2>1. read \in Seq(Byte) /\ cipher = encryptMsg(read)
    BY <1>1 DEF SizeInv, HandleEncryptedFile
  <2>. QED
    BY <1>1, <2>1, DecryptedAsEncrypted DEF HandleEncryptedFile, StoredAsRead
<1>2. ASSUME NEW valid, Judge(valid) PROVE phase' # "answered"
  BY <1>2, WhereAfter DEF Judge, Outcomes
<1>3. ASSUME TakeError PROVE phase' # "answered"
  BY <1>3, WhereAfter DEF TakeError, Outcomes
<1>4. CASE ClientSteps
  BY <1>2, <1>4, <1>3
  DEF ClientSteps, MeasureFile, SendFile, CannotSend, checkSum, CheckUnread, StoredAsRead
<1>5. CASE HandleFails
  BY <1>5 DEF HandleFails, StoredAsRead
<1>6. CASE Disturb
  BY <1>6 DEF Disturb, StoredAsRead
<1>7. CASE UNCHANGED fileVars
  BY <1>7 DEF fileVars, StoredAsRead
<1>. QED
  BY <1>1, <1>4, <1>6, <1>7, <1>5 DEF FileNext

(* What the server stores is what the client read, for every length and     *)
(* every ending of the file (encryptMsg, decrypt_file).                     *)
THEOREM StoredAsItWasRead ==
    ASSUME PaddingIsRead
    PROVE  FileSpec => []StoredAsRead
<1>1. FileInit => StoredAsRead
  BY DEF FileInit, StoredAsRead
<1>2. SizeInv /\ StoredAsRead /\ [FileNext]_fileVars => StoredAsRead'
  BY StoredKept
<1>. QED
  BY <1>1, <1>2, SizesInvariant, PTL DEF FileSpec

-----------------------------------------------------------------------------
(* Giving up.  In resendEncryptedMessage, every attempt but the running one *)
(* cost a disturbance or an error of the server, the first one, which led   *)
(* there, a disturbance; and if the running one has cost none yet, then     *)
(* what was measured, read, stored and checksummed so far is the file as it *)
(* is now.                                                                  *)

Charged == IF mode = "crc" THEN tries + 1 ELSE 0

Spent == disturbed + refused

Undisturbed == Spent = Charged

LoopInv ==
    /\ mode \in {"once", "error", "crc"}
    /\ tries \in 0..1 /\ disturbed \in Nat /\ refused \in Nat
    /\ Charged <= Spent
    /\ IF mode = "crc" THEN disturbed > 0 ELSE refused = 0

AbortInv ==
    /\ LoopInv
    /\ AbortedOnlyIfDisturbed
    /\ phase = "measured" /\ Undisturbed => packet.orig = Len(file)
    /\ phase = "sent" /\ Undisturbed => file # Missing /\ read = file
    /\ phase = "answered" => crc = memcrc(stored)
    /\ phase = "answered" /\ Undisturbed => file # Missing /\ stored = file

(* What an answer does to the loops: an attempt of resendEncryptedMessage   *)
(* that failed is charged, and so is the first wrong checksum.              *)
LEMMA Loops ==
    ASSUME NEW error \in BOOLEAN, NEW valid \in BOOLEAN, After(error, valid), LoopInv
    PROVE  /\ mode' \in {"once", "error", "crc"} /\ tries' \in 0..1
           /\ mode = "crc" => mode' = "crc"
           /\ mode' = "crc" => mode = "crc" \/ (~error /\ ~valid)
           /\ Charged' <= Charged + 1
           /\ valid => Charged' = Charged
           /\ error /\ mode # "crc" => mode' # "crc"
           /\ phase' = "aborted" => mode = "crc" /\ tries = 1 /\ mode' = mode /\ tries' = tries /\ ~valid
  BY DEF After, Proceed, errorResend, resendEncryptedMessage, Resend, Finish, LoopInv, Charged

LEMMA ChargedRange ==
    ASSUME mode \in {"once", "error", "crc"}, tries \in 0..1
    PROVE  /\ Charged \in 0..2
           /\ mode # "crc" => Charged = 0
           /\ mode = "crc" /\ tries = 1 => Charged = 2
  BY DEF Charged

LEMMA ChargedRangeNext ==
    ASSUME mode' \in {"once", "error", "crc"}, tries' \in 0..1
    PROVE  /\ Charged' \in 0..2
           /\ mode' # "crc" => Charged' = 0
<1>1. ASSUME NEW t \in 0..1 PROVE t + 1 \in 0..2 /\ 0 \in 0..2
  OBVIOUS
<1>2. tries' + 1 \in 0..2 /\ 0 \in 0..2
  BY <1>1
<1>3. CASE mode' = "crc"
  BY <1>2, <1>3 DEF Charged
<1>4. CASE mode' # "crc"
  BY <1>2, <1>4 DEF Charged
<1>. QED
  BY <1>3, <1>4

(* The arithmetic of a wrong checksum. *)
LEMMA MoreThanCharged ==
    ASSUME NEW c \in 0..2, NEW d \in Nat, NEW r \in Nat, d + r > c
    PROVE  /\ r = 0 => d > 0
           /\ c = 2 => d + r > 2
           /\ c + 1 <= d + r
  OBVIOUS

(* A count that did not go down. *)
LEMMA NotLess ==
    ASSUME NEW c \in 0..2, NEW d \in Nat, NEW e \in Nat, NEW r \in Nat, e >= d, c <= d + r
    PROVE  c <= e + r /\ (d > 0 => e > 0)
  OBVIOUS

(* A checked answer: a wrong checksum has a disturbance that nothing was    *)
(* charged for yet.                                                         *)
LEMMA CheckKeepsLoops ==
    ASSUME LoopInv, NEW valid \in BOOLEAN, After(FALSE, valid),
           refused' = refused, disturbed' \in Nat, disturbed' >= disturbed,
           ~valid => disturbed' + refused > Charged
    PROVE  LoopInv' /\ AbortedOnlyIfDisturbed'
<1>1. /\ mode' \in {"once", "error", "crc"} /\ tries' \in 0..1
      /\ mode = "crc" => mode' = "crc"
      /\ mode' = "crc" => mode = "crc" \/ ~valid
      /\ Charged' <= Charged + 1
      /\ valid => Charged' = Charged
      /\ phase' = "aborted" => mode = "crc" /\ tries = 1 /\ ~valid
  BY Loops
<1>2. /\ mode \in {"once", "error", "crc"} /\ tries \in 0..1
      /\ disturbed \in Nat /\ refused \in Nat
      /\ Charged <= disturbed + refused
      /\ mode = "crc" => disturbed > 0
      /\ mode # "crc" => refused = 0
  BY DEF LoopInv, Spent
<1>3. /\ Charged \in 0..2 /\ Charged' \in 0..2
      /\ mode # "crc" => Charged = 0
      /\ mode = "crc" /\ tries = 1 => Charged = 2
  BY <1>1, <1>2, ChargedRange, ChargedRangeNext
<1>4. disturbed' \in Nat /\ disturbed' >= disturbed
  OBVIOUS
<1>5. /\ ~valid => /\ refused = 0 => disturbed' > 0
                   /\ Charged = 2 => disturbed' + refused > 2
                   /\ Charged + 1 <= disturbed' + refused
      /\ disturbed > 0 => disturbed' > 0
      /\ Charged <= disturbed' + refused
  <2>1. ASSUME ~valid
        PROVE  /\ refused = 0 => disturbed' > 0
               /\ Charged = 2 => disturbed' + refused > 2
               /\ Charged + 1 <= disturbed' + refused
    <3>1. disturbed' + refused > Charged
      BY <2>1
    <3>. QED
      BY <1>2, <1>3, <1>4, <3>1, MoreThanCharged
  <2>2. Charged <= disturbed' + refused /\ (disturbed > 0 => disturbed' > 0)
    BY <1>2, <1>3, <1>4, NotLess
  <2>. QED
    BY <2>1, <2>2
<1>6. Charged' <= disturbed' + refused
  <2>1. CASE valid
    BY <1>1, <1>5, <2>1
  <2>2. CASE ~valid
    <3>1. Charged' <= Charged + 1 /\ Charged + 1 <= disturbed' + refused
      BY <1>1, <1>5, <2>2
    <3>2. Charged' \in Int /\ Charged + 1 \in Int /\ disturbed' + refused \in Int
      BY <1>2, <1>3, <1>4
    <3>3. ASSUME NEW k \in Int, NEW m \in Int, NEW n \in Int, k <= m, m <= n PROVE k <= n
      BY <3>3
    <3>. QED
      BY <3>1, <3>2, <3>3
  <2>. QED
    BY <2>1, <2>2
<1>7. mode' = "crc" => disturbed' > 0
  BY <1>1, <1>2, <1>5
<1>8. phase' = "aborted" => disturbed' > 0 /\ disturbed' + refused > 2
  BY <1>1, <1>2, <1>3, <1>5
<1>. QED
  BY <1>1, <1>2, <1>6, <1>7, <1>8 DEF LoopInv, Spent, AbortedOnlyIfDisturbed

(* Without a disturbance the client computes the checksum that it was sent. *)
LEMMA checkSumKeepsLoops ==
    ASSUME SizeInv, AbortInv, checkSum
    PROVE  AbortInv'
<1>. DEFINE valid == readfile = crc
<1>1. Judge(valid) /\ valid \in BOOLEAN /\ phase = "answered"
  BY DEF checkSum, Judge
<1>2. LoopInv /\ disturbed \in Nat /\ refused \in Nat /\ disturbed' = disturbed
  BY DEF AbortInv, LoopInv, checkSum
<1>3. ASSUME Undisturbed PROVE valid
  <2>1. file # Missing /\ stored = file /\ crc = memcrc(stored) /\ long \in Longs
    BY <1>1, <1>3 DEF AbortInv, SizeInv
  <2>. QED
    BY <2>1, ChecksumsAgree DEF readfile
<1>. HIDE DEF valid
<1>4. ~valid => disturbed' + refused > Charged
  <2>1. Charged <= disturbed + refused /\ Charged \in Int
    BY <1>2 DEF LoopInv, Charged, Spent
  <2>2. ~valid => disturbed + refused # Charged
    BY <1>3 DEF Undisturbed, Spent
  <2>. QED
    BY <2>1, <2>2, <1>2
<1>5. After(FALSE, valid) /\ refused' = refused
  BY <1>1 DEF Judge
<1>6. LoopInv' /\ AbortedOnlyIfDisturbed'
  <2>1. disturbed' \in Nat /\ disturbed' >= disturbed
    BY <1>2
  <2>. QED
    BY <1>1, <1>2, <1>4, <1>5, <2>1, CheckKeepsLoops
<1>7. phase' \in Outcomes
  BY <1>5, WhereAfter
<1>. QED
  BY <1>6, <1>7 DEF AbortInv, Outcomes

LEMMA CheckUnreadKeepsLoops ==
    ASSUME AbortInv, CheckUnread
    PROVE  AbortInv'
<1>1. PICK valid \in BOOLEAN : Judge(valid)
  BY DEF CheckUnread
<1>2. LoopInv /\ disturbed \in Nat /\ refused \in Nat /\ disturbed' = disturbed + 1
  BY DEF AbortInv, LoopInv, CheckUnread
<1>3. disturbed' + refused > Charged
  <2>1. Charged <= disturbed + refused /\ Charged \in Int
    BY <1>2 DEF LoopInv, Charged, Spent
  <2>. QED
    BY <2>1, <1>2
<1>4. After(FALSE, valid) /\ refused' = refused
  BY <1>1 DEF Judge
<1>5. LoopInv' /\ AbortedOnlyIfDisturbed'
  <2>1. disturbed' \in Nat /\ disturbed' >= disturbed
    BY <1>2
  <2>. QED
    BY <1>2, <1>3, <1>4, <2>1, CheckKeepsLoops
<1>6. phase' \in Outcomes
  BY <1>4, WhereAfter
<1>. QED
  BY <1>5, <1>6 DEF AbortInv, Outcomes

(* An error is charged in resendEncryptedMessage, and counted there.        *)
LEMMA TakeErrorKeepsLoops ==
    ASSUME AbortInv, TakeError
    PROVE  AbortInv'
<1>1. LoopInv /\ After(TRUE, FALSE) /\ disturbed' = disturbed
  BY DEF AbortInv, TakeError
<1>2. /\ mode' \in {"once", "error", "crc"} /\ tries' \in 0..1
      /\ mode = "crc" => mode' = "crc"
      /\ mode # "crc" => mode' # "crc"
      /\ Charged' <= Charged + 1
      /\ phase' = "aborted" => mode = "crc" /\ tries = 1
  BY <1>1, Loops
<1>3. /\ mode \in {"once", "error", "crc"} /\ tries \in 0..1
      /\ disturbed \in Nat /\ refused \in Nat
      /\ Charged <= disturbed + refused
      /\ mode = "crc" => disturbed > 0
      /\ mode # "crc" => refused = 0
  BY <1>1 DEF LoopInv, Spent
<1>4. /\ Charged \in 0..2 /\ Charged' \in 0..2
      /\ mode' # "crc" => Charged' = 0
      /\ mode = "crc" /\ tries = 1 => Charged = 2
  BY <1>2, <1>3, ChargedRange, ChargedRangeNext
<1>5. refused' = IF mode = "crc" THEN refused + 1 ELSE refused
  BY DEF TakeError
<1>6. /\ refused' \in Nat /\ Charged' <= disturbed + refused'
      /\ phase' = "aborted" => disturbed > 0 /\ disturbed + refused' > 2
  BY <1>2, <1>3, <1>4, <1>5
<1>7. IF mode' = "crc" THEN disturbed > 0 ELSE refused' = 0
  BY <1>2, <1>3, <1>5
<1>8. LoopInv' /\ AbortedOnlyIfDisturbed'
  BY <1>1, <1>2, <1>3, <1>6, <1>7 DEF LoopInv, Spent, AbortedOnlyIfDisturbed
<1>9. phase' \in Outcomes
  BY <1>1, WhereAfter
<1>. QED
  BY <1>8, <1>9 DEF AbortInv, Outcomes

LEMMA SendFileKeepsLoops ==
    ASSUME SizeInv, AbortInv, SendFile
    PROVE  AbortInv'
<1>1. file # Missing /\ phase = "measured" /\ phase' = "sent"
  BY DEF SizeInv, SendFile
<1>2. file \in Seq(Byte) /\ Len(file) \in Nat
  BY <1>1, LengthOfFile DEF SizeInv
<1>3. SubSeq(file, 1, Len(file)) = file
  BY <1>2
<1>4. Undisturbed => read' = file
  BY <1>1, <1>3 DEF AbortInv, SendFile
<1>5. UNCHANGED <<mode, tries, refused, disturbed>>
  BY DEF SendFile, loop
<1>. QED
  BY <1>1, <1>4, <1>5
  DEF AbortInv, LoopInv, AbortedOnlyIfDisturbed, Undisturbed, Spent, Charged, SendFile

LEMMA HandleKeepsLoops ==
    ASSUME SizeInv, StoredAsRead', AbortInv, HandleEncryptedFile
    PROVE  AbortInv'
<1>1. phase = "sent" /\ phase' = "answered" /\ stored' = read /\ crc' = memcrc(stored')
  BY DEF HandleEncryptedFile, StoredAsRead
<1>2. UNCHANGED <<file, mode, tries, refused, disturbed>>
  BY DEF HandleEncryptedFile, loop
<1>. QED
  BY <1>1, <1>2 DEF AbortInv, LoopInv, AbortedOnlyIfDisturbed, Undisturbed, Spent, Charged

(* A disturbance that nothing was charged for yet. *)
LEMMA DisturbKeepsLoops ==
    ASSUME AbortInv, Disturb
    PROVE  AbortInv'
<1>1. LoopInv /\ disturbed' = disturbed + 1 /\ UNCHANGED <<mode, tries, refused, phase, stored, crc>>
  BY DEF AbortInv, Disturb, loop
<1>2. phase \notin {"confirmed", "aborted", "failed"}
  BY DEF Disturb, Ended
<1>3. disturbed \in Nat /\ refused \in Nat /\ Charged \in Int /\ Charged <= disturbed + refused
  BY <1>1 DEF LoopInv, Spent, Charged
<1>4. Charged' = Charged /\ Spent' = disturbed + 1 + refused
  BY <1>1 DEF Charged, Spent
<1>5. ~Undisturbed' /\ Charged' <= Spent'
  BY <1>3, <1>4 DEF Undisturbed
<1>6. LoopInv'
  BY <1>1, <1>3, <1>5 DEF LoopInv
<1>. QED
  BY <1>1, <1>2, <1>5, <1>6 DEF AbortInv, AbortedOnlyIfDisturbed

LEMMA OtherStepsKeepLoops ==
    ASSUME AbortInv, MeasureFile \/ CannotSend \/ HandleFails \/ UNCHANGED fileVars
    PROVE  AbortInv'
<1>1. UNCHANGED <<file, mode, tries, refused, disturbed>>
  BY DEF MeasureFile, CannotSend, HandleFails, fileVars, loop
<1>2. LoopInv' /\ (Undisturbed' <=> Undisturbed)
  BY <1>1 DEF AbortInv, LoopInv, Undisturbed, Spent, Charged
<1>3. CASE MeasureFile
  <2>1. packet'.orig = Len(file)
    BY <1>3 DEF MeasureFile, NoSizes
  <2>. QED
    BY <1>1, <1>2, <1>3, <2>1 DEF AbortInv, AbortedOnlyIfDisturbed, MeasureFile
<1>4. CASE CannotSend \/ HandleFails
  BY <1>1, <1>2, <1>4 DEF AbortInv, AbortedOnlyIfDisturbed, CannotSend, HandleFails
<1>5. CASE UNCHANGED fileVars
  BY <1>1, <1>2, <1>5 DEF AbortInv, AbortedOnlyIfDisturbed, fileVars
<1>. QED
  BY <1>3, <1>4, <1>5

LEMMA LoopsKept ==
    ASSUME SizeInv, StoredAsRead', AbortInv, [FileNext]_fileVars
    PROVE  AbortInv'
  BY checkSumKeepsLoops, CheckUnreadKeepsLoops, TakeErrorKeepsLoops, SendFileKeepsLoops,
     HandleKeepsLoops, DisturbKeepsLoops, OtherStepsKeepLoops
  DEF FileNext, ClientSteps

LEMMA InitLoops == FileInit => AbortInv
  BY DEF FileInit, AbortInv, LoopInv, Charged, Spent, AbortedOnlyIfDisturbed

(* A file is given up only if it changed or could not be read at least      *)
(* once, and each of the three attempts is accounted for by such a change   *)
(* or by an error of the server, for every file and every size of an        *)
(* unsigned long: what stays as it is gets the same checksum from both      *)
(* programs (resendEncryptedMessage, memcrc of cksum.py and cksum_new.cpp). *)
THEOREM GivenUpOnlyIfDisturbed ==
    ASSUME PaddingIsRead
    PROVE  FileSpec => []AbortedOnlyIfDisturbed
<1>1. FileInit => AbortInv
  BY InitLoops
<1>2. SizeInv /\ StoredAsRead' /\ AbortInv /\ [FileNext]_fileVars => AbortInv'
  BY LoopsKept
<1>3. AbortInv => AbortedOnlyIfDisturbed
  BY DEF AbortInv
<1>4. FileSpec => []StoredAsRead
  BY StoredAsItWasRead
<1>. QED
  BY <1>1, <1>2, <1>3, <1>4, SizesInvariant, PTL DEF FileSpec

-----------------------------------------------------------------------------
(* Confirming. *)

(* Only the check of 1603 confirms without a disturbance. *)
LEMMA ConfirmedByCheck ==
    ASSUME [FileNext]_fileVars, phase' = "confirmed", disturbed' = disturbed, fileVars' # fileVars,
           disturbed \in Nat
    PROVE  checkSum /\ phase = "answered" /\ readfile = crc
<1>1. ~(MeasureFile \/ SendFile \/ CannotSend \/ HandleEncryptedFile \/ HandleFails)
  BY DEF MeasureFile, SendFile, CannotSend, HandleEncryptedFile, HandleFails
<1>2. ~(Disturb \/ CheckUnread)
  BY DEF Disturb, CheckUnread
<1>3. ASSUME NEW error, NEW valid, After(error, valid), ~valid PROVE FALSE
  BY <1>3 DEF After, Proceed, errorResend, resendEncryptedMessage, Resend, Finish
<1>4. ~TakeError
  BY <1>3 DEF TakeError
<1>5. checkSum
  BY <1>1, <1>2, <1>4 DEF FileNext, ClientSteps
<1>6. phase = "answered" /\ After(FALSE, readfile = crc)
  BY <1>5 DEF checkSum, Judge
<1>7. readfile = crc
  BY <1>3, <1>6
<1>. QED
  BY <1>5, <1>6, <1>7

(* The value for a file that is gone is a checksum only where an unsigned   *)
(* long has the width of one.                                               *)
LEMMA MinusOne ==
    ASSUME long \in Longs, NEW b, NoFileCrc(long) = memcrc(b)
    PROVE  long = Width /\ memcrc(b) = 0..(Width - 1)
<1>1. long \in Nat /\ long >= Width /\ Width \in Nat
  BY FileAssumption, CksumAssumption
<1>2. memcrc(b) \subseteq 0..(Width - 1)
  BY DEF memcrc
<1>3. 0..(long - 1) \subseteq 0..(Width - 1)
  BY <1>2 DEF NoFileCrc
<1>4. ASSUME long # Width PROVE FALSE
  <2>1. Width \in 0..(long - 1) /\ Width \notin 0..(Width - 1)
    BY <1>1, <1>4
  <2>. QED
    BY <2>1, <1>3
<1>. QED
  BY <1>4 DEF NoFileCrc

LEMMA ConfirmedAreStored ==
    ASSUME SizeInv, StoredAsRead, AbortInv, [FileNext]_fileVars,
           phase' = "confirmed", disturbed' = disturbed, fileVars' # fileVars
    PROVE  /\ stored = read
           /\ IF file = Missing THEN long = Width /\ memcrc(stored) = 0..(Width - 1)
              ELSE memcrc(file) = memcrc(stored)
<1>1. phase = "answered" /\ readfile = crc
  BY ConfirmedByCheck DEF AbortInv, LoopInv
<1>2. crc = memcrc(stored) /\ stored = read /\ long \in Longs
  BY <1>1 DEF AbortInv, StoredAsRead, SizeInv
<1>3. CASE file = Missing
  <2>1. NoFileCrc(long) = memcrc(stored)
    BY <1>1, <1>2, <1>3 DEF readfile
  <2>. QED
    BY <2>1, <1>2, <1>3, MinusOne
<1>4. CASE file # Missing
  <2>1. memcrcLong(file, long) = memcrc(stored)
    BY <1>1, <1>2, <1>4 DEF readfile
  <2>. QED
    BY <2>1, <1>2, <1>4, ChecksumsAgree
<1>. QED
  BY <1>3, <1>4

(* A file is confirmed only if what was read for it is stored, and the file *)
(* that was checked has the checksum of the one stored, whichever of them   *)
(* the user put there; and -1 for a file that is gone passes for a checksum *)
(* only where it has its width and is that of the stored file (checkSum,    *)
(* readfile).                                                               *)
THEOREM ConfirmedOnlyIfStored ==
    ASSUME PaddingIsRead
    PROVE  FileSpec => ConfirmedMeansStored
<1>1. FileInit => AbortInv
  BY InitLoops
<1>2. SizeInv /\ StoredAsRead' /\ AbortInv /\ [FileNext]_fileVars => AbortInv'
  BY LoopsKept
<1>3. SizeInv /\ StoredAsRead /\ AbortInv /\ [FileNext]_fileVars =>
        [phase' = "confirmed" /\ disturbed' = disturbed =>
            /\ stored = read
            /\ IF file = Missing THEN long = Width /\ memcrc(stored) = 0..(Width - 1)
               ELSE memcrc(file) = memcrc(stored)]_fileVars
  BY ConfirmedAreStored
<1>4. FileSpec => []StoredAsRead
  BY StoredAsItWasRead
<1>. QED
  BY <1>1, <1>2, <1>3, <1>4, SizesInvariant, PTL DEF FileSpec, ConfirmedMeansStored
=============================================================================
