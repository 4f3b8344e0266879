-------------------------- MODULE TransportProofs --------------------------
(***************************************************************************)
(* Proofs about Transport, for any ports, names and sizes of packets and   *)
(* chunks, any number of requests, and with either side dying at any byte: *)
(* first what both programs have reached when they begin to talk, then     *)
(* where each byte of the connection is, when each write arrives whole.    *)
(***************************************************************************)
EXTENDS Transport, SequenceTheorems, TLAPS

(* Once a step of the server is behind it, what it made is there; and once  *)
(* a client is connected, the server listens where transfer.info says.      *)
ReadyInv ==
    /\ server = [at |-> server.at, port |-> server.port]
    /\ client = [at |-> client.at, name |-> client.name, path |-> client.path]
    /\ transferInfo \in TransferInfos \cup {Absent}
    /\ server.at \in {"backup", "port", "bind", "listening"} => tables
    /\ server.at \in {"port", "bind", "listening"} => backupPath
    /\ client.at \in {"connect", "setPublicKey", "main"} => client.name \in 1..99
    /\ client.at \in {"setPublicKey", "main"} => Reaches(transferInfo)

LEMMA ServerStartsReady ==
    ASSUME ReadyInv, ServerStarts
    PROVE  ReadyInv'
<1>. USE DEF ReadyInv, Reaches, serverFiles, clientSide, ServerGoes, ServerStops
<1>1. CASE CreateDb
  BY <1>1 DEF CreateDb
<1>2. CASE make_backup_path
  BY <1>2 DEF make_backup_path, MakeOrExit
<1>3. CASE get_port_info
  BY <1>3 DEF get_port_info
<1>4. CASE set_connection
  BY <1>4 DEF set_connection
<1>. QED
  BY <1>1, <1>2, <1>3, <1>4 DEF ServerStarts

LEMMA ClientStartsReady ==
    ASSUME ReadyInv, ClientStarts
    PROVE  ReadyInv'
<1>. USE DEF ReadyInv, Reaches, serverVars, ClientGoes
<1>1. CASE ConstructRequestHandler
  BY <1>1 DEF ConstructRequestHandler
<1>2. CASE ConstructEncryptionHandler
  BY <1>2 DEF ConstructEncryptionHandler
<1>3. CASE getTransferInfo
  <2>1. transferInfo # Absent /\ isValidUserName(transferInfo) => transferInfo.userName \in 1..99
    BY StartUpAssumption DEF TransferInfos, isValidUserName
  <2>. QED
    BY <1>3, <2>1 DEF getTransferInfo
<1>4. CASE setConnection
  BY <1>4 DEF setConnection
<1>5. CASE setPublicKey
  BY <1>5 DEF setPublicKey
<1>. QED
  BY <1>1, <1>2, <1>3, <1>4, <1>5 DEF ClientStarts

(* Whoever runs main has a name that fits, and is connected to a server     *)
(* that has its tables and its backup directory, at the port of             *)
(* transfer.info, whatever step of either start may fail (the constructors  *)
(* of Client and Server).                                                   *)
THEOREM MainIsAlwaysReady == TransportSpec => []MainIsReady
<1>1. TransportInit => ReadyInv
  BY DEF TransportInit, StartUpInit, ReadyInv
<1>2. ReadyInv /\ [TransportNext]_transportVars => ReadyInv'
  <2> SUFFICES ASSUME ReadyInv, [TransportNext]_transportVars
               PROVE  ReadyInv'
    OBVIOUS
  <2>1. CASE ServerStarts
    BY <2>1, ServerStartsReady
  <2>2. CASE ClientStarts
    BY <2>2, ClientStartsReady
  <2>3. CASE accept_client
    BY <2>3 DEF accept_client, clientSide, ReadyInv, Reaches
  <2>4. CASE UNCHANGED startVars
    BY <2>4 DEF startVars, ReadyInv, Reaches
  <2>. QED
    BY <2>1, <2>2, <2>3, <2>4
    DEF TransportNext, StartStep, MainStep, ThreadStep, WireStep, transportVars
<1>3. ReadyInv => MainIsReady
  BY DEF ReadyInv, MainIsReady, Reaches
<1>. QED
  BY <1>1, <1>2, <1>3, PTL DEF TransportSpec

-----------------------------------------------------------------------------
(* Bytes and where they stand.  start[k] counts the bytes before packet k,  *)
(* so that byte <<k, i>> is the one with the number start[k] + i.           *)

Pair   == Nat \X Nat
Triple == Nat \X Nat \X Nat

Asked == [size : Nat, silent : BOOLEAN]

LengthOf(rs, k) == HEADER_SIZE + rs[k].size

Layout(rs, start) ==
    /\ start \in [1..(Len(rs) + 1) -> Nat]
    /\ \A k \in 1..Len(rs) : start[k + 1] = start[k] + LengthOf(rs, k)
    /\ \A k, l \in 1..(Len(rs) + 1) : k < l => start[k] + LengthOf(rs, k) <= start[l]

(* The bytes of s are those after the first n that the client sends. *)
InLine(rs, start, s, n) ==
    \A i \in 1..Len(s) :
        /\ s[i][1] \in 1..Len(rs)
        /\ s[i][2] \in 1..LengthOf(rs, s[i][1])
        /\ start[s[i][1]] + s[i][2] = n + i

(* A write ends with this byte. *)
WriteEnd(rs, b) ==
    b[2] = LengthOf(rs, b[1]) \/ \E j \in Nat : b[2] = HEADER_SIZE + j * CHUNK_SIZE

EndsWrite(rs, s) == s # <<>> => WriteEnd(rs, s[Len(s)])

LEMMA LinePart ==
    ASSUME NEW rs, NEW start, NEW n \in Nat, NEW s \in Seq(Pair), InLine(rs, start, s, n),
           NEW m \in 0..Len(s)
    PROVE  /\ SubSeq(s, 1, m) \in Seq(Pair) /\ SubSeq(s, m + 1, Len(s)) \in Seq(Pair)
           /\ Len(SubSeq(s, 1, m)) = m /\ Len(SubSeq(s, m + 1, Len(s))) = Len(s) - m
           /\ InLine(rs, start, SubSeq(s, 1, m), n)
           /\ InLine(rs, start, SubSeq(s, m + 1, Len(s)), n + m)
           /\ EndsWrite(rs, s) => EndsWrite(rs, SubSeq(s, m + 1, Len(s)))
<1>1. \A i \in 1..Len(s) : s[i] \in Pair
  OBVIOUS
<1>2. /\ SubSeq(s, 1, m) \in Seq(Pair) /\ Len(SubSeq(s, 1, m)) = m
      /\ \A i \in 1..m : SubSeq(s, 1, m)[i] = s[i]
  <2>. \A i \in 1..m : s[i] \in Pair
    BY <1>1
  <2>. QED
    BY SubSeqProperties
<1>3. /\ SubSeq(s, m + 1, Len(s)) \in Seq(Pair)
      /\ Len(SubSeq(s, m + 1, Len(s))) = Len(s) - m
      /\ \A i \in 1..(Len(s) - m) : SubSeq(s, m + 1, Len(s))[i] = s[m + i]
  <2>1. \A i \in (m + 1)..Len(s) : s[i] \in Pair
    BY <1>1
  <2>2. /\ SubSeq(s, m + 1, Len(s)) \in Seq(Pair)
        /\ Len(SubSeq(s, m + 1, Len(s))) = IF m + 1 <= Len(s) THEN Len(s) - (m + 1) + 1 ELSE 0
        /\ \A i \in 1..(Len(s) - (m + 1) + 1) : SubSeq(s, m + 1, Len(s))[i] = s[m + 1 + i - 1]
    BY <2>1, SubSeqProperties, m + 1 \in Int, Len(s) \in Int
  <2>. QED
    BY <2>2
<1>4. InLine(rs, start, SubSeq(s, 1, m), n)
  BY <1>2 DEF InLine
<1>5. InLine(rs, start, SubSeq(s, m + 1, Len(s)), n + m)
  <2> SUFFICES ASSUME NEW i \in 1..(Len(s) - m)
               PROVE  /\ s[m + i][1] \in 1..Len(rs)
                      /\ s[m + i][2] \in 1..LengthOf(rs, s[m + i][1])
                      /\ start[s[m + i][1]] + s[m + i][2] = (n + m) + i
    BY <1>3 DEF InLine
  <2>1. m + i \in 1..Len(s) /\ n + (m + i) = (n + m) + i
    OBVIOUS
  <2>. QED
    BY <2>1 DEF InLine
<1>6. ASSUME EndsWrite(rs, s), SubSeq(s, m + 1, Len(s)) # <<>>
      PROVE  WriteEnd(rs, SubSeq(s, m + 1, Len(s))[Len(SubSeq(s, m + 1, Len(s)))])
  <2>1. Len(s) - m > 0
    BY <1>3, <1>6, EmptySeq
  <2>2. SubSeq(s, m + 1, Len(s))[Len(s) - m] = s[m + (Len(s) - m)] /\ m + (Len(s) - m) = Len(s)
    BY <1>3, <2>1
  <2>3. WriteEnd(rs, s[Len(s)])
    BY <1>6, <2>1, EmptySeq DEF EndsWrite
  <2>4. SubSeq(s, m + 1, Len(s))[Len(SubSeq(s, m + 1, Len(s)))] = s[Len(s)]
    BY <1>3, <2>2
  <2>. QED
    BY <2>3, <2>4
<1>. QED
  BY <1>2, <1>3, <1>4, <1>5, <1>6 DEF EndsWrite

LEMMA LineBegin ==
    ASSUME NEW rs, NEW start, NEW n \in Nat, NEW s \in Seq(Pair), InLine(rs, start, s, n),
           NEW m \in 0..Len(s)
    PROVE  /\ SubSeq(s, 1, m) \in Seq(Pair) /\ Len(SubSeq(s, 1, m)) = m
           /\ InLine(rs, start, SubSeq(s, 1, m), n)
BY LinePart

LEMMA LineJoined ==
    ASSUME NEW rs, NEW start, NEW n \in Nat, NEW s \in Seq(Pair), NEW t \in Seq(Pair),
           InLine(rs, start, s, n), InLine(rs, start, t, n + Len(s))
    PROVE  /\ s \o t \in Seq(Pair) /\ Len(s \o t) = Len(s) + Len(t)
           /\ InLine(rs, start, s \o t, n)
           /\ EndsWrite(rs, s) /\ EndsWrite(rs, t) => EndsWrite(rs, s \o t)
<1>1. /\ s \o t \in Seq(Pair) /\ Len(s \o t) = Len(s) + Len(t)
      /\ \A i \in 1..(Len(s) + Len(t)) :
            (s \o t)[i] = IF i <= Len(s) THEN s[i] ELSE t[i - Len(s)]
  BY ConcatProperties
<1>2. ASSUME NEW i \in 1..(Len(s) + Len(t))
      PROVE  LET b == (s \o t)[i]
             IN b[1] \in 1..Len(rs) /\ b[2] \in 1..LengthOf(rs, b[1]) /\ start[b[1]] + b[2] = n + i
  <2>1. CASE i <= Len(s)
    BY <1>1, <2>1 DEF InLine
  <2>2. CASE i > Len(s)
    <3>1. i - Len(s) \in 1..Len(t) /\ (n + Len(s)) + (i - Len(s)) = n + i
      BY <2>2
    <3>. QED
      BY <1>1, <2>2, <3>1 DEF InLine
  <2>. QED
    BY <2>1, <2>2
<1>3. ASSUME EndsWrite(rs, s), EndsWrite(rs, t), s \o t # <<>>
      PROVE  WriteEnd(rs, (s \o t)[Len(s \o t)])
  <2>1. CASE Len(t) > 0
    BY <1>1, <1>3, <2>1, EmptySeq DEF EndsWrite
  <2>2. CASE Len(t) = 0
    <3>1. Len(s) > 0
      BY <1>1, <1>3, <2>2, EmptySeq
    <3>. QED
      BY <1>1, <1>3, <2>2, <3>1, EmptySeq DEF EndsWrite
  <2>3. Len(t) > 0 \/ Len(t) = 0
    BY LenProperties
  <2>. QED
    BY <2>1, <2>2, <2>3
<1>. QED
  BY <1>1, <1>2, <1>3 DEF InLine, EndsWrite

LEMMA LengthIsNat ==
    ASSUME NEW rs \in Seq(Asked), NEW k \in 1..Len(rs)
    PROVE  /\ rs[k] \in Asked /\ rs[k].size \in Nat
           /\ LengthOf(rs, k) \in Nat /\ HEADER_SIZE <= LengthOf(rs, k)
<1>1. rs[k] \in Asked
  OBVIOUS
<1>. QED
  BY <1>1, StreamAssumption DEF Asked, LengthOf

(* The next byte of packet k is at the head of the line. *)
LEMMA LineAt ==
    ASSUME NEW rs \in Seq(Asked), NEW start, Layout(rs, start),
           NEW k \in 1..Len(rs), NEW p \in Nat,
           NEW s \in Seq(Pair), InLine(rs, start, s, start[k] + p),
           NEW i \in 1..Len(s), p + i <= LengthOf(rs, k)
    PROVE  s[i] = <<k, p + i>>
<1>. DEFINE l == s[i][1]
            q == s[i][2]
<1>1. s[i] \in Pair
  OBVIOUS
<1>2. s[i] = <<l, q>> /\ q \in Nat
  BY <1>1 DEF Pair
<1>3. l \in 1..Len(rs) /\ q \in 1..LengthOf(rs, l) /\ start[l] + q = (start[k] + p) + i
  BY DEF InLine
<1>4. /\ k \in 1..(Len(rs) + 1) /\ l \in 1..(Len(rs) + 1)
      /\ LengthOf(rs, k) \in Nat /\ LengthOf(rs, l) \in Nat
  BY <1>3, LengthIsNat, LenProperties
<1>5. start[k] \in Nat /\ start[l] \in Nat
  BY <1>4 DEF Layout
<1>6. /\ l < k => start[l] + LengthOf(rs, l) <= start[k]
      /\ k < l => start[k] + LengthOf(rs, k) <= start[l]
  BY <1>4 DEF Layout
<1>. DEFINE a == start[k]
            b == start[l]
            m == LengthOf(rs, k)
            n == LengthOf(rs, l)
<1>7. l \in Int /\ k \in Int /\ i \in Nat /\ i >= 1 /\ q >= 1 /\ q <= n /\ p + i <= m
  BY <1>2, <1>3, <1>4
<1>8. a \in Nat /\ b \in Nat /\ m \in Nat /\ n \in Nat /\ b + q = (a + p) + i
      /\ (l < k => b + n <= a) /\ (k < l => a + m <= b)
  BY <1>3, <1>4, <1>5, <1>6
<1>. HIDE DEF l, q, a, b, m, n
<1>9. l = k
  BY <1>2, <1>7, <1>8
<1>10. a = b => q = p + i
  BY <1>2, <1>7, <1>8
<1>. QED
  BY <1>2, <1>9, <1>10 DEF a, b

(* There is a line only as far as there are packets. *)
LEMMA LineInside ==
    ASSUME NEW rs \in Seq(Asked), NEW start, Layout(rs, start),
           NEW k \in 1..(Len(rs) + 1),
           NEW s \in Seq(Pair), s # <<>>, InLine(rs, start, s, start[k])
    PROVE  k <= Len(rs)
<1>. DEFINE l == s[1][1]
            q == s[1][2]
<1>1. 1 \in 1..Len(s)
  BY EmptySeq, LenProperties
<1>2. l \in 1..Len(rs) /\ q \in 1..LengthOf(rs, l) /\ start[l] + q = start[k] + 1
  BY <1>1 DEF InLine
<1>3. l \in 1..(Len(rs) + 1) /\ LengthOf(rs, l) \in Nat /\ Len(rs) \in Nat
  BY <1>2, LengthIsNat, LenProperties
<1>4. /\ start[k] \in Nat /\ start[l] \in Nat
      /\ l < k => start[l] + LengthOf(rs, l) <= start[k]
  BY <1>3 DEF Layout
<1>. HIDE DEF l, q
<1>. QED
  BY <1>2, <1>3, <1>4

LEMMA NoMultipleBetween ==
    ASSUME NEW c \in Nat, NEW i \in Nat, NEW j \in Nat, i * c < j * c
    PROVE  i * c + c <= j * c
<1>1. i < j
  <2> SUFFICES ASSUME j <= i
               PROVE  FALSE
    OBVIOUS
  <2>1. (i - j) * c >= 0 /\ i * c = (i - j) * c + j * c /\ i * c \in Nat /\ j * c \in Nat
    OBVIOUS
  <2>. QED
    BY <2>1
<1>2. j * c = (j - i - 1) * c + i * c + c /\ (j - i - 1) * c >= 0
  BY <1>1
<1>. QED
  BY <1>2

(* A line that ends with a write holds the header that it begins with. *)
LEMMA HeaderComplete ==
    ASSUME NEW rs \in Seq(Asked), NEW start, Layout(rs, start),
           NEW k \in 1..Len(rs),
           NEW s \in Seq(Pair), s # <<>>, InLine(rs, start, s, start[k]), EndsWrite(rs, s)
    PROVE  Len(s) >= HEADER_SIZE
<1>. SUFFICES ASSUME Len(s) < HEADER_SIZE
              PROVE  FALSE
  BY StreamAssumption, LenProperties
<1>1. Len(s) \in 1..Len(s) /\ Len(s) \in Nat
  BY EmptySeq, LenProperties
<1>2. LengthOf(rs, k) \in Nat /\ HEADER_SIZE <= LengthOf(rs, k) /\ start[k] \in Nat
  BY LengthIsNat, LenProperties DEF Layout
<1>3. s[Len(s)] = <<k, 0 + Len(s)>>
  BY <1>1, <1>2, LineAt, StreamAssumption
<1>4. s[Len(s)][1] = k /\ s[Len(s)][2] = Len(s)
  BY <1>1, <1>3
<1>5. WriteEnd(rs, s[Len(s)])
  BY DEF EndsWrite
<1>6. PICK j \in Nat : Len(s) = HEADER_SIZE + j * CHUNK_SIZE
  BY <1>1, <1>2, <1>4, <1>5, StreamAssumption DEF WriteEnd
<1>7. j * CHUNK_SIZE \in Nat
  BY StreamAssumption
<1>. QED
  BY <1>1, <1>6, <1>7, StreamAssumption

(* Nor does it break off inside of a chunk. *)
LEMMA ChunkComplete ==
    ASSUME NEW rs \in Seq(Asked), NEW start, Layout(rs, start),
           NEW k \in 1..Len(rs), NEW j \in Nat, NEW n \in Nat,
           HEADER_SIZE + j * CHUNK_SIZE + n <= LengthOf(rs, k), n <= CHUNK_SIZE,
           NEW s \in Seq(Pair), s # <<>>,
           InLine(rs, start, s, start[k] + (HEADER_SIZE + j * CHUNK_SIZE)), EndsWrite(rs, s)
    PROVE  Len(s) >= n
<1>. SUFFICES ASSUME Len(s) < n
              PROVE  FALSE
  BY LenProperties
<1>1. Len(s) \in 1..Len(s) /\ Len(s) \in Nat
  BY EmptySeq, LenProperties
<1>2. LengthOf(rs, k) \in Nat /\ start[k] \in Nat /\ j * CHUNK_SIZE \in Nat
  <2>1. LengthOf(rs, k) \in Nat
    BY LengthIsNat
  <2>2. start[k] \in Nat
    BY LenProperties DEF Layout
  <2>3. j * CHUNK_SIZE \in Nat
    BY StreamAssumption
  <2>. QED
    BY <2>1, <2>2, <2>3
<1>. DEFINE p == HEADER_SIZE + j * CHUNK_SIZE
<1>3. p \in Nat /\ p + Len(s) < LengthOf(rs, k) /\ Len(s) < CHUNK_SIZE
  <2>. DEFINE a == j * CHUNK_SIZE
  <2>1. a \in Nat /\ HEADER_SIZE + a + n <= LengthOf(rs, k)
    BY <1>2
  <2>. HIDE DEF a
  <2>2. HEADER_SIZE + a \in Nat /\ HEADER_SIZE + a + Len(s) < LengthOf(rs, k)
    BY <1>1, <1>2, <2>1, StreamAssumption
  <2>. QED
    BY <1>1, <2>2, StreamAssumption DEF a
<1>4. s[Len(s)] = <<k, p + Len(s)>>
  <2>1. InLine(rs, start, s, start[k] + p) /\ p + Len(s) <= LengthOf(rs, k)
    BY <1>1, <1>2, <1>3
  <2>. HIDE DEF p
  <2>. QED
    BY <1>1, <1>2, <1>3, <2>1, LineAt
<1>5. s[Len(s)][1] = k /\ s[Len(s)][2] = p + Len(s)
  BY <1>1, <1>4
<1>6. WriteEnd(rs, s[Len(s)])
  BY DEF EndsWrite
<1>7. PICK i \in Nat : p + Len(s) = HEADER_SIZE + i * CHUNK_SIZE
  BY <1>1, <1>2, <1>3, <1>5, <1>6 DEF WriteEnd
<1>8. i * CHUNK_SIZE \in Nat /\ j * CHUNK_SIZE < i * CHUNK_SIZE
  BY <1>1, <1>2, <1>7, StreamAssumption
<1>. DEFINE a == j * CHUNK_SIZE
            b == i * CHUNK_SIZE
<1>9. a + CHUNK_SIZE <= b
  BY <1>8, NoMultipleBetween, StreamAssumption
<1>10. (HEADER_SIZE + a) + Len(s) = HEADER_SIZE + b /\ a \in Nat /\ b \in Nat
       /\ Len(s) \in Nat /\ Len(s) < CHUNK_SIZE /\ HEADER_SIZE \in Nat /\ CHUNK_SIZE \in Nat
  BY <1>1, <1>2, <1>3, <1>7, <1>8, StreamAssumption
<1>. HIDE DEF a, b, p
<1>. QED
  BY <1>9, <1>10

(* A new packet leaves the line as it is. *)
LEMMA LineGrows ==
    ASSUME NEW rs \in Seq(Asked), NEW r \in Asked, NEW start, Layout(rs, start),
           NEW longer, \A k \in 1..(Len(rs) + 1) : longer[k] = start[k],
           NEW s \in Seq(Pair), NEW n \in Nat, InLine(rs, start, s, n)
    PROVE  /\ InLine(Append(rs, r), longer, s, n)
           /\ EndsWrite(rs, s) => EndsWrite(Append(rs, r), s)
<1>1. /\ Len(Append(rs, r)) = Len(rs) + 1 /\ Len(rs) \in Nat
      /\ \A k \in 1..Len(rs) : LengthOf(Append(rs, r), k) = LengthOf(rs, k)
  BY AppendProperties, LenProperties DEF LengthOf
<1>2. InLine(Append(rs, r), longer, s, n)
  <2> SUFFICES ASSUME NEW i \in 1..Len(s)
               PROVE  /\ s[i][1] \in 1..Len(Append(rs, r))
                      /\ s[i][2] \in 1..LengthOf(Append(rs, r), s[i][1])
                      /\ longer[s[i][1]] + s[i][2] = n + i
    BY DEF InLine
  <2>1. /\ s[i][1] \in 1..Len(rs) /\ s[i][2] \in 1..LengthOf(rs, s[i][1])
        /\ start[s[i][1]] + s[i][2] = n + i
    BY DEF InLine
  <2>2. s[i][1] \in 1..(Len(rs) + 1)
    BY <1>1, <2>1
  <2>. QED
    BY <1>1, <2>1, <2>2
<1>3. ASSUME EndsWrite(rs, s), s # <<>>
      PROVE  WriteEnd(Append(rs, r), s[Len(s)])
  <2>1. Len(s) \in 1..Len(s)
    BY <1>3, EmptySeq, LenProperties
  <2>2. s[Len(s)][1] \in 1..Len(rs)
    BY <2>1 DEF InLine
  <2>3. WriteEnd(rs, s[Len(s)])
    BY <1>3 DEF EndsWrite
  <2>. QED
    BY <1>1, <2>2, <2>3 DEF WriteEnd
<1>. QED
  BY <1>2, <1>3 DEF EndsWrite

LEMMA LayoutGrows ==
    ASSUME NEW rs \in Seq(Asked), NEW r \in Asked, NEW start, Layout(rs, start)
    PROVE  LET n == Len(rs) + 1
           IN Layout(Append(rs, r),
                     [k \in 1..(n + 1) |-> IF k <= n THEN start[k]
                                           ELSE start[n] + (HEADER_SIZE + r.size)])
<1>. DEFINE n  == Len(rs) + 1
            qs == Append(rs, r)
            longer == [k \in 1..(n + 1) |-> IF k <= n THEN start[k]
                                            ELSE start[n] + (HEADER_SIZE + r.size)]
<1>0. /\ Len(qs) = n /\ n \in Nat /\ n >= 1
      /\ \A k \in 1..Len(rs) : LengthOf(qs, k) = LengthOf(rs, k)
      /\ LengthOf(qs, n) = HEADER_SIZE + r.size /\ HEADER_SIZE + r.size \in Nat
  BY AppendProperties, LenProperties, StreamAssumption DEF LengthOf, Asked
<1>1. /\ Len(qs) = n /\ n \in Nat /\ n >= 1
      /\ \A k \in 1..Len(rs) : LengthOf(qs, k) = LengthOf(rs, k) /\ LengthOf(rs, k) \in Nat
      /\ LengthOf(qs, n) = HEADER_SIZE + r.size /\ LengthOf(qs, n) \in Nat
  BY <1>0, LengthIsNat
<1>2. \A k \in 1..n : start[k] \in Nat
  BY DEF Layout
<1>3. longer \in [1..(Len(qs) + 1) -> Nat]
  BY <1>1, <1>2, StreamAssumption DEF Asked
<1>4. \A k \in 1..Len(qs) : longer[k + 1] = longer[k] + LengthOf(qs, k)
  BY <1>1 DEF Layout
<1>5. ASSUME NEW k \in 1..(Len(qs) + 1), NEW l \in 1..(Len(qs) + 1), k < l
      PROVE  longer[k] + LengthOf(qs, k) <= longer[l]
  <2>1. CASE l <= n
    BY <1>1, <1>5, <2>1 DEF Layout
  <2>2. CASE l = n + 1 /\ k = n
    BY <1>1, <1>2, <2>2
  <2>3. CASE l = n + 1 /\ k < n
    <3>1. start[k] + LengthOf(rs, k) <= start[n]
      BY <1>1, <2>3 DEF Layout
    <3>2. longer[k] = start[k] /\ longer[l] = start[n] + (HEADER_SIZE + r.size)
      BY <1>1, <2>3
    <3>3. LengthOf(qs, k) = LengthOf(rs, k)
      BY <1>1, <2>3
    <3>4. start[n] \in Nat /\ HEADER_SIZE + r.size \in Nat
      BY <1>0, <1>2
    <3>5. start[n] <= longer[l]
      <4>. HIDE DEF n, longer
      <4>. QED
        BY <3>2, <3>4
    <3>. QED
      <4>. DEFINE a == start[k]
                  h == LengthOf(rs, k)
                  z == start[n]
                  y == longer[l]
      <4>1. a \in Nat /\ h \in Nat /\ z \in Nat /\ y \in Nat
        BY <1>1, <1>2, <1>3, <2>3, <3>4
      <4>2. a + h <= z /\ z <= y
        BY <3>1, <3>5
      <4>3. longer[k] = a /\ LengthOf(qs, k) = h
        BY <3>2, <3>3
      <4>. HIDE DEF a, h, z, y, longer, n, qs
      <4>4. a + h <= y
        BY <4>1, <4>2
      <4>. QED
        BY <4>3, <4>4 DEF y
  <2>4. l \in Nat /\ k \in Nat /\ n \in Nat /\ l <= n + 1 /\ k < l
    BY <1>1, <1>5
  <2>5. l <= n \/ (l = n + 1 /\ k = n) \/ (l = n + 1 /\ k < n)
    <3>. HIDE DEF n
    <3>. QED
      BY <2>4
  <2>. QED
    BY <2>1, <2>2, <2>3, <2>5
<1>. QED
  BY <1>3, <1>4, <1>5 DEF Layout

-----------------------------------------------------------------------------
(* The writes on their way: each begins where the one before it ended, and  *)
(* the first m end as they were written.                                    *)
Flying(rs, start, fl, off, m) ==
    /\ off \in [1..(Len(fl) + 1) -> Nat]
    /\ \A n \in 1..Len(fl) :
          /\ fl[n] # <<>>
          /\ InLine(rs, start, fl[n], off[n])
          /\ off[n + 1] = off[n] + Len(fl[n])
          /\ n <= m => EndsWrite(rs, fl[n])

LEMMA FlyingAt ==
    ASSUME NEW rs, NEW start, NEW fl \in Seq(Seq(Pair)), NEW off, NEW m,
           Flying(rs, start, fl, off, m), NEW n \in 1..Len(fl)
    PROVE  /\ fl[n] \in Seq(Pair) /\ fl[n] # <<>> /\ Len(fl[n]) \in Nat
           /\ off[n] \in Nat /\ off[n + 1] = off[n] + Len(fl[n])
           /\ InLine(rs, start, fl[n], off[n])
           /\ n <= m => EndsWrite(rs, fl[n])
<1>1. fl[n] \in Seq(Pair)
  OBVIOUS
<1>2. Len(fl[n]) \in Nat /\ Len(fl) \in Nat
  BY <1>1, LenProperties
<1>3. off \in [1..(Len(fl) + 1) -> Nat]
  BY DEF Flying
<1>4. off[n] \in Nat
  BY <1>2, <1>3
<1>5. fl[n] # <<>> /\ InLine(rs, start, fl[n], off[n]) /\ off[n + 1] = off[n] + Len(fl[n])
  BY DEF Flying
<1>6. n <= m => EndsWrite(rs, fl[n])
  BY DEF Flying
<1>. QED
  BY <1>1, <1>2, <1>4, <1>5, <1>6

LEMMA FlyingGrows ==
    ASSUME NEW rs, NEW start, NEW fl \in Seq(Seq(Pair)), NEW off,
           Flying(rs, start, fl, off, Len(fl)),
           NEW u \in Seq(Pair), u # <<>>, InLine(rs, start, u, off[Len(fl) + 1]), EndsWrite(rs, u)
    PROVE  \E o : /\ o[1] = off[1]
                  /\ o[Len(Append(fl, u)) + 1] = off[Len(fl) + 1] + Len(u)
                  /\ Flying(rs, start, Append(fl, u), o, Len(Append(fl, u)))
<1>. DEFINE n == Len(fl) + 1
            o == [i \in 1..(n + 1) |-> IF i <= n THEN off[i] ELSE off[n] + Len(u)]
<1>1. /\ Len(Append(fl, u)) = n /\ n \in Nat /\ n >= 1
      /\ \A i \in 1..Len(fl) : Append(fl, u)[i] = fl[i]
      /\ Append(fl, u)[n] = u
  BY AppendProperties, LenProperties
<1>2. Len(u) \in Nat /\ \A i \in 1..n : off[i] \in Nat
  BY LenProperties DEF Flying
<1>3. o \in [1..(n + 1) -> Nat] /\ \A i \in 1..n : o[i] = off[i]
  BY <1>1, <1>2
<1>4. o[n + 1] = off[n] + Len(u)
  BY <1>1, <1>2
<1>5. ASSUME NEW i \in 1..n
      PROVE  /\ Append(fl, u)[i] # <<>>
             /\ InLine(rs, start, Append(fl, u)[i], o[i])
             /\ o[i + 1] = o[i] + Len(Append(fl, u)[i])
             /\ EndsWrite(rs, Append(fl, u)[i])
  <2>1. CASE i = n
    BY <1>1, <1>3, <1>4, <2>1
  <2>2. CASE i # n
    <3>1. i \in 1..Len(fl) /\ i + 1 \in 1..n
      BY <1>1, <2>2, LenProperties
    <3>2. fl[i] # <<>> /\ InLine(rs, start, fl[i], off[i]) /\ off[i + 1] = off[i] + Len(fl[i])
      BY <3>1 DEF Flying
    <3>3. EndsWrite(rs, fl[i])
      BY <3>1 DEF Flying
    <3>. HIDE DEF o
    <3>. QED
      BY <1>1, <1>3, <3>1, <3>2, <3>3
  <2>. QED
    BY <2>1, <2>2
<1>. HIDE DEF o
<1>6. Flying(rs, start, Append(fl, u), o, Len(Append(fl, u)))
  BY <1>1, <1>3, <1>5 DEF Flying
<1>7. o[1] = off[1]
  BY <1>1, <1>3
<1>. QED
  BY <1>1, <1>4, <1>6, <1>7

LEMMA FlyingLands ==
    ASSUME NEW rs, NEW start, NEW fl \in Seq(Seq(Pair)), fl # <<>>, NEW off, NEW m \in Int,
           Flying(rs, start, fl, off, m)
    PROVE  \E o : /\ o[1] = off[1] + Len(Head(fl))
                  /\ o[Len(Tail(fl)) + 1] = off[Len(fl) + 1]
                  /\ Flying(rs, start, Tail(fl), o, m - 1)
<1>. DEFINE o == [i \in 1..Len(fl) |-> off[i + 1]]
<1>1. /\ Len(fl) \in Nat /\ Len(fl) >= 1 /\ Head(fl) = fl[1]
      /\ Len(Tail(fl)) = Len(fl) - 1 /\ \A i \in 1..(Len(fl) - 1) : Tail(fl)[i] = fl[i + 1]
  BY EmptySeq, LenProperties, HeadTailProperties
<1>2. o \in [1..(Len(Tail(fl)) + 1) -> Nat] /\ \A i \in 1..Len(fl) : o[i] = off[i + 1]
  BY <1>1 DEF Flying
<1>. HIDE DEF o
<1>3. ASSUME NEW i \in 1..(Len(fl) - 1)
      PROVE  /\ Tail(fl)[i] # <<>>
             /\ InLine(rs, start, Tail(fl)[i], o[i])
             /\ o[i + 1] = o[i] + Len(Tail(fl)[i])
             /\ i <= m - 1 => EndsWrite(rs, Tail(fl)[i])
  <2>1. /\ i + 1 \in 1..Len(fl) /\ i \in 1..Len(fl) /\ (i <= m - 1 => i + 1 <= m)
        /\ Tail(fl)[i] = fl[i + 1] /\ o[i] = off[i + 1] /\ o[i + 1] = off[(i + 1) + 1]
    BY <1>1, <1>2
  <2>2. /\ fl[i + 1] # <<>> /\ InLine(rs, start, fl[i + 1], off[i + 1])
        /\ off[(i + 1) + 1] = off[i + 1] + Len(fl[i + 1])
        /\ i + 1 <= m => EndsWrite(rs, fl[i + 1])
    BY <2>1 DEF Flying
  <2>. QED
    BY <2>1, <2>2
<1>4. Flying(rs, start, Tail(fl), o, m - 1)
  BY <1>1, <1>2, <1>3 DEF Flying
<1>5. 1 \in 1..Len(fl) /\ Len(fl) \in 1..Len(fl)
  BY <1>1
<1>6. o[1] = off[1] + Len(Head(fl))
  BY <1>1, <1>2, <1>5 DEF Flying
<1>7. o[Len(Tail(fl)) + 1] = off[Len(fl) + 1]
  BY <1>1, <1>2, <1>5
<1>. QED
  BY <1>4, <1>6, <1>7

LEMMA FlyingKept ==
    ASSUME NEW rs \in Seq(Asked), NEW r \in Asked, NEW start, Layout(rs, start),
           NEW longer, \A k \in 1..(Len(rs) + 1) : longer[k] = start[k],
           NEW fl \in Seq(Seq(Pair)), NEW off, NEW m \in Int, Flying(rs, start, fl, off, m)
    PROVE  Flying(Append(rs, r), longer, fl, off, m)
<1>. SUFFICES ASSUME NEW n \in 1..Len(fl)
              PROVE  /\ InLine(Append(rs, r), longer, fl[n], off[n])
                     /\ n <= m => EndsWrite(Append(rs, r), fl[n])
  BY DEF Flying
<1>1. /\ fl[n] \in Seq(Pair) /\ off[n] \in Nat /\ InLine(rs, start, fl[n], off[n])
      /\ n <= m => EndsWrite(rs, fl[n])
  BY FlyingAt
<1>. QED
  BY <1>1, LineGrows

(* What is left of the writes when the end of them is lost. *)
Cut(fl, n, i) == SubSeq(fl, 1, n - 1) \o (IF i = 0 THEN <<>> ELSE <<SubSeq(fl[n], 1, i)>>)

LEMMA FlyingCut ==
    ASSUME NEW rs, NEW start, NEW fl \in Seq(Seq(Pair)), NEW off,
           Flying(rs, start, fl, off, Len(fl)),
           NEW n \in 1..Len(fl), NEW i \in 0..(Len(fl[n]) - 1)
    PROVE  \E o : o[1] = off[1] /\ Flying(rs, start, Cut(fl, n, i), o, Len(Cut(fl, n, i)) - 1)
<1>. DEFINE b == SubSeq(fl, 1, n - 1)
            c == SubSeq(fl[n], 1, i)
<1>1. fl[n] \in Seq(Pair) /\ Len(fl) \in Nat /\ Len(fl[n]) \in Nat
  BY LenProperties
<1>2. /\ b \in Seq(Seq(Pair)) /\ Len(b) = n - 1
      /\ \A j \in 1..(n - 1) : b[j] = fl[j]
  <2>1. \A j \in 1..(n - 1) : fl[j] \in Seq(Pair)
    BY <1>1
  <2>. QED
    BY <1>1, <2>1, SubSeqProperties
<1>3. InLine(rs, start, fl[n], off[n])
  BY FlyingAt
<1>0. /\ off[n] \in Nat /\ i \in Nat /\ off[n] + i \in Nat /\ n \in Nat
      /\ \A j \in 1..n : off[j] \in Nat
  <2>. HIDE DEF b, c
  <2>1. i \in Nat /\ n \in Nat /\ \A j \in 1..n : j \in 1..Len(fl)
    BY <1>1
  <2>2. \A j \in 1..Len(fl) : off[j] \in Nat
    BY FlyingAt
  <2>3. n \in 1..n
    BY <2>1
  <2>4. off[n] \in Nat
    BY <2>1, <2>2, <2>3
  <2>. DEFINE a == off[n]
  <2>5. a + i \in Nat
    <3>1. a \in Nat
      BY <2>4
    <3>. HIDE DEF a
    <3>. QED
      BY <2>1, <3>1
  <2>. QED
    BY <2>1, <2>2, <2>4, <2>5
<1>4. c \in Seq(Pair) /\ Len(c) = i /\ InLine(rs, start, c, off[n])
  <2>1. i \in 0..Len(fl[n])
    BY <1>1
  <2>. QED
    BY <1>0, <1>1, <1>3, <2>1, LineBegin
<1>. DEFINE g == Cut(fl, n, i)
<1>7. g = b \o (IF i = 0 THEN <<>> ELSE <<c>>)
  BY DEF Cut
<1>. HIDE DEF g
<1>5. CASE i = 0
  <2>1. g = b
    BY <1>7, <1>2, <1>5, ConcatEmptySeq
  <2>. DEFINE o == [j \in 1..n |-> off[j]]
  <2>2. o \in [1..(Len(b) + 1) -> Nat] /\ \A j \in 1..n : o[j] = off[j]
    <3>1. Len(b) + 1 = n /\ \A j \in 1..n : off[j] \in Nat
      BY <1>0, <1>2
    <3>. HIDE DEF b
    <3>. QED
      BY <3>1
  <2>3. o[1] = off[1]
    BY <1>1
  <2>. HIDE DEF o, b
  <2>4. ASSUME NEW j \in 1..Len(b)
        PROVE  /\ b[j] # <<>> /\ InLine(rs, start, b[j], o[j])
               /\ o[j + 1] = o[j] + Len(b[j]) /\ EndsWrite(rs, b[j])
    <3>1. j \in 1..(n - 1) /\ j \in 1..Len(fl) /\ j \in 1..n /\ j + 1 \in 1..n
      BY <1>1, <1>2
    <3>2. b[j] = fl[j]
      BY <1>2, <3>1
    <3>3. /\ fl[j] # <<>> /\ InLine(rs, start, fl[j], off[j])
          /\ off[j + 1] = off[j] + Len(fl[j]) /\ EndsWrite(rs, fl[j])
      BY <3>1, FlyingAt
    <3>. QED
      BY <2>2, <3>1, <3>2, <3>3
  <2>5. Flying(rs, start, b, o, Len(b) - 1)
    BY <2>2, <2>4 DEF Flying
  <2>. QED
    BY <2>1, <2>3, <2>5 DEF g
<1>6. CASE i # 0
  <2>1. g = Append(b, c)
    BY <1>7, <1>2, <1>4, <1>6, AppendIsConcat
  <2>2. /\ Append(b, c) \in Seq(Seq(Pair)) /\ Len(Append(b, c)) = n
        /\ \A j \in 1..(n - 1) : Append(b, c)[j] = fl[j]
        /\ Append(b, c)[n] = c
    <3>1. b \in Seq(Seq(Pair)) /\ c \in Seq(Pair) /\ Len(b) = n - 1 /\ n \in Nat
      BY <1>0, <1>2, <1>4
    <3>2. \A j \in 1..(n - 1) : b[j] = fl[j]
      BY <1>2
    <3>. HIDE DEF b, c
    <3>3. /\ Append(b, c) \in Seq(Seq(Pair)) /\ Len(Append(b, c)) = Len(b) + 1
          /\ \A j \in 1..Len(b) : Append(b, c)[j] = b[j]
          /\ Append(b, c)[Len(b) + 1] = c
      BY <3>1, AppendProperties
    <3>4. Len(b) + 1 = n
      BY <3>1
    <3>. QED
      BY <3>1, <3>2, <3>3, <3>4
  <2>. DEFINE o == [j \in 1..(n + 1) |-> IF j <= n THEN off[j] ELSE off[n] + i]
  <2>3. /\ o \in [1..(n + 1) -> Nat] /\ o[n + 1] = off[n] + i
        /\ \A j \in 1..n : o[j] = off[j]
    <3>2. o \in [1..(n + 1) -> Nat]
      <4>. HIDE DEF b, c
      <4>. QED
        BY <1>0
    <3>3. n + 1 \in 1..(n + 1) /\ ~(n + 1 <= n) /\ \A j \in 1..n : j \in 1..(n + 1) /\ j <= n
      BY <1>0
    <3>. QED
      BY <3>2, <3>3
  <2>. HIDE DEF o, b, c
  <2>4. ASSUME NEW j \in 1..n
        PROVE  /\ Append(b, c)[j] # <<>> /\ InLine(rs, start, Append(b, c)[j], o[j])
               /\ o[j + 1] = o[j] + Len(Append(b, c)[j])
               /\ j <= n - 1 => EndsWrite(rs, Append(b, c)[j])
    <3>1. CASE j = n
      <4>1. c # <<>> /\ n \in 1..n /\ ~(n <= n - 1)
        BY <1>4, <1>6, EmptySeq
      <4>. QED
        BY <1>4, <2>2, <2>3, <3>1, <4>1
    <3>2. CASE j # n
      <4>1. j \in 1..Len(fl) /\ j <= Len(fl) /\ j \in 1..(n - 1) /\ j + 1 \in 1..n
        BY <1>1, <3>2
      <4>2. /\ fl[j] # <<>> /\ InLine(rs, start, fl[j], off[j])
            /\ off[j + 1] = off[j] + Len(fl[j]) /\ EndsWrite(rs, fl[j])
        BY <4>1, FlyingAt
      <4>. QED
        BY <2>2, <2>3, <4>1, <4>2
    <3>. QED
      BY <3>1, <3>2
  <2>5. Flying(rs, start, Append(b, c), o, Len(Append(b, c)) - 1)
    BY <2>2, <2>3, <2>4 DEF Flying
  <2>6. o[1] = off[1]
    BY <2>3
  <2>. QED
    BY <2>1, <2>5, <2>6 DEF g
<1>. QED
  BY <1>5, <1>6

-----------------------------------------------------------------------------
(* Pieces of packets. *)

LEMMA PacketSeq ==
    ASSUME NEW k \in Nat, NEW from \in Nat, NEW to \in Nat, from <= to
    PROVE  /\ PacketBytes(k, from, to) \in Seq(Pair)
           /\ Len(PacketBytes(k, from, to)) = to - from
           /\ \A i \in 1..(to - from) : PacketBytes(k, from, to)[i] = <<k, from + i>>
<1>1. to - from \in Nat
  OBVIOUS
<1>2. \A i \in 1..(to - from) : <<k, from + i>> \in Pair
  BY DEF Pair
<1>. QED
  BY <1>1, <1>2, IsASeq DEF PacketBytes

LEMMA PacketInLine ==
    ASSUME NEW rs \in Seq(Asked), NEW start, Layout(rs, start), NEW k \in 1..Len(rs),
           NEW from \in Nat, NEW to \in Nat, from < to, to <= LengthOf(rs, k)
    PROVE  /\ PacketBytes(k, from, to) # <<>> /\ start[k] + from \in Nat
           /\ InLine(rs, start, PacketBytes(k, from, to), start[k] + from)
           /\ WriteEnd(rs, <<k, to>>) => EndsWrite(rs, PacketBytes(k, from, to))
<1>. DEFINE u == PacketBytes(k, from, to)
<1>1. k \in Nat /\ from <= to /\ LengthOf(rs, k) \in Nat /\ to - from \in 1..(to - from)
  BY LengthIsNat
<1>2. start[k] \in Nat
  BY LenProperties DEF Layout
<1>3. Len(u) = to - from /\ u \in Seq(Pair) /\ \A i \in 1..(to - from) : u[i] = <<k, from + i>>
  BY <1>1, PacketSeq
<1>. HIDE DEF u
<1>4. u # <<>>
  BY <1>1, <1>3, EmptySeq
<1>5. ASSUME NEW i \in 1..Len(u)
      PROVE  /\ u[i][1] \in 1..Len(rs) /\ u[i][2] \in 1..LengthOf(rs, u[i][1])
             /\ start[u[i][1]] + u[i][2] = (start[k] + from) + i
  <2>1. u[i][1] = k /\ u[i][2] = from + i
    BY <1>3
  <2>2. from + i \in 1..LengthOf(rs, k)
    BY <1>1, <1>3
  <2>. DEFINE a == start[k]
  <2>3. a + (from + i) = (a + from) + i
    BY <1>2
  <2>. QED
    BY <2>1, <2>2, <2>3
<1>6. InLine(rs, start, u, start[k] + from)
  BY <1>5 DEF InLine
<1>7. u[Len(u)] = <<k, to>>
  BY <1>1, <1>3
<1>8. WriteEnd(rs, <<k, to>>) => EndsWrite(rs, u)
  BY <1>7 DEF EndsWrite
<1>. QED
  BY <1>2, <1>4, <1>6, <1>8 DEF u

(* What follows in a packet continues it. *)
LEMMA PacketJoined ==
    ASSUME NEW k \in Nat, NEW from \in Nat, NEW mid \in Nat, from <= mid,
           NEW u \in Seq(Pair), \A i \in 1..Len(u) : u[i] = <<k, mid + i>>
    PROVE  PacketBytes(k, from, mid) \o u = PacketBytes(k, from, mid + Len(u))
<1>. DEFINE a == PacketBytes(k, from, mid)
            b == PacketBytes(k, from, mid + Len(u))
<1>1. Len(u) \in Nat /\ mid + Len(u) \in Nat /\ from <= mid + Len(u)
  BY LenProperties
<1>2. a \in Seq(Pair) /\ Len(a) = mid - from /\ \A i \in 1..(mid - from) : a[i] = <<k, from + i>>
  BY PacketSeq
<1>3. /\ b \in Seq(Pair) /\ Len(b) = mid + Len(u) - from
      /\ \A i \in 1..(mid + Len(u) - from) : b[i] = <<k, from + i>>
  <2>. DEFINE to == mid + Len(u)
  <2>1. to \in Nat /\ from <= to
    BY <1>1
  <2>. HIDE DEF to
  <2>2. /\ PacketBytes(k, from, to) \in Seq(Pair) /\ Len(PacketBytes(k, from, to)) = to - from
        /\ \A i \in 1..(to - from) : PacketBytes(k, from, to)[i] = <<k, from + i>>
    BY <2>1, PacketSeq
  <2>. QED
    BY <2>2 DEF to
<1>. HIDE DEF a, b
<1>4. /\ a \o u \in Seq(Pair) /\ Len(a \o u) = Len(a) + Len(u)
      /\ \A i \in 1..(Len(a) + Len(u)) : (a \o u)[i] = IF i <= Len(a) THEN a[i] ELSE u[i - Len(a)]
  BY <1>2, ConcatProperties
<1>5. Len(a \o u) = Len(b)
  BY <1>1, <1>2, <1>3, <1>4
<1>6. ASSUME NEW i \in 1..Len(a \o u)
      PROVE  (a \o u)[i] = b[i]
  <2>1. i \in 1..(mid + Len(u) - from) /\ i \in 1..(Len(a) + Len(u))
    BY <1>1, <1>2, <1>4
  <2>2. b[i] = <<k, from + i>>
    BY <1>3, <2>1
  <2>3. CASE i <= Len(a)
    BY <1>2, <1>4, <2>1, <2>2, <2>3
  <2>4. CASE i > Len(a)
    <3>1. i - Len(a) \in 1..Len(u) /\ mid + (i - Len(a)) = from + i
      BY <1>1, <1>2, <2>1, <2>4
    <3>2. (a \o u)[i] = u[i - Len(a)]
      BY <1>1, <1>2, <1>4, <2>1, <2>4
    <3>. QED
      BY <2>2, <3>1, <3>2
  <2>5. i <= Len(a) \/ i > Len(a)
    BY <1>1, <1>2, <2>1
  <2>. QED
    BY <2>3, <2>4, <2>5
<1>. QED
  BY <1>3, <1>4, <1>5, <1>6, SeqEqual DEF a, b

LEMMA LeastIsLess ==
    ASSUME NEW m \in Nat, NEW n \in Nat
    PROVE  Least(m, n) \in Nat /\ Least(m, n) <= m /\ Least(m, n) <= n
           /\ (Least(m, n) = m \/ (Least(m, n) = n /\ n < m))
BY DEF Least

(* What is taken from the front of a sequence, and what is left of it. *)
LEMMA Taken ==
    ASSUME NEW S, NEW s \in Seq(S), NEW n \in 0..Len(s)
    PROVE  /\ SubSeq(s, 1, n) \in Seq(S) /\ Len(SubSeq(s, 1, n)) = n
           /\ \A i \in 1..n : SubSeq(s, 1, n)[i] = s[i]
           /\ SubSeq(s, n + 1, Len(s)) \in Seq(S) /\ Len(SubSeq(s, n + 1, Len(s))) = Len(s) - n
           /\ \A i \in 1..(Len(s) - n) : SubSeq(s, n + 1, Len(s))[i] = s[n + i]
<1>1. Len(s) \in Nat /\ \A i \in 1..Len(s) : s[i] \in S
  BY LenProperties
<1>2. \A i \in 1..n : s[i] \in S
  BY <1>1
<1>3. \A i \in (n + 1)..Len(s) : s[i] \in S
  BY <1>1
<1>4. /\ SubSeq(s, 1, n) \in Seq(S) /\ Len(SubSeq(s, 1, n)) = n
      /\ \A i \in 1..n : SubSeq(s, 1, n)[i] = s[i]
  BY <1>1, <1>2, SubSeqProperties
<1>5. /\ SubSeq(s, n + 1, Len(s)) \in Seq(S)
      /\ Len(SubSeq(s, n + 1, Len(s))) = IF n + 1 <= Len(s) THEN Len(s) - (n + 1) + 1 ELSE 0
      /\ \A i \in 1..(Len(s) - (n + 1) + 1) : SubSeq(s, n + 1, Len(s))[i] = s[n + 1 + i - 1]
  BY <1>1, <1>3, SubSeqProperties
<1>6. /\ Len(SubSeq(s, n + 1, Len(s))) = Len(s) - n
      /\ \A i \in 1..(Len(s) - n) : SubSeq(s, n + 1, Len(s))[i] = s[n + i]
  BY <1>1, <1>5
<1>. QED
  BY <1>4, <1>5, <1>6

-----------------------------------------------------------------------------
(* The types of the two ends and of what is between them. *)
Received == [head : Seq(Pair), body : Seq(Pair)]

StreamTypeOK ==
    /\ sender \in [at : {"idle", "writing", "waiting", "reading", "closed"},
                   left : Nat, got : Seq(Triple)]
    /\ requests \in Seq(Asked)
    /\ flight \in Seq(Seq(Pair))
    /\ arrived \in Seq(Pair)
    /\ thread \in [at : {"header", "payload", "closed"}, left : Nat, what : Asked,
                   head : Seq(Pair), body : Seq(Pair)]
    /\ handled \in Seq(Received)
    /\ back \in Seq(Triple)
    /\ collected \in Seq([to : Nat, bytes : Seq(Triple)])

LEMMA ResponseSeq ==
    ASSUME NEW k \in Nat, NEW size \in Nat
    PROVE  /\ ResponseTo(k, size) \in Seq(Triple)
           /\ Len(ResponseTo(k, size)) = RESP_HEADER + size
           /\ \A i \in 1..(RESP_HEADER + size) : ResponseTo(k, size)[i] = <<k, i, size>>
<1>1. RESP_HEADER + size \in Nat
  BY StreamAssumption
<1>2. \A i \in 1..(RESP_HEADER + size) : <<k, i, size>> \in Triple
  BY DEF Triple
<1>. QED
  BY <1>1, <1>2, IsASeq DEF ResponseTo

(* What recv and read return, and what they leave. *)
LEMMA RecvTyped ==
    ASSUME arrived \in Seq(Pair), NEW n \in Nat
    PROVE  /\ Least(n, Len(arrived)) \in 0..Len(arrived)
           /\ Recv(n) \in Seq(Pair) /\ Len(Recv(n)) = Least(n, Len(arrived))
           /\ \A i \in 1..Least(n, Len(arrived)) : Recv(n)[i] = arrived[i]
           /\ Consumed(n) => arrived' \in Seq(Pair)
<1>. DEFINE m == Least(n, Len(arrived))
<1>1. m \in 0..Len(arrived)
  <2>1. Len(arrived) \in Nat
    BY LenProperties
  <2>. QED
    BY <2>1 DEF Least
<1>. HIDE DEF m
<1>2. /\ SubSeq(arrived, 1, m) \in Seq(Pair) /\ Len(SubSeq(arrived, 1, m)) = m
      /\ \A i \in 1..m : SubSeq(arrived, 1, m)[i] = arrived[i]
      /\ SubSeq(arrived, m + 1, Len(arrived)) \in Seq(Pair)
  BY <1>1, Taken
<1>. QED
  BY <1>1, <1>2 DEF m, Recv, Consumed

LEMMA TookTyped ==
    ASSUME back \in Seq(Triple), NEW n \in Nat, Took(n)
    PROVE  /\ Given(n) \in Seq(Triple) /\ Len(Given(n)) = n
           /\ \A i \in 1..n : Given(n)[i] = back[i]
           /\ back' \in Seq(Triple) /\ Len(back') = Len(back) - n
           /\ \A i \in 1..(Len(back) - n) : back'[i] = back[n + i]
<1>1. n \in 0..Len(back) /\ Least(n, Len(back)) = n
  BY LenProperties DEF Took, Least
<1>. QED
  BY <1>1, Taken DEF Took, Given

LEMMA ReceiveHeaderTyped ==
    ASSUME StreamTypeOK, ReceiveHeader
    PROVE  StreamTypeOK'
<1>1. arrived' \in Seq(Pair) /\ Recv(HEADER_SIZE) \in Seq(Pair)
  BY RecvTyped, StreamAssumption DEF StreamTypeOK, ReceiveHeader
<1>2. ASSUME NEW r \in Announced(Recv(HEADER_SIZE))
      PROVE  r \in Asked
  <2>1. CASE \E k \in 1..Len(requests) : Recv(HEADER_SIZE) = HeaderOf(k)
    <3>1. PICK k \in 1..Len(requests) : Recv(HEADER_SIZE) = HeaderOf(k)
      BY <2>1
    <3>2. HeaderOf(k)[1] = <<k, 0 + 1>>
      <4>1. k \in Nat /\ 0 \in Nat /\ HEADER_SIZE \in Nat /\ 0 <= HEADER_SIZE
            /\ 1 \in 1..(HEADER_SIZE - 0)
        BY StreamAssumption
      <4>. QED
        BY <4>1, PacketSeq DEF HeaderOf
    <3>3. r = requests[k]
      BY <1>2, <2>1, <3>1, <3>2 DEF Announced
    <3>. QED
      BY <3>3 DEF StreamTypeOK
  <2>2. CASE ~\E k \in 1..Len(requests) : Recv(HEADER_SIZE) = HeaderOf(k)
    BY <1>2, <2>2, StreamAssumption DEF Announced, Asked
  <2>. QED
    BY <2>1, <2>2
<1>3. thread' \in [at : {"header", "payload", "closed"}, left : Nat, what : Asked,
                   head : Seq(Pair), body : Seq(Pair)]
  <2>1. CASE thread' = [thread EXCEPT !.at = "closed"]
    BY <2>1 DEF StreamTypeOK
  <2>2. ASSUME NEW r \in Announced(Recv(HEADER_SIZE)),
               thread' = [at |-> "payload", left |-> r.size, what |-> r,
                          head |-> Recv(HEADER_SIZE), body |-> <<>>]
        PROVE  thread' \in [at : {"header", "payload", "closed"}, left : Nat, what : Asked,
                            head : Seq(Pair), body : Seq(Pair)]
    <3>1. r \in Asked /\ r.size \in Nat /\ <<>> \in Seq(Pair)
      BY <1>2, <2>2, EmptySeq DEF Asked
    <3>. QED
      BY <1>1, <2>2, <3>1
  <2>. QED
    BY <2>1, <2>2 DEF ReceiveHeader
<1>. QED
  BY <1>1, <1>3 DEF ReceiveHeader, StreamTypeOK

LEMMA ReceiveChunkTyped ==
    ASSUME StreamTypeOK, ReceiveChunk
    PROVE  StreamTypeOK'
<1>1. ToGet(thread.left) \in Nat /\ Least(ToGet(thread.left), thread.left) \in Nat
      /\ Least(ToGet(thread.left), thread.left) <= thread.left
  BY LeastIsLess, StreamAssumption DEF StreamTypeOK, ToGet
<1>2. arrived' \in Seq(Pair) /\ Recv(ToGet(thread.left)) \in Seq(Pair)
  BY <1>1, RecvTyped DEF StreamTypeOK, ReceiveChunk
<1>3. thread.body \o Recv(ToGet(thread.left)) \in Seq(Pair)
  BY <1>2, ConcatProperties DEF StreamTypeOK
<1>4. thread.left - Least(ToGet(thread.left), thread.left) \in Nat
  BY <1>1 DEF StreamTypeOK
<1>. QED
  BY <1>2, <1>3, <1>4 DEF ReceiveChunk, StreamTypeOK

LEMMA HandleRequestTyped ==
    ASSUME StreamTypeOK, HandleRequest
    PROVE  StreamTypeOK'
<1>1. handled' \in Seq(Received)
  <2>1. [head |-> thread.head, body |-> thread.body] \in Received
    BY DEF StreamTypeOK, Received
  <2>. QED
    BY <2>1, AppendProperties DEF HandleRequest, StreamTypeOK
<1>2. back' \in Seq(Triple)
  <2>1. CASE UNCHANGED back
    BY <2>1 DEF StreamTypeOK
  <2>2. CASE \E size \in Replies : back' = back \o ResponseTo(Len(handled) + 1, size)
    <3>1. PICK size \in Replies : back' = back \o ResponseTo(Len(handled) + 1, size)
      BY <2>2
    <3>2. size \in Nat /\ Len(handled) + 1 \in Nat
      BY StreamAssumption, LenProperties DEF StreamTypeOK
    <3>3. ResponseTo(Len(handled) + 1, size) \in Seq(Triple)
      BY <3>2, ResponseSeq
    <3>. QED
      BY <3>1, <3>3, ConcatProperties DEF StreamTypeOK
  <2>. QED
    BY <2>1, <2>2 DEF HandleRequest
<1>3. thread' \in [at : {"header", "payload", "closed"}, left : Nat, what : Asked,
                   head : Seq(Pair), body : Seq(Pair)]
  <2>1. <<>> \in Seq(Pair)
    BY EmptySeq
  <2>2. CASE thread' = [thread EXCEPT !.at = "closed"]
    BY <2>2 DEF StreamTypeOK
  <2>3. CASE thread' = [thread EXCEPT !.at = "header", !.head = <<>>, !.body = <<>>]
    BY <2>1, <2>3 DEF StreamTypeOK
  <2>. QED
    BY <2>2, <2>3 DEF HandleRequest
<1>. QED
  BY <1>1, <1>2, <1>3 DEF HandleRequest, StreamTypeOK

-----------------------------------------------------------------------------
(* The invariant.  The client writes what is left of its last request in    *)
(* whole chunks.                                                            *)
WritingOK ==
    sender.at = "writing" =>
        /\ Len(requests) \in 1..Len(requests)
        /\ sender.left <= requests[Len(requests)].size
        /\ \/ sender.left = 0
           \/ \E j \in Nat : requests[Len(requests)].size - sender.left = j * CHUNK_SIZE

LEMMA WriteHeaderTyped ==
    ASSUME StreamTypeOK, NEW r \in Requests, WriteHeader(r)
    PROVE  StreamTypeOK'
<1>1. Len(requests) \in Nat /\ <<>> \in Seq(Triple)
  BY LenProperties, EmptySeq DEF StreamTypeOK
<1>2. r \in Asked /\ r.size \in Nat
  BY StreamAssumption DEF Asked
<1>3. HeaderOf(Len(requests) + 1) \in Seq(Pair)
  <2>1. Len(requests) + 1 \in Nat /\ 0 \in Nat /\ HEADER_SIZE \in Nat /\ 0 <= HEADER_SIZE
    BY <1>1, StreamAssumption
  <2>. QED
    BY <2>1, PacketSeq DEF HeaderOf
<1>4. requests' \in Seq(Asked) /\ flight' \in Seq(Seq(Pair))
  BY <1>2, <1>3, AppendProperties DEF WriteHeader, StreamTypeOK
<1>. QED
  BY <1>1, <1>2, <1>4 DEF WriteHeader, StreamTypeOK

(* Where a chunk begins, and how long it is. *)
Offset == HEADER_SIZE + requests[Len(requests)].size - sender.left
ToSend == Least(sender.left, CHUNK_SIZE)

LEMMA ChunkPlaced ==
    ASSUME StreamTypeOK, WritingOK, sender.at = "writing", sender.left > 0
    PROVE  /\ Len(requests) \in 1..Len(requests) /\ Len(requests) \in Nat
           /\ Offset \in Nat /\ ToSend \in Nat /\ ToSend > 0 /\ sender.left - ToSend \in Nat
           /\ Offset + ToSend \in Nat /\ Offset < Offset + ToSend
           /\ Offset + ToSend = LengthOf(requests, Len(requests)) - (sender.left - ToSend)
           /\ \E j \in Nat : Offset = HEADER_SIZE + j * CHUNK_SIZE
<1>1. Len(requests) \in 1..Len(requests) /\ Len(requests) \in Nat
  BY LenProperties DEF StreamTypeOK, WritingOK
<1>2. requests[Len(requests)] \in Asked
  BY <1>1 DEF StreamTypeOK
<1>3. /\ sender.left \in Nat /\ requests[Len(requests)].size \in Nat
      /\ sender.left <= requests[Len(requests)].size
  BY <1>2 DEF StreamTypeOK, WritingOK, Asked
<1>4. /\ ToSend \in Nat /\ ToSend > 0 /\ ToSend <= sender.left
  BY <1>3, StreamAssumption DEF ToSend, Least
<1>5. PICK j \in Nat : requests[Len(requests)].size - sender.left = j * CHUNK_SIZE
  BY <1>3 DEF WritingOK
<1>6. Offset = HEADER_SIZE + j * CHUNK_SIZE
  <2>. DEFINE a == j * CHUNK_SIZE
  <2>1. requests[Len(requests)].size - sender.left = a
    BY <1>5
  <2>. HIDE DEF a
  <2>2. HEADER_SIZE + requests[Len(requests)].size - sender.left = HEADER_SIZE + a
    BY <1>3, <2>1, StreamAssumption
  <2>. QED
    BY <2>2 DEF a, Offset
<1>7. /\ Offset \in Nat /\ sender.left - ToSend \in Nat
      /\ Offset + ToSend \in Nat /\ Offset < Offset + ToSend
      /\ Offset + ToSend = LengthOf(requests, Len(requests)) - (sender.left - ToSend)
  <2>. DEFINE left == sender.left
              size == requests[Len(requests)].size
  <2>1. /\ left \in Nat /\ size \in Nat /\ left <= size /\ HEADER_SIZE \in Nat
        /\ ToSend \in Nat /\ ToSend > 0 /\ ToSend <= left
    BY <1>3, <1>4, StreamAssumption
  <2>. HIDE DEF left, size
  <2>2. /\ HEADER_SIZE + size - left \in Nat /\ left - ToSend \in Nat
        /\ HEADER_SIZE + size - left + ToSend \in Nat
        /\ HEADER_SIZE + size - left < HEADER_SIZE + size - left + ToSend
        /\ HEADER_SIZE + size - left + ToSend = (HEADER_SIZE + size) - (left - ToSend)
    BY <2>1
  <2>. QED
    BY <2>2 DEF left, size, Offset, LengthOf
<1>. QED
  BY <1>1, <1>4, <1>6, <1>7

LEMMA WriteChunkTyped ==
    ASSUME StreamTypeOK, WritingOK, WriteChunk
    PROVE  StreamTypeOK'
<1>1. sender.at = "writing" /\ sender.left > 0
  BY DEF WriteChunk
<1>2. /\ Len(requests) \in Nat /\ Offset \in Nat /\ ToSend \in Nat /\ sender.left - ToSend \in Nat
      /\ Offset + ToSend \in Nat /\ Offset <= Offset + ToSend
  BY <1>1, ChunkPlaced
<1>3. PacketBytes(Len(requests), Offset, Offset + ToSend) \in Seq(Pair)
  BY <1>2, PacketSeq
<1>4. /\ flight' = Append(flight, PacketBytes(Len(requests), Offset, Offset + ToSend))
      /\ sender' = [sender EXCEPT !.left = @ - ToSend]
  BY DEF WriteChunk, Offset, ToSend
<1>5. flight' \in Seq(Seq(Pair))
  BY <1>3, <1>4, AppendProperties DEF StreamTypeOK
<1>6. sender' \in [at : {"idle", "writing", "waiting", "reading", "closed"},
                   left : Nat, got : Seq(Triple)]
  BY <1>2, <1>4 DEF StreamTypeOK
<1>. QED
  BY <1>5, <1>6 DEF WriteChunk, StreamTypeOK

LEMMA ReadTyped ==
    ASSUME StreamTypeOK, ReadHeader \/ ReadChunk \/ ResponseRead
    PROVE  StreamTypeOK'
<1>1. CASE ReadHeader
  <2>1. /\ Given(RESP_HEADER) \in Seq(Triple) /\ back' \in Seq(Triple)
        /\ RESP_HEADER \in Nat /\ Len(back) >= RESP_HEADER
    BY <1>1, TookTyped, StreamAssumption DEF ReadHeader, StreamTypeOK, Took
  <2>2. back # <<>> /\ Head(back) \in Triple
    BY <2>1, EmptySeq, HeadTailProperties, StreamAssumption DEF StreamTypeOK
  <2>3. Head(back)[3] \in Nat
    BY <2>2 DEF Triple
  <2>. QED
    BY <1>1, <2>1, <2>3 DEF ReadHeader, StreamTypeOK
<1>2. CASE ReadChunk
  <2>. DEFINE toGet == Least(sender.left, CHUNK_SIZE)
  <2>1. toGet \in Nat /\ sender.left - toGet \in Nat
    BY StreamAssumption DEF StreamTypeOK, Least
  <2>2. /\ Took(toGet) /\ sender' = [sender EXCEPT !.left = @ - toGet, !.got = @ \o Given(toGet)]
        /\ UNCHANGED <<requests, flight, arrived, thread, handled, collected>>
    BY <1>2 DEF ReadChunk
  <2>. HIDE DEF toGet
  <2>3. Given(toGet) \in Seq(Triple) /\ back' \in Seq(Triple)
    BY <2>1, <2>2, TookTyped DEF StreamTypeOK
  <2>4. sender.got \o Given(toGet) \in Seq(Triple)
    BY <2>3, ConcatProperties DEF StreamTypeOK
  <2>. QED
    BY <2>1, <2>2, <2>3, <2>4 DEF StreamTypeOK
<1>3. CASE ResponseRead
  <2>1. Len(requests) \in Nat /\ <<>> \in Seq(Triple)
    BY LenProperties, EmptySeq DEF StreamTypeOK
  <2>2. [to |-> Len(requests), bytes |-> sender.got] \in [to : Nat, bytes : Seq(Triple)]
    BY <2>1 DEF StreamTypeOK
  <2>3. collected' \in Seq([to : Nat, bytes : Seq(Triple)])
    BY <1>3, <2>2, AppendProperties DEF ResponseRead, StreamTypeOK
  <2>. QED
    BY <1>3, <2>1, <2>3 DEF ResponseRead, StreamTypeOK
<1>. QED
  BY <1>1, <1>2, <1>3

LEMMA ThreadDiesTyped ==
    ASSUME StreamTypeOK, ThreadDies
    PROVE  StreamTypeOK'
<1>1. PICK n \in 0..Len(back) : back' = SubSeq(back, 1, n)
  BY DEF ThreadDies
<1>2. back' \in Seq(Triple)
  BY <1>1, Taken DEF StreamTypeOK
<1>. QED
  BY <1>2 DEF ThreadDies, StreamTypeOK

LEMMA CutTyped ==
    ASSUME NEW fl \in Seq(Seq(Pair)), NEW n \in 1..Len(fl), NEW i \in 0..(Len(fl[n]) - 1)
    PROVE  Cut(fl, n, i) \in Seq(Seq(Pair))
<1>1. fl[n] \in Seq(Pair)
  OBVIOUS
<1>2. Len(fl) \in Nat /\ Len(fl[n]) \in Nat
  BY <1>1, LenProperties
<1>3. n - 1 \in 0..Len(fl) /\ i \in 0..Len(fl[n])
  BY <1>2
<1>. DEFINE b == SubSeq(fl, 1, n - 1)
            c == SubSeq(fl[n], 1, i)
<1>4. b \in Seq(Seq(Pair))
  BY <1>3, Taken
<1>5. c \in Seq(Pair)
  BY <1>1, <1>3, Taken
<1>. HIDE DEF b, c
<1>6. b \o <<>> = b /\ b \o <<c>> = Append(b, c) /\ Append(b, c) \in Seq(Seq(Pair))
  BY <1>4, <1>5, ConcatEmptySeq, AppendIsConcat, AppendProperties
<1>7. b \o (IF i = 0 THEN <<>> ELSE <<c>>) \in Seq(Seq(Pair))
  BY <1>4, <1>6
<1>. QED
  BY <1>7 DEF b, c, Cut

LEMMA EndTyped ==
    ASSUME StreamTypeOK, Leave \/ ServerIsGone \/ Die
    PROVE  StreamTypeOK'
<1>1. CASE Leave \/ ServerIsGone
  BY <1>1 DEF Leave, ServerIsGone, StreamTypeOK
<1>2. CASE Die
  <2>1. flight \in Seq(Seq(Pair))
    BY DEF StreamTypeOK
  <2>2. \/ flight' = flight
        \/ \E n \in 1..Len(flight) : \E i \in 0..(Len(flight[n]) - 1) : flight' = Cut(flight, n, i)
    BY <1>2 DEF Die, Cut
  <2>3. flight' \in Seq(Seq(Pair))
    BY <2>1, <2>2, CutTyped
  <2>. QED
    BY <1>2, <2>3 DEF Die, StreamTypeOK
<1>. QED
  BY <1>1, <1>2

(* Without Splits a write arrives whole. *)
LEMMA ArrivesWhole ==
    ASSUME StreamTypeOK, ~Splits, Arrive
    PROVE  /\ flight # <<>> /\ Head(flight) \in Seq(Pair)
           /\ arrived' = arrived \o Head(flight) /\ flight' = Tail(flight)
           /\ StreamTypeOK'
<1>1. flight # <<>> /\ Head(flight) \in Seq(Pair) /\ Tail(flight) \in Seq(Seq(Pair))
  BY HeadTailProperties DEF Arrive, StreamTypeOK
<1>2. arrived' = arrived \o SubSeq(Head(flight), 1, Len(Head(flight))) /\ flight' = Tail(flight)
  BY DEF Arrive
<1>3. SubSeq(Head(flight), 1, Len(Head(flight))) = Head(flight)
  BY <1>1, SubSeqFull
<1>4. arrived \o Head(flight) \in Seq(Pair)
  BY <1>1, ConcatProperties DEF StreamTypeOK
<1>. QED
  BY <1>1, <1>2, <1>3, <1>4 DEF Arrive, StreamTypeOK

(* Nothing comes any more. *)
Spent == sender.at = "closed" /\ flight = <<>> /\ arrived = <<>>

(* What the thread has handled, and what it is about to handle. *)
HandledOK ==
    /\ Len(handled) <= Len(requests)
    /\ \A i \in 1..Len(handled) :
          /\ handled[i].head = HeaderOf(i)
          /\ \/ handled[i].body = PayloadOf(i)
             \/ /\ sender.at = "closed" /\ i = Len(handled)
                /\ IsPrefix(handled[i].body, PayloadOf(i))
                /\ thread.at = "closed" \/ (thread.at = "header" /\ Spent)

Coming == Len(handled) + 1

ReceivingOK ==
    thread.at = "payload" =>
        /\ Coming <= Len(requests)
        /\ thread.what = requests[Coming]
        /\ thread.head = HeaderOf(Coming)
        /\ Len(thread.body) <= requests[Coming].size
        /\ thread.body = PacketBytes(Coming, HEADER_SIZE, HEADER_SIZE + Len(thread.body))
        /\ ~Spent => /\ Len(thread.body) + thread.left = requests[Coming].size
                     /\ \/ thread.left = 0
                        \/ \E j \in Nat : Len(thread.body) = j * CHUNK_SIZE

(* How far the thread has read, and how far the client has written. *)
ReadTo(start) ==
    start[Coming] + (IF thread.at = "payload" THEN HEADER_SIZE + Len(thread.body) ELSE 0)
WrittenTo(start) ==
    start[Len(requests) + 1] - (IF sender.at = "writing" THEN sender.left ELSE 0)

(* Only of the last write can the end be missing, once the client is gone. *)
Intact == IF sender.at = "closed" THEN Len(flight) - 1 ELSE Len(flight)

(* Between the two lie the bytes that the thread has not read, in order.    *)
PipeOK(start, off) ==
    /\ Layout(requests, start)
    /\ Flying(requests, start, flight, off, Intact)
    /\ InLine(requests, start, arrived, ReadTo(start))
    /\ off[1] = ReadTo(start) + Len(arrived)
    /\ sender.at # "closed" \/ flight # <<>> => EndsWrite(requests, arrived)
    /\ sender.at # "closed" => off[Len(flight) + 1] = WrittenTo(start)

PipeInv == thread.at # "closed" /\ ~Spent => \E start, off : PipeOK(start, off)

FrameInv == StreamTypeOK /\ HandledOK /\ ReceivingOK /\ WritingOK /\ PipeInv

LEMMA ReadToIsNat ==
    ASSUME StreamTypeOK, HandledOK, NEW start, Layout(requests, start)
    PROVE  /\ Coming \in Nat /\ Coming \in 1..(Len(requests) + 1)
           /\ start[Coming] \in Nat /\ ReadTo(start) \in Nat
<1>1. /\ Len(handled) \in Nat /\ Len(requests) \in Nat /\ Len(thread.body) \in Nat
      /\ Len(handled) <= Len(requests)
  BY LenProperties DEF StreamTypeOK, HandledOK
<1>2. Coming \in Nat /\ Coming \in 1..(Len(requests) + 1)
  BY <1>1 DEF Coming
<1>3. start[Coming] \in Nat
  BY <1>2 DEF Layout
<1>. QED
  BY <1>1, <1>2, <1>3, StreamAssumption DEF ReadTo

(* What the client does besides beginning a packet does not touch what the  *)
(* thread has.                                                              *)
LEMMA ThreadUntouched ==
    ASSUME HandledOK, ReceivingOK, UNCHANGED <<requests, thread, handled>>,
           sender.at = "closed" => sender'.at = "closed", Spent => Spent'
    PROVE  HandledOK' /\ ReceivingOK'
<1>1. HandledOK'
  <2>1. ASSUME NEW i \in 1..Len(handled)
        PROVE  /\ handled'[i].head = HeaderOf(i)
               /\ \/ handled'[i].body = PayloadOf(i)'
                  \/ /\ sender'.at = "closed" /\ i = Len(handled')
                     /\ IsPrefix(handled'[i].body, PayloadOf(i)')
                     /\ thread'.at = "closed" \/ (thread'.at = "header" /\ Spent')
    <3>1. PayloadOf(i)' = PayloadOf(i)
      BY DEF PayloadOf
    <3>2. handled[i].head = HeaderOf(i)
      BY DEF HandledOK
    <3>3. CASE handled[i].body = PayloadOf(i)
      BY <3>1, <3>2, <3>3
    <3>4. CASE handled[i].body # PayloadOf(i)
      <4>1. /\ sender.at = "closed" /\ i = Len(handled) /\ IsPrefix(handled[i].body, PayloadOf(i))
            /\ thread.at = "closed" \/ (thread.at = "header" /\ Spent)
        BY <3>4 DEF HandledOK
      <4>. QED
        BY <3>1, <3>2, <4>1
    <3>. QED
      BY <3>3, <3>4
  <2>2. Len(handled') <= Len(requests')
    BY DEF HandledOK
  <2>. QED
    BY <2>1, <2>2 DEF HandledOK, HeaderOf
<1>2. ReceivingOK'
  <2>1. Coming' = Coming
    BY DEF Coming
  <2>2. ~Spent' => ~Spent
    OBVIOUS
  <2>. HIDE DEF Spent
  <2>. QED
    BY <2>1, <2>2 DEF ReceivingOK, HeaderOf, PacketBytes
<1>. QED
  BY <1>1, <1>2

LEMMA SpentStays ==
    ASSUME StreamTypeOK, Spent, Arrive \/ ClientStream \/ ServerStream
    PROVE  Spent'
<1>1. ASSUME NEW n \in Nat, Consumed(n)
      PROVE  arrived' = <<>>
  <2>1. Len(arrived) = 0
    BY EmptySeq DEF Spent
  <2>2. Least(n, Len(arrived)) \in Nat /\ Len(arrived) < Least(n, Len(arrived)) + 1
    BY <2>1 DEF Least
  <2>. QED
    BY <1>1, <2>2, SubSeqEmpty DEF Consumed
<1>2. CASE ReceiveHeader
  BY <1>1, <1>2, StreamAssumption DEF ReceiveHeader, Spent
<1>3. CASE ReceiveChunk
  <2>1. ToGet(thread.left) \in Nat
    BY StreamAssumption DEF ToGet, Least, StreamTypeOK
  <2>. QED
    BY <1>1, <1>3, <2>1 DEF ReceiveChunk, Spent
<1>4. CASE HandleRequest \/ ThreadDies
  BY <1>4 DEF HandleRequest, ThreadDies, Spent
<1>. QED
  BY <1>2, <1>3, <1>4 DEF Spent, Arrive, ClientStream, ServerStream, WriteHeader, WriteChunk,
     Written, ReadHeader, ReadChunk, ResponseRead, Leave, ServerIsGone, Die

-----------------------------------------------------------------------------
(* A new packet. *)
LEMMA WriteHeaderKeepsThread ==
    ASSUME StreamTypeOK, HandledOK, ReceivingOK, NEW r \in Requests, WriteHeader(r)
    PROVE  HandledOK' /\ ReceivingOK'
<1>1. /\ sender.at = "idle" /\ requests' = Append(requests, r)
      /\ UNCHANGED <<arrived, thread, handled>>
  BY DEF WriteHeader
<1>2. r \in Asked
  BY StreamAssumption DEF Asked
<1>3. /\ Len(requests) \in Nat /\ Len(handled) \in Nat
      /\ Len(requests') = Len(requests) + 1
      /\ \A k \in 1..Len(requests) : requests'[k] = requests[k]
  BY <1>1, <1>2, AppendProperties, LenProperties DEF StreamTypeOK
<1>4. ~Spent
  BY <1>1 DEF Spent
<1>5. HandledOK'
  <2>1. ASSUME NEW i \in 1..Len(handled)
        PROVE  handled[i].head = HeaderOf(i) /\ handled[i].body = PayloadOf(i)'
    <3>1. handled[i].head = HeaderOf(i) /\ handled[i].body = PayloadOf(i)
      BY <1>1 DEF HandledOK
    <3>2. i \in 1..Len(requests)
      BY <1>3 DEF HandledOK
    <3>. QED
      BY <1>3, <3>1, <3>2 DEF PayloadOf
  <2>2. Len(handled) <= Len(requests) + 1
    BY <1>3 DEF HandledOK
  <2>3. HeaderOf(0)' = HeaderOf(0)
    BY DEF HeaderOf
  <2>. QED
    BY <1>1, <1>3, <2>1, <2>2 DEF HandledOK, HeaderOf
<1>6. ReceivingOK'
  <2>1. SUFFICES ASSUME thread.at = "payload"
                 PROVE  ReceivingOK'
    BY <1>1 DEF ReceivingOK
  <2>2. Coming' = Coming
    BY <1>1 DEF Coming
  <2>3. Coming \in 1..Len(requests) /\ Coming <= Len(requests) + 1
    BY <1>3, <2>1 DEF Coming, ReceivingOK
  <2>4. requests'[Coming] = requests[Coming]
    BY <1>3, <2>3
  <2>. QED
    BY <1>1, <1>3, <1>4, <2>1, <2>2, <2>3, <2>4 DEF ReceivingOK, HeaderOf, PacketBytes
<1>. QED
  BY <1>5, <1>6

LEMMA WriteHeaderFlies ==
    ASSUME FrameInv, NEW start, NEW off, PipeOK(start, off), NEW r \in Requests, WriteHeader(r)
    PROVE  \E s, o : PipeOK(s, o)'
<1>. DEFINE n == Len(requests) + 1
            u == HeaderOf(n)
<1>1. /\ sender.at = "idle" /\ requests' = Append(requests, r) /\ flight' = Append(flight, u)
      /\ sender' = [at |-> "writing", left |-> r.size, got |-> <<>>]
      /\ UNCHANGED <<arrived, thread, handled>>
  BY DEF WriteHeader
<1>2. r \in Asked /\ r.size \in Nat
  BY StreamAssumption DEF Asked
<1>3. /\ requests \in Seq(Asked) /\ flight \in Seq(Seq(Pair)) /\ arrived \in Seq(Pair)
      /\ Len(requests) \in Nat /\ Len(flight) \in Nat /\ n \in Nat
      /\ Layout(requests, start)
  BY LenProperties DEF FrameInv, StreamTypeOK, PipeOK
<1>4. /\ Append(requests, r) \in Seq(Asked) /\ Len(Append(requests, r)) = n
      /\ Append(requests, r)[n] = r
  BY <1>2, <1>3, AppendProperties
<1>5. PICK s : s = [k \in 1..(n + 1) |-> IF k <= n THEN start[k]
                                        ELSE start[n] + (HEADER_SIZE + r.size)]
  OBVIOUS
<1>6. /\ Layout(Append(requests, r), s)
      /\ \A k \in 1..n : s[k] = start[k]
  <2>1. Layout(Append(requests, r), s)
    BY <1>2, <1>3, <1>5, LayoutGrows, Zenon
  <2>2. \A k \in 1..n : s[k] = start[k]
    BY <1>3, <1>5
  <2>. QED
    BY <2>1, <2>2
<1>7. s[n + 1] = start[n] + (HEADER_SIZE + r.size)
  BY <1>3, <1>5
<1>8. start[n] \in Nat
  BY <1>3 DEF Layout
<1>9. Coming \in 1..n /\ start[Coming] \in Nat /\ ReadTo(start) \in Nat
  BY <1>3, ReadToIsNat DEF FrameInv
<1>10. ReadTo(s)' = ReadTo(start)
  <2>1. Coming' = Coming /\ s[Coming] = start[Coming]
    BY <1>1, <1>6, <1>9 DEF Coming
  <2>. QED
    BY <1>1, <2>1 DEF ReadTo
<1>11. /\ InLine(Append(requests, r), s, arrived, ReadTo(start))
       /\ EndsWrite(requests, arrived) => EndsWrite(Append(requests, r), arrived)
  BY <1>2, <1>3, <1>6, <1>9, LineGrows DEF PipeOK
<1>12. Flying(Append(requests, r), s, flight, off, Len(flight))
  <2>1. Intact = Len(flight)
    BY <1>1 DEF Intact
  <2>2. Flying(requests, start, flight, off, Len(flight)) /\ Len(flight) \in Int
    BY <1>3, <2>1 DEF PipeOK
  <2>. QED
    BY <1>2, <1>3, <1>6, <2>2, FlyingKept
<1>13. off[Len(flight) + 1] = start[n]
  <2>1. off[Len(flight) + 1] = start[n] - 0
    BY <1>1 DEF PipeOK, WrittenTo
  <2>. QED
    BY <1>8, <2>1
<1>14. /\ u \in Seq(Pair) /\ Len(u) = HEADER_SIZE /\ u # <<>>
       /\ InLine(Append(requests, r), s, u, off[Len(flight) + 1])
       /\ EndsWrite(Append(requests, r), u)
  <2>1. n \in 1..Len(Append(requests, r)) /\ n \in Nat /\ 0 \in Nat /\ HEADER_SIZE \in Nat
        /\ 0 < HEADER_SIZE /\ 0 <= HEADER_SIZE
    BY <1>3, <1>4, StreamAssumption
  <2>2. HEADER_SIZE <= LengthOf(Append(requests, r), n)
    BY <1>2, <1>4, StreamAssumption DEF LengthOf
  <2>3. u \in Seq(Pair) /\ Len(u) = HEADER_SIZE
    <3>1. /\ PacketBytes(n, 0, HEADER_SIZE) \in Seq(Pair)
          /\ Len(PacketBytes(n, 0, HEADER_SIZE)) = HEADER_SIZE - 0
      BY <2>1, PacketSeq
    <3>. QED
      BY <2>1, <3>1 DEF HeaderOf
  <2>4. WriteEnd(Append(requests, r), <<n, HEADER_SIZE>>)
    <3>1. HEADER_SIZE = HEADER_SIZE + 0 * CHUNK_SIZE /\ 0 \in Nat
      BY StreamAssumption
    <3>2. \E j \in Nat : HEADER_SIZE = HEADER_SIZE + j * CHUNK_SIZE
      BY <3>1
    <3>. QED
      BY <3>2 DEF WriteEnd
  <2>5. /\ PacketBytes(n, 0, HEADER_SIZE) # <<>>
        /\ InLine(Append(requests, r), s, PacketBytes(n, 0, HEADER_SIZE), s[n] + 0)
        /\ EndsWrite(Append(requests, r), PacketBytes(n, 0, HEADER_SIZE))
    BY <1>4, <1>6, <2>1, <2>2, <2>4, PacketInLine
  <2>6. s[n] + 0 = off[Len(flight) + 1]
    BY <1>3, <1>6, <1>8, <1>13
  <2>. QED
    BY <2>3, <2>5, <2>6 DEF HeaderOf
<1>. HIDE DEF u
<1>15. PICK o : /\ o[1] = off[1]
                /\ o[Len(Append(flight, u)) + 1] = off[Len(flight) + 1] + Len(u)
                /\ Flying(Append(requests, r), s, Append(flight, u), o, Len(Append(flight, u)))
  BY <1>3, <1>12, <1>14, FlyingGrows
<1>16. o[Len(Append(flight, u)) + 1] = WrittenTo(s)'
  <2>0. Len(requests') = n /\ sender'.at = "writing" /\ sender'.left = r.size
    BY <1>1, <1>4
  <2>1. WrittenTo(s)' = s[n + 1] - r.size
    BY <2>0 DEF WrittenTo
  <2>2. start[n] + HEADER_SIZE = (start[n] + (HEADER_SIZE + r.size)) - r.size
    BY <1>2, <1>8, StreamAssumption
  <2>. QED
    BY <1>7, <1>13, <1>14, <1>15, <2>1, <2>2
<1>17. Intact' = Len(Append(flight, u))
  BY <1>1 DEF Intact
<1>18. EndsWrite(requests, arrived) /\ off[1] = ReadTo(start) + Len(arrived)
  BY <1>1 DEF PipeOK
<1>19. PipeOK(s, o)'
  <2>1. Layout(requests', s) /\ Flying(requests', s, flight', o, Intact')
    BY <1>1, <1>6, <1>15, <1>17
  <2>2. InLine(requests', s, arrived', ReadTo(s)') /\ EndsWrite(requests', arrived')
    BY <1>1, <1>10, <1>11, <1>18
  <2>3. o[1] = ReadTo(s)' + Len(arrived')
    BY <1>1, <1>10, <1>15, <1>18
  <2>4. o[Len(flight') + 1] = WrittenTo(s)'
    BY <1>1, <1>16
  <2>. QED
    BY <2>1, <2>2, <2>3, <2>4 DEF PipeOK
<1>. QED
  BY <1>19

LEMMA WriteHeaderFramed ==
    ASSUME FrameInv, NEW r \in Requests, WriteHeader(r)
    PROVE  FrameInv'
<1>1. StreamTypeOK'
  BY WriteHeaderTyped DEF FrameInv
<1>2. HandledOK' /\ ReceivingOK'
  BY WriteHeaderKeepsThread DEF FrameInv
<1>3. WritingOK'
  <2>1. r \in Asked /\ r.size \in Nat
    BY StreamAssumption DEF Asked
  <2>2. /\ requests' = Append(requests, r)
        /\ sender' = [at |-> "writing", left |-> r.size, got |-> <<>>]
    BY DEF WriteHeader
  <2>3. /\ Len(requests') \in 1..Len(requests') /\ requests'[Len(requests')] = r
    BY <2>1, <2>2, AppendProperties, LenProperties DEF FrameInv, StreamTypeOK
  <2>4. r.size - r.size = 0 * CHUNK_SIZE /\ 0 \in Nat /\ r.size <= r.size
    BY <2>1, StreamAssumption
  <2>5. \E j \in Nat : r.size - r.size = j * CHUNK_SIZE
    BY <2>4
  <2>. QED
    BY <2>2, <2>3, <2>4, <2>5 DEF WritingOK
<1>4. PipeInv'
  <2>1. ~Spent /\ UNCHANGED thread
    BY DEF WriteHeader, Spent
  <2>. SUFFICES ASSUME thread.at # "closed"
                PROVE  \E s, o : PipeOK(s, o)'
    BY <2>1 DEF PipeInv
  <2>2. PICK start, off : PipeOK(start, off)
    BY <2>1 DEF FrameInv, PipeInv
  <2>. QED
    BY <2>2, WriteHeaderFlies
<1>. QED
  BY <1>1, <1>2, <1>3, <1>4 DEF FrameInv

(* A chunk ends with the payload, or is a whole one. *)
LEMMA ChunkEnds ==
    ASSUME StreamTypeOK, WritingOK, sender.at = "writing", sender.left > 0
    PROVE  \/ sender.left - ToSend = 0 /\ Offset + ToSend = LengthOf(requests, Len(requests))
           \/ \E j \in Nat : Offset + ToSend = HEADER_SIZE + j * CHUNK_SIZE
<1>1. /\ sender.left \in Nat /\ ToSend \in Nat /\ LengthOf(requests, Len(requests)) \in Nat
      /\ Offset + ToSend = LengthOf(requests, Len(requests)) - (sender.left - ToSend)
  BY ChunkPlaced, LengthIsNat DEF StreamTypeOK
<1>2. CASE ToSend = sender.left
  BY <1>1, <1>2
<1>3. CASE ToSend = CHUNK_SIZE
  <2>1. PICK j \in Nat : Offset = HEADER_SIZE + j * CHUNK_SIZE
    BY ChunkPlaced
  <2>2. (j + 1) * CHUNK_SIZE = j * CHUNK_SIZE + CHUNK_SIZE /\ j * CHUNK_SIZE \in Nat
    BY StreamAssumption
  <2>. DEFINE a == j * CHUNK_SIZE
  <2>3. Offset + ToSend = HEADER_SIZE + (j + 1) * CHUNK_SIZE
    <3>1. a \in Nat /\ Offset = HEADER_SIZE + a /\ (j + 1) * CHUNK_SIZE = a + CHUNK_SIZE
      BY <2>1, <2>2
    <3>. DEFINE b == (j + 1) * CHUNK_SIZE
    <3>2. b = a + CHUNK_SIZE
      BY <3>1
    <3>. HIDE DEF a, b
    <3>3. Offset + ToSend = HEADER_SIZE + b
      BY <1>3, <3>1, <3>2, StreamAssumption
    <3>. QED
      BY <3>3 DEF b
  <2>4. j + 1 \in Nat
    OBVIOUS
  <2>. QED
    BY <2>3, <2>4
<1>. QED
  BY <1>2, <1>3 DEF ToSend, Least

LEMMA WriteChunkFlies ==
    ASSUME FrameInv, NEW start, NEW off, PipeOK(start, off), WriteChunk
    PROVE  \E s, o : PipeOK(s, o)'
<1>. DEFINE k == Len(requests)
            u == PacketBytes(k, Offset, Offset + ToSend)
<1>1. /\ sender.at = "writing" /\ sender.left > 0
      /\ flight' = Append(flight, u) /\ sender' = [sender EXCEPT !.left = @ - ToSend]
      /\ UNCHANGED <<requests, arrived, thread, handled>>
  BY DEF WriteChunk, Offset, ToSend
<1>2. /\ requests \in Seq(Asked) /\ flight \in Seq(Seq(Pair)) /\ Layout(requests, start)
      /\ sender.left \in Nat
  BY DEF FrameInv, StreamTypeOK, PipeOK
<1>3. /\ k \in 1..Len(requests) /\ k \in Nat /\ Offset \in Nat /\ ToSend \in Nat /\ ToSend > 0
      /\ Offset + ToSend \in Nat /\ Offset < Offset + ToSend
      /\ Offset + ToSend = LengthOf(requests, k) - (sender.left - ToSend)
      /\ sender.left - ToSend \in Nat
  BY <1>1, ChunkPlaced DEF FrameInv
<1>4. LengthOf(requests, k) \in Nat
  BY <1>2, <1>3, LengthIsNat
<1>5. start[k] \in Nat /\ start[k + 1] = start[k] + LengthOf(requests, k)
  BY <1>3 DEF PipeOK, Layout
<1>6. off[Len(flight) + 1] = start[k] + Offset
  <2>. DEFINE a == start[k]
              b == start[k + 1]
              l == LengthOf(requests, k)
              left == sender.left
  <2>1. off[Len(flight) + 1] = b - left
    BY <1>1 DEF PipeOK, WrittenTo
  <2>2. /\ a \in Nat /\ b = a + l /\ l \in Nat /\ left \in Nat /\ left - ToSend \in Nat
        /\ Offset + ToSend = l - (left - ToSend)
    BY <1>2, <1>3, <1>4, <1>5
  <2>. HIDE DEF a, b, l, left
  <2>3. b - left = a + Offset
    BY <1>3, <2>2
  <2>. QED
    BY <2>1, <2>3 DEF a
<1>7. u # <<>> /\ InLine(requests, start, u, start[k] + Offset)
      /\ (WriteEnd(requests, <<k, Offset + ToSend>>) => EndsWrite(requests, u))
  <2>1. Offset + ToSend <= LengthOf(requests, k)
    BY <1>3, <1>4
  <2>. QED
    BY <1>2, <1>3, <2>1, PacketInLine
<1>8. u \in Seq(Pair) /\ Len(u) = ToSend
  <2>1. Offset <= Offset + ToSend /\ (Offset + ToSend) - Offset = ToSend
    BY <1>3
  <2>. QED
    BY <1>3, <2>1, PacketSeq
<1>9. WriteEnd(requests, <<k, Offset + ToSend>>)
  <2>1. \/ Offset + ToSend = LengthOf(requests, k)
        \/ \E j \in Nat : Offset + ToSend = HEADER_SIZE + j * CHUNK_SIZE
    BY <1>1, ChunkEnds DEF FrameInv
  <2>. QED
    BY <2>1 DEF WriteEnd
<1>. HIDE DEF u
<1>10. Flying(requests, start, flight, off, Len(flight))
  BY <1>1 DEF PipeOK, Intact
<1>11. PICK o : /\ o[1] = off[1]
                /\ o[Len(Append(flight, u)) + 1] = off[Len(flight) + 1] + Len(u)
                /\ Flying(requests, start, Append(flight, u), o, Len(Append(flight, u)))
  BY <1>2, <1>6, <1>7, <1>8, <1>9, <1>10, FlyingGrows
<1>12. sender'.at = "writing" /\ sender'.left = sender.left - ToSend
  BY <1>1 DEF FrameInv, StreamTypeOK
<1>13. PipeOK(start, o)'
  <2>1. Layout(requests', start) /\ Flying(requests', start, flight', o, Intact')
    BY <1>1, <1>2, <1>11, <1>12 DEF Intact
  <2>2. ReadTo(start)' = ReadTo(start)
    BY <1>1 DEF ReadTo, Coming
  <2>3. InLine(requests', start, arrived', ReadTo(start)') /\ EndsWrite(requests', arrived')
    BY <1>1, <2>2 DEF PipeOK
  <2>4. o[1] = ReadTo(start)' + Len(arrived')
    BY <1>1, <1>11, <2>2 DEF PipeOK
  <2>5. o[Len(flight') + 1] = WrittenTo(start)'
    <3>. DEFINE a == start[k]
                b == start[k + 1]
                l == LengthOf(requests, k)
                left == sender.left
    <3>1. WrittenTo(start)' = b - (left - ToSend)
      BY <1>1, <1>12 DEF WrittenTo
    <3>2. /\ a \in Nat /\ b = a + l /\ l \in Nat /\ left \in Nat /\ left - ToSend \in Nat
          /\ Offset + ToSend = l - (left - ToSend)
      BY <1>2, <1>3, <1>4, <1>5
    <3>3. o[Len(flight') + 1] = (a + Offset) + ToSend
      BY <1>1, <1>6, <1>8, <1>11
    <3>. HIDE DEF a, b, l, left
    <3>4. (a + Offset) + ToSend = b - (left - ToSend)
      BY <1>3, <3>2
    <3>. QED
      BY <3>1, <3>3, <3>4
  <2>. QED
    BY <2>1, <2>2, <2>3, <2>4, <2>5 DEF PipeOK
<1>. QED
  BY <1>13

LEMMA WriteChunkFramed ==
    ASSUME FrameInv, WriteChunk
    PROVE  FrameInv'
<1>1. StreamTypeOK'
  BY WriteChunkTyped DEF FrameInv
<1>2. /\ sender.at = "writing" /\ sender.left > 0
      /\ sender' = [sender EXCEPT !.left = @ - ToSend]
      /\ UNCHANGED <<requests, arrived, thread, handled>>
  BY DEF WriteChunk, ToSend
<1>3. sender'.at = "writing" /\ sender'.left = sender.left - ToSend
  BY <1>2 DEF FrameInv, StreamTypeOK
<1>4. HandledOK' /\ ReceivingOK'
  BY <1>2, ThreadUntouched DEF FrameInv, Spent
<1>5. WritingOK'
  <2>. DEFINE k == Len(requests)
  <2>1. /\ k \in 1..Len(requests) /\ Offset \in Nat /\ ToSend \in Nat
        /\ sender.left - ToSend \in Nat
        /\ Offset + ToSend = LengthOf(requests, k) - (sender.left - ToSend)
    BY <1>2, ChunkPlaced DEF FrameInv
  <2>2. requests[k].size \in Nat /\ sender.left \in Nat
    BY <2>1, LengthIsNat DEF FrameInv, StreamTypeOK
  <2>3. sender.left - ToSend <= requests[k].size
    BY <1>2, <2>1, <2>2 DEF FrameInv, WritingOK
  <2>4. CASE sender.left - ToSend = 0
    BY <1>2, <1>3, <2>1, <2>3, <2>4 DEF WritingOK
  <2>5. CASE \E j \in Nat : Offset + ToSend = HEADER_SIZE + j * CHUNK_SIZE
    <3>1. PICK j \in Nat : Offset + ToSend = HEADER_SIZE + j * CHUNK_SIZE
      BY <2>5
    <3>. DEFINE a == j * CHUNK_SIZE
                size == requests[k].size
                left == sender.left - ToSend
    <3>2. a \in Nat /\ HEADER_SIZE + a = (HEADER_SIZE + size) - left /\ left \in Nat /\ size \in Nat
      <4>1. a \in Nat
        BY StreamAssumption
      <4>2. HEADER_SIZE + a = (HEADER_SIZE + size) - left
        BY <2>1, <3>1 DEF LengthOf
      <4>. QED
        BY <2>1, <2>2, <4>1, <4>2
    <3>. HIDE DEF a, size, left
    <3>3. size - left = a
      BY <3>2, StreamAssumption
    <3>4. requests[k].size - (sender.left - ToSend) = j * CHUNK_SIZE
      BY <3>3 DEF a, size, left
    <3>. QED
      BY <1>2, <1>3, <2>1, <2>3, <3>4 DEF WritingOK
  <2>. QED
    BY <1>2, <2>4, <2>5, ChunkEnds DEF FrameInv
<1>6. PipeInv'
  <2>1. ~Spent
    BY <1>2 DEF Spent
  <2>. SUFFICES ASSUME thread.at # "closed"
                PROVE  \E s, o : PipeOK(s, o)'
    BY <1>2 DEF PipeInv
  <2>2. PICK start, off : PipeOK(start, off)
    BY <2>1 DEF FrameInv, PipeInv
  <2>. QED
    BY <2>2, WriteChunkFlies
<1>. QED
  BY <1>1, <1>4, <1>5, <1>6 DEF FrameInv

-----------------------------------------------------------------------------
(* What the client does without writing. *)
LEMMA ClientWaitsFramed ==
    ASSUME FrameInv, Written \/ ReadHeader \/ ReadChunk \/ ResponseRead
    PROVE  FrameInv'
<1>1. /\ UNCHANGED <<requests, flight, arrived, thread, handled>>
      /\ sender.at # "closed" /\ sender'.at # "closed" /\ sender'.at # "writing"
      /\ sender.at = "writing" => sender.left = 0
  <2>1. sender \in [at : {"idle", "writing", "waiting", "reading", "closed"},
                    left : Nat, got : Seq(Triple)]
    BY DEF FrameInv, StreamTypeOK
  <2>2. CASE Written
    <3>1. Afterwards(Last(requests)) \in {"idle", "waiting"}
      BY DEF Afterwards
    <3>. QED
      BY <2>1, <2>2, <3>1 DEF Written
  <2>3. CASE ReadHeader
    BY <2>3 DEF ReadHeader
  <2>4. CASE ReadChunk
    BY <2>1, <2>4 DEF ReadChunk
  <2>5. CASE ResponseRead
    BY <2>1, <2>5 DEF ResponseRead
  <2>. QED
    BY <2>2, <2>3, <2>4, <2>5
<1>2. StreamTypeOK'
  <2>1. CASE Written
    <3>1. Afterwards(Last(requests)) \in {"idle", "waiting"}
      BY DEF Afterwards
    <3>. QED
      BY <2>1, <3>1 DEF Written, FrameInv, StreamTypeOK
  <2>. QED
    BY <2>1, ReadTyped DEF FrameInv
<1>3. HandledOK' /\ ReceivingOK'
  BY <1>1, ThreadUntouched DEF FrameInv, Spent
<1>4. WritingOK'
  BY <1>1 DEF WritingOK
<1>5. PipeInv'
  <2>. SUFFICES ASSUME thread.at # "closed"
                PROVE  \E s, o : PipeOK(s, o)'
    BY <1>1 DEF PipeInv
  <2>1. PICK start, off : PipeOK(start, off)
    BY <1>1 DEF FrameInv, PipeInv, Spent
  <2>2. ReadTo(start)' = ReadTo(start) /\ Intact' = Intact
    BY <1>1 DEF ReadTo, Coming, Intact
  <2>3. WrittenTo(start)' = WrittenTo(start)
    <3>1. start[Len(requests) + 1] - 0 = start[Len(requests) + 1] - (IF sender.at = "writing" THEN sender.left ELSE 0)
      BY <1>1
    <3>. QED
      BY <1>1, <3>1 DEF WrittenTo
  <2>4. PipeOK(start, off)'
    <3>1. Layout(requests', start) /\ Flying(requests', start, flight', off, Intact')
      BY <1>1, <2>1, <2>2 DEF PipeOK
    <3>2. InLine(requests', start, arrived', ReadTo(start)') /\ EndsWrite(requests', arrived')
      BY <1>1, <2>1, <2>2 DEF PipeOK
    <3>3. off[1] = ReadTo(start)' + Len(arrived') /\ off[Len(flight') + 1] = WrittenTo(start)'
      BY <1>1, <2>1, <2>2, <2>3 DEF PipeOK
    <3>. QED
      BY <3>1, <3>2, <3>3 DEF PipeOK
  <2>. QED
    BY <2>4
<1>. QED
  BY <1>2, <1>3, <1>4, <1>5 DEF FrameInv

(* The client ends, and loses perhaps the end of what it wrote. *)
LEMMA ClientEndsFramed ==
    ASSUME FrameInv, Leave \/ ServerIsGone \/ Die
    PROVE  FrameInv'
<1>1. /\ UNCHANGED <<requests, arrived, thread, handled>>
      /\ sender.at # "closed" /\ sender'.at = "closed"
  BY DEF Leave, ServerIsGone, Die, FrameInv, StreamTypeOK
<1>2. StreamTypeOK'
  BY EndTyped DEF FrameInv
<1>3. HandledOK' /\ ReceivingOK'
  BY <1>1, ThreadUntouched DEF FrameInv, Spent
<1>4. WritingOK'
  BY <1>1 DEF WritingOK
<1>5. PipeInv'
  <2>. SUFFICES ASSUME thread.at # "closed"
                PROVE  \E s, o : PipeOK(s, o)'
    BY <1>1 DEF PipeInv
  <2>1. PICK start, off : PipeOK(start, off)
    BY <1>1 DEF FrameInv, PipeInv, Spent
  <2>2. ReadTo(start)' = ReadTo(start) /\ Intact' = Len(flight') - 1
    BY <1>1 DEF ReadTo, Coming, Intact
  <2>3. Flying(requests, start, flight, off, Len(flight)) /\ flight \in Seq(Seq(Pair))
    BY <1>1, <2>1 DEF PipeOK, Intact, FrameInv, StreamTypeOK
  <2>4. \E o : o[1] = off[1] /\ Flying(requests, start, flight', o, Len(flight') - 1)
    <3>1. CASE flight' = flight
      <4>1. Flying(requests, start, flight, off, Len(flight) - 1)
        <5>1. Len(flight) \in Nat /\ \A n \in 1..Len(flight) : n <= Len(flight)
          BY <2>3, LenProperties
        <5>. QED
          BY <2>3, <5>1 DEF Flying
      <4>. QED
        BY <3>1, <4>1
    <3>2. CASE \E n \in 1..Len(flight) : \E i \in 0..(Len(flight[n]) - 1) : flight' = Cut(flight, n, i)
      BY <2>3, <3>2, FlyingCut
    <3>. QED
      BY <3>1, <3>2 DEF Leave, ServerIsGone, Die, Cut
  <2>5. PICK o : o[1] = off[1] /\ Flying(requests, start, flight', o, Len(flight') - 1)
    BY <2>4
  <2>6. PipeOK(start, o)'
    <3>1. Layout(requests', start) /\ Flying(requests', start, flight', o, Intact')
      BY <1>1, <2>1, <2>2, <2>5 DEF PipeOK
    <3>2. InLine(requests', start, arrived', ReadTo(start)') /\ EndsWrite(requests', arrived')
      BY <1>1, <2>1, <2>2 DEF PipeOK
    <3>3. o[1] = ReadTo(start)' + Len(arrived')
      BY <1>1, <2>1, <2>2, <2>5 DEF PipeOK
    <3>. QED
      BY <1>1, <3>1, <3>2, <3>3 DEF PipeOK
  <2>. QED
    BY <2>6
<1>. QED
  BY <1>2, <1>3, <1>4, <1>5 DEF FrameInv

-----------------------------------------------------------------------------
(* The oldest write arrives. *)
LEMMA ArriveFramed ==
    ASSUME FrameInv, ~Splits, Arrive
    PROVE  FrameInv'
<1>1. /\ flight # <<>> /\ Head(flight) \in Seq(Pair)
      /\ arrived' = arrived \o Head(flight) /\ flight' = Tail(flight)
      /\ StreamTypeOK'
  BY ArrivesWhole DEF FrameInv
<1>2. UNCHANGED <<sender, requests, thread, handled, back, collected>>
  BY DEF Arrive
<1>3. HandledOK' /\ ReceivingOK'
  BY <1>1, <1>2, ThreadUntouched DEF FrameInv, Spent
<1>4. WritingOK'
  BY <1>2 DEF FrameInv, WritingOK
<1>5. PipeInv'
  <2>. SUFFICES ASSUME thread.at # "closed"
                PROVE  \E s, o : PipeOK(s, o)'
    BY <1>2 DEF PipeInv
  <2>1. PICK start, off : PipeOK(start, off)
    BY <1>1 DEF FrameInv, PipeInv, Spent
  <2>2. /\ flight \in Seq(Seq(Pair)) /\ arrived \in Seq(Pair) /\ Len(flight) \in Nat
        /\ Len(flight) >= 1 /\ Len(arrived) \in Nat
        /\ Head(flight) = flight[1] /\ Len(Tail(flight)) = Len(flight) - 1
    BY <1>1, LenProperties, EmptySeq, HeadTailProperties DEF FrameInv, StreamTypeOK
  <2>3. Intact \in Int /\ Intact' = Intact - 1
    BY <1>1, <1>2, <2>2 DEF Intact
  <2>4. PICK o : /\ o[1] = off[1] + Len(Head(flight))
                 /\ o[Len(Tail(flight)) + 1] = off[Len(flight) + 1]
                 /\ Flying(requests, start, Tail(flight), o, Intact - 1)
    <3>1. Flying(requests, start, flight, off, Intact)
      BY <2>1 DEF PipeOK
    <3>. QED
      BY <1>1, <2>2, <2>3, <3>1, FlyingLands
  <2>5. /\ InLine(requests, start, flight[1], off[1]) /\ off[1] \in Nat
        /\ 1 <= Intact => EndsWrite(requests, flight[1])
    <3>1. Flying(requests, start, flight, off, Intact) /\ 1 \in 1..Len(flight)
      BY <2>1, <2>2 DEF PipeOK
    <3>. QED
      BY <2>2, <3>1, FlyingAt
  <2>6. /\ ReadTo(start) \in Nat /\ off[1] = ReadTo(start) + Len(arrived)
        /\ InLine(requests, start, arrived, ReadTo(start)) /\ EndsWrite(requests, arrived)
    BY <1>1, <2>1, ReadToIsNat DEF FrameInv, PipeOK
  <2>7. /\ Len(arrived \o Head(flight)) = Len(arrived) + Len(Head(flight))
        /\ InLine(requests, start, arrived \o Head(flight), ReadTo(start))
        /\ EndsWrite(requests, arrived) /\ EndsWrite(requests, Head(flight))
             => EndsWrite(requests, arrived \o Head(flight))
    <3>1. InLine(requests, start, Head(flight), ReadTo(start) + Len(arrived))
      BY <2>2, <2>5, <2>6
    <3>2. Len(arrived \o Head(flight)) = Len(arrived) + Len(Head(flight))
      BY <1>1, <2>2, ConcatProperties
    <3>3. InLine(requests, start, arrived \o Head(flight), ReadTo(start))
      BY <1>1, <2>2, <2>6, <3>1, LineJoined
    <3>4. ASSUME EndsWrite(requests, arrived), EndsWrite(requests, Head(flight))
          PROVE  EndsWrite(requests, arrived \o Head(flight))
      BY <1>1, <2>2, <2>6, <3>1, <3>4, LineJoined
    <3>. QED
      BY <3>2, <3>3, <3>4
  <2>8. sender.at # "closed" \/ Tail(flight) # <<>> => 1 <= Intact
    <3>1. Tail(flight) # <<>> => Len(Tail(flight)) # 0
      BY <1>1, HeadTailProperties, EmptySeq DEF FrameInv, StreamTypeOK
    <3>. QED
      BY <2>2, <3>1 DEF Intact
  <2>9. ReadTo(start)' = ReadTo(start) /\ WrittenTo(start)' = WrittenTo(start)
    BY <1>2 DEF ReadTo, WrittenTo, Coming
  <2>10. Len(Head(flight)) \in Nat
    BY <1>1, LenProperties
  <2>11. PipeOK(start, o)'
    <3>1. Layout(requests', start) /\ Flying(requests', start, flight', o, Intact')
      BY <1>1, <1>2, <2>1, <2>3, <2>4 DEF PipeOK
    <3>2. InLine(requests', start, arrived', ReadTo(start)')
      BY <1>1, <1>2, <2>7, <2>9
    <3>3. o[1] = ReadTo(start)' + Len(arrived')
      BY <1>1, <2>2, <2>4, <2>6, <2>7, <2>9, <2>10
    <3>4. sender'.at # "closed" \/ flight' # <<>> => EndsWrite(requests', arrived')
      BY <1>1, <1>2, <2>2, <2>5, <2>6, <2>7, <2>8
    <3>5. sender'.at # "closed" => o[Len(flight') + 1] = WrittenTo(start)'
      BY <1>1, <1>2, <2>1, <2>4, <2>9 DEF PipeOK
    <3>. QED
      BY <3>1, <3>2, <3>3, <3>4, <3>5 DEF PipeOK
  <2>. QED
    BY <2>11
<1>. QED
  BY <1>1, <1>3, <1>4, <1>5 DEF FrameInv

-----------------------------------------------------------------------------
(* The thread dies. *)
LEMMA ThreadDiesFramed ==
    ASSUME FrameInv, ThreadDies
    PROVE  FrameInv'
<1>1. StreamTypeOK'
  BY ThreadDiesTyped DEF FrameInv
<1>2. UNCHANGED <<sender, requests, flight, arrived, handled>> /\ thread'.at = "closed"
  BY DEF ThreadDies, FrameInv, StreamTypeOK
<1>3. HandledOK'
  <2>1. ASSUME NEW i \in 1..Len(handled)
        PROVE  PayloadOf(i)' = PayloadOf(i) /\ HeaderOf(i)' = HeaderOf(i)
    BY <1>2 DEF PayloadOf, HeaderOf, PacketBytes
  <2>. QED
    BY <1>2, <2>1 DEF FrameInv, HandledOK, HeaderOf
<1>4. ReceivingOK' /\ WritingOK' /\ PipeInv'
  BY <1>2 DEF FrameInv, ReceivingOK, WritingOK, PipeInv
<1>. QED
  BY <1>1, <1>3, <1>4 DEF FrameInv

(* The thread takes n bytes of what has arrived.  They are the next bytes   *)
(* of the packet, and the line goes on after them.                          *)
LEMMA RecvFramed ==
    ASSUME StreamTypeOK, NEW start, NEW off, PipeOK(start, off),
           HandledOK, NEW n \in Nat, Consumed(n), UNCHANGED <<sender, requests, flight>>,
           ReadTo(start)' = ReadTo(start) + Least(n, Len(arrived))
    PROVE  PipeOK(start, off)'
<1>. DEFINE m == Least(n, Len(arrived))
<1>1. m \in 0..Len(arrived) /\ arrived \in Seq(Pair)
  BY RecvTyped DEF StreamTypeOK
<1>2. ReadTo(start) \in Nat /\ InLine(requests, start, arrived, ReadTo(start))
  BY ReadToIsNat DEF PipeOK
<1>3. arrived' = SubSeq(arrived, m + 1, Len(arrived))
  BY DEF Consumed
<1>. HIDE DEF m
<1>4. /\ Len(arrived') = Len(arrived) - m
      /\ InLine(requests, start, arrived', ReadTo(start) + m)
      /\ EndsWrite(requests, arrived) => EndsWrite(requests, arrived')
  <2>. DEFINE rest == SubSeq(arrived, m + 1, Len(arrived))
  <2>1. Len(rest) = Len(arrived) - m
    BY <1>1, <1>2, LinePart
  <2>2. InLine(requests, start, rest, ReadTo(start) + m)
    BY <1>1, <1>2, LinePart
  <2>3. ASSUME EndsWrite(requests, arrived)
        PROVE  EndsWrite(requests, rest)
    BY <1>1, <1>2, <2>3, LinePart
  <2>. QED
    BY <1>3, <2>1, <2>2, <2>3
<1>5. ReadTo(start)' = ReadTo(start) + m
  BY DEF m
<1>6. WrittenTo(start)' = WrittenTo(start) /\ Intact' = Intact
  BY DEF WrittenTo, Intact
<1>7. Layout(requests', start) /\ Flying(requests', start, flight', off, Intact')
  BY <1>6 DEF PipeOK
<1>8. InLine(requests', start, arrived', ReadTo(start)')
  BY <1>4, <1>5
<1>9. off[1] = ReadTo(start)' + Len(arrived')
  <2>1. off[1] = ReadTo(start) + Len(arrived) /\ Len(arrived) \in Nat /\ m \in Nat
    BY <1>1, LenProperties DEF PipeOK
  <2>. QED
    BY <1>2, <1>4, <1>5, <2>1
<1>10. sender'.at # "closed" \/ flight' # <<>> => EndsWrite(requests', arrived')
  BY <1>4 DEF PipeOK
<1>11. sender'.at # "closed" => off[Len(flight') + 1] = WrittenTo(start)'
  BY <1>6 DEF PipeOK
<1>. QED
  BY <1>7, <1>8, <1>9, <1>10, <1>11 DEF PipeOK

(* A header that was received whole is the next one, and it announces its   *)
(* own request.                                                             *)
LEMMA HeaderReceived ==
    ASSUME FrameInv, thread.at = "header", Len(Recv(HEADER_SIZE)) = HEADER_SIZE
    PROVE  /\ ~Spent /\ Coming \in 1..Len(requests)
           /\ Recv(HEADER_SIZE) = HeaderOf(Coming)
           /\ Announced(Recv(HEADER_SIZE)) = {requests[Coming]}
<1>. DEFINE head == Recv(HEADER_SIZE)
<1>1. HEADER_SIZE \in Nat /\ HEADER_SIZE >= 1
  BY StreamAssumption
<1>2. /\ requests \in Seq(Asked) /\ arrived \in Seq(Pair) /\ Len(arrived) \in Nat
      /\ Len(requests) \in Nat
  BY LenProperties DEF FrameInv, StreamTypeOK
<1>3. /\ head \in Seq(Pair) /\ Least(HEADER_SIZE, Len(arrived)) = HEADER_SIZE
      /\ \A i \in 1..HEADER_SIZE : head[i] = arrived[i]
  BY <1>1, <1>2, RecvTyped
<1>4. HEADER_SIZE <= Len(arrived) /\ arrived # <<>>
  BY <1>1, <1>2, <1>3, EmptySeq DEF Least
<1>5. ~Spent
  BY <1>4 DEF Spent
<1>6. PICK start, off : PipeOK(start, off)
  BY <1>5 DEF FrameInv, PipeInv
<1>7. /\ Layout(requests, start) /\ Coming \in 1..(Len(requests) + 1) /\ Coming \in Nat
      /\ start[Coming] \in Nat
  BY <1>6, ReadToIsNat DEF FrameInv, PipeOK
<1>8. InLine(requests, start, arrived, start[Coming] + 0)
  BY <1>6 DEF PipeOK, ReadTo
<1>9. InLine(requests, start, arrived, start[Coming])
  BY <1>7, <1>8
<1>10. Coming \in 1..Len(requests)
  <2>1. Coming <= Len(requests)
    BY <1>2, <1>4, <1>7, <1>9, LineInside
  <2>. QED
    BY <1>2, <1>7, <2>1
<1>11. LengthOf(requests, Coming) \in Nat /\ HEADER_SIZE <= LengthOf(requests, Coming)
  BY <1>2, <1>10, LengthIsNat
<1>12. ASSUME NEW i \in 1..HEADER_SIZE
       PROVE  head[i] = <<Coming, 0 + i>>
  <2>1. i \in 1..Len(arrived) /\ 0 + i <= LengthOf(requests, Coming) /\ 0 \in Nat
    BY <1>1, <1>2, <1>4, <1>11
  <2>2. arrived[i] = <<Coming, 0 + i>>
    BY <1>2, <1>7, <1>8, <1>10, <2>1, LineAt
  <2>. QED
    BY <1>3, <2>2
<1>13. head = HeaderOf(Coming)
  <2>1. /\ PacketBytes(Coming, 0, HEADER_SIZE) \in Seq(Pair)
        /\ Len(PacketBytes(Coming, 0, HEADER_SIZE)) = HEADER_SIZE - 0
        /\ \A i \in 1..(HEADER_SIZE - 0) : PacketBytes(Coming, 0, HEADER_SIZE)[i] = <<Coming, 0 + i>>
    <3>1. 0 \in Nat /\ 0 <= HEADER_SIZE
      BY <1>1
    <3>. QED
      BY <1>1, <1>7, <3>1, PacketSeq
  <2>2. Len(head) = HEADER_SIZE /\ HEADER_SIZE - 0 = HEADER_SIZE
    BY <1>1
  <2>. DEFINE h == PacketBytes(Coming, 0, HEADER_SIZE)
  <2>. HIDE DEF head, h
  <2>3. Len(head) = Len(h) /\ head \in Seq(Pair) /\ h \in Seq(Pair)
    BY <1>3, <2>1, <2>2 DEF h
  <2>4. \A i \in 1..Len(head) : head[i] = h[i]
    BY <1>12, <2>1, <2>2 DEF h
  <2>5. head = h
    BY <2>3, <2>4, SeqEqual
  <2>. QED
    BY <2>5 DEF h, HeaderOf
<1>14. Announced(head) = {requests[Coming]}
  <2>1. head[1][1] = Coming
    BY <1>1, <1>12
  <2>2. \E k \in 1..Len(requests) : head = HeaderOf(k)
    BY <1>10, <1>13
  <2>. QED
    BY <2>1, <2>2 DEF Announced
<1>. QED
  BY <1>5, <1>10, <1>13, <1>14

LEMMA ReceiveHeaderFramed ==
    ASSUME FrameInv, ReceiveHeader
    PROVE  FrameInv'
<1>1. StreamTypeOK'
  BY ReceiveHeaderTyped DEF FrameInv
<1>2. /\ thread.at = "header" /\ Consumed(HEADER_SIZE)
      /\ UNCHANGED <<sender, requests, flight, handled>>
  BY DEF ReceiveHeader
<1>3. WritingOK'
  BY <1>2 DEF FrameInv, WritingOK
<1>4. Spent => Spent'
  BY SpentStays DEF FrameInv, ServerStream
<1>5. Coming' = Coming /\ \A i : HeaderOf(i)' = HeaderOf(i) /\ PayloadOf(i)' = PayloadOf(i)
  BY <1>2 DEF Coming, HeaderOf, PayloadOf, PacketBytes
<1>6. CASE thread' = [thread EXCEPT !.at = "closed"]
  <2>1. thread'.at = "closed"
    BY <1>6 DEF FrameInv, StreamTypeOK
  <2>2. HandledOK'
    BY <1>2, <1>5, <2>1 DEF FrameInv, HandledOK
  <2>3. ReceivingOK' /\ PipeInv'
    BY <2>1 DEF ReceivingOK, PipeInv
  <2>. QED
    BY <1>1, <1>3, <2>2, <2>3 DEF FrameInv
<1>7. ASSUME Len(Recv(HEADER_SIZE)) = HEADER_SIZE, NEW r \in Announced(Recv(HEADER_SIZE)),
             thread' = [at |-> "payload", left |-> r.size, what |-> r,
                        head |-> Recv(HEADER_SIZE), body |-> <<>>]
      PROVE  FrameInv'
  <2>1. /\ ~Spent /\ Coming \in 1..Len(requests)
        /\ Recv(HEADER_SIZE) = HeaderOf(Coming) /\ r = requests[Coming]
    BY <1>2, <1>7, HeaderReceived
  <2>2. requests \in Seq(Asked) /\ arrived \in Seq(Pair) /\ Len(requests) \in Nat
    BY LenProperties DEF FrameInv, StreamTypeOK
  <2>3. r.size \in Nat
    BY <2>1, <2>2, LengthIsNat
  <2>4. /\ thread'.at = "payload" /\ thread'.left = r.size /\ thread'.what = r
        /\ thread'.head = HeaderOf(Coming) /\ thread'.body = <<>> /\ Len(thread'.body) = 0
    BY <1>7, <2>1
  <2>5. HandledOK'
    <3>1. \A i \in 1..Len(handled) : handled[i].body = PayloadOf(i)
      BY <1>2, <2>1 DEF FrameInv, HandledOK
    <3>. QED
      BY <1>2, <1>5, <3>1 DEF FrameInv, HandledOK
  <2>6. ReceivingOK'
    <3>1. PacketBytes(Coming, HEADER_SIZE, HEADER_SIZE + 0) = <<>>
      <4>1. /\ Coming \in Nat /\ HEADER_SIZE \in Nat /\ HEADER_SIZE + 0 = HEADER_SIZE
            /\ HEADER_SIZE <= HEADER_SIZE /\ HEADER_SIZE - HEADER_SIZE = 0
        BY <2>1, <2>2, StreamAssumption
      <4>2. /\ PacketBytes(Coming, HEADER_SIZE, HEADER_SIZE) \in Seq(Pair)
            /\ Len(PacketBytes(Coming, HEADER_SIZE, HEADER_SIZE)) = HEADER_SIZE - HEADER_SIZE
        BY <4>1, PacketSeq
      <4>. QED
        BY <4>1, <4>2, EmptySeq
    <3>2. 0 = 0 * CHUNK_SIZE /\ 0 \in Nat /\ 0 + r.size = r.size /\ 0 <= r.size
      BY <2>3, StreamAssumption
    <3>3. \E j \in Nat : Len(thread'.body) = j * CHUNK_SIZE
      BY <2>4, <3>2
    <3>4. /\ Coming' <= Len(requests') /\ thread'.what = requests'[Coming']
          /\ thread'.head = HeaderOf(Coming)' /\ Len(thread'.body) <= requests'[Coming'].size
          /\ Len(thread'.body) + thread'.left = requests'[Coming'].size
      BY <1>2, <1>5, <2>1, <2>2, <2>4, <3>2
    <3>5. thread'.body = PacketBytes(Coming', HEADER_SIZE, HEADER_SIZE + Len(thread'.body))
      BY <1>5, <2>4, <3>1
    <3>. QED
      BY <1>5, <2>4, <3>3, <3>4, <3>5 DEF ReceivingOK, HeaderOf
  <2>7. PipeInv'
    <3>1. PICK start, off : PipeOK(start, off)
      BY <1>2, <2>1 DEF FrameInv, PipeInv
    <3>2. start[Coming] \in Nat
      BY <3>1, ReadToIsNat DEF FrameInv, PipeOK
    <3>3. Least(HEADER_SIZE, Len(arrived)) = HEADER_SIZE /\ HEADER_SIZE \in Nat
      BY <1>7, <2>2, RecvTyped, StreamAssumption
    <3>4. ReadTo(start)' = ReadTo(start) + Least(HEADER_SIZE, Len(arrived))
      <4>1. ReadTo(start) = start[Coming] + 0
        BY <1>2 DEF ReadTo
      <4>2. ReadTo(start)' = start[Coming] + (HEADER_SIZE + 0)
        BY <1>5, <2>4 DEF ReadTo
      <4>. QED
        BY <3>2, <3>3, <4>1, <4>2
    <3>5. PipeOK(start, off)'
      BY <1>2, <3>1, <3>3, <3>4, RecvFramed DEF FrameInv
    <3>. QED
      BY <3>5 DEF PipeInv
  <2>. QED
    BY <1>1, <1>3, <2>5, <2>6, <2>7 DEF FrameInv
<1>. QED
  BY <1>6, <1>7 DEF ReceiveHeader

LEMMA ToGetPlaced ==
    ASSUME FrameInv, thread.at = "payload", thread.left > 0
    PROVE  /\ requests \in Seq(Asked) /\ arrived \in Seq(Pair) /\ Len(arrived) \in Nat
           /\ Coming \in Nat /\ Coming \in 1..Len(requests)
           /\ requests[Coming].size \in Nat /\ Len(thread.body) \in Nat
           /\ ToGet(thread.left) \in Nat /\ ToGet(thread.left) > 0
           /\ ToGet(thread.left) <= thread.left /\ ToGet(thread.left) <= CHUNK_SIZE
<1>1. /\ requests \in Seq(Asked) /\ arrived \in Seq(Pair) /\ Len(arrived) \in Nat
      /\ Len(thread.body) \in Nat /\ Len(handled) \in Nat /\ Len(requests) \in Nat
  BY LenProperties DEF FrameInv, StreamTypeOK
<1>2. Coming \in Nat /\ Coming \in 1..Len(requests)
  BY <1>1 DEF Coming, FrameInv, ReceivingOK
<1>3. requests[Coming].size \in Nat
  BY <1>1, <1>2, LengthIsNat
<1>4. /\ ToGet(thread.left) \in Nat /\ ToGet(thread.left) > 0
      /\ ToGet(thread.left) <= thread.left /\ ToGet(thread.left) <= CHUNK_SIZE
  BY StreamAssumption DEF ToGet, Least, FrameInv, StreamTypeOK
<1>. QED
  BY <1>1, <1>2, <1>3, <1>4

(* What recv returns are the next bytes of the payload, and as many as were *)
(* asked for, unless nothing is to come.                                    *)
LEMMA ChunkReceived ==
    ASSUME FrameInv, thread.at = "payload", thread.left > 0, ~Spent, CanRecv
    PROVE  /\ \A i \in 1..Len(Recv(ToGet(thread.left))) :
                Recv(ToGet(thread.left))[i] = <<Coming, (HEADER_SIZE + Len(thread.body)) + i>>
           /\ \/ Len(Recv(ToGet(thread.left))) = ToGet(thread.left)
              \/ /\ Len(Recv(ToGet(thread.left))) = Len(arrived)
                 /\ Len(arrived) < ToGet(thread.left)
                 /\ sender.at = "closed" /\ flight = <<>>
<1>. DEFINE n == ToGet(thread.left)
            p == HEADER_SIZE + Len(thread.body)
            size == requests[Coming].size
<1>1. /\ requests \in Seq(Asked) /\ arrived \in Seq(Pair) /\ Len(arrived) \in Nat
      /\ Coming \in Nat /\ Coming \in 1..Len(requests) /\ size \in Nat /\ p \in Nat
      /\ Len(thread.body) \in Nat /\ n \in Nat /\ n > 0 /\ n <= thread.left /\ n <= CHUNK_SIZE
      /\ thread.left \in Nat
  BY ToGetPlaced, StreamAssumption DEF FrameInv, StreamTypeOK
<1>2. Len(thread.body) + thread.left = size /\ \E j \in Nat : Len(thread.body) = j * CHUNK_SIZE
  BY DEF FrameInv, ReceivingOK
<1>3. LengthOf(requests, Coming) = HEADER_SIZE + size /\ p + n <= HEADER_SIZE + size
  <2>. HIDE DEF n, size
  <2>. QED
    BY <1>1, <1>2, StreamAssumption DEF LengthOf, size
<1>4. PICK start, off : PipeOK(start, off)
  BY DEF FrameInv, PipeInv
<1>5. Layout(requests, start) /\ start[Coming] \in Nat
  BY <1>4, ReadToIsNat DEF FrameInv, PipeOK
<1>6. InLine(requests, start, arrived, start[Coming] + p)
  BY <1>4 DEF PipeOK, ReadTo
<1>7. Len(Recv(n)) = Least(n, Len(arrived)) /\ \A i \in 1..Len(Recv(n)) : Recv(n)[i] = arrived[i]
  BY <1>1, RecvTyped
<1>. HIDE DEF n, p, size
<1>8. ASSUME NEW i \in 1..Len(Recv(n))
      PROVE  Recv(n)[i] = <<Coming, p + i>>
  <2>1. i \in 1..Len(arrived) /\ i <= n
    BY <1>1, <1>7 DEF Least
  <2>2. p + i <= LengthOf(requests, Coming)
    BY <1>1, <1>3, <2>1, StreamAssumption
  <2>3. arrived[i] = <<Coming, p + i>>
    BY <1>1, <1>5, <1>6, <2>1, <2>2, LineAt
  <2>. QED
    BY <1>7, <2>3
<1>9. ASSUME Len(Recv(n)) # n
      PROVE  Len(Recv(n)) = Len(arrived) /\ Len(arrived) < n /\ sender.at = "closed" /\ flight = <<>>
  <2>1. Len(Recv(n)) = Len(arrived) /\ Len(arrived) < n
    BY <1>1, <1>7, <1>9 DEF Least
  <2>2. ASSUME sender.at # "closed" \/ flight # <<>>
        PROVE  FALSE
    <3>1. EndsWrite(requests, arrived)
      BY <1>4, <2>2 DEF PipeOK
    <3>2. arrived # <<>>
      BY <2>2 DEF CanRecv, Gone
    <3>3. PICK j \in Nat : Len(thread.body) = j * CHUNK_SIZE
      BY <1>2
    <3>4. /\ HEADER_SIZE + j * CHUNK_SIZE + n <= LengthOf(requests, Coming)
          /\ InLine(requests, start, arrived, start[Coming] + (HEADER_SIZE + j * CHUNK_SIZE))
      <4>1. p = HEADER_SIZE + j * CHUNK_SIZE
        BY <3>3 DEF p
      <4>2. p + n <= LengthOf(requests, Coming)
        BY <1>3
      <4>. QED
        BY <1>6, <4>1, <4>2
    <3>5. Len(arrived) >= n
      BY <1>1, <1>5, <3>1, <3>2, <3>4, ChunkComplete
    <3>. QED
      BY <1>1, <2>1, <3>5
  <2>. QED
    BY <2>1, <2>2
<1>. QED
  BY <1>8, <1>9 DEF n, p

LEMMA ReceiveChunkFramed ==
    ASSUME FrameInv, ReceiveChunk
    PROVE  FrameInv'
<1>. DEFINE n == ToGet(thread.left)
            size == requests[Coming].size
<1>1. StreamTypeOK'
  BY ReceiveChunkTyped DEF FrameInv
<1>2. /\ thread.at = "payload" /\ thread.left > 0 /\ CanRecv /\ Consumed(n)
      /\ thread' = [thread EXCEPT !.left = @ - Least(n, @), !.body = @ \o Recv(n)]
      /\ UNCHANGED <<sender, requests, flight, handled>>
  BY DEF ReceiveChunk
<1>3. /\ requests \in Seq(Asked) /\ arrived \in Seq(Pair) /\ Len(arrived) \in Nat
      /\ Coming \in Nat /\ Coming \in 1..Len(requests) /\ size \in Nat
      /\ Len(thread.body) \in Nat /\ n \in Nat /\ n > 0 /\ n <= thread.left /\ n <= CHUNK_SIZE
      /\ thread.left \in Nat
  BY <1>2, ToGetPlaced DEF FrameInv, StreamTypeOK
<1>. HIDE DEF n
<1>4. Least(n, thread.left) = n
  BY <1>3 DEF Least
<1>5. /\ thread'.at = "payload" /\ thread'.what = thread.what /\ thread'.head = thread.head
      /\ thread'.left = thread.left - n /\ thread'.body = thread.body \o Recv(n)
  BY <1>2, <1>4 DEF FrameInv, StreamTypeOK
<1>6. Recv(n) \in Seq(Pair) /\ Len(Recv(n)) \in Nat /\ Len(Recv(n)) = Least(n, Len(arrived))
  <2>1. Recv(n) \in Seq(Pair) /\ Len(Recv(n)) = Least(n, Len(arrived))
    BY <1>3, RecvTyped
  <2>. QED
    BY <2>1, LenProperties
<1>7. Len(thread'.body) = Len(thread.body) + Len(Recv(n))
  <2>1. thread.body \in Seq(Pair)
    BY DEF FrameInv, StreamTypeOK
  <2>. QED
    BY <1>5, <1>6, <2>1, ConcatProperties
<1>8. Coming' = Coming /\ \A i : HeaderOf(i)' = HeaderOf(i) /\ PayloadOf(i)' = PayloadOf(i)
  BY <1>2 DEF Coming, HeaderOf, PayloadOf, PacketBytes
<1>9. WritingOK'
  BY <1>2 DEF FrameInv, WritingOK
<1>10. HandledOK'
  <2>1. \A i \in 1..Len(handled) : handled[i].body = PayloadOf(i)
    BY <1>2 DEF FrameInv, HandledOK
  <2>. QED
    BY <1>2, <1>8, <2>1 DEF FrameInv, HandledOK
<1>11. /\ thread.what = requests[Coming] /\ thread.head = HeaderOf(Coming)
       /\ Len(thread.body) <= size
       /\ thread.body = PacketBytes(Coming, HEADER_SIZE, HEADER_SIZE + Len(thread.body))
  BY <1>2 DEF FrameInv, ReceivingOK
<1>12. CASE Spent
  <2>1. Spent'
    BY <1>12, SpentStays DEF FrameInv, ServerStream
  <2>2. Len(Recv(n)) = 0 /\ Recv(n) = <<>>
    BY <1>3, <1>6, <1>12, EmptySeq DEF Spent, Least
  <2>3. thread'.body = thread.body
    BY <1>5, <2>2, ConcatEmptySeq DEF FrameInv, StreamTypeOK
  <2>4. ReceivingOK'
    <3>1. /\ Coming' <= Len(requests') /\ thread'.what = requests'[Coming']
          /\ thread'.head = HeaderOf(Coming)' /\ Len(thread'.body) <= requests'[Coming'].size
      BY <1>2, <1>3, <1>5, <1>8, <1>11, <2>3
    <3>2. thread'.body = PacketBytes(Coming', HEADER_SIZE, HEADER_SIZE + Len(thread'.body))
      BY <1>8, <1>11, <2>3
    <3>. QED
      BY <1>8, <2>1, <3>1, <3>2 DEF ReceivingOK, HeaderOf
  <2>5. PipeInv'
    BY <2>1 DEF PipeInv
  <2>. QED
    BY <1>1, <1>9, <1>10, <2>4, <2>5 DEF FrameInv
<1>13. CASE ~Spent
  <2>. DEFINE m == Len(Recv(n))
              mid == HEADER_SIZE + Len(thread.body)
  <2>1. /\ \A i \in 1..m : Recv(n)[i] = <<Coming, mid + i>>
        /\ m = n \/ (m = Len(arrived) /\ Len(arrived) < n /\ sender.at = "closed" /\ flight = <<>>)
    BY <1>2, <1>13, ChunkReceived DEF n
  <2>2. /\ Len(thread.body) + thread.left = size
        /\ \E j \in Nat : Len(thread.body) = j * CHUNK_SIZE
    BY <1>2, <1>13 DEF FrameInv, ReceivingOK
  <2>3. m \in Nat /\ m <= n /\ Len(thread'.body) = Len(thread.body) + m
    BY <1>3, <1>6, <1>7 DEF Least
  <2>4. thread'.body = PacketBytes(Coming, HEADER_SIZE, HEADER_SIZE + Len(thread'.body))
    <3>1. mid \in Nat /\ HEADER_SIZE \in Nat /\ HEADER_SIZE <= mid
      BY <1>3, StreamAssumption
    <3>2. PacketBytes(Coming, HEADER_SIZE, mid) \o Recv(n) = PacketBytes(Coming, HEADER_SIZE, mid + m)
      <4>. DEFINE u == Recv(n)
      <4>1. \A i \in 1..Len(u) : u[i] = <<Coming, mid + i>>
        BY <2>1
      <4>2. u \in Seq(Pair)
        BY <1>6
      <4>. HIDE DEF mid, u
      <4>3. PacketBytes(Coming, HEADER_SIZE, mid) \o u = PacketBytes(Coming, HEADER_SIZE, mid + Len(u))
        <5>1. Coming \in Nat
          BY <1>3
        <5>. QED
          BY <3>1, <4>1, <4>2, <5>1, PacketJoined, Zenon
      <4>. QED
        BY <4>3 DEF u
    <3>3. mid + m = HEADER_SIZE + Len(thread'.body)
      BY <1>3, <2>3, StreamAssumption
    <3>. QED
      BY <1>5, <1>11, <3>2, <3>3
  <2>. HIDE DEF m
  <2>5. Len(thread'.body) <= size
    <3>. HIDE DEF size
    <3>. QED
      BY <1>3, <2>2, <2>3
  <2>6. ASSUME ~Spent'
        PROVE  /\ Len(thread'.body) + thread'.left = size
               /\ thread'.left = 0 \/ \E j \in Nat : Len(thread'.body) = j * CHUNK_SIZE
    <3>1. m = n
      <4>. SUFFICES ASSUME m = Len(arrived), sender.at = "closed", flight = <<>>
                    PROVE  FALSE
        BY <2>1
      <4>1. arrived' = SubSeq(arrived, Len(arrived) + 1, Len(arrived))
        BY <1>2, <1>6 DEF Consumed, m
      <4>2. arrived' = <<>>
        BY <1>3, <4>1, SubSeqEmpty
      <4>. QED
        BY <1>2, <2>6, <4>2 DEF Spent
    <3>2. Len(thread'.body) + thread'.left = size
      <4>. HIDE DEF size
      <4>. QED
        BY <1>3, <1>5, <2>2, <2>3, <3>1
    <3>3. CASE n = thread.left
      <4>1. thread'.left = 0
        BY <1>3, <1>5, <3>3
      <4>. QED
        BY <3>2, <4>1
    <3>4. CASE n = CHUNK_SIZE
      <4>1. PICK j \in Nat : Len(thread.body) = j * CHUNK_SIZE
        BY <2>2
      <4>2. (j + 1) * CHUNK_SIZE = j * CHUNK_SIZE + CHUNK_SIZE /\ j + 1 \in Nat
        BY StreamAssumption
      <4>3. Len(thread'.body) = (j + 1) * CHUNK_SIZE
        BY <2>3, <3>1, <3>4, <4>1, <4>2
      <4>. QED
        BY <3>2, <4>2, <4>3
    <3>. QED
      BY <3>3, <3>4 DEF n, ToGet, Least
  <2>7. ReceivingOK'
    <3>1. /\ Coming' <= Len(requests') /\ thread'.what = requests'[Coming']
          /\ thread'.head = HeaderOf(Coming)' /\ Len(thread'.body) <= requests'[Coming'].size
      BY <1>2, <1>3, <1>5, <1>8, <1>11, <2>5
    <3>2. thread'.body = PacketBytes(Coming', HEADER_SIZE, HEADER_SIZE + Len(thread'.body))
      BY <1>8, <2>4
    <3>3. ~Spent' => /\ Len(thread'.body) + thread'.left = requests'[Coming'].size
                     /\ thread'.left = 0 \/ \E j \in Nat : Len(thread'.body) = j * CHUNK_SIZE
      BY <1>2, <1>8, <2>6
    <3>. HIDE DEF Spent
    <3>. QED
      BY <3>1, <3>2, <3>3 DEF ReceivingOK, HeaderOf
  <2>8. PipeInv'
    <3>1. PICK start, off : PipeOK(start, off)
      BY <1>2, <1>13 DEF FrameInv, PipeInv
    <3>2. start[Coming] \in Nat
      BY <3>1, ReadToIsNat DEF FrameInv, PipeOK
    <3>3. ReadTo(start)' = ReadTo(start) + Least(n, Len(arrived))
      <4>1. ReadTo(start) = start[Coming] + (HEADER_SIZE + Len(thread.body))
        BY <1>2 DEF ReadTo
      <4>2. ReadTo(start)' = start[Coming] + (HEADER_SIZE + Len(thread'.body))
        BY <1>5, <1>8 DEF ReadTo
      <4>. QED
        BY <1>3, <1>6, <1>7, <3>2, <4>1, <4>2, StreamAssumption
    <3>4. PipeOK(start, off)'
      BY <1>2, <1>3, <3>1, <3>3, RecvFramed DEF FrameInv
    <3>. QED
      BY <3>4 DEF PipeInv
  <2>. QED
    BY <1>1, <1>9, <1>10, <2>7, <2>8 DEF FrameInv
<1>. QED
  BY <1>12, <1>13

(* The beginning of a packet is a prefix of it. *)
LEMMA PacketPrefix ==
    ASSUME NEW k \in Nat, NEW from \in Nat, NEW to \in Nat, NEW mid \in from..to
    PROVE  IsPrefix(PacketBytes(k, from, mid), PacketBytes(k, from, to))
<1>. DEFINE a == PacketBytes(k, from, mid)
            b == PacketBytes(k, from, to)
<1>1. mid \in Nat /\ from <= mid /\ mid <= to /\ from <= to
  OBVIOUS
<1>2. /\ a \in Seq(Pair) /\ Len(a) = mid - from /\ \A i \in 1..(mid - from) : a[i] = <<k, from + i>>
  BY <1>1, PacketSeq
<1>3. /\ b \in Seq(Pair) /\ Len(b) = to - from /\ \A i \in 1..(to - from) : b[i] = <<k, from + i>>
  BY <1>1, PacketSeq
<1>. HIDE DEF a, b
<1>4. Len(a) <= Len(b) /\ Len(a) \in 0..Len(b)
  BY <1>1, <1>2, <1>3
<1>5. SubSeq(a, 1, Len(a)) = a
  BY <1>2, SubSeqFull
<1>6. /\ SubSeq(b, 1, Len(a)) \in Seq(Pair) /\ Len(SubSeq(b, 1, Len(a))) = Len(a)
      /\ \A i \in 1..Len(a) : SubSeq(b, 1, Len(a))[i] = b[i]
  BY <1>3, <1>4, Taken
<1>7. ASSUME NEW i \in 1..Len(a)
      PROVE  a[i] = SubSeq(b, 1, Len(a))[i]
  <2>1. i \in 1..(mid - from) /\ i \in 1..(to - from)
    BY <1>1, <1>2
  <2>. QED
    BY <1>2, <1>3, <1>6, <2>1
<1>8. a = SubSeq(b, 1, Len(a))
  BY <1>2, <1>6, <1>7, SeqEqual
<1>. QED
  BY <1>4, <1>5, <1>8 DEF IsPrefix, a, b

LEMMA HandleRequestFramed ==
    ASSUME FrameInv, HandleRequest
    PROVE  FrameInv'
<1>. DEFINE r == [head |-> thread.head, body |-> thread.body]
            size == requests[Coming].size
<1>1. StreamTypeOK'
  BY HandleRequestTyped DEF FrameInv
<1>2. /\ thread.at = "payload" /\ thread.left = 0 /\ handled' = Append(handled, r)
      /\ thread'.at \in {"header", "closed"}
      /\ UNCHANGED <<sender, requests, flight, arrived>>
  BY DEF HandleRequest, FrameInv, StreamTypeOK
<1>3. /\ requests \in Seq(Asked) /\ Len(requests) \in Nat /\ Len(handled) \in Nat
      /\ Len(thread.body) \in Nat /\ Coming \in 1..Len(requests) /\ Coming \in Nat
      /\ Coming = Len(handled) + 1
  BY <1>2, LenProperties DEF FrameInv, StreamTypeOK, ReceivingOK, Coming
<1>4. size \in Nat
  BY <1>3, LengthIsNat
<1>5. r \in Received /\ r.head = thread.head /\ r.body = thread.body
  BY DEF FrameInv, StreamTypeOK, Received
<1>6. /\ Len(handled') = Coming /\ handled'[Coming] = r
      /\ \A i \in 1..Len(handled) : handled'[i] = handled[i]
  BY <1>2, <1>3, <1>5, AppendProperties DEF FrameInv, StreamTypeOK
<1>7. /\ thread.head = HeaderOf(Coming) /\ Len(thread.body) <= size
      /\ thread.body = PacketBytes(Coming, HEADER_SIZE, HEADER_SIZE + Len(thread.body))
      /\ ~Spent => Len(thread.body) = size
  <2>1. ~Spent => Len(thread.body) + thread.left = size
    BY <1>2 DEF FrameInv, ReceivingOK
  <2>. QED
    BY <1>2, <1>3, <2>1 DEF FrameInv, ReceivingOK
<1>8. \A i : HeaderOf(i)' = HeaderOf(i) /\ PayloadOf(i)' = PayloadOf(i)
  BY <1>2 DEF HeaderOf, PayloadOf, PacketBytes
<1>9. Spent' = Spent
  BY <1>2 DEF Spent
<1>10. HandledOK'
  <2>1. ASSUME NEW i \in 1..Len(handled)
        PROVE  handled'[i].head = HeaderOf(i) /\ handled'[i].body = PayloadOf(i)
    BY <1>2, <1>6, <2>1 DEF FrameInv, HandledOK
  <2>2. /\ handled'[Coming].head = HeaderOf(Coming)
        /\ \/ handled'[Coming].body = PayloadOf(Coming)
           \/ Spent /\ IsPrefix(handled'[Coming].body, PayloadOf(Coming))
    <3>1. CASE Spent
      <4>1. /\ HEADER_SIZE \in Nat /\ HEADER_SIZE + size \in Nat
            /\ HEADER_SIZE + Len(thread.body) \in HEADER_SIZE..(HEADER_SIZE + size)
        <5>. HIDE DEF size
        <5>. QED
          BY <1>3, <1>4, <1>7, StreamAssumption
      <4>2. IsPrefix(PacketBytes(Coming, HEADER_SIZE, HEADER_SIZE + Len(thread.body)), PayloadOf(Coming))
        BY <1>3, <4>1, PacketPrefix DEF PayloadOf
      <4>. QED
        BY <1>5, <1>6, <1>7, <3>1, <4>2
    <3>2. CASE ~Spent
      <4>1. Len(thread.body) = size
        BY <1>7, <3>2
      <4>2. thread.body = PayloadOf(Coming)
        BY <1>7, <4>1 DEF PayloadOf
      <4>. QED
        BY <1>5, <1>6, <1>7, <4>2
    <3>. QED
      BY <3>1, <3>2
  <2>3. ASSUME NEW i \in 1..Len(handled')
        PROVE  /\ handled'[i].head = HeaderOf(i)'
               /\ \/ handled'[i].body = PayloadOf(i)'
                  \/ /\ sender'.at = "closed" /\ i = Len(handled')
                     /\ IsPrefix(handled'[i].body, PayloadOf(i)')
                     /\ thread'.at = "closed" \/ (thread'.at = "header" /\ Spent')
    <3>1. CASE i = Coming
      <4>1. Spent => sender.at = "closed"
        BY DEF Spent
      <4>. HIDE DEF Spent
      <4>. QED
        BY <1>2, <1>6, <1>8, <1>9, <2>2, <3>1, <4>1
    <3>2. CASE i # Coming
      <4>1. i \in 1..Len(handled)
        BY <1>3, <1>6, <3>2
      <4>. QED
        BY <1>8, <2>1, <4>1
    <3>. QED
      BY <3>1, <3>2
  <2>4. Len(handled') <= Len(requests')
    BY <1>2, <1>3, <1>6
  <2>. QED
    BY <2>3, <2>4 DEF HandledOK, HeaderOf
<1>11. ReceivingOK' /\ WritingOK'
  BY <1>2 DEF ReceivingOK, WritingOK, FrameInv
<1>12. PipeInv'
  <2>. SUFFICES ASSUME ~Spent
                PROVE  \E s, o : PipeOK(s, o)'
    BY <1>9 DEF PipeInv
  <2>1. PICK start, off : PipeOK(start, off)
    BY <1>2 DEF FrameInv, PipeInv
  <2>2. start[Coming + 1] = start[Coming] + LengthOf(requests, Coming)
    BY <1>3, <2>1 DEF PipeOK, Layout
  <2>3. start[Coming] \in Nat /\ start[Coming + 1] \in Nat
    <3>1. Coming \in 1..(Len(requests) + 1) /\ Coming + 1 \in 1..(Len(requests) + 1)
      BY <1>3
    <3>. QED
      BY <2>1, <3>1 DEF PipeOK, Layout
  <2>4. ReadTo(start)' = ReadTo(start)
    <3>1. Coming' = Coming + 1
      BY <1>3, <1>6 DEF Coming
    <3>2. ReadTo(start)' = start[Coming + 1] + 0
      BY <1>2, <3>1 DEF ReadTo
    <3>3. ReadTo(start) = start[Coming] + (HEADER_SIZE + size)
      BY <1>2, <1>7 DEF ReadTo
    <3>. QED
      BY <2>2, <2>3, <3>2, <3>3 DEF LengthOf
  <2>5. WrittenTo(start)' = WrittenTo(start) /\ Intact' = Intact
    BY <1>2 DEF WrittenTo, Intact
  <2>6. PipeOK(start, off)'
    <3>1. Layout(requests', start) /\ Flying(requests', start, flight', off, Intact')
      BY <1>2, <2>1, <2>5 DEF PipeOK
    <3>2. InLine(requests', start, arrived', ReadTo(start)') /\ off[1] = ReadTo(start)' + Len(arrived')
      BY <1>2, <2>1, <2>4 DEF PipeOK
    <3>3. /\ sender'.at # "closed" \/ flight' # <<>> => EndsWrite(requests', arrived')
          /\ sender'.at # "closed" => off[Len(flight') + 1] = WrittenTo(start)'
      BY <1>2, <2>1, <2>5 DEF PipeOK
    <3>. QED
      BY <3>1, <3>2, <3>3 DEF PipeOK
  <2>. QED
    BY <2>6
<1>. QED
  BY <1>1, <1>10, <1>11, <1>12 DEF FrameInv

-----------------------------------------------------------------------------
LEMMA InitFramed == StreamInit => FrameInv
<1>. SUFFICES ASSUME StreamInit
              PROVE  FrameInv
  OBVIOUS
<1>1. \A S : <<>> \in Seq(S) /\ Len(<<>>) = 0
  BY EmptySeq
<1>2. StreamTypeOK
  BY <1>1 DEF StreamInit, StreamTypeOK, NoRequest, Asked
<1>3. HandledOK /\ ReceivingOK /\ WritingOK
  BY <1>1 DEF StreamInit, HandledOK, ReceivingOK, WritingOK
<1>4. PipeInv
  <2>. DEFINE zero == [k \in 1..1 |-> 0]
  <2>1. zero \in [1..1 -> Nat] /\ zero[1] = 0
    OBVIOUS
  <2>. HIDE DEF zero
  <2>2. /\ requests = <<>> /\ flight = <<>> /\ arrived = <<>> /\ handled = <<>>
        /\ sender.at = "idle" /\ thread.at = "header"
        /\ Len(requests) = 0 /\ Len(flight) = 0 /\ Len(arrived) = 0 /\ Len(handled) = 0
    BY <1>1 DEF StreamInit
  <2>3. 0 + 1 = 1 /\ 1..0 = {} /\ 0 + 0 = 0 /\ 0 - 0 = 0 /\ \A k, l \in 1..1 : ~(k < l)
    OBVIOUS
  <2>4. Layout(requests, zero)
    BY <2>1, <2>2, <2>3 DEF Layout
  <2>5. Flying(requests, zero, flight, zero, Intact)
    BY <2>1, <2>2, <2>3 DEF Flying
  <2>6. Coming = 1 /\ ReadTo(zero) = 0 /\ WrittenTo(zero) = 0
    BY <2>1, <2>2, <2>3 DEF Coming, ReadTo, WrittenTo
  <2>7. InLine(requests, zero, arrived, ReadTo(zero)) /\ EndsWrite(requests, arrived)
    BY <2>2, <2>3 DEF InLine, EndsWrite
  <2>8. PipeOK(zero, zero)
    BY <2>1, <2>2, <2>3, <2>4, <2>5, <2>6, <2>7 DEF PipeOK
  <2>. QED
    BY <2>8 DEF PipeInv
<1>. QED
  BY <1>2, <1>3, <1>4 DEF FrameInv

LEMMA StreamStepFramed ==
    ASSUME FrameInv, ~Splits, ClientStream \/ ServerStream \/ Arrive
    PROVE  FrameInv'
<1>1. CASE \E r \in Requests : WriteHeader(r)
  BY <1>1, WriteHeaderFramed
<1>2. CASE WriteChunk
  BY <1>2, WriteChunkFramed
<1>3. CASE Written \/ ReadHeader \/ ReadChunk \/ ResponseRead
  BY <1>3, ClientWaitsFramed
<1>4. CASE Leave \/ ServerIsGone \/ Die
  BY <1>4, ClientEndsFramed
<1>5. CASE ReceiveHeader
  BY <1>5, ReceiveHeaderFramed
<1>6. CASE ReceiveChunk
  BY <1>6, ReceiveChunkFramed
<1>7. CASE HandleRequest
  BY <1>7, HandleRequestFramed
<1>8. CASE ThreadDies
  BY <1>8, ThreadDiesFramed
<1>9. CASE Arrive
  BY <1>9, ArriveFramed
<1>. QED
  BY <1>1, <1>2, <1>3, <1>4, <1>5, <1>6, <1>7, <1>8, <1>9 DEF ClientStream, ServerStream

LEMMA FrameInvUnchanged ==
    ASSUME FrameInv, UNCHANGED streamVars
    PROVE  FrameInv'
<1>1. \A i : HeaderOf(i)' = HeaderOf(i) /\ PayloadOf(i)' = PayloadOf(i)
  BY DEF streamVars, HeaderOf, PayloadOf, PacketBytes
<1>2. HandledOK' /\ ReceivingOK'
  BY ThreadUntouched DEF FrameInv, streamVars, Spent
<1>3. PipeInv'
  <2>1. ASSUME NEW s, NEW o, PipeOK(s, o)
        PROVE  PipeOK(s, o)'
    BY <2>1 DEF streamVars, PipeOK, ReadTo, WrittenTo, Intact, Coming
  <2>2. Spent' = Spent /\ thread' = thread
    BY DEF Spent, streamVars
  <2>. QED
    BY <2>1, <2>2 DEF FrameInv, PipeInv
<1>4. StreamTypeOK' /\ WritingOK'
  BY DEF FrameInv, StreamTypeOK, WritingOK, streamVars
<1>. QED
  BY <1>2, <1>3, <1>4 DEF FrameInv

LEMMA FrameInvImplies == FrameInv => RequestsFramed
<1>. SUFFICES ASSUME FrameInv, NEW i \in 1..Len(handled)
              PROVE  /\ i <= Len(requests)
                     /\ handled[i].head = HeaderOf(i)
                     /\ \/ handled[i].body = PayloadOf(i)
                        \/ /\ sender.at = "closed" /\ i = Len(handled)
                           /\ IsPrefix(handled[i].body, PayloadOf(i))
  BY DEF RequestsFramed
<1>1. i <= Len(requests)
  BY LenProperties DEF FrameInv, HandledOK, StreamTypeOK
<1>. QED
  BY <1>1 DEF FrameInv, HandledOK

(* As long as each write arrives whole, the server handles the requests     *)
(* that were sent, in this order and byte for byte as they were sent; only  *)
(* the last one may be cut short, by the end of the client (receiveData,    *)
(* receive_payload).  Whoever dies, and whenever.                           *)
THEOREM RequestsAreFramed ==
    ASSUME ~Splits
    PROVE  TransportSpec => []RequestsFramed
<1>1. TransportInit => FrameInv
  BY InitFramed DEF TransportInit
<1>2. FrameInv /\ [TransportNext]_transportVars => FrameInv'
  BY StreamStepFramed, FrameInvUnchanged
  DEF TransportNext, StartStep, MainStep, ThreadStep, WireStep, transportVars
<1>. QED
  BY <1>1, <1>2, FrameInvImplies, PTL DEF TransportSpec

-----------------------------------------------------------------------------
(* Who has the turn.  What is on its way to the client, and what it has     *)
(* read, belongs to the answer to its last request.                         *)
IsResponse(s, k, from, size) == \A i \in 1..Len(s) : s[i] = <<k, from + i, size>>

IdleOK ==
    /\ back = <<>>
    /\ Len(handled) < Len(requests) => requests[Len(requests)].silent

BusyOK ==
    /\ Len(requests) \in 1..Len(requests)
    /\ Len(handled) < Len(requests) \/ requests[Len(requests)].silent => back = <<>>
    /\ \E size \in Nat : /\ IsResponse(back, Len(requests), 0, size)
                         /\ Len(back) <= RESP_HEADER + size

AnswerOK ==
    /\ Len(requests) \in 1..Len(requests) /\ Len(handled) = Len(requests)
    /\ sender.got # <<>>
    /\ \E size \in Nat :
          /\ IsResponse(sender.got, Len(requests), 0, size)
          /\ IsResponse(back, Len(requests), Len(sender.got), size)
          /\ Len(sender.got) + sender.left = RESP_HEADER + size
          /\ Len(sender.got) + Len(back) <= RESP_HEADER + size

TurnOK ==
    /\ sender.at # "closed" =>
          \A i \in (Len(handled) + 1)..(Len(requests) - 1) : requests[i].silent
    /\ sender.at = "idle" => IdleOK
    /\ sender.at \in {"writing", "waiting"} => BusyOK
    /\ sender.at = "waiting" => ~requests[Len(requests)].silent
    /\ sender.at = "reading" => AnswerOK

LEMMA WriteHeaderTurn ==
    ASSUME FrameInv, TurnOK, NEW r \in Requests, WriteHeader(r)
    PROVE  TurnOK'
<1>1. /\ sender.at = "idle" /\ sender'.at = "writing" /\ requests' = Append(requests, r)
      /\ UNCHANGED <<handled, back>>
  BY DEF WriteHeader
<1>2. r \in Asked
  BY StreamAssumption DEF Asked
<1>3. /\ Len(requests) \in Nat /\ Len(handled) \in Nat /\ Len(handled) <= Len(requests)
      /\ Len(requests') = Len(requests) + 1
      /\ \A k \in 1..Len(requests) : requests'[k] = requests[k]
  BY <1>1, <1>2, AppendProperties, LenProperties DEF FrameInv, StreamTypeOK, HandledOK
<1>4. /\ back = <<>> /\ Len(back) = 0
      /\ Len(handled) < Len(requests) => requests[Len(requests)].silent
  BY <1>1, EmptySeq DEF TurnOK, IdleOK
<1>5. ASSUME NEW i \in (Len(handled) + 1)..Len(requests)
      PROVE  requests'[i].silent
  <2>1. i \in 1..Len(requests) /\ Len(handled) < Len(requests)
    BY <1>3
  <2>2. CASE i = Len(requests)
    BY <1>3, <1>4, <2>1, <2>2
  <2>3. CASE i # Len(requests)
    <3>1. i \in (Len(handled) + 1)..(Len(requests) - 1)
      BY <1>3, <2>3
    <3>2. requests[i].silent
      BY <1>1, <3>1 DEF TurnOK
    <3>. QED
      BY <1>3, <2>1, <3>2
  <2>. QED
    BY <2>2, <2>3
<1>6. BusyOK'
  <2>1. 0 \in Nat /\ 1..0 = {} /\ 0 <= RESP_HEADER + 0
    BY StreamAssumption
  <2>2. IsResponse(back, Len(requests'), 0, 0)
    BY <1>4, <2>1 DEF IsResponse
  <2>3. \E size \in Nat : /\ IsResponse(back', Len(requests'), 0, size)
                          /\ Len(back') <= RESP_HEADER + size
    BY <1>1, <1>4, <2>1, <2>2
  <2>4. Len(requests') \in 1..Len(requests')
    BY <1>3
  <2>. QED
    BY <1>1, <1>4, <2>3, <2>4 DEF BusyOK, IsResponse
<1>7. (Len(handled') + 1)..(Len(requests') - 1) = (Len(handled) + 1)..Len(requests)
  BY <1>1, <1>3
<1>. QED
  BY <1>1, <1>5, <1>6, <1>7 DEF TurnOK

(* The client leaves what is on its way alone. *)
LEMMA TurnKept ==
    ASSUME TurnOK, UNCHANGED <<requests, handled, back>>, sender.at # "closed"
    PROVE  /\ \A i \in (Len(handled') + 1)..(Len(requests') - 1) : requests'[i].silent
           /\ IdleOK => IdleOK'
           /\ BusyOK => BusyOK'
<1>1. \A i \in (Len(handled') + 1)..(Len(requests') - 1) : requests'[i].silent
  BY DEF TurnOK
<1>2. IdleOK => IdleOK'
  BY DEF IdleOK
<1>3. BusyOK => BusyOK'
  BY DEF BusyOK, IsResponse
<1>. QED
  BY <1>1, <1>2, <1>3

LEMMA ClientTurn ==
    ASSUME FrameInv, TurnOK, WriteChunk \/ Written \/ Leave \/ ServerIsGone \/ Die
    PROVE  TurnOK'
<1>1. UNCHANGED <<requests, handled, back>> /\ sender.at # "closed"
  BY DEF WriteChunk, Written, Leave, ServerIsGone, Die
<1>2. /\ \A i \in (Len(handled') + 1)..(Len(requests') - 1) : requests'[i].silent
      /\ IdleOK => IdleOK'
      /\ BusyOK => BusyOK'
  BY <1>1, TurnKept
<1>3. CASE WriteChunk
  <2>1. sender.at = "writing" /\ sender'.at = "writing"
    BY <1>3 DEF WriteChunk, FrameInv, StreamTypeOK
  <2>2. BusyOK'
    BY <1>2, <2>1 DEF TurnOK
  <2>. QED
    BY <1>2, <2>1, <2>2 DEF TurnOK
<1>4. CASE Written
  <2>1. BusyOK /\ BusyOK'
    BY <1>2, <1>4 DEF TurnOK, Written
  <2>2. Last(requests) = requests[Len(requests)]
    BY DEF Last
  <2>3. CASE requests[Len(requests)].silent
    <3>1. sender'.at = "idle"
      BY <1>4, <2>2, <2>3 DEF Written, Afterwards, FrameInv, StreamTypeOK
    <3>2. IdleOK'
      BY <1>1, <2>1, <2>3 DEF BusyOK, IdleOK
    <3>. QED
      BY <1>2, <3>1, <3>2 DEF TurnOK
  <2>4. CASE ~requests[Len(requests)].silent
    <3>1. sender'.at = "waiting"
      BY <1>4, <2>2, <2>4 DEF Written, Afterwards, FrameInv, StreamTypeOK
    <3>. QED
      BY <1>1, <1>2, <2>1, <2>4, <3>1 DEF TurnOK
  <2>. QED
    BY <2>3, <2>4
<1>5. CASE Leave \/ ServerIsGone \/ Die
  <2>1. sender'.at = "closed"
    BY <1>5 DEF Leave, ServerIsGone, Die, FrameInv, StreamTypeOK
  <2>. QED
    BY <2>1 DEF TurnOK
<1>. QED
  BY <1>3, <1>4, <1>5

(* The bytes of a response that are read are its first ones. *)
LEMMA TookResponse ==
    ASSUME back \in Seq(Triple), NEW n \in Nat, Took(n), NEW k, NEW from \in Nat, NEW size,
           IsResponse(back, k, from, size)
    PROVE  /\ \A i \in 1..n : Given(n)[i] = <<k, from + i, size>>
           /\ IsResponse(back', k, from + n, size)
<1>1. /\ Len(Given(n)) = n /\ \A i \in 1..n : Given(n)[i] = back[i]
      /\ Len(back') = Len(back) - n
      /\ \A i \in 1..(Len(back) - n) : back'[i] = back[n + i]
      /\ Len(back) \in Nat /\ Len(back) >= n
  BY TookTyped, LenProperties DEF Took
<1>2. ASSUME NEW i \in 1..n
      PROVE  Given(n)[i] = <<k, from + i, size>>
  <2>1. i \in 1..Len(back)
    BY <1>1
  <2>. QED
    BY <1>1, <2>1 DEF IsResponse
<1>3. ASSUME NEW i \in 1..Len(back')
      PROVE  back'[i] = <<k, (from + n) + i, size>>
  <2>1. n + i \in 1..Len(back) /\ i \in 1..(Len(back) - n) /\ from + (n + i) = (from + n) + i
    BY <1>1
  <2>2. back[n + i] = <<k, from + (n + i), size>>
    BY <2>1 DEF IsResponse
  <2>. QED
    BY <1>1, <2>1, <2>2
<1>. QED
  BY <1>2, <1>3 DEF IsResponse

LEMMA ReadHeaderTurn ==
    ASSUME FrameInv, TurnOK, ReadHeader
    PROVE  TurnOK'
<1>. DEFINE k == Len(requests)
<1>1. /\ sender.at = "waiting" /\ Took(RESP_HEADER)
      /\ sender' = [at |-> "reading", left |-> Head(back)[3], got |-> Given(RESP_HEADER)]
      /\ UNCHANGED <<requests, handled>>
  BY DEF ReadHeader
<1>2. /\ RESP_HEADER \in Nat /\ RESP_HEADER > 0 /\ back \in Seq(Triple) /\ Len(back) \in Nat
      /\ Len(back) >= RESP_HEADER /\ Len(handled) \in Nat /\ k \in Nat /\ Len(handled) <= k
  BY <1>1, StreamAssumption, LenProperties DEF FrameInv, StreamTypeOK, Took, HandledOK
<1>3. BusyOK
  BY <1>1 DEF TurnOK
<1>4. PICK size \in Nat : IsResponse(back, k, 0, size) /\ Len(back) <= RESP_HEADER + size
  BY <1>3 DEF BusyOK
<1>5. back # <<>> /\ 1 \in 1..Len(back)
  BY <1>2, EmptySeq
<1>6. Len(handled) = k
  BY <1>2, <1>3, <1>5 DEF BusyOK
<1>7. Head(back) = <<k, 0 + 1, size>>
  <2>1. back[1] = <<k, 0 + 1, size>>
    BY <1>4, <1>5 DEF IsResponse
  <2>. QED
    BY <1>2, <1>5, <2>1, HeadTailProperties
<1>8. /\ Given(RESP_HEADER) \in Seq(Triple) /\ Len(Given(RESP_HEADER)) = RESP_HEADER
      /\ Len(back') = Len(back) - RESP_HEADER
  BY <1>1, <1>2, TookTyped
<1>9. /\ \A i \in 1..RESP_HEADER : Given(RESP_HEADER)[i] = <<k, 0 + i, size>>
      /\ IsResponse(back', k, 0 + RESP_HEADER, size)
  <2>1. 0 \in Nat
    OBVIOUS
  <2>. QED
    BY <1>1, <1>2, <1>4, <2>1, TookResponse
<1>10. IsResponse(Given(RESP_HEADER), k, 0, size)
  BY <1>8, <1>9 DEF IsResponse
<1>11. /\ sender'.at = "reading" /\ sender'.left = size /\ sender'.got = Given(RESP_HEADER)
       /\ Len(sender'.got) = RESP_HEADER /\ 0 + RESP_HEADER = RESP_HEADER
  BY <1>1, <1>2, <1>7, <1>8
<1>12. AnswerOK'
  <2>1. sender'.got # <<>>
    BY <1>2, <1>11, EmptySeq
  <2>2. Len(sender'.got) + Len(back') <= RESP_HEADER + size
    BY <1>2, <1>4, <1>8, <1>11
  <2>3. /\ IsResponse(sender'.got, Len(requests'), 0, size)
        /\ IsResponse(back', Len(requests'), Len(sender'.got), size)
        /\ Len(sender'.got) + sender'.left = RESP_HEADER + size
    BY <1>1, <1>9, <1>10, <1>11
  <2>4. Len(requests') \in 1..Len(requests') /\ Len(handled') = Len(requests')
    BY <1>1, <1>3, <1>6 DEF BusyOK
  <2>5. \E z \in Nat :
          /\ IsResponse(sender'.got, Len(requests'), 0, z)
          /\ IsResponse(back', Len(requests'), Len(sender'.got), z)
          /\ Len(sender'.got) + sender'.left = RESP_HEADER + z
          /\ Len(sender'.got) + Len(back') <= RESP_HEADER + z
    BY <2>2, <2>3
  <2>. QED
    BY <2>1, <2>4, <2>5 DEF AnswerOK, IsResponse
<1>13. \A i \in (Len(handled') + 1)..(Len(requests') - 1) : requests'[i].silent
  BY <1>1 DEF TurnOK
<1>. QED
  BY <1>11, <1>12, <1>13 DEF TurnOK

LEMMA ReadChunkTurn ==
    ASSUME FrameInv, TurnOK, ReadChunk
    PROVE  TurnOK'
<1>. DEFINE k == Len(requests)
            n == Least(sender.left, CHUNK_SIZE)
            got == sender.got
<1>1. /\ sender.at = "reading" /\ Took(n)
      /\ sender' = [sender EXCEPT !.left = @ - n, !.got = @ \o Given(n)]
      /\ UNCHANGED <<requests, handled>>
  BY DEF ReadChunk
<1>2. /\ n \in Nat /\ n <= sender.left /\ sender.left \in Nat
      /\ back \in Seq(Triple) /\ Len(back) \in Nat /\ got \in Seq(Triple) /\ Len(got) \in Nat
  BY StreamAssumption, LenProperties DEF FrameInv, StreamTypeOK, Least
<1>. HIDE DEF n
<1>3. Len(back) >= n
  BY <1>1 DEF Took
<1>4. AnswerOK
  BY <1>1 DEF TurnOK
<1>5. PICK size \in Nat : /\ IsResponse(got, k, 0, size)
                          /\ IsResponse(back, k, Len(got), size)
                          /\ Len(got) + sender.left = RESP_HEADER + size
                          /\ Len(got) + Len(back) <= RESP_HEADER + size
  BY <1>4 DEF AnswerOK
<1>6. /\ Given(n) \in Seq(Triple) /\ Len(Given(n)) = n /\ Len(back') = Len(back) - n
  BY <1>1, <1>2, TookTyped
<1>7. /\ \A i \in 1..n : Given(n)[i] = <<k, Len(got) + i, size>>
      /\ IsResponse(back', k, Len(got) + n, size)
  BY <1>1, <1>2, <1>5, TookResponse
<1>8. /\ sender'.at = "reading" /\ sender'.left = sender.left - n /\ sender'.got = got \o Given(n)
  BY <1>1 DEF FrameInv, StreamTypeOK
<1>9. /\ Len(got \o Given(n)) = Len(got) + n
      /\ \A i \in 1..(Len(got) + n) :
            (got \o Given(n))[i] = IF i <= Len(got) THEN got[i] ELSE Given(n)[i - Len(got)]
  <2>1. got \in Seq(Triple) /\ Given(n) \in Seq(Triple) /\ Len(Given(n)) = n
    BY <1>2, <1>6
  <2>. HIDE DEF got
  <2>2. /\ Len(got \o Given(n)) = Len(got) + Len(Given(n))
        /\ \A i \in 1..(Len(got) + Len(Given(n))) :
              (got \o Given(n))[i] = IF i <= Len(got) THEN got[i] ELSE Given(n)[i - Len(got)]
    BY <2>1, ConcatProperties
  <2>. QED
    BY <2>1, <2>2
<1>. HIDE DEF got
<1>10. IsResponse(got \o Given(n), k, 0, size)
  <2>1. ASSUME NEW i \in 1..(Len(got) + n)
        PROVE  (got \o Given(n))[i] = <<k, 0 + i, size>>
    <3>1. CASE i <= Len(got)
      <4>1. i \in 1..Len(got)
        BY <1>2, <3>1
      <4>2. got[i] = <<k, 0 + i, size>>
        BY <1>5, <4>1 DEF IsResponse
      <4>. QED
        BY <1>9, <3>1, <4>2
    <3>2. CASE i > Len(got)
      <4>1. i - Len(got) \in 1..n /\ Len(got) + (i - Len(got)) = 0 + i /\ ~(i <= Len(got))
        BY <1>2, <3>2
      <4>2. Given(n)[i - Len(got)] = <<k, 0 + i, size>>
        BY <1>7, <4>1
      <4>. QED
        BY <1>9, <4>1, <4>2
    <3>3. i <= Len(got) \/ i > Len(got)
      BY <1>2
    <3>. QED
      BY <3>1, <3>2, <3>3
  <2>. QED
    BY <1>9, <2>1 DEF IsResponse
<1>11. AnswerOK'
  <2>1. sender'.got # <<>>
    <3>1. Len(got) > 0
      BY <1>2, <1>4, EmptySeq DEF AnswerOK, got
    <3>2. Len(sender'.got) > 0
      BY <1>2, <1>8, <1>9, <3>1
    <3>. QED
      BY <3>2, EmptySeq
  <2>2. /\ Len(sender'.got) + sender'.left = RESP_HEADER + size
        /\ Len(sender'.got) + Len(back') <= RESP_HEADER + size
    <3>1. Len(sender'.got) = Len(got) + n
      BY <1>8, <1>9
    <3>2. (Len(got) + n) + (sender.left - n) = Len(got) + sender.left
      BY <1>2
    <3>3. (Len(got) + n) + (Len(back) - n) = Len(got) + Len(back)
      BY <1>2
    <3>. QED
      BY <1>5, <1>6, <1>8, <3>1, <3>2, <3>3
  <2>3. /\ IsResponse(sender'.got, Len(requests'), 0, size)
        /\ IsResponse(back', Len(requests'), Len(sender'.got), size)
    BY <1>1, <1>7, <1>8, <1>9, <1>10
  <2>4. Len(requests') \in 1..Len(requests') /\ Len(handled') = Len(requests')
    BY <1>1, <1>4 DEF AnswerOK
  <2>5. \E z \in Nat :
          /\ IsResponse(sender'.got, Len(requests'), 0, z)
          /\ IsResponse(back', Len(requests'), Len(sender'.got), z)
          /\ Len(sender'.got) + sender'.left = RESP_HEADER + z
          /\ Len(sender'.got) + Len(back') <= RESP_HEADER + z
    BY <2>2, <2>3
  <2>. QED
    BY <2>1, <2>4, <2>5 DEF AnswerOK, IsResponse
<1>12. \A i \in (Len(handled') + 1)..(Len(requests') - 1) : requests'[i].silent
  BY <1>1 DEF TurnOK
<1>. QED
  BY <1>8, <1>11, <1>12 DEF TurnOK

(* A response that was read to its end is the whole of it. *)
LEMMA ResponseWhole ==
    ASSUME FrameInv, TurnOK, ResponseRead
    PROVE  /\ \E size \in Nat : /\ sender.got = ResponseTo(Len(requests), size)
                                /\ sender.got[1][3] = size
           /\ TurnOK'
<1>. DEFINE k == Len(requests)
            got == sender.got
<1>1. sender.at = "reading" /\ sender.left = 0 /\ UNCHANGED <<requests, handled, back>>
  BY DEF ResponseRead
<1>2. /\ k \in Nat /\ got \in Seq(Triple) /\ Len(got) \in Nat /\ RESP_HEADER \in Nat
      /\ back \in Seq(Triple) /\ Len(back) \in Nat
  BY StreamAssumption, LenProperties DEF FrameInv, StreamTypeOK
<1>3. AnswerOK
  BY <1>1 DEF TurnOK
<1>4. PICK size \in Nat : /\ IsResponse(got, k, 0, size)
                          /\ Len(got) + sender.left = RESP_HEADER + size
                          /\ Len(got) + Len(back) <= RESP_HEADER + size
  BY <1>3 DEF AnswerOK
<1>5. Len(got) = RESP_HEADER + size /\ Len(back) = 0 /\ got # <<>>
  BY <1>1, <1>2, <1>3, <1>4 DEF AnswerOK
<1>6. /\ ResponseTo(k, size) \in Seq(Triple) /\ Len(ResponseTo(k, size)) = RESP_HEADER + size
      /\ \A i \in 1..(RESP_HEADER + size) : ResponseTo(k, size)[i] = <<k, i, size>>
  BY <1>2, ResponseSeq
<1>. HIDE DEF got
<1>7. ASSUME NEW i \in 1..Len(got)
      PROVE  got[i] = ResponseTo(k, size)[i] /\ got[i][3] = size
  <2>1. got[i] = <<k, 0 + i, size>> /\ 0 + i = i /\ i \in 1..(RESP_HEADER + size)
    BY <1>4, <1>5 DEF IsResponse
  <2>. QED
    BY <1>6, <2>1
<1>8. got = ResponseTo(k, size)
  BY <1>2, <1>5, <1>6, <1>7, SeqEqual
<1>9. got[1][3] = size
  <2>1. 1 \in 1..Len(got)
    BY <1>2, <1>5, EmptySeq
  <2>. QED
    BY <1>7, <2>1
<1>10. TurnOK'
  <2>1. sender'.at = "idle"
    BY DEF ResponseRead, FrameInv, StreamTypeOK
  <2>2. back = <<>>
    BY <1>2, <1>5, EmptySeq
  <2>3. Len(handled) = Len(requests)
    BY <1>3 DEF AnswerOK
  <2>4. IdleOK'
    BY <1>1, <1>2, <2>2, <2>3 DEF IdleOK
  <2>5. \A i \in (Len(handled') + 1)..(Len(requests') - 1) : requests'[i].silent
    BY <1>1 DEF TurnOK
  <2>. QED
    BY <2>1, <2>4, <2>5 DEF TurnOK
<1>. QED
  BY <1>8, <1>9, <1>10 DEF got

(* The thread answers the request that the client waits for, or none. *)
LEMMA HandleRequestTurn ==
    ASSUME FrameInv, TurnOK, HandleRequest
    PROVE  TurnOK'
<1>1. thread.at = "payload" /\ UNCHANGED <<sender, requests>>
  BY DEF HandleRequest
<1>2. /\ Len(handled) \in Nat /\ Len(requests) \in Nat /\ Len(handled') = Len(handled) + 1
      /\ Len(handled) + 1 <= Len(requests) /\ thread.what = requests[Coming]
      /\ Coming = Len(handled) + 1
  <2>1. [head |-> thread.head, body |-> thread.body] \in Received
    BY DEF FrameInv, StreamTypeOK, Received
  <2>2. Len(handled') = Len(handled) + 1
    BY <2>1, AppendProperties DEF HandleRequest, FrameInv, StreamTypeOK
  <2>. QED
    BY <1>1, <2>2, LenProperties DEF FrameInv, StreamTypeOK, ReceivingOK, Coming
<1>3. requests[Coming].silent => back' = back
  BY <1>2 DEF HandleRequest, Answered
<1>4. /\ (Len(handled') + 1)..(Len(requests') - 1) \subseteq (Len(handled) + 1)..(Len(requests) - 1)
      /\ Coming < Len(requests) => Coming \in (Len(handled) + 1)..(Len(requests) - 1)
  BY <1>1, <1>2
<1>5. CASE sender.at = "closed"
  BY <1>1, <1>5 DEF TurnOK
<1>6. CASE sender.at = "idle"
  <2>1. back = <<>> /\ requests[Len(requests)].silent
    BY <1>2, <1>6 DEF TurnOK, IdleOK
  <2>2. requests[Coming].silent
    <3>1. CASE Coming = Len(requests)
      BY <2>1, <3>1
    <3>2. CASE Coming < Len(requests)
      BY <1>4, <1>6, <3>2 DEF TurnOK
    <3>. QED
      BY <1>2, <3>1, <3>2
  <2>3. IdleOK'
    BY <1>1, <1>3, <2>1, <2>2 DEF IdleOK
  <2>. QED
    BY <1>1, <1>4, <1>6, <2>3 DEF TurnOK
<1>7. CASE sender.at \in {"writing", "waiting"}
  <2>1. BusyOK /\ back = <<>> /\ back \in Seq(Triple)
    BY <1>2, <1>7 DEF TurnOK, BusyOK, FrameInv, StreamTypeOK
  <2>2. 0 \in Nat /\ Len(<<>>) = 0 /\ 1..0 = {} /\ 0 <= RESP_HEADER + 0
    BY EmptySeq, StreamAssumption
  <2>3. CASE back' = <<>>
    <3>1. IsResponse(back', Len(requests'), 0, 0) /\ Len(back') <= RESP_HEADER + 0
      BY <2>2, <2>3 DEF IsResponse
    <3>2. \E size \in Nat : /\ IsResponse(back', Len(requests'), 0, size)
                            /\ Len(back') <= RESP_HEADER + size
      BY <2>2, <3>1
    <3>3. BusyOK'
      BY <1>1, <2>1, <2>3, <3>2 DEF BusyOK, IsResponse
    <3>. QED
      BY <1>1, <1>4, <1>7, <3>3 DEF TurnOK
  <2>4. CASE ~requests[Coming].silent /\
             \E size \in Replies : back' = back \o ResponseTo(Coming, size)
    <3>1. PICK size \in Replies : back' = back \o ResponseTo(Coming, size)
      BY <2>4
    <3>2. size \in Nat /\ RESP_HEADER \in Nat /\ Coming \in Nat
      BY <1>2, StreamAssumption
    <3>3. /\ ResponseTo(Coming, size) \in Seq(Triple)
          /\ Len(ResponseTo(Coming, size)) = RESP_HEADER + size
          /\ \A i \in 1..(RESP_HEADER + size) : ResponseTo(Coming, size)[i] = <<Coming, i, size>>
      BY <3>2, ResponseSeq
    <3>4. back' = ResponseTo(Coming, size)
      BY <2>1, <3>1, <3>3, ConcatEmptySeq
    <3>5. Coming = Len(requests)
      <4>1. ~(Coming < Len(requests))
        BY <1>4, <1>7, <2>4 DEF TurnOK
      <4>. QED
        BY <1>2, <4>1
    <3>6. \A i \in 1..(RESP_HEADER + size) : 0 + i = i
      OBVIOUS
    <3>7. IsResponse(back', Len(requests'), 0, size) /\ Len(back') <= RESP_HEADER + size
      BY <1>1, <3>2, <3>3, <3>4, <3>5, <3>6 DEF IsResponse
    <3>8. \E z \in Nat : IsResponse(back', Len(requests'), 0, z) /\ Len(back') <= RESP_HEADER + z
      BY <3>2, <3>7
    <3>9. ~(Len(handled') < Len(requests')) /\ ~requests'[Len(requests')].silent
      BY <1>1, <1>2, <2>4, <3>5
    <3>10. BusyOK'
      BY <1>1, <2>1, <3>8, <3>9 DEF BusyOK, IsResponse
    <3>. QED
      BY <1>1, <1>4, <1>7, <3>10 DEF TurnOK
  <2>. QED
    BY <1>2, <2>1, <2>3, <2>4 DEF HandleRequest, Answered
<1>8. CASE sender.at = "reading"
  <2>1. Len(handled) = Len(requests)
    BY <1>8 DEF TurnOK, AnswerOK
  <2>. QED
    BY <1>2, <2>1
<1>. QED
  BY <1>5, <1>6, <1>7, <1>8 DEF FrameInv, StreamTypeOK

LEMMA ThreadDiesTurn ==
    ASSUME FrameInv, TurnOK, ThreadDies
    PROVE  TurnOK'
<1>1. UNCHANGED <<sender, requests, handled>>
  BY DEF ThreadDies
<1>2. PICK n \in 0..Len(back) : back' = SubSeq(back, 1, n)
  BY DEF ThreadDies
<1>3. /\ back \in Seq(Triple) /\ Len(back) \in Nat /\ back' \in Seq(Triple)
      /\ Len(back') = n /\ Len(back') <= Len(back) /\ \A i \in 1..n : back'[i] = back[i]
  BY <1>2, Taken, LenProperties DEF FrameInv, StreamTypeOK
<1>4. ASSUME NEW k, NEW from, NEW size, IsResponse(back, k, from, size)
      PROVE  IsResponse(back', k, from, size)
  <2>1. \A i \in 1..n : i \in 1..Len(back)
    BY <1>3
  <2>. QED
    BY <1>3, <1>4, <2>1 DEF IsResponse
<1>5. back = <<>> => back' = <<>>
  <2>1. back = <<>> => Len(back') = 0
    BY <1>3, EmptySeq
  <2>. QED
    BY <1>3, <2>1, EmptySeq
<1>6. IdleOK => IdleOK'
  BY <1>1, <1>5 DEF IdleOK
<1>7. ASSUME BusyOK
      PROVE  BusyOK'
  <2>1. PICK size \in Nat : IsResponse(back, Len(requests), 0, size) /\ Len(back) <= RESP_HEADER + size
    BY <1>7 DEF BusyOK
  <2>2. IsResponse(back', Len(requests'), 0, size) /\ Len(back') <= RESP_HEADER + size
    BY <1>1, <1>3, <1>4, <2>1, StreamAssumption
  <2>3. \E z \in Nat : IsResponse(back', Len(requests'), 0, z) /\ Len(back') <= RESP_HEADER + z
    BY <2>2
  <2>. QED
    BY <1>1, <1>5, <1>7, <2>3 DEF BusyOK, IsResponse
<1>8. ASSUME AnswerOK
      PROVE  AnswerOK'
  <2>1. PICK size \in Nat : /\ IsResponse(sender.got, Len(requests), 0, size)
                            /\ IsResponse(back, Len(requests), Len(sender.got), size)
                            /\ Len(sender.got) + sender.left = RESP_HEADER + size
                            /\ Len(sender.got) + Len(back) <= RESP_HEADER + size
    BY <1>8 DEF AnswerOK
  <2>2. Len(sender.got) \in Nat /\ RESP_HEADER + size \in Nat
    BY StreamAssumption, LenProperties DEF FrameInv, StreamTypeOK
  <2>3. Len(sender.got) + Len(back') <= RESP_HEADER + size
    BY <1>3, <2>1, <2>2
  <2>4. /\ IsResponse(sender'.got, Len(requests'), 0, size)
        /\ IsResponse(back', Len(requests'), Len(sender'.got), size)
        /\ Len(sender'.got) + sender'.left = RESP_HEADER + size
        /\ Len(sender'.got) + Len(back') <= RESP_HEADER + size
    BY <1>1, <1>4, <2>1, <2>3
  <2>5. \E z \in Nat :
          /\ IsResponse(sender'.got, Len(requests'), 0, z)
          /\ IsResponse(back', Len(requests'), Len(sender'.got), z)
          /\ Len(sender'.got) + sender'.left = RESP_HEADER + z
          /\ Len(sender'.got) + Len(back') <= RESP_HEADER + z
    BY <2>4
  <2>. QED
    BY <1>1, <1>8, <2>5 DEF AnswerOK, IsResponse
<1>. QED
  BY <1>1, <1>6, <1>7, <1>8 DEF TurnOK

-----------------------------------------------------------------------------
LEMMA InitTurn == StreamInit => TurnOK
<1>1. <<>> \in Seq(Asked) /\ Len(<<>>) = 0
  BY EmptySeq
<1>2. (0 + 1)..(0 - 1) = {} /\ ~(0 < 0)
  OBVIOUS
<1>. QED
  BY <1>1, <1>2 DEF StreamInit, TurnOK, IdleOK

LEMMA TurnUnchanged ==
    ASSUME TurnOK, UNCHANGED <<sender, requests, handled, back>>
    PROVE  TurnOK'
BY DEF TurnOK, IdleOK, BusyOK, AnswerOK, IsResponse

LEMMA StreamStepTurn ==
    ASSUME FrameInv, TurnOK, ClientStream \/ ServerStream \/ Arrive
    PROVE  TurnOK'
<1>1. CASE \E r \in Requests : WriteHeader(r)
  BY <1>1, WriteHeaderTurn
<1>2. CASE WriteChunk \/ Written \/ Leave \/ ServerIsGone \/ Die
  BY <1>2, ClientTurn
<1>3. CASE ReadHeader
  BY <1>3, ReadHeaderTurn
<1>4. CASE ReadChunk
  BY <1>4, ReadChunkTurn
<1>5. CASE ResponseRead
  BY <1>5, ResponseWhole
<1>6. CASE ReceiveHeader \/ ReceiveChunk \/ Arrive
  <2>1. UNCHANGED <<sender, requests, handled, back>>
    BY <1>6 DEF ReceiveHeader, ReceiveChunk, Arrive
  <2>. QED
    BY <2>1, TurnUnchanged
<1>7. CASE HandleRequest
  BY <1>7, HandleRequestTurn
<1>8. CASE ThreadDies
  BY <1>8, ThreadDiesTurn
<1>. QED
  BY <1>1, <1>2, <1>3, <1>4, <1>5, <1>6, <1>7, <1>8 DEF ClientStream, ServerStream

LEMMA CollectedStep ==
    ASSUME FrameInv, TurnOK, ResponsesFramed,
           ClientStream \/ ServerStream \/ Arrive \/ UNCHANGED streamVars
    PROVE  ResponsesFramed'
<1>1. CASE ResponseRead
  <2>. DEFINE c == [to |-> Len(requests), bytes |-> sender.got]
  <2>1. c.bytes = ResponseTo(c.to, c.bytes[1][3])
    BY <1>1, ResponseWhole
  <2>2. c \in [to : Nat, bytes : Seq(Triple)]
    BY LenProperties DEF FrameInv, StreamTypeOK
  <2>. HIDE DEF c
  <2>3. /\ Len(collected') = Len(collected) + 1 /\ Len(collected) \in Nat
        /\ \A i \in 1..Len(collected) : collected'[i] = collected[i]
        /\ collected'[Len(collected) + 1] = c
    BY <1>1, <2>2, AppendProperties, LenProperties DEF ResponseRead, FrameInv, StreamTypeOK, c
  <2>4. ASSUME NEW i \in 1..Len(collected')
        PROVE  collected'[i].bytes = ResponseTo(collected'[i].to, collected'[i].bytes[1][3])
    <3>1. CASE i = Len(collected) + 1
      BY <2>1, <2>3, <3>1
    <3>2. CASE i # Len(collected) + 1
      <4>1. i \in 1..Len(collected)
        BY <2>3, <3>2
      <4>. QED
        BY <2>3, <4>1 DEF ResponsesFramed
    <3>. QED
      BY <3>1, <3>2
  <2>. QED
    BY <2>4 DEF ResponsesFramed, ResponseTo
<1>2. CASE UNCHANGED collected
  BY <1>2 DEF ResponsesFramed, ResponseTo
<1>. QED
  BY <1>1, <1>2 DEF ClientStream, ServerStream, WriteHeader, WriteChunk, Written, ReadHeader,
     ReadChunk, Leave, ServerIsGone, Die, ReceiveHeader, ReceiveChunk, HandleRequest, ThreadDies,
     Arrive, streamVars

(* As long as each write arrives whole, the client reads each response      *)
(* whole, and as the answer to the request it was waiting for (receiveData, *)
(* receiveInChunks, and 901 having no answer).                              *)
THEOREM ResponsesAreFramed ==
    ASSUME ~Splits
    PROVE  TransportSpec => []ResponsesFramed
<1>. DEFINE Inv == FrameInv /\ TurnOK /\ ResponsesFramed
<1>1. TransportInit => Inv
  <2>1. StreamInit => ResponsesFramed
    BY DEF StreamInit, ResponsesFramed
  <2>. QED
    BY <2>1, InitFramed, InitTurn DEF TransportInit
<1>2. Inv /\ [TransportNext]_transportVars => Inv'
  <2>. SUFFICES ASSUME Inv, [TransportNext]_transportVars
                PROVE  Inv'
    OBVIOUS
  <2>1. ClientStream \/ ServerStream \/ Arrive \/ UNCHANGED streamVars
    BY DEF TransportNext, StartStep, MainStep, ThreadStep, WireStep, transportVars
  <2>2. FrameInv'
    BY <2>1, StreamStepFramed, FrameInvUnchanged
  <2>3. TurnOK'
    <3>1. UNCHANGED streamVars => UNCHANGED <<sender, requests, handled, back>>
      BY DEF streamVars
    <3>. QED
      BY <2>1, <3>1, StreamStepTurn, TurnUnchanged
  <2>4. ResponsesFramed'
    BY <2>1, CollectedStep
  <2>. QED
    BY <2>2, <2>3, <2>4
<1>3. Inv => ResponsesFramed
  OBVIOUS
<1>. QED
  BY <1>1, <1>2, <1>3, PTL DEF TransportSpec
=============================================================================
