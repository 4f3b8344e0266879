# Verification of the encrypted file transfer system

TLA+ models of the client (`Client/`, C++) and the server (`Server/`, Python),
checked with TLC, and proofs about the server, the client, the two together, the
file and the byte stream, checked with TLAPS. Paths below are relative to `src/`.

## The system

A client registers a user at the server, exchanges keys with it (the client
sends an RSA public key, the server answers with an AES key encrypted for it),
uploads one file encrypted with the AES key, compares the checksum that the
server computed with its own, and confirms or aborts. The server keeps clients
and files in SQLite and the decrypted files in a backup directory.

| Part | State | Operations | Hard behaviour |
|---|---|---|---|
| Server connections (`Server.py`, `requestHandler.py:25-61,275-291`) | a thread per connection, and what it is doing | accept, read and dispatch, respond, close | threads interleave between any two queries; connections break; the process crashes |
| Registration (`requestHandler.py:73-98`) | table `clients` | 825 | look-up and insertion are two queries |
| Key exchange, sign-in (`requestHandler.py:103-142`, `CryptoHandler.py:20-46`) | columns `public_key`, `aes_key` | 826, 827 | store, read back, generate, store, encrypt: five steps, each of which may fail |
| File reception (`requestHandler.py:147-187`) | table `files`, backup directory | 828 | decrypt, truncate, write, insert, read back: other threads in between |
| Validation, abort (`requestHandler.py:192-245`) | table `files`, backup directory | 900, 901, 902 | file and row are removed separately; 901 has no answer of its own |
| Database (`DefensiveDB.py`) | both tables, a lock around each query | one query per call | the lock does not span a handler |
| Server start (`Server.py:16-60`, `DefensiveDB.py`) | `port.info`, the tables, the backup directory | `create_db`, `make_backup_path`, `get_port_info`, `set_connection` | any step may be the last; the port may be taken |
| Checksums (`cksum.py`, `cksum_new.cpp`) | none | `memcrc`, `readfile` | two programs written independently, with integers of different sizes; the server's `readfile` ends the thread, the client's returns a value that is also a checksum |
| Client program (`Client.cpp`) | `_requestPacket`, `_responsePacket`, `_crcValid`, `_registeredClient` | `main`, `registerNewClient`, `signIn`, `uploadFile`, `errorResend`, `resendEncryptedMessage` | retries; state left over from the request before; every call ends differently on an error |
| Client requests and responses (`requestHandler.cpp`, `responseHandler.cpp`) | `me.info`, `clientID` | build a request, act on a response | two files written one after the other |
| Client keys (`EncryptionHandler.cpp`) | `key.priv`, the key pair of the run, the AES key | make a pair, save it, open an AES key | a new pair in each run, but one `key.priv` for all |
| Sizes of a file (`requestHandler.cpp:215-292`, `EncryptionHandler.cpp:100-115`) | the file on the client's disk | measure, read, encrypt | 16-bit and 32-bit sizes that may wrap; the file is looked at twice and may change in between |
| Client start (`Client.cpp:7-20`, `transferInfo.cpp`) | `transfer.info` | construct the members, parse, connect | members are constructed in another order than they are written in |
| Client connection (`connectionHandler.cpp`) | the socket | connect, send, receive, close | what is thrown when it breaks, and who catches it |
| The byte stream (`connectionHandler.cpp:22-166`, `requestHandler.py:25-61`) | bytes on their way | write and read headers and chunks | `read` waits for all it asked for, `recv` does not |

Clients and server meet only on the TCP connection; threads of the server meet
in the database and the backup directory; runs of the client on a machine meet
in `me.info` and `key.priv`.

What makes each part correct: user names are unique; no file without an
exchange of keys; a delivered AES key is a stored one; approvals are for the
file that was checked, and last; an abort removes what it says; every request
is answered; the client confirms only what matches, retries a bounded number of
times and ends; and together, the keys of both sides agree, what is verified is
intact, and every upload is verified in the end.

## Modules

| Module | Models |
|---|---|
| `Protocol` | request and response codes, packets as records, what is left of a packet whose sender dies |
| `Connection` | one TCP connection: who is still there, the request and the response on the way |
| `BackupServer` | the server: one step per query, file operation or decision of a handler; faults and crashes; clients that send any request of a set `Traffic` |
| `UploadClient` | the client program, run `MaxRuns` times on each machine, and (`ClientSpec`) the same with any server that keeps to the protocol |
| `FileTransfer` | both together; implements `BackupServer`, `ClientSpec` and, without failures, `UploadLife` |
| `UploadLife` | abstract: what one user is promised, without requests, threads or keys |
| `Cksum` | the checksum as each program computes it, and the definition of POSIX |
| `CksumTables` | the tables of the two programs, entry by entry |
| `FileCheck` | one file, its sizes, padding and checksums, and what `uploadFile` does after each answer to its 828, while the user may change it and the server may fail |
| `StartUp` | both programs from their start to the accept loop and to `main` |
| `Stream` | one TCP connection byte by byte |
| `Transport` | `StartUp` and `Stream` together: the ground that `Connection` stands on |
| `TransferInvariants` | the inductive invariants behind the properties of `FileTransfer` |
| `Attempts` | a count beside the client: how often `uploadFile` sent its file |
| `BackupServerProofs`, `UploadClientProofs`, `AttemptProofs`, `FileTransferProofs`, `FileCheckProofs`, `TransportProofs` | theorems about the module of that name |
| `OwnershipProofs`, `WholeProofs` | theorems about `FileTransfer`: whose uuids, key pairs and AES keys are whose, and that files stay whole |
| `MCBackupServer`, `MCUploadClient`, `MCFileTransfer`, `MCFileCheck`, `MCTransport` | small instances; `MCUploadClient` adds a server that gives any answer of the protocol |

Three views of a file and a connection are kept apart, since together they would
be too large to check. `BackupServer`, `UploadClient` and `FileTransfer` have all
the control: who sends what, what each thread and program does, what fails; a
file is a value there, its checksum is its content, and a packet arrives whole
or cut. `FileCheck` has the bytes of a file, and of the exchange only 828 and its
answers, with the loops of `uploadFile` that these drive. `Stream` has the bytes of the packets and takes what is
in them for granted.

### BackupServer and the code

`clients` and `files` are the two tables as functions from uuid to row (or
`None`); the primary key of both is the uuid. `backup` is the directory
`backupsvr` as a function from user name and file name to content. `pc[c]` is
the place where the thread of connection `c` is, `req[c]` its request, `held[c]`
the public key or the decrypted file in its local variables, `ans[c]` the
response it has built. `detached` are the threads whose open file has been
unlinked.

| Actions | Code |
|---|---|
| `Accept`, `CloseConnection`, `SendResponse`, `EndThread` | `Server.py:31-77`, `requestHandler.py:29-32,55-61` |
| `Dispatch`, `RejectVersion`, `DropUnknownCode` | `requestHandler.py:275-291` |
| `FindUsername`, `AddNewClient` | `requestHandler.py:73-98`, `DefensiveDB.py:113-130` |
| `SetPublicKey`, `RecoverPublicKey`, `StoreAesKey`, `EncryptKey` | `requestHandler.py:103-142`, `CryptoHandler.py:20-46` |
| `DecryptFile`, `OpenFile`, `WriteFile`, `AddNewFile`, `ReadCrc` | `requestHandler.py:147-187`, `CryptoHandler.py:48-60`, `cksum.py:77-86` |
| `UpdateVerified`, `DeleteFromBackup`, `DeleteUnverified` | `requestHandler.py:192-229`, `DefensiveDB.py:77-90,137-145` |
| `StepFails` | the `except` clauses of the handlers, `Exceptions.py` |
| `Crash` | the process dies and is started again; tables and files survive |

A step is what happens between two points where another thread can make a
difference: a query is one step because `run_thread_query` holds the lock
around it. Queries whose result is constant once it is there (the user name of
a uuid) are part of the step that uses it.

### UploadClient and the code

`proc[m]` is the program on machine `m`: `at` is the call of `main`, `op` the
request code, `mode` and `tries` the retry loop, `phase` whether it is about to
send, waits for an answer, writes `key.priv` or `me.info`, or ends; `id` is
`clientID`, `aes` the key, `last` the response packet. `AfterReply` and the
operators below it say what the program does next and follow the calls of
`Client.cpp` one by one; `Throw` is the exception of `THROW_IF_NOT`, which
`uploadFile` turns into `exit(1)` and the other calls into `false`.
`PayloadLost` is the exception that nobody catches.

`file` is `_filename` of the request handler. `requestHandler` is constructed
before the `TransferInfo` it asks for the name (`Client.h:28`), so that the name
is undefined until 828 sets it (`SetsName`, `KeepsName`). `VerdictNamesUpload`
says that it is never used before.

`ClientSpec` is the client with a server of which no more is assumed than that
it answers each request once, with an answer to it (`IsAnswer`), or closes
(`ServerSide`).

### FileTransfer

Extends both; every step is one of a machine or one of the server, and all they
share is the connection. `Conns` and `PubKeys` are both the set of runs, since
each run has one connection and one key pair. Its requests are a part of what
`BackupServer` lets clients send, and its answers a part of what `ClientSpec`
lets a server give, so that `BackupServer!Spec` (`ServerSpec`) and `ClientSpec`
are properties of it: what is proved about either side holds for the whole.

`StageOf(m)` reads the stage of a backup off `me.info` and the tables; with it
`FileTransfer` without failures implements `UploadLife` (`KeepsPromise`): the
stages of a user only ever climb, and to the last one; a copy that is begun is
finished; and nothing is put on record or verified unless the copy is whole.

### FileCheck and the code

| Actions and operators | Code |
|---|---|
| `MeasureFile`, `totalEncryptedPacket`, `RoundedUp` | `getFileSizes`, `totalEncryptedPacket` (`requestHandler.cpp:215-256`) |
| `SendFile`, `CannotSend`, `encryptMsg` | `encryptFile`, `getEncryptedData`, `setEncryptionPayload` (`requestHandler.cpp:67-96,258-292`), `encryptMsg` (`EncryptionHandler.cpp:100-115`) |
| `HandleEncryptedFile`, `Unpad` | `requestHandler.py:147-187`, `CryptoHandler.py:48-60` |
| `HandleFails` | the `except` clause of `handle_encrypted_file` (`requestHandler.py:161-163`), which answers 1607; `readfile` that ends the thread; the loss of the connection |
| `TakeError`, `After`, `errorResend`, `resendEncryptedMessage` | the macros of `Client.h:15-19`, `Client.cpp:118-142` |
| `checkSum`, `CheckUnread`, `Judge`, `readfile` | `responseHandler.cpp:93-113`, `cksum_new.cpp:439-474` |
| `memcrc` | `cksum.py:62-86` |
| `memcrcLong`, `NoFileCrc` | `cksum_new.cpp:439-474` |
| `ServerTable`, `ClientTable` | `cksum.py:9-60`, `cksum_new.cpp:4-58` |

`mode` and `tries` are the loop that `uploadFile` is in. A `HandleFails` that is
answered with 1607 leads to `errorResend` when the 828 was the first one, and
counts as an attempt in `resendEncryptedMessage`, which does not look at the code
of a response but only at `_crcValid`: one change of the file and two such errors
give a 902 for a file that would have matched. `AbortedOnlyIfDisturbed` says
how much it takes: at least one change, and for each of the three attempts a
change or an error of the server (`refused`).

A word is the set of the positions of its one-bits: exclusive or is the
symmetric difference, and a word is a polynomial over two elements. `Posix` is
the definition of the `cksum` command, the remainder of one long division, and
has nothing in common with the two table-driven loops. The tables are
constants of `Cksum`, of which it is assumed that they are the same
(`TablesAgree`). `MCFileCheck` evaluates that, and the rest, at the width of the
programs with the tables as they are written in the code (ASSUMEs, which TLC
evaluates in run `checksum`): the tables are the same in all 256 places, and each
entry is the remainder that POSIX asks for (`RealTables`); padding is read as it
was written (`SamePadding`); both programs and `Posix` give `abc` and, for the
server, an empty file their known checksums (`KnownChecksums`).

`long` is the width of an `unsigned long` in the client's build: 32 bits on
Windows, for which it was written, 64 elsewhere. The complement at the end of
`memcrc` and the `-1` for a file that cannot be found are that wide. Where it is
32 bits, `-1` is also the checksum of the empty file and of other files, so that
such a file, when it is removed after it was sent, is confirmed.
`ConfirmedMeansStored` says that nothing else can be confirmed without a local
file; the instance has both an empty and a non-empty file of this checksum.

### StartUp, Stream and Transport and the code

`server.at` and `client.at` are the step of `Server.__init__` and
`start_server` (`Server.py:16-60`) and of the constructors of `Client` and its
members (`Client.h`, `Client.cpp:7-20`, `transferInfo.cpp:13-87`). Every step
can be the last: an exception that nobody catches, or `exit(1)`.

In `Stream` a byte is a pair of its packet and its place. `WriteHeader`,
`WriteChunk`, `ReadHeader` and `ReadChunk` are `sendData`, `sendInChunks`,
`receiveData` and `receiveInChunks` (`connectionHandler.cpp:60-166`);
`ReceiveHeader`, `ReceiveChunk` and `HandleRequest` are `handle_request` and
`receive_payload` (`requestHandler.py:25-61`). What a thread does with bytes that
are no header is any request (`Announced`).

### Abstractions

- In the three larger modules a checksum is the content it was computed from:
  contents that differ are taken to have different checksums. What this leaves
  out is in `FileCheck`: two files of the same checksum differ in more than one
  stretch of 32 bits.
- AES keys are numbers in the order in which they were stored; what is encrypted
  with one key cannot be decrypted with another, except to junk (`Garbled`). In
  `FileCheck` the keys are right, and a ciphertext is written as the padded
  text it decrypts to, since only its length is looked at.
- In the three larger modules packets arrive whole or are cut by the end of the
  stream. A payload is lost as a whole, or, for 828, in its content. A header
  that is cut closes the connection, as a client that leaves does. `transport`
  checks that this is what the stream does if each write arrives at once
  (`Splits = FALSE`). It is an assumption about TCP that nothing guarantees:
  `short_reads` shows what happens otherwise.
- `Transport` has one client and one thread: a connection has only one thread,
  and threads do not share connections.
- `last_seen` and `path_name` are not kept: nothing reads them.
- An open file that is removed lives on without its name (POSIX). In `FileCheck`
  the client's file cannot be removed while it is being measured and read, and
  the client's `readfile` is one step.
- One program at a time per machine; `transfer.info` does not change between
  runs. The server is started again at once after a crash.
- The uninitialised AES key of a client that uploads without one is `NoKey`; no
  run reaches that point (`FileSentWithKey`).

## What is checked

Every run is one cfg; the bounds are in it.

| Run | Instance | Shows |
|---|---|---|
| `server_faults` | 2 connections, 1 user, 1 file, torn requests, faults, crashes | `IInv`, `NoFileBeforeKeyExchange`, `BackupHasOwner`, `DeliveredKeyWasStored`, `VerifiedRowPermanent` |
| `server_session` | 1 connection, 2 users, 2 files, 2 contents | `TypeOK`, `UniqueUserNames`, `UnverifiedRowHasFile`, `AbortRemovesFile`, `ChecksumIsOfUpload`, `SessionInv`, `ApprovalNamesFile` |
| `server_answers` | 2 connections, fair | `EveryRequestAnswered` |
| `client_any_server` | 2 runs on 1 machine, any answers, local faults, kills, connections that break | `ClientTypeOK`, `FileSentWithKey`, `ConfirmsOnlyMatches`, `VerdictNamesUpload`, `ClientInv`, `AttemptsBounded`, `EveryRunEnds` |
| `transfer_two_users` | 2 machines, 1 run each, fair, no failures | `OwnershipInv`, `KeyAgreement`, `VerifiedMeansIntact`, `NoFailureInv`, `KeepsPromise` |
| `transfer_crashes` | 1 machine, 2 runs, kills, torn requests, faults, crashes | `MeInfoIsRegistered`, `PublishedKeyMatches`, `TransferInv`, `PairInv`, `ServerSpec`, `ClientSpec` |
| `checksum` | 1 file, 15 contents, small words, up to 3 disturbances, a server that may fail at any 828 | `SizesAgree`, `StoredAsRead`, `CksumIsPosix`, `AbortedOnlyIfDisturbed`, `ConfirmedMeansStored` |
| `transport` | server and client from their start, up to 3 requests, either side may die at any byte | `MainIsReady`, `RequestsFramed`, `ResponsesFramed`, `NobodyWaitsForever` |

Four runs end in a violation, each of something that a comment of the code says:

| Run | What happens |
|---|---|
| `server_duplicate_names` | both of two threads find a name free before either inserts it, and both register it (`requestHandler.py:78`) |
| `server_upload_unrecorded` | a user's second file is stored, checksummed and confirmed, and has no row (`requestHandler.py:149`, `DefensiveDB.py:106`) |
| `client_terminates` | an `error_code` is thrown and nobody catches it (`connectionHandler.cpp:77`) |
| `short_reads` | `recv` returns the part of a payload that has arrived, `receive_payload` counts all that it asked for, and the request is handled with that part; the rest is taken for the next header (`requestHandler.py:26,47`) |

Two more disagreements are visible in the models and have no run. A request with
an unknown code is not answered with an error, as `requestHandler.py:278` says:
`req_select` calls what is not a function, and the connection is closed
(`DropUnknownCode`). And the repository's README says that the server stores
encrypted data only, while it stores what it decrypted (`WriteFile`).

Properties that hold only without failures are checked without them, and this
is part of what they say:

- `ApprovalNamesFile` fails with `TornRequests`: a 900 whose file name was lost
  selects the row by the uuid alone.
- `AbortRemovesFile` fails with `Faults`: `delete_from_backup` swallows its error.
- `UniqueUserNames` and `ChecksumIsOfUpload` fail with two threads,
  `UnverifiedRowHasFile` with a crash in an abort.
- `KeyAgreement` fails with kills: the thread of a run that was killed may still
  store a key while the next run uses its own. `DeliveredKeyWasStored`, which is
  checked with two threads of one user, says less: the key that is delivered
  may be an earlier one that has been replaced.
- `VerifiedMeansIntact` fails with kills, since the next upload may be cut and
  is written over the file that is verified. In the run in which it holds no 902 is
  sent; with one, after the 900 of an earlier run, the file is removed and the row
  stays. `VerifiedRowPermanent`, which is checked with failures, is about the row
  only.
- `PublishedKeyMatches` fails with `LocalFaults`: a run that is signed in but
  cannot read `key.priv` just then publishes its new public key, whose private
  key is saved nowhere, and the user is locked out.
- `KeepsPromise` needs every part to work: its liveness is what the system does
  for a user when nothing fails.
- `RequestsFramed` fails with `Splits`, which is run `short_reads`.

Bounds. Two threads are enough for an interleaving of two handlers, which is
all that the shared rows can tell apart. `MaxKeys` bounds how many AES keys are
asked for: none is once so many are stored, so that two connections, which may
both ask before either key is stored, get two keys even when it is 1, and two are
enough for a stale one. In `server_faults` the two connections are symmetric. A
run of the client sends at most 7 requests for a key, and `EnoughKeys` is
`7 * MaxRuns`, so that `FileTransfer` is never cut by `MaxKeys`. Two runs are
enough for one that starts with the files of another.

`checksum` has checksums of 4 bits and bytes of 2, so that a byte is shorter than
a checksum, which is shorter than a file; blocks of 2 bytes; `Max16` 3 and `Max32`
15, so that files at, below and above each limit occur and rounding up wraps; an
unsigned long of 4 or 8 bits, which is as long as a checksum or twice that. Three
disturbances are one for each attempt that a file has, and the server may fail at
each. `transport` has chunks of
3 bytes and payloads that fill a part of a chunk, one, and one and a part;
responses with and without a payload; three requests, so that a 901 may stand
between two others; names just below, at and above what is allowed. `short_reads`
has two requests, as many as it needs.

Fairness. `server_answers` assumes that the operating system runs every thread
that can run and that a client reads its socket; nothing is assumed of what
clients send. `client_any_server` assumes that the program runs, and that the
server answers or closes, which is what `server_answers` shows of it.
`transfer_two_users` assumes both, and that each user starts the program.
`transport` assumes that programs go on with what they have begun and that TCP
delivers; nobody has to send one more request, to leave or to die.

Deadlock is checked in the server's runs. It is not in the others: after
`MaxRuns` runs every program has ended, a file is confirmed or given up, a
program that could not start is gone, and nothing is left to do.

Each property of a passing run has a mutant: a definition of the same module,
marked "Mutant" and placed before the one it would replace, that differs from
it as a plausible mistake in the code would, and with which TLC finds the
property violated.

## What is proved

`BackupServerProofs` proves for every set of connections, uuids, names, files,
keys and contents, for every `Traffic`, and with any of the failures:

- `ServerInvariant`: `IInv` is an invariant.
- `TypeCorrect`, `KeyExchangeComesFirst`, `BackupIsOwned`, `KeysAreStoredFirst`:
  the type invariant and the invariants of `server_faults`, which are parts of
  `IInv`.
- `ApprovalIsPermanent`: `VerifiedRowPermanent`.
- `ApprovalsNameTheFile`: `ApprovalNamesFile`, for traffic that arrives whole.

None of the properties is inductive: `NoFileBeforeKeyExchange` speaks of a row
that a thread inserts several steps after it found the key, with the lock
released in between. `IInv` adds what a thread may rely on at each of its steps
(`HandlerOK`, `AnswerOK`) and how the columns of a row hang together (`RowsOK`).
That this survives the steps of all the other threads is the heart of the
proof: rows of `clients` are never deleted, a public key is replaced only by a
public key and an AES key only by a later one (`Grows`, lemma `HandlerKeeps`).
There is a lemma per action; `RestStill` and `LocalStep` cover what most of them
have in common.

`UploadClientProofs` proves of the client with any server that keeps to the
protocol (`ClientSpec`), for any machines, any number of runs on each, and with
local faults and kills:

- `ClientInvariant`: `ClientInv` is an invariant.
- `ClientTypeCorrect`, `FilesAreSentWithKeys`, `OnlyMatchesAreConfirmed`,
  `VerdictsNameTheUpload`: the properties of `client_any_server` of these names.

`ClientInv` says of each place of `main` what the program may rely on there
(`InPlace`, `ProgramOK`): which responses the last one can have been, when there
is a key, when the name is set, when `_crcValid` is of this upload. `WiresOK`
says what can be on its connection. The lemmas about `Return`, `Throw` and
`AfterReply` say where the program goes from each of these places; then there is
one lemma per action. A step of one machine does not touch the connections of
another (`MachineKeeps`).

`FileTransferProofs` proves of clients and server together, with kills, torn
requests, faults and crashes:

- `TransferInvariant`: `TransferInv` is an invariant.
- `ImplementsServer`: `FileTransfer` implements `BackupServer` (`ServerSpec`).
- `ImplementsClient`: `FileTransfer` implements the client with any server that
  keeps to the protocol (`ClientSpec`).

So every theorem about the server holds with the clients of `Client.cpp`, and
every theorem about the client holds with the server of `requestHandler.py`.
`BackupServer` lets a client send only when its thread waits for a request and
nothing is on the wires, and `ClientSpec` lets a server answer only what was
asked; that clients and server do so to each other is what has to be proved,
and it depends on both never losing count: a 901 has no answer, all other
requests have exactly one, and either side may break off at any point.
`TransferInv` is `IInv`, `ClientInv` and, for each open connection, where its one
request or answer is (`ExchangeOK`) and that the thread is at a step of the
handler of that request (`HandledOK`). A thread's step is one of five things for
the client (`Outcome`: a request comes, is taken, is worked on, an answer is
sent, the connection ends), and a step of a machine touches the connection of
its current run only (`RunStep`). The theorems assume that `Traffic` has all the
requests that the clients send, with any keys, and that requests may be torn if
programs may be killed. (TLC's `Traffic` has the keys up to `MaxKeys`, which are
all that can occur there.)

Of the server when it never has two threads at once (`OneThread`), the same
module proves:

- `SessionInvariant`: `SessionInv` is an invariant.
- `NamesAreUnique`, `ChecksumsAreOfUploads`: `UniqueUserNames` and
  `ChecksumIsOfUpload`, whatever fails.
- `AbortsRemoveFiles`: `AbortRemovesFile`, without failing steps.
- `RowsHaveFiles`: `UnverifiedRowHasFile`, without failing steps and crashes.

These are what the handlers were written for, one at a time. `SessionInv` says
what a handler found and may still count on, since nobody else can have changed
it (`UndisturbedOK`), what an abort in progress has done so far (`AbortOK`), and
which rows may have lost their file (`UnverifiedOK`). A second thread breaks the
first, a fault the second and a crash the third, which is why each theorem
assumes no more than it does.

`OwnershipProofs` and `WholeProofs` prove what client and server agree on. There
are four invariants of `TransferInvariants`, each of which follows one kind of
thing from the side that makes it to the side that keeps it, and each of which
needs the one before it:

| Theorems | State | Assume |
|---|---|---|
| `UuidsHaveOneOwner`, `MeInfoIsTrue` | `OwnershipInv`, `MeInfoIsRegistered` | nothing: any failure |
| `PairsHaveOneOwner`, `PublishedKeysMatch` | `PairInv`, `PublishedKeyMatches` | readable local files |
| `KeysHaveOneOwner`, `FilesAreSentUnderServerKey` | `AgreementInv`, `KeyAgreement` | no kills |
| `FilesAreWhole`, `VerifiedFilesAreIntact`, `ImplementsUploadLife` | `NoFailureInv`, `VerifiedMeansIntact`, `KeepsOrder` | no failures, and machines with different owners |

- `OwnershipInv` follows a uuid from the row in which it is registered, through
  the response and the `createNewClientFile` that saves it, to `me.info`
  (`GivenTo`): all along it is registered for that machine's owner and no other
  machine has it. Requests carry the sender's own uuid or none (`SentByOwner`).
- `PairInv` follows the public key from the run that made it through the request
  and the thread to the row. What makes it inductive is the client's order:
  a run publishes a pair of its own only if it has saved it
  (`PublishesSavedKey`), since `createNewClientFile` fails when `key.priv` is
  there, and a sign-in is never answered by what makes the client publish anew.
- `AgreementInv` follows the AES key from the row to the file that is encrypted
  with it. `Attended` is why a kill breaks it: a thread then still works on the
  request of a run that is gone. A fault or a crash of the server does not.
- `WholeInv` follows the content of the file. Its parts say when there is a copy
  (`HasCopy`), that it is empty only while the thread is about to write it
  (`CopyOK`), and that no attempt has to be repeated (`NoRetries`), so that no
  abort ever removes it.
- `ImplementsUploadLife` is the refinement: a step of `FileTransfer` is, under
  `StageOf`, one of `UploadLife` or nothing. `AddNewFile` is `Record`,
  `UpdateVerified` is `Verify`, `OpenFile` is `BeginCopy`, `WriteFile` is
  `FinishCopy`; `Register` is the client's writing of `me.info`, and `AgreeKey`
  the server's first key for it, so that the stages of one user are climbed by
  steps of two programs. Two machines of one owner would share a copy
  (`OwnersDiffer`).

`StageOf` was first written with `CASE`, whose arms overlapped; TLC takes the
first that holds, but the meaning is any of them, and the proof did not go
through until the order was made explicit.

The other assumptions are those named in `Protocol`, `BackupServer` and
`UploadClient`: the literals differ from the values they stand beside, the
switches are Booleans, and what a machine sends is of the type of the protocol.

`AttemptProofs` proves of the same client as `UploadClientProofs`, with the count
of `Attempts` beside it:

- `AttemptsInvariant`: `AttemptsInv` is an invariant.
- `AttemptsAreBounded`: `AttemptsBounded`.

The bound is not in any one place of the code: 828 is sent once, twice more by
`errorResend`, and twice more by `resendEncryptedMessage`, which begins after one
to three of the former (`Before`). The other ends of those loops, by an answer,
by a failure to build the request or by the end of the connection, must not
leave the count behind, and the 902 that follows the last attempt must not be
reached another way. The count is looked at by no step, so that it is still the
client (`CountingIsHarmless`).

`FileCheckProofs` proves, for every width of words, size of blocks and integers
and set of files:

- `SizesInvariant`, `SizesAlwaysAgree`: `SizeInv` is an invariant, and with it
  `SizesAgree`. The sizes are measured and rounded up with integers that wrap;
  that every file that is sent has the right ones depends on the second look at
  the size of the ciphertext (`Fits32`) and on `Max32 + 1` being a multiple of a
  block, as 2^32 is of 16.
- `StoredAsItWasRead`: `StoredAsRead`.
- `GivenUpOnlyIfDisturbed`: `AbortedOnlyIfDisturbed`. Its invariant (`AbortInv`)
  sets what `resendEncryptedMessage` has counted (`Charged`) against the
  disturbances and errors there were (`Spent`). The first is never the larger;
  and while they are the same (`Undisturbed`), the file is as it was when it was
  measured and read, so that its answer will match. That takes a lemma about the
  two programs: they enter the same bytes and take the same turn for each, since
  narrowing to an unsigned long of at least 32 bits leaves what `UNSIGNED` keeps,
  and so compute the same.
- `ConfirmedOnlyIfStored`: `ConfirmedMeansStored`, by the same lemma: what the
  client computed of its file is the checksum of the stored one, or it is -1 for a
  file that is gone, which is as wide as what it is compared with only where an
  unsigned long is.

The last three have one hypothesis, `PaddingIsRead`: that a byte of padding is
read as the number it was written for. It is about a fold, which only an
induction unrolls; TLC evaluates it for the small words and for bytes of 8 bits in
blocks of 16. That the tables agree is an assumption on the constants
(`CksumAssumption`), and true of the code's tables (`RealTables`). Nothing is
assumed about which files have the same checksum. What a checksum is
trusted for, that two files which differ in one stretch of its width have
different checksums, is an ASSUME of `MCFileCheck` (`NearMissesDetected`), which
TLC evaluates for the files of the instance; no theorem rests on it.

`TransportProofs` proves, for any ports, names, sizes of packets and chunks and
any number of requests:

- `MainIsAlwaysReady`: `MainIsReady`, whatever step of either start may fail.
- `RequestsAreFramed`, `ResponsesAreFramed`: `RequestsFramed` and
  `ResponsesFramed`, whoever dies at any byte, if each write arrives whole
  (`~Splits`). Without this they are false, which is run `short_reads`.

`FrameInv` numbers the bytes of all requests in one line, from the first header
on (`Layout`), and says that what the thread has read, what has arrived and what is
on its way are adjacent stretches of it (`PipeOK`), so that no byte is lost,
doubled or moved. What keeps the thread in step is that arrivals end where a
write ended (`EndsWrite`), and that the thread asks for exactly what a write
contains: the header, whole chunks and the rest. A client that dies cuts
its last write, and from then on nothing may follow (`Intact`, `Spent`). `TurnOK`
adds whose turn it is: at most one response is on its way, it belongs to the
last request that is answered, and the client asks for exactly as many bytes as
it has.

Only model-checked:

- liveness, which is out of the prover's reach: `EveryRequestAnswered`,
  `EveryRunEnds`, `NobodyWaitsForever`, and the part of `KeepsPromise` that is
  not `KeepsOrder`;
- `CksumIsPosix`, which says what a loop computes for every input, and induction
  over data is out of the prover's reach too.

## Not modelled

The cryptography itself (RSA, AES and their encodings are external: which key
opens what is all that is kept), the formats in which keys and uuids are printed
and stored, and what is printed. Of the eight tables of `cksum_new.cpp` only the
first is used. A second server process on the same database is not considered:
it cannot bind the port unless `port.info` was changed.

## What is left

`UniqueUserNames` is proved for one thread only; with several it holds for names
whose registrations do not overlap, which has no property so far. That
`PaddingIsRead` holds for every block shorter than 2^8, and `CksumIsPosix` for
every file, are short inductions for a prover that has one. The near misses
are evaluated for the files of the instance only; that the checksum tells them
apart for all files is a fact about its generator that is not proved.
