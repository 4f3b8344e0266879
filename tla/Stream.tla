------------------------------- MODULE Stream -------------------------------
(***************************************************************************)
(* One TCP connection byte by byte: how a packet is written in a header    *)
(* and chunks and how it is put together again.  It is the ground that     *)
(* Connection stands on, where packets are sent and received whole.        *)
(*                                                                         *)
(* TCP keeps the order of the bytes and nothing else.  What one write has  *)
(* sent arrives at once, or, with Splits, in any pieces.  The client reads *)
(* with boost::asio::read, which waits for all it was asked for; the       *)
(* server reads with recv, which returns what is there.                    *)
(*                                                                         *)
(* The bytes of a packet are numbered pairs <<packet, place>>, so that a   *)
(* byte in the wrong place can be told.                                    *)
(***************************************************************************)
EXTENDS Naturals, Sequences, SequencesExt

CONSTANTS
    CHUNK_SIZE,   \* of both programs (1024)
    HEADER_SIZE,  \* of a request (23)
    RESP_HEADER,  \* FIXED_RESP_HEADER_SIZE of a response (7)
    Requests,     \* [size, silent]: the payload's size, and whether it is a 901
    Replies,      \* sizes of the payloads of responses
    MaxPackets,   \* bound: requests on one connection
    Splits,       \* BOOLEAN: TCP may deliver a write in pieces
    Dies          \* BOOLEAN: the client or the thread may die at any byte

ASSUME StreamAssumption ==
    /\ CHUNK_SIZE \in Nat \ {0} /\ HEADER_SIZE \in Nat \ {0} /\ RESP_HEADER \in Nat \ {0}
    /\ Requests \subseteq [size : Nat, silent : BOOLEAN]
    /\ Replies \subseteq Nat /\ MaxPackets \in Nat
    /\ Splits \in BOOLEAN /\ Dies \in BOOLEAN

VARIABLES
    sender,    \* what the client does
    requests,  \* the requests it has begun to send
    flight,    \* writes on their way to the server, each a sequence of bytes
    arrived,   \* bytes the server has not read yet
    thread,    \* what the server's thread does
    handled,   \* the requests the thread has handled, as it understood them
    back,      \* bytes on their way to the client
    collected  \* the responses the client has read

streamVars == <<sender, requests, flight, arrived, thread, handled, back, collected>>

(*   sender.at    "idle", "writing", "waiting" (for a response), "reading"  *)
(*                (its payload), "closed"                                   *)
(*   sender.left  bytes of the payload that are still to be written or read *)
(*   sender.got   bytes of the response that were read                      *)
(*   thread.at    "header", "payload", "closed"                             *)
(*   thread.left  bytes of the payload that are still to be asked for       *)
(*   thread.what  the request that the header announced                     *)
(*   thread.head, thread.body  the header and the payload as received       *)

PacketBytes(k, from, to) == [i \in 1..(to - from) |-> <<k, from + i>>]

HeaderOf(k)  == PacketBytes(k, 0, HEADER_SIZE)
PayloadOf(k) == PacketBytes(k, HEADER_SIZE, HEADER_SIZE + requests[k].size)

NoRequest == [size |-> 0, silent |-> FALSE]

Least(a, b) == IF a <= b THEN a ELSE b

StreamInit ==
    /\ sender = [at |-> "idle", left |-> 0, got |-> <<>>]
    /\ requests = <<>>
    /\ flight = <<>>
    /\ arrived = <<>>
    /\ thread = [at |-> "header", left |-> 0, what |-> NoRequest, head |-> <<>>, body |-> <<>>]
    /\ handled = <<>>
    /\ back = <<>>
    /\ collected = <<>>

-----------------------------------------------------------------------------
(* The client sends: sendData writes the header, sendInChunks the rest.     *)

WriteHeader(r) ==
    /\ sender.at = "idle"
    /\ Len(requests) < MaxPackets
    /\ requests' = Append(requests, r)
    /\ flight' = Append(flight, HeaderOf(Len(requests) + 1))
    /\ sender' = [at |-> "writing", left |-> r.size, got |-> <<>>]
    /\ UNCHANGED <<arrived, thread, handled, back, collected>>

WriteChunk ==
    LET k      == Len(requests)
        toSend == Least(sender.left, CHUNK_SIZE)
        offset == HEADER_SIZE + requests[k].size - sender.left
    IN /\ sender.at = "writing" /\ sender.left > 0
       /\ flight' = Append(flight, PacketBytes(k, offset, offset + toSend))
       /\ sender' = [sender EXCEPT !.left = @ - toSend]
       /\ UNCHANGED <<requests, arrived, thread, handled, back, collected>>

(* Mutant: the client waits for an answer to each request. *)
AlwaysWaits(r) == "waiting"

(* INVALID_CRC: after 901 the client goes on at once. *)
Afterwards(r) == IF r.silent THEN "idle" ELSE "waiting"

Written ==
    /\ sender.at = "writing" /\ sender.left = 0
    /\ sender' = [sender EXCEPT !.at = Afterwards(Last(requests))]
    /\ UNCHANGED <<requests, flight, arrived, thread, handled, back, collected>>

-----------------------------------------------------------------------------
(* TCP delivers the oldest write, or, with Splits, the beginning of it.     *)

Arrive ==
    /\ flight # <<>>
    /\ \E n \in 1..Len(Head(flight)) :
          /\ Splits \/ n = Len(Head(flight))
          /\ arrived' = arrived \o SubSeq(Head(flight), 1, n)
          /\ flight' = IF n = Len(Head(flight)) THEN Tail(flight)
                       ELSE [flight EXCEPT ![1] = SubSeq(@, n + 1, Len(@))]
    /\ UNCHANGED <<sender, requests, thread, handled, back, collected>>

-----------------------------------------------------------------------------
(* The server receives. *)

Gone == sender.at = "closed" /\ flight = <<>>

(* recv(n) returns nothing only when the client is gone. *)
CanRecv == arrived # <<>> \/ Gone

Recv(n) == SubSeq(arrived, 1, Least(n, Len(arrived)))

Consumed(n) == arrived' = SubSeq(arrived, Least(n, Len(arrived)) + 1, Len(arrived))

(* The request that a header announces; bytes that are no header announce   *)
(* anything.                                                                *)
Announced(head) ==
    IF \E k \in 1..Len(requests) : head = HeaderOf(k)
    THEN {requests[head[1][1]]} ELSE Requests

(* Nothing was received, or struct.unpack raises: the connection is closed. *)
ReceiveHeader ==
    LET head == Recv(HEADER_SIZE)
    IN /\ thread.at = "header"
       /\ CanRecv
       /\ Consumed(HEADER_SIZE)
       /\ \/ /\ Len(head) = HEADER_SIZE
             /\ \E r \in Announced(head) : thread' =
                   [at |-> "payload", left |-> r.size, what |-> r, head |-> head, body |-> <<>>]
          \/ /\ Len(head) < HEADER_SIZE
             /\ thread' = [thread EXCEPT !.at = "closed"]
       /\ UNCHANGED <<sender, requests, flight, handled, back, collected>>

(* Mutant: a whole chunk is asked for each time. *)
WholeChunk(left) == CHUNK_SIZE

ToGet(left) == Least(left, CHUNK_SIZE)

(* The loop of receive_payload counts what it asked for. *)
ReceiveChunk ==
    LET toGet == ToGet(thread.left)
    IN /\ thread.at = "payload" /\ thread.left > 0
       /\ CanRecv
       /\ Consumed(toGet)
       /\ thread' = [thread EXCEPT !.left = @ - Least(toGet, @),
                                   !.body = @ \o Recv(toGet)]
       /\ UNCHANGED <<sender, requests, flight, handled, back, collected>>

(* A response of so many bytes to the k-th request that was handled. *)
ResponseTo(k, size) == [i \in 1..(RESP_HEADER + size) |-> <<k, i, size>>]

(* Mutant: a 901 is answered as well. *)
AlwaysAnswered(r) == TRUE

Answered(r) == ~r.silent

(* req_select, and sendall of the response.  A 901 is not answered, and     *)
(* after an exception the connection is closed.                             *)
HandleRequest ==
    /\ thread.at = "payload" /\ thread.left = 0
    /\ handled' = Append(handled, [head |-> thread.head, body |-> thread.body])
    /\ \/ /\ thread' = [thread EXCEPT !.at = "header", !.head = <<>>, !.body = <<>>]
          /\ IF Answered(thread.what)
             THEN \E size \in Replies : back' = back \o ResponseTo(Len(handled) + 1, size)
             ELSE UNCHANGED back
       \/ /\ thread' = [thread EXCEPT !.at = "closed"]
          /\ UNCHANGED back
    /\ UNCHANGED <<sender, requests, flight, arrived, collected>>

-----------------------------------------------------------------------------
(* The client receives: receiveData the header, receiveInChunks the rest.   *)

Given(n) == SubSeq(back, 1, Least(n, Len(back)))

Took(n) ==
    /\ Len(back) >= n
    /\ back' = SubSeq(back, n + 1, Len(back))

ReadHeader ==
    /\ sender.at = "waiting"
    /\ Took(RESP_HEADER)
    /\ sender' = [at |-> "reading", left |-> Head(back)[3], got |-> Given(RESP_HEADER)]
    /\ UNCHANGED <<requests, flight, arrived, thread, handled, collected>>

ReadChunk ==
    LET toGet == Least(sender.left, CHUNK_SIZE)
    IN /\ sender.at = "reading" /\ sender.left > 0
       /\ Took(toGet)
       /\ sender' = [sender EXCEPT !.left = @ - toGet, !.got = @ \o Given(toGet)]
       /\ UNCHANGED <<requests, flight, arrived, thread, handled, collected>>

ResponseRead ==
    /\ sender.at = "reading" /\ sender.left = 0
    /\ collected' = Append(collected, [to |-> Len(requests), bytes |-> sender.got])
    /\ sender' = [sender EXCEPT !.at = "idle", !.got = <<>>]
    /\ UNCHANGED <<requests, flight, arrived, thread, handled, back>>

-----------------------------------------------------------------------------
(* How the connection ends. *)

(* The program ends; the destructor shuts the socket down. *)
Leave ==
    /\ sender.at = "idle"
    /\ sender' = [sender EXCEPT !.at = "closed"]
    /\ UNCHANGED <<requests, flight, arrived, thread, handled, back, collected>>

(* The thread has closed the socket: a write fails, a read ends. *)
ServerIsGone ==
    /\ thread.at = "closed"
    /\ sender.at \in {"writing", "waiting", "reading"}
    /\ sender' = [sender EXCEPT !.at = "closed"]
    /\ UNCHANGED <<requests, flight, arrived, thread, handled, back, collected>>

(* The client dies; what it wrote last may be lost, from some byte on.      *)
Die ==
    /\ Dies
    /\ sender.at # "closed"
    /\ sender' = [sender EXCEPT !.at = "closed"]
    /\ \/ UNCHANGED flight
       \/ \E n \in 1..Len(flight) : \E i \in 0..(Len(flight[n]) - 1) :
             flight' = SubSeq(flight, 1, n - 1)
                          \o (IF i = 0 THEN <<>> ELSE <<SubSeq(flight[n], 1, i)>>)
    /\ UNCHANGED <<requests, arrived, thread, handled, back, collected>>

(* recv raises, or the server ends: what was sent last may be lost.         *)
ThreadDies ==
    /\ Dies
    /\ thread.at # "closed"
    /\ thread' = [thread EXCEPT !.at = "closed"]
    /\ \E n \in 0..Len(back) : back' = SubSeq(back, 1, n)
    /\ UNCHANGED <<sender, requests, flight, arrived, handled, collected>>

-----------------------------------------------------------------------------
ClientStream ==
    \/ \E r \in Requests : WriteHeader(r)
    \/ WriteChunk \/ Written \/ ReadHeader \/ ReadChunk \/ ResponseRead
    \/ Leave \/ ServerIsGone \/ Die

ServerStream == ReceiveHeader \/ ReceiveChunk \/ HandleRequest \/ ThreadDies

(* What a program does that it has begun to do. *)
ClientGoesOn == WriteChunk \/ Written \/ ReadHeader \/ ReadChunk \/ ResponseRead \/ ServerIsGone
ThreadGoesOn == ReceiveHeader \/ ReceiveChunk \/ HandleRequest

-----------------------------------------------------------------------------
(* Properties. *)

(* The server handles the requests that were sent, in this order and as     *)
(* they were sent; only the last one it handles may be cut short, by the    *)
(* end of the client.  This is what Connection takes for granted            *)
(* (handle_request, receive_payload).                                       *)
RequestsFramed ==
    \A i \in 1..Len(handled) :
        /\ i <= Len(requests)
        /\ handled[i].head = HeaderOf(i)
        /\ \/ handled[i].body = PayloadOf(i)
           \/ /\ sender.at = "closed" /\ i = Len(handled)
              /\ IsPrefix(handled[i].body, PayloadOf(i))

(* The client reads each response whole, and as the answer to the request   *)
(* it was waiting for (receiveData, and 901 having none).                   *)
ResponsesFramed ==
    \A i \in 1..Len(collected) :
        LET c == collected[i]
        IN c.bytes = ResponseTo(c.to, c.bytes[1][3])
=============================================================================
