----------------------------- MODULE Connection -----------------------------
(***************************************************************************)
(* The TCP connections between clients and server threads, at the level of *)
(* whole packets: the two sides and what is on the wire between them.      *)
(*                                                                         *)
(*   link[c]   "free" : not in use                                         *)
(*             "open" : the client is connected                            *)
(*             "shut" : the client is gone, the server has not noticed     *)
(*             "dead" : the server side is closed, the client has not      *)
(*                      noticed                                            *)
(*             "cut"  : as "dead", after a part of a response was sent     *)
(*   inbox[c]  the request on its way to the server, or None               *)
(*   outbox[c] the response on its way to the client, or None              *)
(*                                                                         *)
(* One packet each way is enough: a client sends a request only after it   *)
(* has read the answer to the one before, except that 828 follows 901 with *)
(* no answer in between, and the server reads 901 without any effect.      *)
(***************************************************************************)
EXTENDS Protocol

VARIABLES link, inbox, outbox

wires == <<link, inbox, outbox>>

LinkStates == {"free", "open", "shut", "dead", "cut"}

WiresTypeOK ==
    /\ link \in [Conns -> LinkStates]
    /\ inbox \in [Conns -> Request \cup {None}]
    /\ outbox \in [Conns -> Response \cup {None}]

WiresInit ==
    /\ link = [c \in Conns |-> "free"]
    /\ inbox = [c \in Conns |-> None]
    /\ outbox = [c \in Conns |-> None]

-----------------------------------------------------------------------------
(* The client's side of connection c. *)

Connect(c) ==
    /\ link[c] = "free"
    /\ link' = [link EXCEPT ![c] = "open"]
    /\ UNCHANGED <<inbox, outbox>>

Submit(c, r) ==
    /\ link[c] = "open"
    /\ inbox[c] = None
    /\ inbox' = [inbox EXCEPT ![c] = r]
    /\ UNCHANGED <<link, outbox>>

(* The client dies after it wrote the header of r and before its payload is *)
(* written; the server takes what arrived for the whole payload.           *)
SubmitTorn(c, r) ==
    /\ link[c] = "open"
    /\ inbox[c] = None
    /\ \E t \in Torn(r) : inbox' = [inbox EXCEPT ![c] = t]
    /\ link' = [link EXCEPT ![c] = "shut"]
    /\ outbox' = [outbox EXCEPT ![c] = None]

Collect(c) ==
    /\ outbox[c] # None
    /\ outbox' = [outbox EXCEPT ![c] = None]
    /\ UNCHANGED <<link, inbox>>

(* The client closes its socket, or dies: what it sent last is delivered,  *)
(* or lost when the close is a reset.                                      *)
Hangup(c) ==
    /\ link[c] \in {"open", "dead", "cut"}
    /\ link' = [link EXCEPT ![c] = IF @ = "open" THEN "shut" ELSE "free"]
    /\ \E sent \in {inbox[c], None} : inbox' = [inbox EXCEPT ![c] = sent]
    /\ outbox' = [outbox EXCEPT ![c] = None]

-----------------------------------------------------------------------------
(* The server's side of connection c. *)

Deliver(c) ==
    /\ inbox[c] # None
    /\ inbox' = [inbox EXCEPT ![c] = None]
    /\ UNCHANGED <<link, outbox>>

Respond(c, a) ==
    /\ outbox[c] = None
    /\ outbox' = [outbox EXCEPT ![c] = IF link[c] = "open" THEN a ELSE None]
    /\ UNCHANGED <<link, inbox>>

ServerClose(c) ==
    /\ link' = [link EXCEPT ![c] = IF @ = "shut" THEN "free" ELSE "dead"]
    /\ inbox' = [inbox EXCEPT ![c] = None]
    /\ UNCHANGED outbox
=============================================================================
