----------------------------- MODULE Transport ------------------------------
(***************************************************************************)
(* A server and a client from their start on: what connects them, and how  *)
(* their packets cross the connection as bytes.                            *)
(*                                                                         *)
(* The client writes from main on.  Its connection stands as soon as the   *)
(* server listens, and what it writes waits until a thread has been made   *)
(* for it.                                                                 *)
(***************************************************************************)
EXTENDS StartUp, Stream

transportVars == <<startVars, streamVars>>

TransportInit == StartUpInit /\ StreamInit

StartStep  == (ServerStarts \/ ClientStarts \/ accept_client) /\ UNCHANGED streamVars
MainStep   == client.at = "main" /\ ClientStream /\ UNCHANGED startVars
ThreadStep == accepted /\ ServerStream /\ UNCHANGED startVars
WireStep   == Arrive /\ UNCHANGED startVars

TransportNext == StartStep \/ MainStep \/ ThreadStep \/ WireStep

(* The programs go on with what they have begun, and TCP delivers.  Nobody  *)
(* has to write one more request, to leave or to die.                       *)
TransportFairness ==
    /\ WF_transportVars(ServerStarts /\ UNCHANGED streamVars)
    /\ WF_transportVars(ClientStarts /\ UNCHANGED streamVars)
    /\ WF_transportVars(accept_client /\ UNCHANGED streamVars)
    /\ WF_transportVars(client.at = "main" /\ ClientGoesOn /\ UNCHANGED startVars)
    /\ WF_transportVars(accepted /\ ThreadGoesOn /\ UNCHANGED startVars)
    /\ WF_transportVars(WireStep)

TransportSpec == TransportInit /\ [][TransportNext]_transportVars /\ TransportFairness

-----------------------------------------------------------------------------
(* A client that waits for an answer, or for the rest of one, does not wait *)
(* forever: a thread reads its request and answers, and the whole answer    *)
(* arrives, or the connection ends (start_server, handle_client,            *)
(* receiveData, receiveInChunks).                                           *)
NobodyWaitsForever ==
    sender.at \in {"waiting", "reading"} ~> sender.at \notin {"waiting", "reading"}
=============================================================================
