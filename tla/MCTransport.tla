---------------------------- MODULE MCTransport -----------------------------
(* A small instance of Transport: chunks of three bytes, headers of two.    *)
EXTENDS Transport

(* Payloads of a part of a chunk, a whole one, and one and a part; a 901    *)
(* fills a part of a chunk.                                                 *)
FewRequests == {[size |-> 2, silent |-> TRUE]} \cup [size : {2, 3, 5}, silent : {FALSE}]

(* A path, a path that ends in blanks, one of blanks only, and none. *)
FewPaths == {[size |-> 3, blanks |-> 0], [size |-> 3, blanks |-> 3], [size |-> 0, blanks |-> 0]}
=============================================================================
