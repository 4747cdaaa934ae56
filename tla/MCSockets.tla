------------------------------- MODULE MCSockets -------------------------------
(***************************************************************************)
(* A small instance of Sockets: two TCP clients and a UDP client that ask   *)
(* for the same polluted name under the same id 0, and two descriptors for  *)
(* the clients and the connections to server.                               *)
(***************************************************************************)
EXTENDS Sockets

MCNames == {"gfw"}
ThreeRequests == 1 .. 3
TwoClients == 1 .. 2
SameName == <<"gfw", "gfw", "gfw">>
SameId == <<0, 0, 0>>
===============================================================================
