----------------------------- MODULE MCTcpExchange -----------------------------
(***************************************************************************)
(* Small instances of TcpExchange.  A client may send another query behind  *)
(* its query; server may answer with an empty message and one that there is *)
(* no room for.                                                             *)
(***************************************************************************)
EXTENDS TcpExchange

Sending(client, server) ==
    [x \in Clients \cup Upstreams |-> IF x \in Clients THEN client ELSE server]
OneEach == {Sending(<<2>>, <<2>>)}
MCSends == {Sending(<<2, 1>>, <<2>>), Sending(<<2>>, <<0, 4>>)}
===============================================================================
