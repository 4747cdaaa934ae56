----------------------------- MODULE MCAsyncConnect -----------------------------
(***************************************************************************)
(* A small instance of AsyncConnect: two calls at once, one through the     *)
(* proxy and one direct.                                                    *)
(***************************************************************************)
EXTENDS AsyncConnect

MCSocks5 == [proxied |-> TRUE, direct |-> FALSE]
MCCalls == DOMAIN MCSocks5
===============================================================================
