--------------------------------- MODULE MCSans ---------------------------------
(***************************************************************************)
(* Small instances of Sans: one polluted name, one clean one, and requests  *)
(* for both whose ids are among those ns_newid may pick.                    *)
(***************************************************************************)
EXTENDS Sans

MCNames == {"gfw", "cn"}
MCPolluted == {"gfw"}

\* Two requests: the first for the polluted name.
TwoRequests == 1 .. 2
TwoNames == <<"gfw", "cn">>
TwoIds == <<1, 2>>
===============================================================================
