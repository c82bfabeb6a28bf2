-------------------------------- MODULE MCTrade --------------------------------
(***************************************************************************)
(* Trade for TLC.  A terminal has two orders whose ids begin with the same *)
(* eight digits, as UUID v7 ids made within 65 seconds do; one of them has *)
(* no lines.  It sends them together, in one batch, and may send it again. *)
(***************************************************************************)
EXTENDS Trade

CONSTANTS c1, c2, digits

MCPrefixOf == [c \in Tickets |-> digits]
MCBatches == {<<c1, c2>>}
================================================================================
