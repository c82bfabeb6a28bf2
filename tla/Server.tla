--------------------------------- MODULE Server ---------------------------------
(***************************************************************************)
(* What the modules of the stages that any request passes have in common,  *)
(* RequestPipeline and Idempotency, and Sessions for those to auth/.       *)
(* Their definitions have names of their own, for the theorems about all   *)
(* three are in one module, Server_proofs.                                 *)
(***************************************************************************)
CONSTANTS
  Requests,  \* the HTTP requests that clients send
  Tenants,   \* who they are sent for; Sessions is about the users of one
  Null       \* nothing: no header, no row, no holder, no answer, an empty body
=================================================================================
