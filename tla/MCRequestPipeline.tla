--------------------------- MODULE MCRequestPipeline ---------------------------
(* Finite instances of RequestPipeline for TLC.                              *)
EXTENDS RequestPipeline

\* An endpoint of each kind: POST /auth/login, POST /inventory/stock/transfer,
\* POST /sales/orders/:id/confirm.
MCRoutes ==
  {[guarded |-> FALSE, work |-> "repository"],
   [guarded |-> TRUE, work |-> "nested"],
   [guarded |-> TRUE, work |-> "bare"]}
================================================================================
