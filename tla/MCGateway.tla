------------------------------- MODULE MCGateway -------------------------------
(* Gateway for TLC: clients call every endpoint there is.                     *)
EXTENDS Gateway

MCWanted == 1..Len(Routes)
================================================================================
