-------------------------------- MODULE MCAccess -------------------------------
(* Access for TLC.                                                            *)
EXTENDS Access, TLC

CONSTANTS u1, u2, admin, clerk, old, new

\* The requests are exchangeable, and so are the users.
MCSymmetry == Permutations(Requests) \cup Permutations(Users)

MCLists == {{old}, {old, new}}
================================================================================
