------------------------------- MODULE MCSessions ------------------------------
(* Sessions for TLC: the requests are exchangeable, and so are the users.     *)
EXTENDS Sessions, TLC

MCSymmetry == Permutations(Requests) \cup Permutations(Users)
================================================================================
