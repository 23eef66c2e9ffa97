--------------------------- MODULE MCAccountTokens ---------------------------
(* Small instances of AccountTokens: the rows the account of one user gets  *)
(* when it is connected, deleted and connected again.                       *)
EXTENDS AccountTokens

CONSTANT u1

OneUser == [a \in Accounts |-> u1]
=============================================================================
