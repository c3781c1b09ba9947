--------------------------- MODULE MCContactLists ---------------------------
(* A small instance of contacts and the chats started with them: users 2   *)
(* and 3 have one localpart on two servers, accounts 1 and 2 are logins of *)
(* one bridge, and 3 of another.  An ID is spelled a or A.                 *)
EXTENDS ContactLists, TLC

CONSTANTS a, A, b, x, y

Localparts == [u \in Users |-> IF u = 3 THEN 2 ELSE u]
Bridges == [account \in Accounts |-> IF account = 3 THEN y ELSE x]
LowerCase == [id \in Spellings |-> IF id = A THEN a ELSE id]
Symmetry == Permutations(Requests)
=============================================================================
