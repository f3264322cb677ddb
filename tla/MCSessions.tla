------------------------------ MODULE MCSessions ------------------------------
(***************************************************************************)
(* Two people and three logins, so that a browser can change hands and one *)
(* person be logged in twice, and two requests under way.                  *)
(***************************************************************************)
EXTENDS Sessions, TLC

CONSTANTS ann, bob, a1, b1, w1, w2, t1, t2, t3, r1, r2

MCEmailOf == [a \in Accounts |-> IF a = b1 THEN bob ELSE ann]

Symmetry == Permutations(Browsers) \cup Permutations(Tokens) \cup Permutations(Requests)
=============================================================================
