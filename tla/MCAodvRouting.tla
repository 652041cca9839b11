--------------------------- MODULE MCAodvRouting ---------------------------
(***************************************************************************)
(* Instances of AodvRouting for TLC: topologies and application flows.     *)
(***************************************************************************)
EXTENDS AodvRouting

CONSTANTS A, B, C, E

Both(S) == S \cup {<<e[2], e[1]>> : e \in S}

(* A - B - C *)
Line3 == Both({<<A, B>>, <<B, C>>})

(* A, B and C all in range of one another *)
Triangle == Both({<<A, B>>, <<B, C>>, <<A, C>>})

(* A, B, E in range of one another, C only in range of B *)
Diamond == Both({<<A, B>>, <<B, C>>, <<B, E>>, <<A, E>>})

AtoC      == {<<A, C>>}
Converge  == {<<A, C>>, <<B, C>>}
CtoE      == {<<C, E>>}

(* Requests each node may originate. *)
One  == [n \in Node |-> 1]
TwoA == [n \in Node |-> IF n = A THEN 2 ELSE 0]
TwoC == [n \in Node |-> IF n = C THEN 2 ELSE 0]
=============================================================================
