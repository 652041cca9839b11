--------------------------- MODULE MCDsdvRouting ---------------------------
(***************************************************************************)
(* Instances of DsdvRouting for TLC.                                       *)
(***************************************************************************)
EXTENDS DsdvRouting

Symmetric(S) == S \cup {<<l[2], l[1]>> : l \in S}

(* 1 - 2 - 3 *)
Line3 == Symmetric({<<1, 2>>, <<2, 3>>})

(* all in range of one another *)
Triangle == Symmetric({<<1, 2>>, <<2, 3>>, <<1, 3>>})

(* Periodic updates of each node; the others are triggered.                *)
OnceBy1       == [n \in Node |-> IF n = 1 THEN 1 ELSE 0]
TwiceBy1      == [n \in Node |-> IF n = 1 THEN 2 ELSE 0]
TwiceBy1Once2 == [n \in Node |-> IF n = 1 THEN 2 ELSE IF n = 2 THEN 1 ELSE 0]

NoFault   == [lost |-> 0, aged |-> 0, down |-> 0]
OneOfEach == [lost |-> 1, aged |-> 1, down |-> 1]
=============================================================================
