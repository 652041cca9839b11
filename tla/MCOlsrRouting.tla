--------------------------- MODULE MCOlsrRouting ---------------------------
(***************************************************************************)
(* Instances of OlsrRouting for TLC.                                       *)
(***************************************************************************)
EXTENDS OlsrRouting

Symmetric(S) == S \cup {<<l[2], l[1]>> : l \in S}

(* 1 - 2 - 3 - 4, which does not break, and 3 hears 1.                     *)
Line4 == [node |-> 1 .. 4, late |-> {}, fragile |-> {},
          link |-> Symmetric({<<1, 2>>, <<2, 3>>, <<3, 4>>}) \cup {<<1, 3>>}]

(* 1 - 2 - 3, where 2 - 3 may break.                                       *)
Line3 == [node |-> 1 .. 3, late |-> {}, fragile |-> {<<3, 2>>},
          link |-> Symmetric({<<1, 2>>, <<2, 3>>})]

(* 1, 2 and 3 in range of each other, at first without 1 - 3.              *)
Triangle == [node |-> 1 .. 3, late |-> {<<1, 3>>, <<3, 1>>}, fragile |-> {},
             link |-> Symmetric({<<1, 2>>, <<2, 3>>, <<1, 3>>})]

(* 1 - 2, where 2 hears 1 first; the link may break.                       *)
Pair == [node |-> 1 .. 2, late |-> {<<2, 1>>}, fragile |-> {<<1, 2>>},
         link |-> Symmetric({<<1, 2>>})]

LinesAndTriangle == {Line4, Line3, Triangle}
OnlyPair == {Pair}

AllDefault == [n \in Node |-> DEFAULT]
=============================================================================
