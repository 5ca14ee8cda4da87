---------------------------- MODULE MCStatMatrix ----------------------------
(* Two nodes, each the source of a message; the second message stays young. *)
EXTENDS StatMatrix

First == CHOOSE m \in Messages : TRUE
Sources == [m \in Messages |-> IF m = First THEN 2 ELSE 1]
AgeBounds == [m \in Messages |-> IF m = First THEN axe_length ELSE 1]
=============================================================================
