--------------------------- MODULE MCRelayFrontier ---------------------------
(* Three tiles in a row, of three pixels each, neighbours sharing two of them. *)
EXTENDS RelayFrontier

CONSTANTS left, middle, right

Row == 1..3
Column == [t \in Tiles |-> CASE t = left -> 0 [] t = middle -> 1 [] t = right -> 2]
MCOverlap == [s \in Tiles \X Tiles |-> [p \in Row |->
  IF Column[s[1]] - Column[s[2]] \in {-1, 1} THEN {p + Column[s[1]] - Column[s[2]]} \intersect Row ELSE {}]]

\* Any fixed order of the hashed keys will do.
MCRank == [k \in Keys |-> Column[k[1]] + 3 * ((k[2] * 2) % (LastFrame + 1))]

Shift(m, by) == {p + by : p \in m} \intersect Row
Moving == [d \in Directions |-> [m \in SUBSET Row |-> Shift(m, IF d = "forward" THEN 1 ELSE -1)]]
Growing == [d \in Directions |-> [m \in SUBSET Row |-> m \union Shift(m, IF d = "forward" THEN -1 ELSE 1)]]
\* A larger prompt may give less: of several pixels the tracker keeps one.
Fickle == [d \in Directions |-> [m \in SUBSET Row |->
             IF Cardinality(m) < 2 THEN Shift(m, -1) ELSE {CHOOSE p \in m : \A q \in m : q <= p}]]
MCMotions == {Moving, Growing, Fickle}
MCOrigins == {<<middle, 2, {1, 3}>>, <<left, 0, {2}>>}
=============================================================================
