---------------------------- MODULE MCStatements ----------------------------
(***************************************************************************)
(* Statements for TLC: two handlers, every row that BeginSegment can build *)
(* of a trip with or without a start position and with a last trip that    *)
(* ended nowhere known, elsewhere, nearby or at the same point; one of the *)
(* trips completed; two vehicles that claim one device.                    *)
(***************************************************************************)
EXTENDS Statements

CONSTANTS t1, t2, v1, v2, d1, l1, l2, k1, w1, w2

\* l1 and l2 are near each other.
MCNear == {<<l1, l1>>, <<l2, l2>>, <<l1, l2>>, <<l2, l1>>}

Begun(pos, estimate, dropped) ==
  [token |-> v1, startTime |-> 1, endTime |-> Null, startPos |-> pos,
   estimate |-> estimate, endPos |-> Null, dropped |-> dropped,
   key |-> Null, bundlr |-> Null]

Beginnings ==
  {Begun(Null, Null, TRUE), Begun(l1, Null, FALSE), Begun(l1, Null, TRUE),
   Begun(l1, l2, TRUE), Begun(l1, l1, FALSE)}

Ended == [Begun(Null, l1, FALSE) EXCEPT
            !.endTime = 2, !.endPos = l2, !.key = k1,
            !.bundlr = [key |-> k1, token |-> v1, start |-> 1, end |-> 2]]

MCCalls ==
  [op : {"insert"}, id : {t1, t2}, row : Beginnings]
  \cup [op : {"update"}, id : {t1}, row : {Ended}]
  \cup [op : {"upsert"}, token : {v1, v2}, device : {d1}]

Symmetry == Permutations(Workers)

=============================================================================
