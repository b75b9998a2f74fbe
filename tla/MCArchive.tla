----------------------------- MODULE MCArchive -----------------------------
(***************************************************************************)
(* Archive of a trip of a second and a half: two documents share a time,   *)
(* one lies in the last, incomplete second, one belongs to another device  *)
(* and one is stamped after the trip.                                      *)
(***************************************************************************)
EXTENDS Archive

D(id, subject, time, stamp) ==
  [id |-> id, subject |-> subject, time |-> time, stamp |-> stamp]

MCDocs == {D(1, "mine", 5, 2), D(2, "mine", 6, 3), D(3, "mine", 6, 4),
           D(4, "mine", 8, 6), D(5, "other", 6, 3), D(6, "mine", 9, 9)}

=============================================================================
