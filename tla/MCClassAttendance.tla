------------------------- MODULE MCClassAttendance -------------------------
(* A small college for TLC: one section with everybody enrolled.  Requests, *)
(* sessions of that section and students are each interchangeable.          *)
EXTENDS ClassAttendance, TLC

CONSTANTS ann, bob, math, mon, tue, r1, r2, r3

OneSection  == [s \in Sessions |-> math]
AllEnrolled == [x \in Sections |-> {ann, bob}]

Symmetry ==
  Permutations(Requests) \cup Permutations(Sessions) \cup Permutations(Students)
=============================================================================
