---------------------------- MODULE MCAggregates ----------------------------
(* One section for TLC, with everybody enrolled.                            *)
EXTENDS Aggregates, TLC

CONSTANTS ann, bob, math

OneSection  == [s \in Sessions |-> math]
AllEnrolled == [x \in Sections |-> Students]
=============================================================================
