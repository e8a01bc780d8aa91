------------------------------ MODULE MCGrading ------------------------------
(* One exam. *)
EXTENDS Grading

CONSTANTS quiz, Files, Keys, Sets

MCImages == [e \in Exams |-> Files]
MCKeys == [e \in Exams |-> Keys]
MCSets == [e \in Exams |-> Sets]
=============================================================================
