------------------------------ MODULE MCSchool ------------------------------
(* Two students, three classes, and two teachers who may be exchanged.     *)
EXTENDS School, TLC

CONSTANTS ann, bob, t1, t2

MCStudents == {ann, bob}
MCTeachers == {t1, t2}
MCScore == [s \in MCStudents |-> IF s = ann THEN 1 ELSE 0]
Exchange == Permutations(MCTeachers)
=============================================================================
