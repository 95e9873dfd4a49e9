--------------------------- MODULE MCSkillMemory ---------------------------
(***************************************************************************)
(* An instance of SkillMemory for TLC: two tasks, one skill in the         *)
(* repository, one preset, and one that each task's path may add.          *)
(***************************************************************************)
EXTENDS SkillMemory

CONSTANTS t1, t2, stored, preset, path1, path2

OnePreset == <<preset>>
Paths == [t \in {t1, t2} |-> IF t = t1 THEN path1 ELSE path2]
TwoAndOne == [t \in {t1, t2} |-> IF t = t1 THEN 2 ELSE 1]
\* The preset suits the first task only.
Scores == [t \in {t1, t2} |->
             [s \in {stored, preset, path1, path2} |->
                CASE s = stored -> 3
                  [] s = preset /\ t = t1 -> 2
                  [] s \in {path1, path2} -> 1
                  [] OTHER -> 0]]
=============================================================================
