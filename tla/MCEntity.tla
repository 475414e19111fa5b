------------------------------ MODULE MCEntity ------------------------------
(* Instantiation of Entity for TLC. *)
EXTENDS Entity

\* "cd" and "ls"; "cdrecord" stands for any command other than cd whose
\* text begins with the letters "cd" (cdrecord, cdparanoia, cdk...).
MCWords == {"cd", "ls"}
MCWordsWithCdPrefix == {"cd", "cdrecord", "ls"}
MCCdPrefixed == {"cd", "cdrecord"}
MCChars == {"a", "q", "t", "c"}
MCDirs == {"d1", "d2"}
====
