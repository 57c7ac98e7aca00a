------------------------------ MODULE FileTree ------------------------------
(***************************************************************************)
(* What the two metadata servers promise together: a tree of directories   *)
(* and files, addressed by paths.  A new directory is empty, a new file    *)
(* has size 0, and what a removed directory contained is gone for good.    *)
(* A file and a directory may share a path: neither server asks the other. *)
(***************************************************************************)
EXTENDS Integers, Sequences, SequencesExt

CONSTANTS Dirs, Files, Sizes   \* paths of directories and files; sizes

VARIABLES dirs,   \* the directories that exist
          files   \* the files that exist: pairs <<path, size>>

vars == <<dirs, files>>

Init == dirs = {} /\ files = {}

Mkdir(d) == /\ d \notin dirs
            /\ Front(d) \in dirs \cup {<<>>}
            /\ dirs' = dirs \cup {d}
            /\ UNCHANGED files

Rmdir(d) == /\ d \in dirs
            /\ dirs' = {e \in dirs : ~IsPrefix(d, e)}
            /\ files' = {x \in files : ~IsPrefix(d, Front(x[1]))}

\* A file that exists becomes a new one.
Create(f) == /\ Front(f) \in dirs
             /\ files' = {x \in files : x[1] # f} \cup {<<f, 0>>}
             /\ UNCHANGED dirs

Unlink(x) == files' = files \ {x} /\ UNCHANGED dirs

Resize(x) == /\ \E n \in Sizes : files' = (files \ {x}) \cup {<<x[1], n>>}
             /\ UNCHANGED dirs

\* A step that is none of these changes nothing, and one that changes nothing
\* is none of these: remaking a file of size 0 is not an operation.
Next == /\ vars # vars'
        /\ \/ \E d \in Dirs : Mkdir(d) \/ Rmdir(d)
           \/ \E f \in Files : Create(f)
           \/ \E x \in files : Unlink(x) \/ Resize(x)

Spec == Init /\ [][Next]_vars
=============================================================================
