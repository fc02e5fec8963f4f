------------------------------ MODULE MCCopyFd ------------------------------
(***************************************************************************)
(* The CopyFd run: the regular-file copy of copy_file as a state machine   *)
(* (CopyFd), and the recursive walk of cp -r around it (CpTree) checked    *)
(* as a pure operator over every small source tree.                        *)
(***************************************************************************)
EXTENDS CopyFd

CONSTANTS Names, MaxHops, PathMax

NULL == [type |-> "none", data |-> <<>>]

\* An entry of the copied directory: nothing, a regular file, a FIFO, a
\* symlink to its sibling, to its parent or to a/b, or a directory holding a set of
\* regular files.
MCReg == [type |-> "reg", data |-> <<1>>]
MCEntries ==
    {[node |-> NULL, kids |-> {}], [node |-> MCReg, kids |-> {}],
     [node |-> [type |-> "fifo", data |-> <<>>], kids |-> {}],
     [node |-> [type |-> "lnk", data |-> <<"a">>], kids |-> {}],
     [node |-> [type |-> "lnk", data |-> <<"..">>], kids |-> {}],
     [node |-> [type |-> "lnk", data |-> <<"a", "b">>], kids |-> {}]}
    \cup {[node |-> [type |-> "dir", data |-> <<>>], kids |-> K] : K \in SUBSET {"a", "b"}}

\* Trees under /s with entries a and b: maps from paths relative to /s to nodes.
MCSourceTrees ==
    { LET Top == {x \in {"a", "b"} : e[x].node # NULL}
      IN [p \in {<<x>> : x \in Top} \cup UNION {{<<x, y>> : y \in e[x].kids} : x \in Top}
            |-> IF Len(p) = 1 THEN e[p[1]].node ELSE MCReg]
      : e \in [{"a", "b"} -> MCEntries] }

Cp == INSTANCE CpTree WITH SourceTrees <- MCSourceTrees

\* cp_main settles what a tree copy does before its first system call, so
\* the tree properties below are stated of the initial state of the copy.

\* cp -r of a directory tree copies exactly that tree (CpTree!CpRecursiveCopy).
CpRecursiveCopy == Init => Cp!CpRecursiveCopy

\* cp -rH of a tree whose links resolve inside it copies their targets
\* (CpTree!CpDerefCopy).
CpDerefCopy == Init => Cp!CpDerefCopy
====
