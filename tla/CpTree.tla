------------------------------- MODULE CpTree -------------------------------
(***************************************************************************)
(* cp's walk over the file system (bootstrapbox/cp.c): copy_file for      *)
(* directories, symlinks and special files, and cp_main's choice of the   *)
(* destination.  The file system is a function from canonical paths       *)
(* (sequences of names, <<>> is "/") to nodes; a path as cp receives it   *)
(* may hold ".", ".." and symlinks and is resolved by Walk.  The bytes of *)
(* a regular file are copied by bb_copyfd_eof, which CopyFd models; here  *)
(* that copy succeeds.  Modes, owners and times (-p) are not modelled.    *)
(*                                                                         *)
(* A result is [fs |-> file system, st |-> status]: "ok", "fail" (the C   *)
(* code's -1), "overflow" (concat_path_file wrote past its 512-byte       *)
(* buffer: undefined, the walk stops) or "hang" (open of a FIFO for       *)
(* writing blocks until a reader comes).                                  *)
(***************************************************************************)
EXTENDS Integers, Sequences, FiniteSets, TLC

CONSTANTS
    Names,      \* directory entry names
    MaxHops,    \* symlinks one lookup follows before ELOOP
    PathMax,    \* components a 512-byte path buffer holds
    SourceTrees \* the directory trees CpRecursiveCopy copies

Dots == {".", ".."}
Types == {"dir", "reg", "lnk", "fifo"}
\* data: a regular file's bytes, a symlink's target text, <<>> otherwise.
Node(t, d) == [type |-> t, data |-> d]
DirNode == Node("dir", <<>>)

Parent(p) == IF p = <<>> THEN p ELSE SubSeq(p, 1, Len(p) - 1)
LastOf(p) == p[Len(p)]

\* Path resolution by the kernel: "." and "..", ENOTDIR under a non-directory,
\* every symlink followed in the middle of a path and the last one when
\* follow (stat) rather than not (lstat).
RECURSIVE Walk(_, _, _, _, _)
Walk(fs, at, rest, follow, hops) ==
    IF rest = <<>> THEN [err |-> "", at |-> at]
    ELSE IF fs[at].type # "dir" THEN [err |-> "ENOTDIR", at |-> at]
    ELSE LET c == Head(rest)
             p == Append(at, c)
         IN CASE c = "."  -> Walk(fs, at, Tail(rest), follow, hops)
              [] c = ".." -> Walk(fs, Parent(at), Tail(rest), follow, hops)
              [] p \notin DOMAIN fs -> [err |-> "ENOENT", at |-> at]
              [] fs[p].type = "lnk" /\ (Tail(rest) # <<>> \/ follow) ->
                   IF hops = 0 THEN [err |-> "ELOOP", at |-> at]
                   ELSE Walk(fs, at, fs[p].data \o Tail(rest), follow, hops - 1)
              [] OTHER -> Walk(fs, p, Tail(rest), follow, hops)

Lookup(fs, p, follow) == Walk(fs, <<>>, p, follow, MaxHops)

\* The entry a call that creates or removes path p names: p's directory
\* resolved (symlinks followed), then p's last component.
EntryOf(fs, p) ==
    LET dir == Lookup(fs, Parent(p), TRUE) IN
    IF dir.err # "" \/ fs[dir.at].type # "dir" \/ LastOf(p) \in Dots
    THEN [err |-> "ENOENT", at |-> <<>>]
    ELSE [err |-> "", at |-> Append(dir.at, LastOf(p))]

\* mkdir, mkfifo, symlink, open(O_CREAT) of a new entry.
Create(fs, p, n) ==
    LET e == EntryOf(fs, p) IN
    IF e.err # "" \/ e.at \in DOMAIN fs THEN [ok |-> FALSE, fs |-> fs]
    ELSE [ok |-> TRUE, fs |-> fs @@ (e.at :> n)]

\* unlink: not a directory.
Unlink(fs, p) ==
    LET e == EntryOf(fs, p) IN
    IF e.err # "" \/ e.at \notin DOMAIN fs \/ fs[e.at].type = "dir"
    THEN [ok |-> FALSE, fs |-> fs]
    ELSE [ok |-> TRUE, fs |-> [q \in DOMAIN fs \ {e.at} |-> fs[q]]]

Children(fs, d) == {n \in Names : Append(d, n) \in DOMAIN fs}

\* readdir's order is the file system's; any fixed order will do.
RECURSIVE AsSeq(_)
AsSeq(S) == IF S = {} THEN <<>>
            ELSE LET x == CHOOSE y \in S : TRUE IN <<x>> \o AsSeq(S \ {x})

\* A concat_subpath_file that lets "." and ".." through.
IsDotEntryNone(f) == FALSE

\* concat_subpath_file returns NULL for "." and ".." (the entry is skipped).
IsDotEntry(f) == f \in Dots

\* concat_path_file's sprintf into malloc(512).
Overflows(p) == Len(p) > PathMax

Fail(fs) == [fs |-> fs, st |-> "fail"]

\* The regular-file branch (263-339): open(O_WRONLY|O_TRUNC) of an existing
\* destination, with -f unlink and re-create if that open fails, else
\* open(O_CREAT); then the bytes.
CopyReg(d, flags, fs, data, exists) ==
    LET o == Lookup(fs, d, TRUE)
        opened == o.err = "" /\ fs[o.at].type \in {"reg", "fifo"}
        NewReg(f) == LET c == Create(f, d, Node("reg", data)) IN
                     [fs |-> c.fs, st |-> IF c.ok THEN "ok" ELSE "fail"]
    IN IF ~exists THEN NewReg(fs)
       ELSE IF opened /\ fs[o.at].type = "fifo" THEN [fs |-> fs, st |-> "hang"]
       ELSE IF opened THEN [fs |-> [fs EXCEPT ![o.at] = Node("reg", data)],
                            st |-> "ok"]
       ELSE IF "force" \notin flags THEN Fail(fs)
       ELSE LET u == Unlink(fs, d) IN IF u.ok THEN NewReg(u.fs) ELSE Fail(fs)

\* Symlinks and FIFOs (340-386): an existing destination is refused unless
\* -f, then unlinked; then mkfifo, or symlink to xreadlink's target.
CopySpecial(d, flags, fs, n, exists) ==
    LET u == IF exists THEN Unlink(fs, d) ELSE [ok |-> TRUE, fs |-> fs] IN
    IF exists /\ "force" \notin flags THEN Fail(fs)
    ELSE IF ~u.ok THEN Fail(fs)
    ELSE LET c == Create(u.fs, d, n) IN
         [fs |-> c.fs, st |-> IF c.ok THEN "ok" ELSE "fail"]

\* A copy_file that always lstats its source, as if -H were not given.
SrcFollowNever(flags) == FALSE

\* copy_file stats its source with stat under -H (FILEUTILS_DEREFERENCE),
\* with lstat otherwise.
SrcFollow(flags) == "deref" \in flags

RECURSIVE CopyFile(_, _, _, _), CopyEntries(_, _, _, _, _, _)

\* The directory branch (200-262): -r required; an existing destination must
\* be a directory, else mkdir; then every entry opendir/readdir list,
\* "." and ".." skipped; a failed entry fails the whole but the loop goes on.
CopyDir(s, d, flags, fs, exists, dn) ==
    LET made == IF exists THEN [ok |-> TRUE, fs |-> fs] ELSE Create(fs, d, DirNode)
        od == Lookup(made.fs, s, TRUE)
    IN IF "recur" \notin flags THEN Fail(fs)
       ELSE IF exists /\ dn.type # "dir" THEN Fail(fs)
       ELSE IF ~made.ok THEN Fail(fs)
       ELSE IF od.err # "" \/ made.fs[od.at].type # "dir" THEN Fail(made.fs)
       ELSE CopyEntries(s, d, flags, made.fs,
                        <<".", "..">> \o AsSeq(Children(made.fs, od.at)), "ok")

\* copy_file(source, dest, flags): lstat (stat with -H) of the source, lstat
\* of the destination (ENOENT: it does not exist), the same-file test, then
\* the branch for the source's type.
CopyFile(s, d, flags, fs) ==
    LET src == Lookup(fs, s, SrcFollow(flags))
        dst == Lookup(fs, d, FALSE)
        exists == dst.err = ""
    IN IF src.err # "" THEN Fail(fs)
       ELSE IF dst.err \notin {"", "ENOENT"} THEN Fail(fs)
       ELSE IF exists /\ dst.at = src.at THEN Fail(fs)
       ELSE CASE fs[src.at].type = "dir" ->
                   CopyDir(s, d, flags, fs, exists, IF exists THEN fs[dst.at] ELSE DirNode)
              [] fs[src.at].type = "reg" ->
                   CopyReg(d, flags, fs, fs[src.at].data, exists)
              [] OTHER -> CopySpecial(d, flags, fs, fs[src.at], exists)

CopyEntries(s, d, flags, fs, es, st) ==
    IF es = <<>> THEN [fs |-> fs, st |-> st]
    ELSE LET e == Head(es)
             r == CopyFile(Append(s, e), Append(d, e), flags, fs)
         IN IF IsDotEntry(e) THEN CopyEntries(s, d, flags, fs, Tail(es), st)
            ELSE IF Overflows(Append(s, e)) \/ Overflows(Append(d, e))
                 THEN [fs |-> fs, st |-> "overflow"]
            ELSE IF r.st \in {"overflow", "hang"} THEN r
            ELSE CopyEntries(s, d, flags, r.fs, Tail(es),
                             IF r.st = "fail" THEN "fail" ELSE st)

\* cp_mv_stat2: -1 on an error other than ENOENT, 0 if absent, 3 for a
\* directory, 1 otherwise.
CpMvStat(fs, p, follow) ==
    LET r == Lookup(fs, p, follow) IN
    IF r.err = "ENOENT" THEN 0
    ELSE IF r.err # "" THEN -1
    ELSE IF fs[r.at].type = "dir" THEN 3 ELSE 1

\* cp_main's loop: each source to last/basename(source); status 1 if any
\* copy failed.
RECURSIVE IntoDir(_, _, _, _, _)
IntoDir(fs, srcs, last, flags, st) ==
    IF srcs = <<>> THEN [fs |-> fs, st |-> st]
    ELSE LET target == Append(last, LastOf(Head(srcs)))
             r == CopyFile(Head(srcs), target, flags, fs)
         IN IF Overflows(target) THEN [fs |-> fs, st |-> "overflow"]
            ELSE IF r.st \in {"overflow", "hang"} THEN r
            ELSE IntoDir(r.fs, Tail(srcs), last, flags,
                         IF r.st = "fail" THEN "fail" ELSE st)

\* cp_main after option parsing: with one source, a simple copy to last when
\* neither is a directory, or -r copies a directory to a last that does not
\* exist; otherwise every source goes into last under its base name.
CpMain(fs, srcs, last, flags) ==
    LET sf == CpMvStat(fs, srcs[1], "deref" \in flags)
        df == CpMvStat(fs, last, TRUE)
    IN IF Len(srcs) = 1 /\ (sf < 0 \/ df < 0) THEN Fail(fs)
       ELSE IF Len(srcs) = 1 /\ ((sf # 3 /\ df # 3)
                                 \/ ("recur" \in flags /\ sf = 3 /\ df = 0))
            THEN CopyFile(srcs[1], last, flags, fs)
       ELSE IntoDir(fs, srcs, last, flags, "ok")

(***************************************************************************)
(* What cp -r promises: the destination becomes a copy of the source tree *)
(* (symlinks as symlinks, without -H) and nothing else changes.           *)
(***************************************************************************)
Under(fs, p) == {q \in DOMAIN fs : Len(q) >= Len(p) /\ SubSeq(q, 1, Len(p)) = p}
Rebase(q, from, to) == to \o SubSeq(q, Len(from) + 1, Len(q))
CopyOfTree(fs, from, to) ==
    [q \in {Rebase(x, from, to) : x \in Under(fs, from)} |-> fs[Rebase(q, to, from)]]

\* A file system with directory /s holding tree t (relative paths to nodes)
\* and, when dExists, an empty directory /d.
Place(t, dExists) ==
    (<<>> :> DirNode) @@ (<<"s">> :> DirNode)
      @@ [q \in {<<"s">> \o x : x \in DOMAIN t} |-> t[Tail(q)]]
      @@ (IF dExists THEN <<"d">> :> DirNode ELSE [x \in {} |-> DirNode])

\* cp -r s d over every source tree of SourceTrees, with d absent (cp_main's
\* simple copy makes d the copy) or an existing directory (the copy goes to
\* d/s): copy_file's walk, skipping "." and "..", following no symlink and
\* re-creating FIFOs and links, ends with status 0 and a file system that is
\* the old one plus the copy, the source untouched.
CpRecursiveCopy ==
    \A t \in SourceTrees, dExists \in BOOLEAN :
        LET fs0 == Place(t, dExists)
            to  == IF dExists THEN <<"d", "s">> ELSE <<"d">>
            r   == CpMain(fs0, <<<<"s">>>>, <<"d">>, {"recur"})
        IN r.st = "ok" /\ r.fs = fs0 @@ CopyOfTree(fs0, <<"s">>, to)

\* What cp -rH promises: every symlink of the source is replaced by what it
\* names, as the paths through the source tree (of at most two names) see it.
RelPaths == UNION {[1..n -> Names] : n \in 1..2}
DerefTree(fs, from, to) ==
    LET seen == {x \in RelPaths : Lookup(fs, from \o x, TRUE).err = ""} IN
    (to :> DirNode) @@ [q \in {to \o x : x \in seen} |->
                          fs[Lookup(fs, from \o SubSeq(q, Len(to) + 1, Len(q)), TRUE).at]]

\* A link that resolves, and not to a directory above it.
ResolvesBelow(fs, q) ==
    LET r == Lookup(fs, q, TRUE) IN
    r.err = "" /\ ~(Len(r.at) <= Len(q) /\ SubSeq(q, 1, Len(r.at)) = r.at)

\* cp -rH s d over every source tree whose symlinks resolve inside it, not
\* to an ancestor: copy_file stats each entry (FILEUTILS_DEREFERENCE), so
\* the copy holds each link's target (files copied, directories walked),
\* the status is 0, and nothing outside the copy changes.
CpDerefCopy ==
    \A t \in SourceTrees, dExists \in BOOLEAN :
        LET fs0 == Place(t, dExists)
            to  == IF dExists THEN <<"d", "s">> ELSE <<"d">>
            r   == CpMain(fs0, <<<<"s">>>>, <<"d">>, {"recur", "deref"})
        IN (\A q \in DOMAIN fs0 : fs0[q].type = "lnk" => ResolvesBelow(fs0, q))
           => r.st = "ok" /\ r.fs = fs0 @@ DerefTree(fs0, <<"s">>, to)
====
