------------------------------- MODULE Yaffs2 -------------------------------
(***************************************************************************)
(* mkyaffs2image (yaffs2-utils/mkyaffs2image.c) walking a directory tree   *)
(* into a YAFFS2 image, then unyaffs (open_recovery/yaffs2-utils/unyaffs.c)*)
(* extracting that image: the two tools composed through the image file.   *)
(*                                                                         *)
(* The tree is given by constants: inodes with a kind, directory entries   *)
(* (a name and an inode; two entries with one inode are a hard link) and   *)
(* file sizes.  readdir returns a directory's entries in any order.  Files *)
(* may grow or shrink, as Resizes allows, while the builder runs (the tool *)
(* snapshots a mounted data partition).  A chunk is a record of its tag    *)
(* (objectId, chunkId, byteCount) and its CHUNK_SIZE bytes; byte k of the *)
(* file with inode i is FileByte(i, k), so misplaced bytes show.           *)
(***************************************************************************)
EXTENDS Integers, Sequences, FiniteSets

CONSTANTS
    Root,        \* inode of SOURCE_DIR
    Kind,        \* inode -> "dir", "file", "symlink" or "special"
    Entries,     \* directory inode -> its entries <<name, inode>>
    FileSize,    \* file inode -> size when the walk starts
    Exceptions,  \* the exclusion file: [path |-> names, slash |-> trailing '/']
    NamePrefix,  \* pairs <<a, b>>: name a is a proper byte-prefix of name b
    CHUNK_SIZE,
    YAFFS_NOBJECT_BUCKETS,
    MAX_OBJECTS,
    MaxSize,     \* the largest size a file reaches while the walk runs
    Resizes      \* the changes other processes make: "grow", "shrink"

ASSUME Resizes \subseteq {"grow", "shrink"}

Inodes == DOMAIN Kind
Files == {i \in Inodes : Kind[i] = "file"}
YAFFS_OBJECTID_ROOT == 1
HeaderMark == 65535                      \* byteCount 0xffff of a header chunk
FF == 0                                  \* the 0xff padding of a chunk
HeaderByte == -1                         \* a byte of an object header
Junk == -2                               \* memory after data[] in unyaffs
FileByte(i, k) == 100 * i + k

VARIABLES
    image,    \* the chunks written to IMAGE_FILE
    obj_id,   \* mkyaffs2image's next object id
    objtab,   \* mkyaffs2image's obj_list: pairs <<inode, object id>>
    stack,    \* process_directory frames: [ino, obj, path, left]
    mk,       \* builder: [pc, ino, obj, chunk, off] of the file being copied
    size,     \* current size of each file
    upc,      \* extractor: "wait", "chunk", "data", "done", "crashed"
    pos,      \* index in image of the chunk read_chunk reads next
    obj_list, \* unyaffs's obj_list: object id -> path
    overrun,  \* unyaffs wrote obj_list[id] with id >= MAX_OBJECTS
    out,      \* the extracted tree: path -> [type, node, alias]
    content,  \* node of an extracted file -> its bytes
    fpath,    \* the file process_chunk is filling
    remain    \* process_chunk's remain

builder == <<image, obj_id, objtab, stack, mk, size>>
extractor == <<upc, pos, obj_list, overrun, out, content, fpath, remain>>
vars == <<builder, extractor>>

NoPath == <<"?">>                        \* obj_list entry never set (NULL)
NoHdr == [type |-> "data", parent |-> 0, name |-> "", fileSize |-> 0,
          equiv |-> 0, alias |-> 0]

-----------------------------------------------------------------------------
(* mkyaffs2image *)

\* strncmp(full_name, excl, strlen(excl)) == 0 on paths made of names: a
\* line with a trailing '/' matches what lies below it, one without matches
\* the path itself, what lies below it, and siblings whose name it begins.
Matches(full, e) ==
    LET n == Len(e.path) IN
    IF e.slash
       THEN Len(full) > n /\ SubSeq(full, 1, n) = e.path
       ELSE /\ Len(full) >= n /\ n > 0
            /\ SubSeq(full, 1, n - 1) = SubSeq(e.path, 1, n - 1)
            /\ \/ full[n] = e.path[n]
               \/ <<e.path[n], full[n]>> \in NamePrefix
is_entry_exception(full) == \E e \in Exceptions : Matches(full, e)

\* write_object_header(objId, t, s, parent, name, equivalentObj, alias):
\* a header chunk (chunkId 0, byteCount 0xffff)
Header(objId, t, parent, name, fsize, equiv, alias) ==
    [objectId |-> objId, chunkId |-> 0, byteCount |-> HeaderMark,
     hdr |-> [type |-> t, parent |-> parent, name |-> name, fileSize |-> fsize,
              equiv |-> equiv, alias |-> alias],
     data |-> [k \in 1..CHUNK_SIZE |-> HeaderByte]]

\* Mutant: the lookup never finds an inode, so hard links are not detected.
find_obj_in_list_none(ino) == -1

\* find_obj_in_list: the object id of an inode already imaged, or -1
find_obj_in_list(ino) ==
    IF \E p \in objtab : p[1] = ino
       THEN (CHOOSE p \in objtab : p[1] = ino)[2] ELSE -1

Init ==
    /\ image = <<>>
    /\ obj_id = YAFFS_NOBJECT_BUCKETS + 1
    /\ objtab = {}
    /\ stack = <<>>
    /\ mk = [pc |-> "root", ino |-> Root, obj |-> 0, chunk |-> 0, off |-> 0]
    /\ size = FileSize
    /\ upc = "wait"
    /\ pos = 1
    /\ obj_list = [i \in 0..MAX_OBJECTS - 1 |-> NoPath]
    /\ overrun = FALSE
    /\ out = <<>>
    /\ content = <<>>
    /\ fpath = <<>>
    /\ remain = 0

\* main: the root directory's header, then process_directory(ROOT, argv[1])
MkRoot ==
    /\ mk.pc = "root"
    /\ image' = <<Header(YAFFS_OBJECTID_ROOT, "dir", 1, "", 0, -1, 0)>>
    /\ stack' = <<[ino |-> Root, obj |-> YAFFS_OBJECTID_ROOT, path |-> <<>>,
                   left |-> Entries[Root]]>>
    /\ mk' = [mk EXCEPT !.pc = "walk"]
    /\ UNCHANGED <<obj_id, objtab, size, extractor>>

\* The header written for an inode seen for the first time, and what follows.
FirstHeader(ino, newObj, parent, name) ==
    Header(newObj, Kind[ino], parent, name,
           IF Kind[ino] = "file" THEN size[ino] ELSE 0, -1,
           IF Kind[ino] = "symlink" THEN ino ELSE 0)

\* One pass of process_directory's readdir loop.
MkEntry ==
    /\ mk.pc = "walk"
    /\ stack # <<>>
    /\ LET top == stack[Len(stack)] IN
       \E e \in top.left :
         LET name == e[1]
             ino == e[2]
             full == Append(top.path, name)
             newObj == obj_id
             equiv == find_obj_in_list(ino)
             popped == [stack EXCEPT ![Len(stack)].left = top.left \ {e}]
         IN
         CASE is_entry_exception(full) ->
                /\ stack' = popped
                /\ UNCHANGED <<image, obj_id, objtab, mk>>
           [] equiv > 0 ->
                /\ image' = Append(image, Header(newObj, "hardlink", top.obj,
                                                 name, 0, equiv, 0))
                /\ obj_id' = obj_id + 1
                /\ stack' = popped
                /\ UNCHANGED <<objtab, mk>>
           [] Cardinality(objtab) >= MAX_OBJECTS ->
                /\ mk' = [mk EXCEPT !.pc = "exit2"]
                /\ obj_id' = obj_id + 1
                /\ UNCHANGED <<image, objtab, stack>>
           [] OTHER ->
                /\ image' = Append(image, FirstHeader(ino, newObj, top.obj, name))
                /\ obj_id' = obj_id + 1
                /\ objtab' = objtab \cup {<<ino, newObj>>}
                /\ stack' = IF Kind[ino] = "dir"
                               THEN Append(popped, [ino |-> ino, obj |-> newObj,
                                                    path |-> full,
                                                    left |-> Entries[ino]])
                               ELSE popped
                /\ mk' = IF Kind[ino] = "file"
                            THEN [pc |-> "data", ino |-> ino, obj |-> newObj,
                                  chunk |-> 0, off |-> 0]
                            ELSE mk
    /\ UNCHANGED <<size, extractor>>

\* One read(h, bytes, CHUNK_SIZE) of a regular file and its write_chunk.
MkData ==
    /\ mk.pc = "data"
    /\ LET n == IF size[mk.ino] - mk.off < CHUNK_SIZE
                   THEN size[mk.ino] - mk.off ELSE CHUNK_SIZE
       IN IF n > 0
             THEN /\ image' = Append(image,
                        [objectId |-> mk.obj, chunkId |-> mk.chunk + 1,
                         byteCount |-> n, hdr |-> NoHdr,
                         data |-> [k \in 1..CHUNK_SIZE |->
                                     IF k <= n THEN FileByte(mk.ino, mk.off + k)
                                               ELSE FF]])
                  /\ mk' = [mk EXCEPT !.chunk = @ + 1, !.off = @ + n]
             ELSE /\ mk' = [mk EXCEPT !.pc = "walk"]
                  /\ UNCHANGED image
    /\ UNCHANGED <<obj_id, objtab, stack, size, extractor>>

\* readdir returns NULL: closedir and return to the caller (main at the root)
MkDirEnd ==
    /\ mk.pc = "walk"
    /\ stack # <<>>
    /\ stack[Len(stack)].left = {}
    /\ stack' = SubSeq(stack, 1, Len(stack) - 1)
    /\ mk' = IF Len(stack) = 1 THEN [mk EXCEPT !.pc = "done"] ELSE mk
    /\ UNCHANGED <<image, obj_id, objtab, size, extractor>>

\* Another process writes or truncates the file being imaged, between its
\* header (lstat's size) and its last read.  A change before the header
\* is the same as another starting size, and one after it is never read.
Resize ==
    /\ mk.pc = "data"
    /\ \E s \in 0..MaxSize :
          /\ \/ "grow" \in Resizes /\ s > size[mk.ino]
             \/ "shrink" \in Resizes /\ s < size[mk.ino]
          /\ size' = [size EXCEPT ![mk.ino] = s]
    /\ UNCHANGED <<image, obj_id, objtab, stack, mk, extractor>>

-----------------------------------------------------------------------------
(* unyaffs, run on the finished image *)

\* main: mkdir TARGET_DIR, obj_list[YAFFS_OBJECTID_ROOT] = rootPath
UnStart ==
    /\ upc = "wait"
    /\ mk.pc = "done"
    /\ obj_list' = [obj_list EXCEPT ![YAFFS_OBJECTID_ROOT] = <<>>]
    /\ upc' = "chunk"
    /\ UNCHANGED <<builder, pos, overrun, out, content, fpath, remain>>

\* out with path p set to v
Put(p, v) == [q \in DOMAIN out \cup {p} |-> IF q = p THEN v ELSE out[q]]

\* What process_chunk creates for header h at path full (creat, symlink,
\* mkdir, link); a link whose source was never extracted fails.
Created(h, full) ==
    CASE h.type = "file" -> Put(full, [type |-> "file", node |-> full, alias |-> 0])
      [] h.type = "symlink" -> Put(full, [type |-> "symlink", node |-> full,
                                          alias |-> h.alias])
      [] h.type = "dir" -> Put(full, [type |-> "dir", node |-> full, alias |-> 0])
      [] h.type = "hardlink" ->
            LET src == IF h.equiv \in DOMAIN obj_list THEN obj_list[h.equiv]
                                                        ELSE NoPath
            IN  IF src \in DOMAIN out /\ out[src].type # "dir"
                   THEN Put(full, out[src]) ELSE out
      [] OTHER -> out

\* One read_chunk and process_chunk of main's loop: a header chunk makes
\* the object; any other chunk is passed over.
UnChunk ==
    /\ upc = "chunk"
    /\ IF pos > Len(image)
          THEN upc' = "done" /\ UNCHANGED <<pos, obj_list, overrun, out,
                                            content, fpath, remain>>
          ELSE LET c == image[pos]
                   h == c.hdr
                   parentPath == IF h.parent \in DOMAIN obj_list
                                    THEN obj_list[h.parent] ELSE NoPath
                   \* "dir/" + "/" + name: an empty name adds nothing
                   full == IF h.name = "" THEN parentPath
                                          ELSE Append(parentPath, h.name)
               IN
               /\ pos' = pos + 1
               /\ CASE c.byteCount # HeaderMark ->
                         UNCHANGED <<upc, obj_list, overrun, out, content,
                                     fpath, remain>>
                    [] parentPath = NoPath ->
                         \* strlen(NULL): the extractor dies
                         /\ upc' = "crashed"
                         /\ UNCHANGED <<obj_list, overrun, out, content, fpath,
                                        remain>>
                    [] OTHER ->
                         /\ IF c.objectId \in DOMAIN obj_list
                               THEN obj_list' = [obj_list EXCEPT ![c.objectId] = full]
                                    /\ UNCHANGED overrun
                               ELSE overrun' = TRUE /\ UNCHANGED obj_list
                         /\ out' = Created(h, full)
                         /\ content' = IF h.type = "file"
                                          THEN [n \in DOMAIN content \cup {full} |->
                                                  IF n = full THEN <<>> ELSE content[n]]
                                          ELSE content
                         /\ fpath' = full
                         /\ remain' = h.fileSize
                         /\ upc' = IF h.type = "file" /\ h.fileSize > 0
                                      THEN "data" ELSE "chunk"
    /\ UNCHANGED builder

\* The bytes write(out_file, chunk_data, s) takes from data[]: the chunk,
\* then its spare and whatever follows, none of it file data.
Written(c, s) ==
    [k \in 1..s |-> IF k <= CHUNK_SIZE THEN c.data[k] ELSE Junk]

\* Mutant: a whole chunk's byteCount is written and taken off remain.
UnDataNoClamp ==
    /\ upc = "data"
    /\ IF pos > Len(image)
          THEN upc' = "chunk" /\ UNCHANGED <<pos, content, remain>>
          ELSE LET c == image[pos]
                   node == out[fpath].node
               IN  /\ pos' = pos + 1
                   /\ content' = [content EXCEPT ![node] = @ \o Written(c, c.byteCount)]
                   /\ remain' = remain - c.byteCount
                   /\ upc' = IF remain <= c.byteCount THEN "chunk" ELSE "data"
    /\ UNCHANGED <<builder, obj_list, overrun, out, fpath>>

\* One pass of process_chunk's file loop: read_chunk, then write
\* min(remain, byteCount) bytes; at the end of the image process_chunk
\* returns -1 and main's next read_chunk ends the loop.
UnData ==
    /\ upc = "data"
    /\ IF pos > Len(image)
          THEN upc' = "chunk" /\ UNCHANGED <<pos, content, remain>>
          ELSE LET c == image[pos]
                   s == IF remain < c.byteCount THEN remain ELSE c.byteCount
                   node == out[fpath].node
               IN  /\ pos' = pos + 1
                   /\ content' = [content EXCEPT ![node] = @ \o Written(c, s)]
                   /\ remain' = remain - s
                   /\ upc' = IF remain = s THEN "chunk" ELSE "data"
    /\ UNCHANGED <<builder, obj_list, overrun, out, fpath>>

Next ==
    \/ MkRoot \/ MkEntry \/ MkData \/ MkDirEnd \/ Resize
    \/ UnStart \/ UnChunk \/ UnData

\* Each tool is one process that keeps running until it exits.
Spec == Init /\ [][Next]_vars /\ WF_vars(Next)

-----------------------------------------------------------------------------
(* Properties *)

TypeOK ==
    /\ mk.pc \in {"root", "walk", "data", "exit2", "done"}
    /\ upc \in {"wait", "chunk", "data", "done", "crashed"}
    /\ pos \in 1..Len(image) + 1
    /\ obj_id \in YAFFS_NOBJECT_BUCKETS + 1 .. YAFFS_NOBJECT_BUCKETS + 1 + Cardinality(Inodes) * 2
    /\ remain \in Nat
    /\ overrun \in BOOLEAN

\* The entries of the source tree below directory ino at path, as pairs
\* <<path, inode>>, leaving out what the exclusion file names (spec.md 4.15:
\* a byte-prefix match of the full path).
RECURSIVE Tree(_, _)
Tree(ino, path) ==
    UNION {LET p == Append(path, e[1]) IN
             {<<p, e[2]>>} \cup (IF Kind[e[2]] = "dir" THEN Tree(e[2], p) ELSE {})
           : e \in {e \in Entries[ino] : ~is_entry_exception(Append(path, e[1]))}}

Expected == {t \in Tree(Root, <<>>) : Kind[t[2]] # "special"}

\* The size recorded in the header of file i: its size when the walk met it.
HeaderSize(i) ==
    LET hs == {image[k].hdr.fileSize :
                 k \in {k \in DOMAIN image : /\ image[k].byteCount = HeaderMark
                                             /\ <<i, image[k].objectId>> \in objtab}}
    IN  IF hs = {} THEN -1 ELSE CHOOSE x \in hs : TRUE

\* Round trip (spec.md section 8, items 8 and 10): once unyaffs has read the
\* whole image that mkyaffs2image wrote, the extracted tree has exactly the
\* source's paths (special files aside), each of the right type, every file
\* with the source's first bytes, as many as it had when the walk met it
\* (at least its size at the start), every symlink with its target, and
\* the paths of one hard-linked file sharing one file.
RoundTrip ==
    upc = "done" =>
      /\ DOMAIN out = {<<>>} \cup {t[1] : t \in Expected}
      /\ \A t \in Expected :
           /\ out[t[1]].type = Kind[t[2]]
           /\ Kind[t[2]] = "file" =>
                /\ HeaderSize(t[2]) >= FileSize[t[2]]
                /\ content[out[t[1]].node] =
                      [k \in 1..HeaderSize(t[2]) |-> FileByte(t[2], k)]
           /\ Kind[t[2]] = "symlink" => out[t[1]].alias = t[2]
      /\ \A t, u \in Expected :
           t[2] = u[2] /\ Kind[t[2]] = "file" => out[t[1]].node = out[u[1]].node

\* Both tools run to the end: mkyaffs2image finishes the image and unyaffs
\* reads it all without dying on an unresolved parent (not checked by
\* MCYaffs2.cfg, where files only grow and both tools finish whatever; with
\* Resizes = {"shrink"} unyaffs dies, README "Known defects").
ExtractDone == <>(upc = "done")

=============================================================================
