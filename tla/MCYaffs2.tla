------------------------------ MODULE MCYaffs2 ------------------------------
(***************************************************************************)
(* A small source tree for Yaffs2.  The root holds a directory d, a file   *)
(* f of 1 byte, a fifo p and a directory x that the exclusion file empties *)
(* ("x/").  d holds h, a hard link to f, a symlink s and the empty file e. *)
(* With CHUNK_SIZE 2 and MaxSize 3, f may grow to a full chunk, or past it *)
(* into a short second chunk, while it is imaged.                          *)
(***************************************************************************)
EXTENDS Yaffs2, TLC

MCKind == (1 :> "dir" @@ 2 :> "dir" @@ 3 :> "file" @@ 4 :> "symlink" @@
           5 :> "special" @@ 6 :> "dir" @@ 8 :> "file" @@ 9 :> "symlink")
MCEntries == (1 :> {<<"d", 2>>, <<"f", 3>>, <<"p", 5>>, <<"x", 6>>}
              @@ 2 :> {<<"h", 3>>, <<"s", 4>>, <<"e", 8>>}
              @@ 6 :> {<<"y", 9>>})
MCFileSize == (3 :> 1 @@ 8 :> 0)
MCExceptions == {[path |-> <<"x">>, slash |-> TRUE]}
=============================================================================
