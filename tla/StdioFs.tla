------------------------------- MODULE StdioFs -------------------------------
(***************************************************************************)
(* The host file system as src/src/platform/stdio_fs.c reaches it: one     *)
(* flat directory of names, files with positions of one written unit each, *)
(* and the C library's streams.  A FILE keeps the last fwrite in its       *)
(* buffer until the next seek, flush or close, and the kernel may refuse   *)
(* it then (ENOSPC, EDQUOT, EFBIG): what a stream has taken is not yet in  *)
(* the file.  Sessions share the file system and nothing locks it, so each *)
(* system call is a step of its own.                                       *)
(*                                                                         *)
(* Permissions, owners and times are only successes or failures here; the  *)
(* directories below the root stay empty.                                  *)
(***************************************************************************)
EXTENDS Integers, Sequences

CONSTANTS
    Names,       \* the names a request may use, after normalisation
    Top,         \* the root directory, which is not one of Names
    Inodes,      \* bound: files and directories that exist at one time
    Streams,     \* bound: FILE and DIR objects open at one time
    MaxSize,     \* bound: units in a file
    Tags,        \* bound: what a WRITE may put at a position
    None         \* nothing was written there, or nothing is known of it

ASSUME FsAssumption ==
    /\ Top \notin Names
    /\ Inodes \subseteq Nat \ {0} /\ Streams \subseteq Nat \ {0}
    /\ MaxSize \in Nat \ {0} /\ None \notin Tags

VARIABLES
    dir,         \* dir[n]: the inode named n, 0 if there is none
    folders,     \* the inodes that are directories
    data,        \* data[i]: what is in file i
    streams,     \* the heap of stdio_file_handle_t and stdio_dir_handle_t
    promised     \* auxiliary: promised[i][p], the write at p that a CLOSE or
                 \* an fsync answered OK vouches for, if any

fs_vars == <<dir, folders, data, streams, promised>>

Pos == 0 .. MaxSize - 1
NoWrites == [p \in Pos |-> None]
Closed == [kind |-> "closed"]
\* own is auxiliary: the writes answered OK through this stream that nothing else
\* has overwritten or cut off, and that no request on it has since failed to flush.
FileStream(i, append) ==
    [kind |-> "file", ino |-> i, append |-> append, dirty |-> <<>>, own |-> NoWrites]
DirStream(names) == [kind |-> "dir", left |-> names]

FsInit ==
    /\ dir = [n \in Names |-> 0]
    /\ folders = {}
    /\ data = [i \in Inodes |-> <<>>]
    /\ streams = [t \in Streams |-> Closed]
    /\ promised = [i \in Inodes |-> NoWrites]

-----------------------------------------------------------------------------
OpenStreams == {t \in Streams : streams[t] # Closed}
\* The kernel frees a file once it has neither a name nor a stream: what is left of
\* f under the names d and the streams st.
Kept(d, st) == {i \in Inodes : \/ \E n \in Names : d[n] = i
                               \/ \E t \in Streams : st[t].kind = "file" /\ st[t].ino = i}
Reclaim(f, K, zero) == [i \in Inodes |-> IF i \in K THEN f[i] ELSE zero]

FreeInodes == Inodes \ Kept(dir, streams)
FreeStreams == Streams \ OpenStreams
Least(S) == CHOOSE x \in S : \A y \in S : x <= y
IsFile(n) == dir[n] # 0 /\ dir[n] \notin folders
IsFolder(n) == dir[n] # 0 /\ dir[n] \in folders

Put(seq, p, tag) ==
    [k \in 1 .. (IF p < Len(seq) THEN Len(seq) ELSE p + 1) |->
        IF k = p + 1 THEN tag ELSE IF k <= Len(seq) THEN seq[k] ELSE None]
Resized(seq, n) == [k \in 1 .. n |-> IF k <= Len(seq) THEN seq[k] ELSE None]
Without(writes, P) == [p \in Pos |-> IF p \in P THEN None ELSE writes[p]]

\* The streams after the positions P of file i got other contents, by other means
\* than stream t.
Superseded(i, P, t) ==
    [u \in Streams |->
        IF u # t /\ streams[u].kind = "file" /\ streams[u].ino = i
        THEN [streams[u] EXCEPT !.own = Without(@, P)]
        ELSE streams[u]]

\* The positions that wait in the buffer of stream t, and its file with them.
Pending(t) == {streams[t].dirty[k].pos : k \in DOMAIN streams[t].dirty}
Contents(t) == IF streams[t].dirty = <<>> THEN data[streams[t].ino]
               ELSE Put(data[streams[t].ino], streams[t].dirty[1].pos, streams[t].dirty[1].tag)

\* The buffer of stream t goes to its file.
Flush(t) ==
    LET i == streams[t].ino IN
    /\ data' = [data EXCEPT ![i] = Contents(t)]
    /\ streams' = [Superseded(i, Pending(t), t) EXCEPT ![t].dirty = <<>>]
    /\ promised' = [promised EXCEPT ![i] = Without(@, Pending(t))]

\* The kernel refuses what is in the buffer, and the request that had it flushed is
\* answered with an error.  The C library keeps the buffer for another try, or drops
\* it: the close that follows then succeeds.
FlushFails(t) ==
    /\ streams[t].dirty # <<>>
    /\ \E dirty \in {<<>>, streams[t].dirty} :
          streams' = [streams EXCEPT ![t].own = Without(@, Pending(t)), ![t].dirty = dirty]
    /\ UNCHANGED <<data, promised>>

\* File i is cut or extended to n units.
Truncate(i, n) ==
    /\ data' = [data EXCEPT ![i] = Resized(@, n)]
    /\ streams' = Superseded(i, n .. MaxSize - 1, 0)
    /\ promised' = [promised EXCEPT ![i] = Without(@, n .. MaxSize - 1)]

\* Stream t, once flushed, vouches for what was written through it.
Vouched(t) ==
    [promised EXCEPT ![streams[t].ino] =
        [p \in Pos |-> IF streams[t].own[p] # None THEN streams[t].own[p]
                       ELSE Without(promised[streams[t].ino], Pending(t))[p]]]

-----------------------------------------------------------------------------
(* stdio_open, one fopen at a time.                                        *)

\* fopen(n, "rb") or "r+b" opens what is there; "rb" also opens a directory.
FopenExisting(n, write, append, t) ==
    /\ dir[n] # 0 /\ (write => IsFile(n))
    /\ streams' = [streams EXCEPT ![t] = FileStream(dir[n], append)]
    /\ UNCHANGED <<dir, folders, data, promised>>

\* fopen(n, "w+b") creates n or empties it.
FopenEmptied(n, append, t) ==
    \/ /\ dir[n] = 0 /\ FreeInodes # {}
       /\ LET i == Least(FreeInodes) IN
          /\ dir' = [dir EXCEPT ![n] = i]
          /\ streams' = [streams EXCEPT ![t] = FileStream(i, append)]
          /\ UNCHANGED <<folders, data, promised>>
    \/ /\ IsFile(n)
       /\ data' = [data EXCEPT ![dir[n]] = <<>>]
       /\ promised' = [promised EXCEPT ![dir[n]] = NoWrites]
       /\ streams' = [Superseded(dir[n], Pos, 0) EXCEPT ![t] = FileStream(dir[n], append)]
       /\ UNCHANGED <<dir, folders>>

\* Faulty variant: the result of fclose is not looked at.
CloseUnchecked(t, vouch) ==
    LET K == Kept(dir, [streams EXCEPT ![t] = Closed]) IN
    /\ \/ data' = Reclaim([data EXCEPT ![streams[t].ino] = Contents(t)], K, <<>>)
       \/ streams[t].dirty # <<>> /\ data' = Reclaim(data, K, <<>>)
    /\ streams' = [Superseded(streams[t].ino, Pending(t), t) EXCEPT ![t] = Closed]
    /\ promised' = Reclaim(Vouched(t), K, NoWrites)
    /\ folders' = folders \cap K
    /\ UNCHANGED dir

\* stdio_close: the stream is gone whatever fclose said.  vouch: the caller
\* passes the result on.
StdioClose(t, vouch) ==
    LET i == streams[t].ino
        K == Kept(dir, [streams EXCEPT ![t] = Closed]) IN
    /\ \/ /\ data' = Reclaim([data EXCEPT ![i] = Contents(t)], K, <<>>)
          /\ streams' = [Superseded(i, Pending(t), t) EXCEPT ![t] = Closed]
          /\ promised' = Reclaim(IF vouch THEN Vouched(t)
                                 ELSE [promised EXCEPT ![i] = Without(@, Pending(t))],
                                 K, NoWrites)
       \/ /\ streams[t].dirty # <<>>
          /\ data' = Reclaim(data, K, <<>>)
          /\ streams' = [streams EXCEPT ![t] = Closed]
          /\ promised' = Reclaim(promised, K, NoWrites)
    /\ folders' = folders \cap K
    /\ UNCHANGED dir

StdioClosedir(t) ==
    /\ streams' = [streams EXCEPT ![t] = Closed]
    /\ UNCHANGED <<dir, folders, data, promised>>

\* stdio_fsync: fflush and fsync.
StdioFsync(t) ==
    /\ \/ /\ data' = [data EXCEPT ![streams[t].ino] = Contents(t)]
          /\ streams' = [Superseded(streams[t].ino, Pending(t), t) EXCEPT ![t].dirty = <<>>]
          /\ promised' = Vouched(t)
       \/ FlushFails(t)
    /\ UNCHANGED <<dir, folders>>

\* stdio_read_at: the seek flushes, then the read itself changes nothing.
StdioReadAt(t) == (Flush(t) \/ FlushFails(t)) /\ UNCHANGED <<dir, folders>>

\* stdio_write_at at position p, or at the end of the file for APPEND.  The write
\* stays in the buffer, or goes to the file at once when the buffer is too small.
WriteAt(t, p, tag) ==
    LET i == streams[t].ino
        at == IF streams[t].append THEN Len(Contents(t)) ELSE p IN
    /\ at \in Pos
    /\ \E spill \in BOOLEAN :
          LET P == Pending(t) \cup (IF spill THEN {at} ELSE {}) IN
          /\ data' = [data EXCEPT ![i] = IF spill THEN Put(Contents(t), at, tag)
                                         ELSE Contents(t)]
          /\ streams' = [Superseded(i, P, t) EXCEPT
                            ![t].own[at] = tag,
                            ![t].dirty = IF spill THEN <<>> ELSE <<[pos |-> at, tag |-> tag]>>]
          /\ promised' = [promised EXCEPT ![i] = Without(@, P)]

StdioWriteAt(t, p, tag) ==
    /\ WriteAt(t, p, tag) \/ Flush(t) \/ FlushFails(t)
    /\ UNCHANGED <<dir, folders>>

\* apply_file_attrs with a size: fflush, then ftruncate; what may fail after that
\* changes neither.
StdioFsetstat(t, n) ==
    /\ \/ FlushFails(t)
       \/ LET i == streams[t].ino
              cut == n .. MaxSize - 1 IN
          /\ data' = [data EXCEPT ![i] = Resized(Contents(t), n)]
          /\ streams' = [Superseded(i, cut \cup Pending(t), t) EXCEPT
                            ![t].dirty = <<>>, ![t].own = Without(@, cut)]
          /\ promised' = [promised EXCEPT ![i] = Without(@, cut \cup Pending(t))]
    /\ UNCHANGED <<dir, folders>>

\* apply_path_attrs with a size.
StdioSetstat(n, size) ==
    /\ IsFile(n) /\ Truncate(dir[n], size) /\ UNCHANGED <<dir, folders>>

-----------------------------------------------------------------------------
StdioOpendir(n, t) ==
    /\ n = Top \/ (n # Top /\ IsFolder(n))
    /\ streams' = [streams EXCEPT ![t] =
          DirStream(IF n = Top THEN {m \in Names : dir[m] # 0} ELSE {})]
    /\ UNCHANGED <<dir, folders, data, promised>>

\* stdio_readdir: entries that lstat and stat cannot find any more are skipped.
StdioReaddir(t) ==
    /\ LET left == {m \in streams[t].left : dir[m] # 0} IN
       \/ \E m \in left : streams' = [streams EXCEPT ![t].left = left \ {m}]
       \/ left = {} /\ streams' = [streams EXCEPT ![t].left = {}]
    /\ UNCHANGED <<dir, folders, data, promised>>

StdioMkdir(n) ==
    /\ dir[n] = 0 /\ FreeInodes # {}
    /\ LET i == Least(FreeInodes) IN
       /\ dir' = [dir EXCEPT ![n] = i]
       /\ folders' = folders \cup {i}
    /\ UNCHANGED <<data, streams, promised>>

\* The names become d.
Relink(d) ==
    LET K == Kept(d, streams) IN
    /\ dir' = d
    /\ folders' = folders \cap K
    /\ data' = Reclaim(data, K, <<>>)
    /\ promised' = Reclaim(promised, K, NoWrites)
    /\ UNCHANGED streams
Unlink(n) == Relink([dir EXCEPT ![n] = 0])
StdioRmdir(n) == IsFolder(n) /\ Unlink(n)
\* remove(3) takes files and empty directories.
StdioRemove(n) == dir[n] # 0 /\ Unlink(n)

\* rename(2).  stdio_rename refuses a target that exists, and handle_rename then
\* calls stdio_posix_rename: whatever the check saw, the call is the same.
StdioRename(old, new) ==
    /\ dir[old] # 0
    /\ dir[new] # 0 => (IsFolder(old) <=> IsFolder(new))
    /\ Relink(IF dir[old] = dir[new] THEN dir
              ELSE [dir EXCEPT ![new] = dir[old], ![old] = 0])

StdioHardlink(old, new) ==
    /\ IsFile(old) /\ dir[new] = 0
    /\ Relink([dir EXCEPT ![new] = dir[old]])

-----------------------------------------------------------------------------
(* What must hold.                                                         *)

At(i, p) == IF p < Len(data[i]) THEN data[i][p + 1] ELSE None

(***************************************************************************)
(* A WRITE answered OK is not lost: until somebody else overwrites or cuts *)
(* off the position, or a later request on the same handle is answered     *)
(* with an error because it could not be flushed, the write is in the      *)
(* stream's buffer or in the file; and once a CLOSE or an fsync was        *)
(* answered OK it is in the file.                                          *)
(***************************************************************************)
AckedHeld ==
    /\ \A t \in Streams : streams[t].kind = "file" =>
          \A p \in Pos : streams[t].own[p] # None =>
             \/ streams[t].dirty = <<[pos |-> p, tag |-> streams[t].own[p]]>>
             \/ At(streams[t].ino, p) = streams[t].own[p]
    /\ \A i \in Inodes, p \in Pos : promised[i][p] # None => At(i, p) = promised[i][p]
=============================================================================
