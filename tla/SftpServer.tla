----------------------------- MODULE SftpServer -----------------------------
(***************************************************************************)
(* The SFTP request server, src/src/sftp/sftp_server.c, over StdioFs: each *)
(* session has a table of handles, and several sessions (the threads of a  *)
(* concurrent server) work on the same files.  A request is one step where *)
(* its handler makes one system call that matters, and several where it    *)
(* makes more: OPEN (stat, fopen, fopen again, fsetstat) and MKDIR (mkdir, *)
(* chmod, rmdir).                                                          *)
(*                                                                         *)
(* Requests that are refused before they touch anything, and the ones that *)
(* only ask (INIT, REALPATH, STAT, FSTAT, STATVFS), leave the state alone  *)
(* and have no action.                                                     *)
(***************************************************************************)
EXTENDS StdioFs

CONSTANTS
    Sessions,
    ReadOnly,       \* the sessions under the read-only policy
    MaxHandles,     \* EMSSH_SFTP_MAX_HANDLES
    MaxId,          \* 2^32 - 1, the largest handle number
    OpenModes       \* the pflags an OPEN may carry

Pflags == {"READ", "WRITE", "APPEND", "CREAT", "TRUNC", "EXCL"}
Slots == 1 .. MaxHandles
Ids == 1 .. MaxId

ASSUME ServerAssumption ==
    /\ ReadOnly \subseteq Sessions
    /\ MaxHandles \in Nat \ {0} /\ MaxId \in Nat \ {0}
    /\ OpenModes \subseteq SUBSET Pflags

VARIABLES
    handles,          \* handles[s][h]: the table of session s
    next_handle_id,
    step,             \* the request in progress, between two system calls
    wrapped,          \* auxiliary: next_handle_id has started again at 1
    given,            \* auxiliary: the handles the client of s holds
    changed           \* auxiliary: the sessions that changed a file or a name

server_vars == <<handles, next_handle_id, step, wrapped, given>>
vars == <<fs_vars, server_vars, changed>>

Unused == [in_use |-> FALSE]
Idle == [op |-> "idle"]

Init ==
    /\ FsInit
    /\ handles = [s \in Sessions |-> [h \in Slots |-> Unused]]
    /\ next_handle_id = [s \in Sessions |-> 1]
    /\ step = [s \in Sessions |-> Idle]
    /\ wrapped = [s \in Sessions |-> FALSE]
    /\ given = [s \in Sessions |-> {}]
    /\ changed = {}

-----------------------------------------------------------------------------
(* open_pflags_are_valid, and the read-only policy of                      *)
(* examples/minimal_server.c.                                              *)
PflagsValid(f) ==
    /\ f \cap {"READ", "WRITE"} # {}
    /\ f \cap {"APPEND", "CREAT", "TRUNC", "EXCL"} # {} => "WRITE" \in f
    /\ "EXCL" \in f => "CREAT" \in f

\* Faulty variant: a hard link is not seen as a change.
ChangingWithoutLinks == {"WRITE", "SETSTAT", "REMOVE", "MKDIR", "RMDIR", "RENAME", "FSETSTAT", "FSYNC"}
Changing == {"WRITE", "SETSTAT", "REMOVE", "MKDIR", "RMDIR", "RENAME", "FSETSTAT", "FSYNC", "HARDLINK"}
\* policy_check: op for a request on a path or a handle, f its pflags.
Permitted(s, op, f) ==
    s \in ReadOnly => /\ op \notin Changing
                      /\ op = "OPEN" => f \subseteq {"READ"}

\* find_handle: the first entry in use with this number.
Find(s, id) ==
    LET H == {h \in Slots : handles[s][h] # Unused /\ handles[s][h].id = id} IN
    IF H = {} THEN 0 ELSE Least(H)

FreeSlots(s) == {h \in Slots : handles[s][h] = Unused}
NextId(id) == IF id = MaxId THEN 1 ELSE id + 1

\* alloc_handle and the HANDLE answer.
AllocHandle(s, t, kind, f) ==
    LET h == Least(FreeSlots(s))
        id == next_handle_id[s] IN
    /\ handles' = [handles EXCEPT ![s][h] =
          [in_use |-> TRUE, id |-> id, kind |-> kind, st |-> t, pflags |-> f]]
    /\ next_handle_id' = [next_handle_id EXCEPT ![s] = NextId(id)]
    /\ wrapped' = [wrapped EXCEPT ![s] = @ \/ NextId(id) = 1]
    /\ given' = [given EXCEPT ![s] = @ \cup {<<id, t>>}]

\* close_entry: the slot is free whatever the file system said.
CloseEntry(s, h, vouch) ==
    LET e == handles[s][h] IN
    /\ IF e.kind = "dir" THEN StdioClosedir(e.st) ELSE StdioClose(e.st, vouch)
    /\ handles' = [handles EXCEPT ![s][h] = Unused]
    /\ given' = [given EXCEPT ![s] = @ \ {<<e.id, e.st>>}]

-----------------------------------------------------------------------------
(* handle_open: the checks and stat for EXCL; fopen; the second fopen, for *)
(* a file that was not there; then fsetstat, stat and the table.           *)
Goto(s, next) == step' = [step EXCEPT ![s] = next]

\* attrs: the request carries attributes other than a size, to be set by fsetstat.
OpenBegin(s, n, f, attrs) ==
    /\ step[s] = Idle
    /\ PflagsValid(f) /\ (attrs => "WRITE" \in f)
    /\ Permitted(s, "OPEN", f)
    /\ "EXCL" \in f => dir[n] = 0
    /\ FreeStreams # {}
    /\ Goto(s, [op |-> "fopen", name |-> n, flags |-> f, attrs |-> attrs])
    /\ UNCHANGED <<fs_vars, handles, next_handle_id, wrapped, given>>

Opened(s, t) == Goto(s, [op |-> "finish", flags |-> step[s].flags,
                         attrs |-> step[s].attrs, st |-> t])

Fopen(s) ==
    LET n == step[s].name
        f == step[s].flags
        t == Least(FreeStreams) IN
    /\ step[s].op = "fopen"
    /\ \/ /\ FreeStreams # {} /\ Opened(s, t)
          /\ IF "TRUNC" \in f THEN FopenEmptied(n, "APPEND" \in f, t)
             ELSE FopenExisting(n, "WRITE" \in f, "APPEND" \in f, t)
       \/ /\ dir[n] = 0 /\ "CREAT" \in f /\ "TRUNC" \notin f
          /\ Goto(s, [step[s] EXCEPT !.op = "create"]) /\ UNCHANGED fs_vars
       \/ Goto(s, Idle) /\ UNCHANGED fs_vars
    /\ UNCHANGED <<handles, next_handle_id, wrapped, given>>

FopenCreate(s) ==
    /\ step[s].op = "create"
    /\ \/ /\ FreeStreams # {}
          /\ LET t == Least(FreeStreams) IN
             FopenEmptied(step[s].name, "APPEND" \in step[s].flags, t) /\ Opened(s, t)
       \/ Goto(s, Idle) /\ UNCHANGED fs_vars
    /\ UNCHANGED <<handles, next_handle_id, wrapped, given>>

\* Faulty variant: the stream stays open when the table is full.
OpenFinishLeaks(s) ==
    /\ step[s].op = "finish"
    /\ Goto(s, Idle)
    /\ \/ /\ step[s].attrs \/ FreeSlots(s) = {}
          /\ UNCHANGED <<fs_vars, handles, next_handle_id, wrapped, given>>
       \/ /\ FreeSlots(s) # {}
          /\ AllocHandle(s, step[s].st, "file", step[s].flags)
          /\ UNCHANGED fs_vars

\* fsetstat refuses an owner and may fail on permissions; then, as when the table
\* is full, the stream is closed again.
OpenFinish(s) ==
    /\ step[s].op = "finish"
    /\ Goto(s, Idle)
    /\ \/ /\ step[s].attrs \/ FreeSlots(s) = {}
          /\ StdioClose(step[s].st, FALSE)
          /\ UNCHANGED <<handles, next_handle_id, wrapped, given>>
       \/ /\ FreeSlots(s) # {}
          /\ AllocHandle(s, step[s].st, "file", step[s].flags)
          /\ UNCHANGED fs_vars

HandleClose(s, id) ==
    /\ step[s] = Idle /\ Find(s, id) # 0
    /\ CloseEntry(s, Find(s, id), TRUE)
    /\ UNCHANGED <<next_handle_id, step, wrapped>>

-----------------------------------------------------------------------------
\* The entry of a file, if the handle is good and was opened for flag.
FileEntry(s, id, flag) ==
    /\ step[s] = Idle /\ Find(s, id) # 0
    /\ handles[s][Find(s, id)].kind = "file"
    /\ flag \in handles[s][Find(s, id)].pflags
Stream(s, id) == handles[s][Find(s, id)].st

HandleRead(s, id) ==
    /\ FileEntry(s, id, "READ") /\ Permitted(s, "READ", {})
    /\ StdioReadAt(Stream(s, id))
    /\ UNCHANGED server_vars

HandleWrite(s, id, p, tag) ==
    /\ FileEntry(s, id, "WRITE") /\ Permitted(s, "WRITE", {})
    /\ StdioWriteAt(Stream(s, id), p, tag)
    /\ UNCHANGED server_vars

HandleFsetstat(s, id, n) ==
    /\ FileEntry(s, id, "WRITE") /\ Permitted(s, "FSETSTAT", {})
    /\ StdioFsetstat(Stream(s, id), n)
    /\ UNCHANGED server_vars

\* handle_extended, fsync@openssh.com: any file handle.
HandleFsync(s, id) ==
    /\ \E flag \in {"READ", "WRITE"} : FileEntry(s, id, flag)
    /\ Permitted(s, "FSYNC", {})
    /\ StdioFsync(Stream(s, id))
    /\ UNCHANGED server_vars

HandleSetstat(s, n, size) ==
    /\ step[s] = Idle /\ Permitted(s, "SETSTAT", {})
    /\ StdioSetstat(n, size)
    /\ UNCHANGED server_vars

-----------------------------------------------------------------------------
HandleOpendir(s, n) ==
    /\ step[s] = Idle /\ Permitted(s, "OPENDIR", {})
    /\ FreeStreams # {}
    /\ LET t == Least(FreeStreams) IN
       \/ /\ FreeSlots(s) # {}
          /\ StdioOpendir(n, t) /\ AllocHandle(s, t, "dir", {})
       \/ /\ FreeSlots(s) = {}          \* opendir, then closedir
          /\ UNCHANGED <<fs_vars, handles, next_handle_id, wrapped, given>>
    /\ UNCHANGED step

HandleReaddir(s, id) ==
    /\ step[s] = Idle /\ Find(s, id) # 0
    /\ handles[s][Find(s, id)].kind = "dir" /\ Permitted(s, "READDIR", {})
    /\ StdioReaddir(Stream(s, id))
    /\ UNCHANGED server_vars

HandleRemove(s, n) ==
    /\ step[s] = Idle /\ Permitted(s, "REMOVE", {})
    /\ StdioRemove(n)
    /\ UNCHANGED server_vars

HandleRmdir(s, n) ==
    /\ step[s] = Idle /\ Permitted(s, "RMDIR", {})
    /\ StdioRmdir(n)
    /\ UNCHANGED server_vars

\* handle_mkdir: a directory that does not get its attributes is removed again,
\* by name.
HandleMkdir(s, n, attrs) ==
    /\ step[s] = Idle /\ Permitted(s, "MKDIR", {})
    /\ StdioMkdir(n)
    /\ Goto(s, IF attrs THEN [op |-> "mkdir", name |-> n] ELSE Idle)
    /\ UNCHANGED <<handles, next_handle_id, wrapped, given>>

MkdirAttrs(s) ==
    /\ step[s].op = "mkdir"
    /\ Goto(s, Idle)
    /\ StdioRmdir(step[s].name) \/ UNCHANGED fs_vars
    /\ UNCHANGED <<handles, next_handle_id, wrapped, given>>

\* RENAME and posix-rename@openssh.com.
HandleRename(s, old, new) ==
    /\ step[s] = Idle /\ Permitted(s, "RENAME", {})
    /\ StdioRename(old, new)
    /\ UNCHANGED server_vars

HandleHardlink(s, old, new) ==
    /\ step[s] = Idle /\ Permitted(s, "HARDLINK", {})
    /\ StdioHardlink(old, new)
    /\ UNCHANGED server_vars

\* sftp_server_session_deinit closes what is open, one entry after the other, and
\* the next connection starts with sftp_server_session_init.
Disconnect(s) ==
    /\ step[s] = Idle
    /\ Goto(s, [op |-> "deinit"])
    /\ UNCHANGED <<fs_vars, handles, next_handle_id, wrapped, given>>

DeinitClose(s) ==
    /\ step[s].op = "deinit"
    /\ \/ /\ FreeSlots(s) # Slots
          /\ CloseEntry(s, Least(Slots \ FreeSlots(s)), FALSE)
          /\ UNCHANGED <<next_handle_id, step, wrapped>>
       \/ /\ FreeSlots(s) = Slots
          /\ Goto(s, Idle)
          /\ next_handle_id' = [next_handle_id EXCEPT ![s] = 1]
          /\ wrapped' = [wrapped EXCEPT ![s] = FALSE]
          /\ UNCHANGED <<fs_vars, handles, given>>

-----------------------------------------------------------------------------
HandlePacket(s) ==
    \/ \E n \in Names, f \in OpenModes, a \in BOOLEAN : OpenBegin(s, n, f, a)
    \/ Fopen(s) \/ FopenCreate(s) \/ OpenFinish(s)
    \/ \E id \in Ids :
          \/ HandleClose(s, id) \/ HandleRead(s, id) \/ HandleFsync(s, id) \/ HandleReaddir(s, id)
          \/ \E p \in Pos, tag \in Tags : HandleWrite(s, id, p, tag)
          \/ \E n \in 0 .. MaxSize : HandleFsetstat(s, id, n)
    \/ \E n \in Names :
          \/ \E size \in 0 .. MaxSize : HandleSetstat(s, n, size)
          \/ HandleRemove(s, n) \/ HandleRmdir(s, n)
          \/ \E a \in BOOLEAN : HandleMkdir(s, n, a)
          \/ \E m \in Names : HandleRename(s, n, m) \/ HandleHardlink(s, n, m)
    \/ \E n \in Names \cup {Top} : HandleOpendir(s, n)
    \/ MkdirAttrs(s)
    \/ Disconnect(s) \/ DeinitClose(s)

\* What the names lead to.
Visible == [n \in Names |-> <<dir[n], dir[n] \in folders,
                             IF dir[n] = 0 THEN <<>> ELSE data[dir[n]]>>]

Next == \E s \in Sessions :
    /\ HandlePacket(s)
    /\ changed' = IF Visible' = Visible THEN changed ELSE changed \cup {s}

Spec == Init /\ [][Next]_vars

-----------------------------------------------------------------------------
InProgress(s) == IF step[s].op = "finish" THEN {step[s].st} ELSE {}
Held(s) == {handles[s][h].st : h \in Slots \ FreeSlots(s)}

(***************************************************************************)
(* No stream leaks and none is shared: the open streams are exactly those  *)
(* that one handle of one session, or one OPEN in progress, refers to,     *)
(* whatever fails half way.  And a handle the client holds leads to the    *)
(* stream it was given for, as long as the numbers have not wrapped.       *)
(***************************************************************************)
HandlesExact ==
    /\ OpenStreams = UNION {Held(s) \cup InProgress(s) : s \in Sessions}
    /\ \A s, r \in Sessions, h, k \in Slots :
          /\ handles[s][h] # Unused /\ handles[r][k] # Unused
          /\ handles[s][h].st = handles[r][k].st
          => s = r /\ h = k
    /\ \A s \in Sessions : ~wrapped[s] =>
          \A g \in given[s] : Find(s, g[1]) # 0 /\ Stream(s, g[1]) = g[2]

(***************************************************************************)
(* The read-only policy holds: a session under it never changes a name or  *)
(* the contents of a file, by any sequence of requests.                    *)
(***************************************************************************)
ReadOnlyKept == changed \cap ReadOnly = {}
=============================================================================
