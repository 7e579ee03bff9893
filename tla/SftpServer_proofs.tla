------------------------- MODULE SftpServer_proofs -------------------------
(***************************************************************************)
(* Proofs about SftpServer and StdioFs, for every number of sessions,      *)
(* handles, streams, names and files: what was answered OK is held, the    *)
(* handles and the open streams fit, and a read-only session changes       *)
(* nothing.                                                                *)
(***************************************************************************)
EXTENDS SftpServer, TLAPS, WellFoundedInduction

-----------------------------------------------------------------------------
(* The file system: types, and what streams and promises say of files.     *)

Written == Tags \cup {None}
Writes == [Pos -> Written]
Buffers == {<<>>} \cup {<<[pos |-> p, tag |-> g]>> : p \in Pos, g \in Tags}
FileStreams ==
  [kind : {"file"}, ino : Inodes, append : BOOLEAN, dirty : Buffers, own : Writes]
DirStreams == [kind : {"dir"}, left : SUBSET Names]
AnyStream == {Closed} \cup FileStreams \cup DirStreams

\* What is at position p of a file with the contents seq.
Content(seq, p) == IF p < Len(seq) THEN seq[p + 1] ELSE None

\* The writes answered OK through stream x, of a file with the contents seq, are in
\* its buffer or in the file; and the buffer is not older than they are.
Honoured(x, seq) ==
  /\ \A p \in Pos : x.own[p] # None =>
        x.dirty = <<[pos |-> p, tag |-> x.own[p]]>> \/ Content(seq, p) = x.own[p]
  /\ x.dirty # <<>> => x.own[x.dirty[1].pos] \in {None, x.dirty[1].tag}

\* The promises w are kept by the contents seq.
Vouches(w, seq) == \A p \in Pos : w[p] # None => Content(seq, p) = w[p]

\* The files f, the streams st and the promises pr fit.
FsGood(f, st, pr) ==
  /\ f \in [Inodes -> Seq(Written)]
  /\ st \in [Streams -> AnyStream]
  /\ pr \in [Inodes -> Writes]
  /\ \A i \in Inodes : Vouches(pr[i], f[i])
  /\ \A t \in Streams : st[t].kind = "file" => Honoured(st[t], f[st[t].ino])

NameTypes == dir \in [Names -> Inodes \cup {0}] /\ folders \in SUBSET Inodes
FsInv == NameTypes /\ FsGood(data, streams, promised)

\* The streams other than t stay what they are, but for what they vouch for.
Same(st, st2, t) ==
  \A u \in Streams : u # t =>
    /\ st2[u].kind = st[u].kind
    /\ st[u].kind = "file" => st2[u].ino = st[u].ino /\ st2[u].dirty = st[u].dirty

-----------------------------------------------------------------------------
(* Sequences of units, buffers and streams.                                *)

\* What Put leaves at each position.
LEMMA PutContent ==
  ASSUME NEW seq \in Seq(Written), NEW p \in Pos, NEW g \in Written
  PROVE  /\ Put(seq, p, g) \in Seq(Written)
         /\ Content(Put(seq, p, g), p) = g
         /\ \A q \in Pos : q # p => Content(Put(seq, p, g), q) = Content(seq, q)
<1> DEFINE n == IF p < Len(seq) THEN Len(seq) ELSE p + 1
           r == [k \in 1 .. n |-> IF k = p + 1 THEN g ELSE IF k <= Len(seq) THEN seq[k] ELSE None]
<1>1. p \in Nat /\ n \in Nat /\ Put(seq, p, g) = r
  BY FsAssumption DEF Pos, Put
<1>2. \A k \in 1 .. n : (IF k = p + 1 THEN g ELSE IF k <= Len(seq) THEN seq[k] ELSE None) \in Written
  BY <1>1 DEF Written
<1>3. r \in Seq(Written) /\ Len(r) = n
  BY <1>1, <1>2
<1>4. Content(r, p) = g
  BY <1>1, <1>3 DEF Content
<1>5. ASSUME NEW q \in Pos, q # p PROVE Content(r, q) = Content(seq, q)
  <2>1. q \in Nat
    BY FsAssumption DEF Pos
  <2> QED BY <2>1, <1>1, <1>3, <1>5 DEF Content
<1> QED BY <1>1, <1>3, <1>4, <1>5

\* What Resized leaves at each position.
LEMMA ResizedContent ==
  ASSUME NEW seq \in Seq(Written), NEW n \in 0 .. MaxSize
  PROVE  /\ Resized(seq, n) \in Seq(Written)
         /\ \A q \in Pos : q \notin n .. MaxSize - 1 => Content(Resized(seq, n), q) = Content(seq, q)
<1> DEFINE r == [k \in 1 .. n |-> IF k <= Len(seq) THEN seq[k] ELSE None]
<1>1. n \in Nat /\ Resized(seq, n) = r
  BY FsAssumption DEF Resized
<1>2. r \in Seq(Written) /\ Len(r) = n
  BY <1>1 DEF Written
<1>3. ASSUME NEW q \in Pos, q \notin n .. MaxSize - 1 PROVE Content(r, q) = Content(seq, q)
  <2>1. q \in Nat /\ q < n
    BY <1>3, FsAssumption DEF Pos
  <2> QED BY <2>1, <1>1, <1>2 DEF Content
<1> QED BY <1>1, <1>2, <1>3

\* The kind of a stream decides which record it is.
LEMMA StreamRecord ==
  ASSUME NEW x \in AnyStream
  PROVE  /\ x = Closed <=> x.kind = "closed"
         /\ x.kind = "file" <=> x \in FileStreams
         /\ x.kind = "dir" <=> x \in DirStreams
BY DEF AnyStream, FileStreams, DirStreams, Closed

\* A file stream's fields, and the same stream with others.
LEMMA FileFields ==
  ASSUME NEW x \in FileStreams, NEW w \in Writes, NEW d \in Buffers
  PROVE  /\ x.kind = "file" /\ x.ino \in Inodes /\ x.dirty \in Buffers /\ x.own \in Writes
         /\ [x EXCEPT !.own = w] \in FileStreams
         /\ [x EXCEPT !.dirty = d] \in FileStreams
         /\ [x EXCEPT !.dirty = d, !.own = w] \in FileStreams
         /\ [x EXCEPT !.own = w, !.dirty = d] \in FileStreams
BY DEF FileStreams

\* Without is of the type of what it takes from.
LEMMA WithoutType ==
  ASSUME NEW w \in Writes, NEW P
  PROVE  /\ Without(w, P) \in Writes
         /\ \A p \in Pos : Without(w, P)[p] = IF p \in P THEN None ELSE w[p]
BY DEF Writes, Without, Written

\* A buffer is empty or has one write.
LEMMA BufferShape ==
  ASSUME NEW d \in Buffers
  PROVE  /\ d = <<>> => DOMAIN d = {}
         /\ d # <<>> => /\ DOMAIN d = {1} /\ d[1].pos \in Pos /\ d[1].tag \in Tags
                        /\ d = <<[pos |-> d[1].pos, tag |-> d[1].tag]>>
<1>1. CASE d = <<>>
  BY <1>1
<1>2. CASE d # <<>>
  <2>1. PICK p \in Pos, g \in Tags : d = <<[pos |-> p, tag |-> g]>>
    BY <1>2 DEF Buffers
  <2> QED BY <2>1
<1> QED BY <1>1, <1>2

PendingOf(x) == {x.dirty[k].pos : k \in DOMAIN x.dirty}
ContentsOf(x, seq) == IF x.dirty = <<>> THEN seq ELSE Put(seq, x.dirty[1].pos, x.dirty[1].tag)
SupersededOf(st, i, P, t) ==
  [u \in Streams |-> IF u # t /\ st[u].kind = "file" /\ st[u].ino = i
                     THEN [st[u] EXCEPT !.own = Without(@, P)] ELSE st[u]]

\* What a stream's buffer does to its file when it is flushed.
LEMMA FlushContent ==
  ASSUME NEW x \in FileStreams, NEW seq \in Seq(Written)
  PROVE  /\ PendingOf(x) \in SUBSET Pos
         /\ ContentsOf(x, seq) \in Seq(Written)
         /\ \A q \in Pos : q \notin PendingOf(x) => Content(ContentsOf(x, seq), q) = Content(seq, q)
         /\ Honoured(x, seq) => Vouches(x.own, ContentsOf(x, seq))
         /\ x.dirty = <<>> => PendingOf(x) = {} /\ ContentsOf(x, seq) = seq
<1>1. x.dirty \in Buffers /\ x.own \in Writes
  BY DEF FileStreams
<1>2. CASE x.dirty = <<>>
  <2>1. PendingOf(x) = {} /\ ContentsOf(x, seq) = seq
    BY <1>1, <1>2, BufferShape DEF PendingOf, ContentsOf
  <2>2. ASSUME Honoured(x, seq), NEW p \in Pos, x.own[p] # None
        PROVE  Content(seq, p) = x.own[p]
    <3>1. <<>> # <<[pos |-> p, tag |-> x.own[p]]>>
      OBVIOUS
    <3> QED BY <3>1, <2>2, <1>2 DEF Honoured
  <2> QED BY <2>1, <2>2 DEF Vouches
<1>3. CASE x.dirty # <<>>
  <2> DEFINE pp == x.dirty[1].pos
             gg == x.dirty[1].tag
  <2>1. DOMAIN x.dirty = {1} /\ pp \in Pos /\ gg \in Tags
    BY <1>1, <1>3, BufferShape
  <2>2. PendingOf(x) = {pp} /\ ContentsOf(x, seq) = Put(seq, pp, gg) /\ gg \in Written
    BY <2>1, <1>3 DEF PendingOf, ContentsOf, Written
  <2>3. ASSUME Honoured(x, seq), NEW p \in Pos, x.own[p] # None
        PROVE  Content(Put(seq, pp, gg), p) = x.own[p]
    <3>1. x.own[pp] \in {None, gg}
      BY <2>3, <1>3 DEF Honoured
    <3>2. CASE p = pp
      BY <3>1, <3>2, <2>3, <2>1, <2>2, PutContent
    <3>3. CASE p # pp
      <4>1. x.dirty # <<[pos |-> p, tag |-> x.own[p]]>>
        BY <3>3
      <4>2. Content(seq, p) = x.own[p]
        BY <4>1, <2>3 DEF Honoured
      <4> QED BY <4>2, <3>3, <2>1, <2>2, PutContent
    <3> QED BY <3>2, <3>3
  <2>4. Put(seq, pp, gg) \in Seq(Written) /\ \A q \in Pos : q # pp => Content(Put(seq, pp, gg), q) = Content(seq, q)
    BY <2>1, <2>2, PutContent
  <2> HIDE DEF pp, gg
  <2> QED BY <2>1, <2>2, <2>3, <2>4, <1>3 DEF Vouches
<1> QED BY <1>2, <1>3

-----------------------------------------------------------------------------
(* What one system call does to the files, the streams and the promises.   *)

\* The contents of file i become seq, which differs at the positions P, through
\* stream t (0: through none), which becomes x; the promises for the file become w.
Change(f, st, pr, i, P, seq, t, x, w, st2) ==
  /\ FsGood(f, st, pr) /\ i \in Inodes
  /\ P \in SUBSET Pos /\ seq \in Seq(Written)
  /\ \A q \in Pos : q \notin P => Content(seq, q) = Content(f[i], q)
  /\ x \in AnyStream /\ (x.kind = "file" => x.ino = i /\ Honoured(x, seq))
  /\ w \in Writes /\ Vouches(w, seq)
  /\ st2 = [u \in Streams |-> IF u = t THEN x ELSE SupersededOf(st, i, P, t)[u]]

\* Such a change loses nothing that was answered OK.
LEMMA FileChanged ==
  ASSUME NEW f, NEW st, NEW pr, NEW i, NEW P, NEW seq, NEW t, NEW x, NEW w, NEW st2,
         Change(f, st, pr, i, P, seq, t, x, w, st2)
  PROVE  /\ FsGood([f EXCEPT ![i] = seq], st2, [pr EXCEPT ![i] = w])
         /\ Same(st, st2, t)
<1> USE DEF Change
<1> DEFINE g == [f EXCEPT ![i] = seq]
           v == [pr EXCEPT ![i] = w]
<1>1. f \in [Inodes -> Seq(Written)] /\ st \in [Streams -> AnyStream] /\ pr \in [Inodes -> Writes]
  BY DEF FsGood
<1>2. g \in [Inodes -> Seq(Written)] /\ v \in [Inodes -> Writes]
  BY <1>1
<1>3. ASSUME NEW j \in Inodes PROVE Vouches(v[j], g[j])
  BY <1>1 DEF FsGood
<1>4. ASSUME NEW u \in Streams, u # t, st[u].kind = "file", st[u].ino = i
      PROVE  /\ st2[u] \in FileStreams /\ st2[u].ino = i /\ st2[u].dirty = st[u].dirty
             /\ Honoured(st2[u], g[i])
  <2>1. st2[u] = [st[u] EXCEPT !.own = Without(st[u].own, P)]
    BY <1>4 DEF SupersededOf
  <2>2. st[u] \in FileStreams /\ st[u].own \in Writes /\ Without(st[u].own, P) \in Writes
    BY <1>1, <1>4, StreamRecord, WithoutType DEF FileStreams
  <2>3. /\ st2[u] \in FileStreams /\ st2[u].ino = i /\ st2[u].dirty = st[u].dirty
        /\ st2[u].own = Without(st[u].own, P)
    BY <2>1, <2>2, <1>4 DEF FileStreams
  <2>4. Honoured(st[u], f[i]) /\ g[i] = seq
    BY <1>1, <1>4 DEF FsGood
  <2>5. \A p \in Pos : st2[u].own[p] = IF p \in P THEN None ELSE st[u].own[p]
    BY <2>2, <2>3, WithoutType
  <2>6. st[u].dirty # <<>> => st[u].dirty[1].pos \in Pos
    BY <2>2, BufferShape DEF FileStreams
  <2>7. Honoured(st2[u], seq)
    BY <2>3, <2>4, <2>5, <2>6 DEF Honoured
  <2> QED BY <2>3, <2>4, <2>7
<1>5. ASSUME NEW u \in Streams, u # t, ~(st[u].kind = "file" /\ st[u].ino = i)
      PROVE  st2[u] = st[u]
  BY <1>5 DEF SupersededOf
<1>6. \A u \in Streams : u = t => st2[u] = x
  OBVIOUS
<1>7. st2 \in [Streams -> AnyStream]
  <2>1. \A u \in Streams : st2[u] \in AnyStream
    BY <1>1, <1>4, <1>5, <1>6 DEF AnyStream
  <2>2. st2 = [u \in Streams |-> st2[u]]
    OBVIOUS
  <2> QED BY <2>1, <2>2
<1>8. ASSUME NEW u \in Streams, st2[u].kind = "file" PROVE Honoured(st2[u], g[st2[u].ino])
  <2>1. CASE u = t
    BY <2>1, <1>6, <1>8, <1>1
  <2>2. CASE u # t /\ st[u].kind = "file" /\ st[u].ino = i
    BY <2>2, <1>4
  <2>3. CASE u # t /\ ~(st[u].kind = "file" /\ st[u].ino = i)
    <3>1. st2[u] = st[u] /\ st[u] \in FileStreams /\ st[u].ino # i /\ st[u].ino \in Inodes
      BY <2>3, <1>5, <1>8, <1>1, StreamRecord DEF FileStreams
    <3>2. Honoured(st[u], f[st[u].ino])
      BY <3>1, <1>8 DEF FsGood
    <3> QED BY <3>1, <3>2, <1>1
  <2> QED BY <2>1, <2>2, <2>3
<1>9. Same(st, st2, t)
  <2>1. ASSUME NEW u \in Streams, u # t
        PROVE  /\ st2[u].kind = st[u].kind
               /\ st[u].kind = "file" => st2[u].ino = st[u].ino /\ st2[u].dirty = st[u].dirty
    BY <2>1, <1>4, <1>5 DEF FileStreams
  <2> QED BY <2>1 DEF Same
<1> HIDE DEF g, v
<1>10. FsGood(g, st2, v)
  BY <1>2, <1>3, <1>7, <1>8 DEF FsGood
<1> QED BY <1>9, <1>10 DEF g, v

\* A stream that vouches for nothing changes nothing for the files and the others.
LEMMA StreamSet ==
  ASSUME NEW f, NEW st, NEW pr, FsGood(f, st, pr), NEW t \in Streams, NEW x \in AnyStream,
         x.kind = "file" => Honoured(x, f[x.ino])
  PROVE  FsGood(f, [st EXCEPT ![t] = x], pr) /\ Same(st, [st EXCEPT ![t] = x], t)
<1> DEFINE st2 == [st EXCEPT ![t] = x]
<1>1. st \in [Streams -> AnyStream]
  BY DEF FsGood
<1>2. st2 \in [Streams -> AnyStream] /\ st2[t] = x /\ \A u \in Streams : u # t => st2[u] = st[u]
  BY <1>1
<1> HIDE DEF st2
<1>3. FsGood(f, st2, pr)
  BY <1>2 DEF FsGood
<1>4. Same(st, st2, t)
  BY <1>2 DEF Same
<1> QED BY <1>3, <1>4 DEF st2

\* What is freed has no stream.
LEMMA Reclaimed ==
  ASSUME NEW f, NEW st, NEW pr, FsGood(f, st, pr), NEW K,
         \A t \in Streams : st[t].kind = "file" => st[t].ino \in K
  PROVE  FsGood(Reclaim(f, K, <<>>), st, Reclaim(pr, K, NoWrites))
<1> DEFINE g == Reclaim(f, K, <<>>)
           v == Reclaim(pr, K, NoWrites)
<1>1. f \in [Inodes -> Seq(Written)] /\ st \in [Streams -> AnyStream] /\ pr \in [Inodes -> Writes]
  BY DEF FsGood
<1>2. NoWrites \in Writes /\ \A p \in Pos : NoWrites[p] = None
  BY DEF NoWrites, Writes, Written
<1>3. \A i \in Inodes : g[i] \in Seq(Written) /\ (i \in K => g[i] = f[i])
  BY <1>1 DEF Reclaim
<1>4. \A i \in Inodes : v[i] \in Writes /\ v[i] = IF i \in K THEN pr[i] ELSE NoWrites
  BY <1>1, <1>2 DEF Reclaim
<1>5. g = [i \in Inodes |-> g[i]] /\ v = [i \in Inodes |-> v[i]]
  BY DEF Reclaim
<1> HIDE DEF g, v
<1>6. g \in [Inodes -> Seq(Written)] /\ v \in [Inodes -> Writes]
  BY <1>3, <1>4, <1>5
<1>7. ASSUME NEW i \in Inodes PROVE Vouches(v[i], g[i])
  <2>1. CASE i \in K
    BY <2>1, <1>3, <1>4 DEF FsGood
  <2>2. CASE i \notin K
    BY <2>2, <1>2, <1>4 DEF Vouches
  <2> QED BY <2>1, <2>2
<1>8. ASSUME NEW t \in Streams, st[t].kind = "file" PROVE Honoured(st[t], g[st[t].ino])
  <2>1. st[t].ino \in Inodes /\ st[t].ino \in K
    BY <1>1, <1>8, StreamRecord DEF FileStreams
  <2> QED BY <2>1, <1>3, <1>8 DEF FsGood
<1>9. FsGood(g, st, v)
  BY <1>1, <1>6, <1>7, <1>8 DEF FsGood
<1> QED BY <1>9 DEF g, v

\* A stream without writes vouches for nothing.
LEMMA FreshStream ==
  ASSUME NEW i \in Inodes, NEW append \in BOOLEAN, NEW seq
  PROVE  /\ FileStream(i, append) \in FileStreams /\ FileStream(i, append) \in AnyStream
         /\ FileStream(i, append).kind = "file" /\ FileStream(i, append).ino = i
         /\ FileStream(i, append).dirty = <<>>
         /\ Honoured(FileStream(i, append), seq)
<1>1. NoWrites \in Writes /\ \A p \in Pos : NoWrites[p] = None
  BY DEF NoWrites, Writes, Written
<1>2. FileStream(i, append) \in FileStreams
  BY <1>1 DEF FileStream, FileStreams, Buffers
<1>3. /\ FileStream(i, append).kind = "file" /\ FileStream(i, append).ino = i
      /\ FileStream(i, append).dirty = <<>> /\ FileStream(i, append).own = NoWrites
  BY DEF FileStream
<1>4. Honoured(FileStream(i, append), seq)
  BY <1>1, <1>3 DEF Honoured
<1> QED BY <1>2, <1>3, <1>4 DEF AnyStream

\* Positions of a file that is empty.
LEMMA EmptyContent ==
  ASSUME NEW p \in Pos PROVE Content(<<>>, p) = None
<1>1. p \in Nat
  BY FsAssumption DEF Pos
<1> QED BY <1>1 DEF Content

-----------------------------------------------------------------------------
(* What each call does to the streams.                                     *)

Keeps(t) ==
  /\ Same(streams, streams', t)
  /\ t \in Streams => streams'[t].kind = streams[t].kind
Opens(t, kind) ==
  /\ t \in Streams /\ streams[t] = Closed
  /\ streams'[t].kind = kind
  /\ kind = "file" => streams'[t].dirty = <<>>
  /\ Same(streams, streams', t)
Closes(t) == streams'[t] = Closed /\ Same(streams, streams', t)

\* An open file stream and its file: the buffer may go to the file at any time.
LEMMA OpenFile ==
  ASSUME FsInv, NEW t \in Streams, streams[t].kind = "file"
  PROVE  /\ streams[t] \in FileStreams /\ streams[t].ino \in Inodes
         /\ data[streams[t].ino] \in Seq(Written) /\ promised[streams[t].ino] \in Writes
         /\ Vouches(promised[streams[t].ino], data[streams[t].ino])
         /\ Pending(t) \in SUBSET Pos /\ Contents(t) \in Seq(Written)
         /\ \A q \in Pos : q \notin Pending(t) => Content(Contents(t), q) = Content(data[streams[t].ino], q)
         /\ Vouches(streams[t].own, Contents(t))
         /\ streams[t].dirty = <<>> => Pending(t) = {} /\ Contents(t) = data[streams[t].ino]
<1> DEFINE i == streams[t].ino
           x == streams[t]
<1>1. x \in FileStreams /\ i \in Inodes
  BY StreamRecord DEF FsInv, FsGood, FileStreams
<1>2. Honoured(x, data[i])
  BY DEF FsInv, FsGood
<1>3. data[i] \in Seq(Written) /\ promised[i] \in Writes /\ Vouches(promised[i], data[i])
  BY <1>1 DEF FsInv, FsGood
<1>4. Pending(t) = PendingOf(x) /\ Contents(t) = ContentsOf(x, data[i])
  BY DEF Pending, PendingOf, Contents, ContentsOf
<1> HIDE DEF i, x
<1>5. /\ PendingOf(x) \in SUBSET Pos
      /\ ContentsOf(x, data[i]) \in Seq(Written)
      /\ \A q \in Pos : q \notin PendingOf(x) => Content(ContentsOf(x, data[i]), q) = Content(data[i], q)
      /\ Vouches(x.own, ContentsOf(x, data[i]))
      /\ x.dirty = <<>> => PendingOf(x) = {} /\ ContentsOf(x, data[i]) = data[i]
  BY <1>1, <1>2, <1>3, FlushContent
<1> QED BY <1>1, <1>3, <1>4, <1>5 DEF i, x

\* Promises outlive a change at other positions.
LEMMA StillVouched ==
  ASSUME NEW w \in Writes, NEW old, NEW seq, Vouches(w, old), NEW P,
         \A q \in Pos : q \notin P => Content(seq, q) = Content(old, q)
  PROVE  Without(w, P) \in Writes /\ Vouches(Without(w, P), seq)
<1>1. Without(w, P) \in Writes /\ \A p \in Pos : Without(w, P)[p] = IF p \in P THEN None ELSE w[p]
  BY WithoutType
<1> QED BY <1>1 DEF Vouches

\* A stream with an empty buffer is as good as what it vouches for.
LEMMA FlushedStream ==
  ASSUME NEW x \in FileStreams, NEW w \in Writes, NEW seq, Vouches(w, seq)
  PROVE  /\ [x EXCEPT !.dirty = <<>>, !.own = w] \in AnyStream
         /\ [x EXCEPT !.dirty = <<>>, !.own = w].kind = "file"
         /\ [x EXCEPT !.dirty = <<>>, !.own = w].ino = x.ino
         /\ [x EXCEPT !.dirty = <<>>, !.own = w].dirty = <<>>
         /\ Honoured([x EXCEPT !.dirty = <<>>, !.own = w], seq)
<1> DEFINE y == [x EXCEPT !.dirty = <<>>, !.own = w]
<1>1. <<>> \in Buffers
  BY DEF Buffers
<1>2. y \in FileStreams /\ y.kind = "file" /\ y.ino = x.ino /\ y.dirty = <<>> /\ y.own = w
  BY <1>1 DEF FileStreams
<1> HIDE DEF y
<1>3. Honoured(y, seq)
  BY <1>2 DEF Honoured, Vouches
<1> QED BY <1>2, <1>3 DEF y, AnyStream

\* A call that makes such a change and leaves the names alone.
LEMMA ChangeStep ==
  ASSUME FsInv, NEW i \in Inodes, NEW P \in SUBSET Pos, NEW seq \in Seq(Written), NEW t, NEW x, NEW w,
         Change(data, streams, promised, i, P, seq, t, x, w, streams'),
         data' = [data EXCEPT ![i] = seq], promised' = [promised EXCEPT ![i] = w],
         UNCHANGED <<dir, folders>>
  PROVE  FsInv' /\ Same(streams, streams', t)
<1>1. FsGood(data', streams', promised') /\ Same(streams, streams', t)
  BY FileChanged
<1>2. dir' = dir /\ folders' = folders
  OBVIOUS
<1> QED BY <1>1, <1>2 DEF FsInv, NameTypes

\* The same for a stream whose buffer is empty afterwards.
LEMMA FlushedStep ==
  ASSUME FsInv, NEW t \in Streams, streams[t].kind = "file",
         NEW P \in SUBSET Pos, NEW seq \in Seq(Written), NEW own \in Writes, NEW w \in Writes,
         \A q \in Pos : q \notin P => Content(seq, q) = Content(data[streams[t].ino], q),
         Vouches(own, seq), Vouches(w, seq),
         data' = [data EXCEPT ![streams[t].ino] = seq],
         promised' = [promised EXCEPT ![streams[t].ino] = w],
         streams' = [Superseded(streams[t].ino, P, t) EXCEPT
                        ![t] = [streams[t] EXCEPT !.dirty = <<>>, !.own = own]],
         UNCHANGED <<dir, folders>>
  PROVE  FsInv' /\ Keeps(t) /\ streams'[t].dirty = <<>>
<1> DEFINE i == streams[t].ino
           x == [streams[t] EXCEPT !.dirty = <<>>, !.own = own]
<1>1. streams[t] \in FileStreams /\ i \in Inodes
  BY OpenFile
<1>2. /\ x \in AnyStream /\ x.kind = "file" /\ x.ino = i /\ x.dirty = <<>> /\ Honoured(x, seq)
  BY <1>1, FlushedStream
<1>3. streams' = [u \in Streams |-> IF u = t THEN x ELSE SupersededOf(streams, i, P, t)[u]]
  BY DEF Superseded, SupersededOf
<1>4. FsGood(data, streams, promised)
  BY DEF FsInv
<1>5. data' = [data EXCEPT ![i] = seq] /\ promised' = [promised EXCEPT ![i] = w]
      /\ \A q \in Pos : q \notin P => Content(seq, q) = Content(data[i], q)
  OBVIOUS
<1>6. streams'[t] = x
  BY <1>3
<1> HIDE DEF i, x
<1>7. Change(data, streams, promised, i, P, seq, t, x, w, streams')
  BY <1>1, <1>2, <1>3, <1>4, <1>5 DEF Change
<1>8. FsInv' /\ Same(streams, streams', t)
  BY <1>1, <1>5, <1>7, ChangeStep
<1> QED BY <1>2, <1>6, <1>8 DEF Keeps

-----------------------------------------------------------------------------
(* The calls on an open file.                                              *)

\* A flush writes what the buffer holds, and nothing answered OK is lost by it.
LEMMA FlushStep ==
  ASSUME FsInv, NEW t \in Streams, streams[t].kind = "file", Flush(t), UNCHANGED <<dir, folders>>
  PROVE  /\ FsInv' /\ Keeps(t) /\ streams'[t].dirty = <<>>
         /\ streams[t].dirty = <<>> => data' = data
<1> DEFINE i == streams[t].ino
           P == Pending(t)
           w == Without(promised[i], P)
           seq == Contents(t)
<1>1. /\ streams[t] \in FileStreams /\ i \in Inodes
      /\ data[i] \in Seq(Written) /\ promised[i] \in Writes /\ Vouches(promised[i], data[i])
      /\ P \in SUBSET Pos /\ seq \in Seq(Written)
      /\ \A q \in Pos : q \notin P => Content(seq, q) = Content(data[i], q)
      /\ Vouches(streams[t].own, seq)
      /\ streams[t].dirty = <<>> => seq = data[i]
  BY OpenFile
<1>2. w \in Writes /\ Vouches(w, seq)
  BY <1>1, StillVouched
<1>3. streams[t].own \in Writes
  BY <1>1 DEF FileStreams
<1>4. streams' = [Superseded(i, P, t) EXCEPT ![t] = [streams[t] EXCEPT !.dirty = <<>>, !.own = streams[t].own]]
  <2>1. Superseded(i, P, t)[t] = streams[t]
    BY DEF Superseded
  <2>2. [streams[t] EXCEPT !.dirty = <<>>] = [streams[t] EXCEPT !.dirty = <<>>, !.own = streams[t].own]
    BY <1>1 DEF FileStreams
  <2>3. streams' = [Superseded(i, P, t) EXCEPT ![t].dirty = <<>>]
    BY DEF Flush
  <2> QED BY <2>1, <2>2, <2>3
<1>5. data' = [data EXCEPT ![i] = seq] /\ promised' = [promised EXCEPT ![i] = w]
  BY DEF Flush
<1>6. data \in [Inodes -> Seq(Written)]
  BY DEF FsInv, FsGood
<1>7. streams[t].dirty = <<>> => data' = data
  BY <1>1, <1>5, <1>6
<1>8. FsInv' /\ Keeps(t) /\ streams'[t].dirty = <<>>
  <2> HIDE DEF P, w, seq
  <2> QED BY <1>1, <1>2, <1>3, <1>4, <1>5, FlushedStep
<1> QED BY <1>7, <1>8

\* A call that changes nothing.
LEMMA NothingStep ==
  ASSUME FsInv, UNCHANGED fs_vars, NEW t PROVE FsInv' /\ Keeps(t)
<1>1. dir' = dir /\ folders' = folders /\ data' = data /\ streams' = streams /\ promised' = promised
  BY DEF fs_vars
<1> QED BY <1>1 DEF FsInv, NameTypes, Keeps, Same

\* A call that only sets stream t, which vouches for nothing.
LEMMA SetStep ==
  ASSUME FsInv, NEW t \in Streams, NEW x \in AnyStream, x.kind = "file" => Honoured(x, data[x.ino]),
         streams' = [streams EXCEPT ![t] = x],
         UNCHANGED <<data, promised>>, NameTypes'
  PROVE  FsInv' /\ Same(streams, streams', t) /\ streams'[t] = x
<1>1. FsGood(data, streams, promised) /\ data' = data /\ promised' = promised
  BY DEF FsInv
<1>2. FsGood(data, [streams EXCEPT ![t] = x], promised) /\ Same(streams, [streams EXCEPT ![t] = x], t)
  BY <1>1, StreamSet
<1>3. FsGood(data', streams', promised') /\ Same(streams, streams', t)
  BY <1>1, <1>2
<1>4. streams'[t] = x
  BY <1>1 DEF FsGood
<1> QED BY <1>3, <1>4 DEF FsInv

\* A flush that fails: nothing is vouched for that the buffer held.
LEMMA FlushFailsStep ==
  ASSUME FsInv, NEW t \in Streams, streams[t].kind = "file", FlushFails(t), UNCHANGED <<dir, folders>>
  PROVE  FsInv' /\ Keeps(t) /\ data' = data /\ streams[t].dirty # <<>>
<1> DEFINE i == streams[t].ino
           own == Without(streams[t].own, Pending(t))
<1>1. /\ streams[t] \in FileStreams /\ i \in Inodes /\ Pending(t) \in SUBSET Pos
      /\ streams[t].own \in Writes /\ streams[t].dirty \in Buffers
  BY OpenFile DEF FileStreams
<1>2. own \in Writes /\ \A p \in Pos : own[p] = IF p \in Pending(t) THEN None ELSE streams[t].own[p]
  BY <1>1, WithoutType
<1>3. PICK d \in {<<>>, streams[t].dirty} :
          streams' = [streams EXCEPT ![t] = [streams[t] EXCEPT !.own = own, !.dirty = d]]
  BY DEF FlushFails
<1>4. data' = data /\ promised' = promised /\ streams[t].dirty # <<>>
  BY DEF FlushFails
<1> DEFINE x == [streams[t] EXCEPT !.own = own, !.dirty = d]
<1>5. d \in Buffers
  BY <1>1, <1>3 DEF Buffers
<1>6. Honoured(streams[t], data[i])
  BY DEF FsInv, FsGood
<1>7. /\ DOMAIN streams[t].dirty = {1}
      /\ Pending(t) = {streams[t].dirty[1].pos}
  BY <1>1, <1>4, BufferShape DEF Pending
<1> HIDE DEF own
<1>8. x \in FileStreams /\ x.kind = "file" /\ x.ino = i /\ x.dirty = d /\ x.own = own
  BY <1>1, <1>2, <1>5 DEF FileStreams
<1>9. ASSUME NEW p \in Pos, own[p] # None PROVE Content(data[i], p) = own[p]
  <2>1. p # streams[t].dirty[1].pos /\ own[p] = streams[t].own[p]
    BY <1>2, <1>7, <1>9
  <2>2. streams[t].dirty # <<[pos |-> p, tag |-> streams[t].own[p]]>>
    BY <2>1
  <2> QED BY <1>6, <1>9, <2>1, <2>2 DEF Honoured
<1>10. d # <<>> => d[1].pos \in Pos /\ own[d[1].pos] = None
  <2>1. streams[t].dirty[1].pos \in Pos
    BY <1>1, <1>7
  <2> QED BY <1>2, <1>3, <1>7, <2>1
<1> HIDE DEF x
<1>11. Honoured(x, data[i])
  BY <1>8, <1>9, <1>10 DEF Honoured
<1>12. NameTypes'
  BY DEF FsInv, NameTypes
<1>13. x \in AnyStream
  BY <1>8 DEF AnyStream
<1>14. streams' = [streams EXCEPT ![t] = x]
  BY <1>3 DEF x
<1>15. FsInv' /\ Same(streams, streams', t) /\ streams'[t] = x
  BY <1>4, <1>8, <1>11, <1>12, <1>13, <1>14, SetStep
<1> QED BY <1>4, <1>8, <1>15 DEF Keeps

\* READ.
LEMMA ReadAtStep ==
  ASSUME FsInv, NEW t \in Streams, streams[t].kind = "file", StdioReadAt(t)
  PROVE  /\ FsInv' /\ Keeps(t) /\ dir' = dir /\ folders' = folders
         /\ streams[t].dirty = <<>> => streams'[t].dirty = <<>> /\ data' = data
<1>1. UNCHANGED <<dir, folders>> /\ dir' = dir /\ folders' = folders
  BY DEF StdioReadAt
<1>2. CASE Flush(t)
  BY <1>1, <1>2, FlushStep
<1>3. CASE FlushFails(t)
  BY <1>1, <1>3, FlushFailsStep
<1> QED BY <1>2, <1>3 DEF StdioReadAt

\* What a stream vouches for after a flush is in the file.
LEMMA VouchedKept ==
  ASSUME FsInv, NEW t \in Streams, streams[t].kind = "file"
  PROVE  \E w \in Writes : /\ Vouched(t) = [promised EXCEPT ![streams[t].ino] = w]
                           /\ Vouches(w, Contents(t))
<1> DEFINE i == streams[t].ino
           v == Without(promised[i], Pending(t))
           w == [p \in Pos |-> IF streams[t].own[p] # None THEN streams[t].own[p] ELSE v[p]]
<1>1. /\ streams[t] \in FileStreams /\ promised[i] \in Writes /\ Vouches(promised[i], data[i])
      /\ \A q \in Pos : q \notin Pending(t) => Content(Contents(t), q) = Content(data[i], q)
      /\ Vouches(streams[t].own, Contents(t))
  BY OpenFile
<1>2. v \in Writes /\ Vouches(v, Contents(t))
  BY <1>1, StillVouched
<1>3. streams[t].own \in Writes
  BY <1>1 DEF FileStreams
<1> HIDE DEF v
<1>4. w \in Writes /\ Vouches(w, Contents(t))
  BY <1>1, <1>2, <1>3 DEF Writes, Vouches
<1>5. Vouched(t) = [promised EXCEPT ![i] = w]
  BY DEF Vouched, v
<1> QED BY <1>4, <1>5

\* fsync: OK only once the file has it.
LEMMA FsyncStep ==
  ASSUME FsInv, NEW t \in Streams, streams[t].kind = "file", StdioFsync(t)
  PROVE  FsInv' /\ Keeps(t)
<1> DEFINE i == streams[t].ino
           P == Pending(t)
           seq == Contents(t)
<1>1. /\ streams[t] \in FileStreams /\ i \in Inodes
      /\ P \in SUBSET Pos /\ seq \in Seq(Written)
      /\ \A q \in Pos : q \notin P => Content(seq, q) = Content(data[i], q)
      /\ Vouches(streams[t].own, seq)
  BY OpenFile
<1>2. UNCHANGED <<dir, folders>>
  BY DEF StdioFsync
<1>3. CASE FlushFails(t)
  BY <1>2, <1>3, FlushFailsStep
<1>4. CASE /\ data' = [data EXCEPT ![i] = seq]
           /\ streams' = [Superseded(i, P, t) EXCEPT ![t].dirty = <<>>]
           /\ promised' = Vouched(t)
  <2>1. PICK w \in Writes : Vouched(t) = [promised EXCEPT ![i] = w] /\ Vouches(w, seq)
    BY VouchedKept
  <2>2. streams[t].own \in Writes
    BY <1>1 DEF FileStreams
  <2>3. streams' = [Superseded(i, P, t) EXCEPT ![t] = [streams[t] EXCEPT !.dirty = <<>>, !.own = streams[t].own]]
    <3>1. Superseded(i, P, t)[t] = streams[t]
      BY DEF Superseded
    <3>2. [streams[t] EXCEPT !.dirty = <<>>] = [streams[t] EXCEPT !.dirty = <<>>, !.own = streams[t].own]
      BY <1>1 DEF FileStreams
    <3> QED BY <3>1, <3>2, <1>4
  <2>4. promised' = [promised EXCEPT ![i] = w] /\ data' = [data EXCEPT ![i] = seq]
    BY <2>1, <1>4
  <2> HIDE DEF P, seq
  <2> QED BY <1>1, <1>2, <2>1, <2>2, <2>3, <2>4, FlushedStep
<1> QED BY <1>3, <1>4 DEF StdioFsync

\* FSETSTAT with a size: what is cut off is no longer vouched for.
LEMMA FsetstatStep ==
  ASSUME FsInv, NEW t \in Streams, streams[t].kind = "file", NEW n \in 0 .. MaxSize, StdioFsetstat(t, n)
  PROVE  FsInv' /\ Keeps(t)
<1> DEFINE i == streams[t].ino
           cut == n .. MaxSize - 1
           P == cut \cup Pending(t)
           old == Contents(t)
           seq == Resized(old, n)
           own == Without(streams[t].own, cut)
           w == Without(promised[i], P)
<1>1. /\ streams[t] \in FileStreams /\ i \in Inodes /\ promised[i] \in Writes
      /\ Vouches(promised[i], data[i])
      /\ Pending(t) \in SUBSET Pos /\ old \in Seq(Written)
      /\ \A q \in Pos : q \notin Pending(t) => Content(old, q) = Content(data[i], q)
      /\ Vouches(streams[t].own, old)
  BY OpenFile
<1>2. UNCHANGED <<dir, folders>>
  BY DEF StdioFsetstat
<1>3. CASE FlushFails(t)
  BY <1>2, <1>3, FlushFailsStep
<1>4. CASE /\ data' = [data EXCEPT ![i] = seq]
           /\ streams' = [Superseded(i, P, t) EXCEPT ![t].dirty = <<>>, ![t].own = Without(@, cut)]
           /\ promised' = [promised EXCEPT ![i] = w]
  <2>1. cut \in SUBSET Pos /\ P \in SUBSET Pos
    BY <1>1, FsAssumption DEF Pos
  <2>2. seq \in Seq(Written) /\ \A q \in Pos : q \notin cut => Content(seq, q) = Content(old, q)
    BY <1>1, ResizedContent
  <2>3. streams[t].own \in Writes
    BY <1>1 DEF FileStreams
  <2>4. own \in Writes /\ Vouches(own, seq)
    <3> HIDE DEF cut, seq, old
    <3> QED BY <1>1, <2>2, <2>3, StillVouched
  <2>5. \A q \in Pos : q \notin P => Content(seq, q) = Content(data[i], q)
    BY <1>1, <2>2
  <2>6. w \in Writes /\ Vouches(w, seq)
    <3> HIDE DEF P, seq, old
    <3> QED BY <1>1, <2>5, StillVouched
  <2>7. streams' = [Superseded(i, P, t) EXCEPT ![t] = [streams[t] EXCEPT !.dirty = <<>>, !.own = own]]
    <3>1. Superseded(i, P, t)[t] = streams[t] /\ DOMAIN Superseded(i, P, t) = Streams
      BY DEF Superseded
    <3> QED BY <3>1, <1>1, <1>4 DEF FileStreams
  <2>8. promised' = [promised EXCEPT ![i] = w] /\ data' = [data EXCEPT ![i] = seq]
    BY <1>4
  <2> HIDE DEF P, seq, cut, old, own, w
  <2> QED BY <1>1, <1>2, <2>1, <2>2, <2>4, <2>5, <2>6, <2>7, <2>8, FlushedStep
<1> QED BY <1>3, <1>4 DEF StdioFsetstat

\* What another session cuts off, by name, or empties.
LEMMA CutStep ==
  ASSUME FsInv, NEW i \in Inodes, NEW P \in SUBSET Pos, NEW seq \in Seq(Written),
         \A q \in Pos : q \notin P => Content(seq, q) = Content(data[i], q),
         NEW t, NEW x \in AnyStream, x.kind = "file" => x.ino = i /\ Honoured(x, seq),
         data' = [data EXCEPT ![i] = seq],
         promised' = [promised EXCEPT ![i] = Without(promised[i], P)],
         streams' = [u \in Streams |-> IF u = t THEN x ELSE Superseded(i, P, 0)[u]],
         UNCHANGED <<dir, folders>>
  PROVE  FsInv' /\ Same(streams, streams', t)
<1> DEFINE w == Without(promised[i], P)
<1>1. FsGood(data, streams, promised) /\ promised[i] \in Writes /\ Vouches(promised[i], data[i])
  BY DEF FsInv, FsGood
<1>2. w \in Writes /\ Vouches(w, seq)
  BY <1>1, StillVouched
<1>3. streams' = [u \in Streams |-> IF u = t THEN x ELSE SupersededOf(streams, i, P, t)[u]]
  <2>1. \A u \in Streams : u # t => Superseded(i, P, 0)[u] = SupersededOf(streams, i, P, t)[u]
    BY FsAssumption DEF Superseded, SupersededOf
  <2> QED BY <2>1
<1> HIDE DEF w
<1>4. Change(data, streams, promised, i, P, seq, t, x, w, streams')
  BY <1>1, <1>2, <1>3 DEF Change
<1> QED BY <1>4, ChangeStep DEF w

\* SETSTAT with a size.
LEMMA SetstatStep ==
  ASSUME FsInv, NEW n \in Names, NEW size \in 0 .. MaxSize, StdioSetstat(n, size)
  PROVE  FsInv' /\ Keeps(0)
<1> DEFINE i == dir[n]
           P == size .. MaxSize - 1
           seq == Resized(data[i], size)
<1>1. i \in Inodes /\ data[i] \in Seq(Written)
  BY DEF FsInv, NameTypes, StdioSetstat, IsFile, FsGood
<1>2. P \in SUBSET Pos
  BY FsAssumption DEF Pos
<1>3. seq \in Seq(Written) /\ \A q \in Pos : q \notin P => Content(seq, q) = Content(data[i], q)
  BY <1>1, ResizedContent
<1>4. /\ data' = [data EXCEPT ![i] = seq]
      /\ promised' = [promised EXCEPT ![i] = Without(promised[i], P)]
      /\ UNCHANGED <<dir, folders>>
      /\ streams' = Superseded(i, P, 0)
  BY DEF StdioSetstat, Truncate
<1>5. streams' = [u \in Streams |-> IF u = 0 THEN Closed ELSE Superseded(i, P, 0)[u]]
  BY <1>4, FsAssumption DEF Superseded
<1>6. Closed \in AnyStream /\ Closed.kind # "file"
  BY DEF AnyStream, Closed
<1> HIDE DEF i, P, seq
<1>7. FsInv' /\ Same(streams, streams', 0)
  BY <1>1, <1>2, <1>3, <1>4, <1>5, <1>6, CutStep
<1> QED BY <1>7, FsAssumption DEF Keeps

\* A write that goes to the file at once, or stays in the buffer.
LEMMA WriteStep ==
  ASSUME FsInv, NEW t \in Streams, streams[t].kind = "file", NEW p \in Pos, NEW tag \in Tags,
         WriteAt(t, p, tag), UNCHANGED <<dir, folders>>
  PROVE  FsInv' /\ Keeps(t)
<1> DEFINE i == streams[t].ino
           at == IF streams[t].append THEN Len(Contents(t)) ELSE p
           old == Contents(t)
           own == [streams[t].own EXCEPT ![at] = tag]
<1>1. /\ streams[t] \in FileStreams /\ i \in Inodes /\ promised[i] \in Writes
      /\ Vouches(promised[i], data[i])
      /\ Pending(t) \in SUBSET Pos /\ old \in Seq(Written)
      /\ \A q \in Pos : q \notin Pending(t) => Content(old, q) = Content(data[i], q)
      /\ Vouches(streams[t].own, old)
  BY OpenFile
<1>2. at \in Pos /\ tag \in Written
  BY DEF WriteAt, Written
<1>3. streams[t].own \in Writes /\ own \in Writes /\ own[at] = tag
      /\ \A q \in Pos : q # at => own[q] = streams[t].own[q]
  BY <1>1, <1>2 DEF FileStreams, Writes
<1>4. PICK spill \in BOOLEAN :
          LET P == Pending(t) \cup (IF spill THEN {at} ELSE {}) IN
          /\ data' = [data EXCEPT ![i] = IF spill THEN Put(old, at, tag) ELSE old]
          /\ streams' = [Superseded(i, P, t) EXCEPT
                            ![t].own[at] = tag,
                            ![t].dirty = IF spill THEN <<>> ELSE <<[pos |-> at, tag |-> tag]>>]
          /\ promised' = [promised EXCEPT ![i] = Without(@, P)]
  BY DEF WriteAt
<1> DEFINE P == Pending(t) \cup (IF spill THEN {at} ELSE {})
           seq == IF spill THEN Put(old, at, tag) ELSE old
           d == IF spill THEN <<>> ELSE <<[pos |-> at, tag |-> tag]>>
           w == Without(promised[i], P)
           x == [streams[t] EXCEPT !.own = own, !.dirty = d]
<1>5. /\ data' = [data EXCEPT ![i] = seq] /\ promised' = [promised EXCEPT ![i] = w]
      /\ streams' = [Superseded(i, P, t) EXCEPT ![t].own[at] = tag, ![t].dirty = d]
  BY <1>4
<1>6. streams' = [u \in Streams |-> IF u = t THEN x ELSE SupersededOf(streams, i, P, t)[u]]
  <2>1. Superseded(i, P, t)[t] = streams[t] /\ DOMAIN Superseded(i, P, t) = Streams
    BY DEF Superseded
  <2>2. Superseded(i, P, t) = SupersededOf(streams, i, P, t)
    BY DEF Superseded, SupersededOf
  <2> HIDE DEF P, at, d
  <2> QED BY <2>1, <2>2, <1>5
<1> HIDE DEF at, own, old
<1>7. P \in SUBSET Pos /\ seq \in Seq(Written) /\ d \in Buffers
  BY <1>1, <1>2, PutContent DEF Buffers
<1>8. \A q \in Pos : q \notin P => Content(seq, q) = Content(data[i], q)
  BY <1>1, <1>2, PutContent
<1>9. w \in Writes /\ Vouches(w, seq)
  <2> HIDE DEF P, seq
  <2> QED BY <1>1, <1>8, StillVouched
<1>10. x \in FileStreams /\ x.kind = "file" /\ x.ino = i /\ x.own = own /\ x.dirty = d
  <2> HIDE DEF d
  <2> QED BY <1>1, <1>3, <1>7 DEF FileStreams
<1>11. Honoured(x, seq)
  <2>1. CASE spill
    <3>1. d = <<>> /\ seq = Put(old, at, tag)
      BY <2>1
    <3>2. \A q \in Pos : own[q] # None => Content(Put(old, at, tag), q) = own[q]
      <4>1. /\ Content(Put(old, at, tag), at) = tag
            /\ \A q \in Pos : q # at => Content(Put(old, at, tag), q) = Content(old, q)
        BY <1>1, <1>2, PutContent
      <4> QED BY <4>1, <1>1, <1>3 DEF Vouches
    <3> QED BY <3>1, <3>2, <1>10 DEF Honoured
  <2>2. CASE ~spill
    <3>1. d = <<[pos |-> at, tag |-> tag]>> /\ seq = old /\ d[1].pos = at /\ d[1].tag = tag
      BY <2>2
    <3>2. \A q \in Pos : own[q] # None => q = at \/ Content(old, q) = own[q]
      BY <1>1, <1>3 DEF Vouches
    <3> QED BY <3>1, <3>2, <1>3, <1>10 DEF Honoured
  <2> QED BY <2>1, <2>2
<1>12. FsGood(data, streams, promised) /\ x \in AnyStream
  BY <1>10 DEF FsInv, AnyStream
<1>13. streams'[t] = x
  BY <1>6
<1> HIDE DEF i, P, seq, d, w, x
<1>14. Change(data, streams, promised, i, P, seq, t, x, w, streams')
  BY <1>1, <1>6, <1>7, <1>8, <1>9, <1>10, <1>11, <1>12 DEF Change
<1>15. FsInv' /\ Same(streams, streams', t)
  BY <1>1, <1>5, <1>7, <1>14, ChangeStep
<1> QED BY <1>10, <1>13, <1>15 DEF Keeps

\* WRITE.
LEMMA WriteAtStep ==
  ASSUME FsInv, NEW t \in Streams, streams[t].kind = "file", NEW p \in Pos, NEW tag \in Tags,
         StdioWriteAt(t, p, tag)
  PROVE  FsInv' /\ Keeps(t)
<1>1. UNCHANGED <<dir, folders>>
  BY DEF StdioWriteAt
<1>2. CASE WriteAt(t, p, tag)
  BY <1>1, <1>2, WriteStep
<1>3. CASE Flush(t)
  BY <1>1, <1>3, FlushStep
<1>4. CASE FlushFails(t)
  BY <1>1, <1>4, FlushFailsStep
<1> QED BY <1>2, <1>3, <1>4 DEF StdioWriteAt

-----------------------------------------------------------------------------
(* Opening and closing.                                                    *)

\* fopen of what is there.
LEMMA FopenExistingStep ==
  ASSUME FsInv, NEW t \in Streams, streams[t] = Closed, NEW n \in Names,
         NEW write, NEW append \in BOOLEAN, FopenExisting(n, write, append, t)
  PROVE  FsInv' /\ Opens(t, "file") /\ UNCHANGED <<dir, folders, data>>
<1> DEFINE x == FileStream(dir[n], append)
<1>1. /\ dir[n] \in Inodes /\ streams' = [streams EXCEPT ![t] = x]
      /\ UNCHANGED <<dir, folders, data, promised>>
  BY DEF FopenExisting, FsInv, NameTypes
<1>2. x \in AnyStream /\ x.kind = "file" /\ x.dirty = <<>> /\ Honoured(x, data[x.ino])
  BY <1>1, FreshStream
<1>3. NameTypes'
  <2>1. dir' = dir /\ folders' = folders
    BY <1>1
  <2> QED BY <2>1 DEF FsInv, NameTypes
<1> HIDE DEF x
<1>4. FsInv' /\ Same(streams, streams', t) /\ streams'[t] = x
  BY <1>1, <1>2, <1>3, SetStep
<1> QED BY <1>1, <1>2, <1>4 DEF Opens

\* A set of numbers that is not empty has a least one.
LEMMA LeastExists ==
  ASSUME NEW T \in SUBSET Nat, T # {}
  PROVE  Least(T) \in T
<1>1. PICK x \in T : \A y \in T : ~(<<y, x>> \in OpToRel(<, Nat))
  BY NatLessThanWellFounded, WFMin
<1>2. ASSUME NEW y \in T PROVE x <= y
  <2>1. <<y, x>> \in Nat \X Nat => ~(y < x)
    BY <1>1 DEF OpToRel
  <2> QED BY <2>1
<1>3. \E z \in T : \A y \in T : z <= y
  BY <1>2
<1> QED BY <1>3 DEF Least

\* fopen that creates or empties.
LEMMA FopenEmptiedStep ==
  ASSUME FsInv, NEW t \in Streams, streams[t] = Closed, NEW n \in Names,
         NEW append \in BOOLEAN, FopenEmptied(n, append, t)
  PROVE  FsInv' /\ Opens(t, "file")
<1>1. CASE /\ dir[n] = 0 /\ FreeInodes # {}
           /\ LET i == Least(FreeInodes) IN
              /\ dir' = [dir EXCEPT ![n] = i]
              /\ streams' = [streams EXCEPT ![t] = FileStream(i, append)]
              /\ UNCHANGED <<folders, data, promised>>
  <2> DEFINE i == Least(FreeInodes)
             x == FileStream(i, append)
  <2>1. i \in Inodes
    <3>1. FreeInodes \in SUBSET Nat
      BY FsAssumption DEF FreeInodes
    <3>2. i \in FreeInodes
      BY <3>1, <1>1, LeastExists
    <3> QED BY <3>2 DEF FreeInodes
  <2>2. /\ dir' = [dir EXCEPT ![n] = i] /\ folders' = folders
        /\ streams' = [streams EXCEPT ![t] = x] /\ UNCHANGED <<data, promised>>
    BY <1>1
  <2> HIDE DEF i
  <2>3. x \in AnyStream /\ x.kind = "file" /\ x.dirty = <<>> /\ Honoured(x, data[x.ino])
    BY <2>1, FreshStream
  <2>4. NameTypes'
    BY <2>1, <2>2 DEF FsInv, NameTypes
  <2> HIDE DEF x
  <2>5. FsInv' /\ Same(streams, streams', t) /\ streams'[t] = x
    BY <2>2, <2>3, <2>4, SetStep
  <2> QED BY <2>3, <2>5 DEF Opens
<1>2. CASE /\ IsFile(n)
           /\ data' = [data EXCEPT ![dir[n]] = <<>>]
           /\ promised' = [promised EXCEPT ![dir[n]] = NoWrites]
           /\ streams' = [Superseded(dir[n], Pos, 0) EXCEPT ![t] = FileStream(dir[n], append)]
           /\ UNCHANGED <<dir, folders>>
  <2> DEFINE i == dir[n]
             x == FileStream(i, append)
             seq == <<>>
  <2>1. i \in Inodes /\ data[i] \in Seq(Written)
    BY <1>2 DEF FsInv, NameTypes, IsFile, FsGood
  <2>2. x \in AnyStream /\ x.kind = "file" /\ x.ino = i /\ x.dirty = <<>> /\ Honoured(x, seq)
    BY <2>1, FreshStream
  <2>3. promised' = [promised EXCEPT ![i] = Without(promised[i], Pos)]
    <3>1. Without(promised[i], Pos) = NoWrites
      BY DEF Without, NoWrites
    <3> QED BY <3>1, <1>2
  <2>4. streams' = [u \in Streams |-> IF u = t THEN x ELSE Superseded(i, Pos, 0)[u]]
    BY <1>2 DEF Superseded
  <2>5. seq \in Seq(Written) /\ data' = [data EXCEPT ![i] = seq]
        /\ \A q \in Pos : q \notin Pos => Content(seq, q) = Content(data[i], q)
    BY <1>2
  <2>6. Pos \in SUBSET Pos /\ UNCHANGED <<dir, folders>>
    BY <1>2
  <2> HIDE DEF i, x, seq
  <2>7. FsInv' /\ Same(streams, streams', t)
    BY <2>6, <2>1, <2>2, <2>3, <2>4, <2>5, CutStep
  <2>8. streams'[t] = x
    BY <2>4
  <2> QED BY <2>2, <2>7, <2>8 DEF Opens
<1> QED BY <1>1, <1>2 DEF FopenEmptied

\* opendir.
LEMMA OpendirStep ==
  ASSUME FsInv, NEW t \in Streams, streams[t] = Closed, NEW n, StdioOpendir(n, t)
  PROVE  FsInv' /\ Opens(t, "dir") /\ UNCHANGED <<dir, folders, data>>
<1> DEFINE x == DirStream(IF n = Top THEN {m \in Names : dir[m] # 0} ELSE {})
<1>1. streams' = [streams EXCEPT ![t] = x] /\ UNCHANGED <<dir, folders, data, promised>>
  BY DEF StdioOpendir
<1>2. x \in AnyStream /\ x.kind = "dir"
  BY DEF DirStream, DirStreams, AnyStream
<1>3. NameTypes'
  <2>1. dir' = dir /\ folders' = folders
    BY <1>1
  <2> QED BY <2>1 DEF FsInv, NameTypes
<1> HIDE DEF x
<1>4. FsInv' /\ Same(streams, streams', t) /\ streams'[t] = x
  BY <1>1, <1>2, <1>3, SetStep
<1> QED BY <1>1, <1>2, <1>4 DEF Opens

\* closedir.
LEMMA ClosedirStep ==
  ASSUME FsInv, NEW t \in Streams, StdioClosedir(t)
  PROVE  FsInv' /\ Closes(t) /\ UNCHANGED <<dir, folders, data>>
<1>1. streams' = [streams EXCEPT ![t] = Closed] /\ UNCHANGED <<dir, folders, data, promised>>
  BY DEF StdioClosedir
<1>2. Closed \in AnyStream /\ Closed.kind # "file"
  BY DEF AnyStream, Closed
<1>3. NameTypes'
  <2>1. dir' = dir /\ folders' = folders
    BY <1>1
  <2> QED BY <2>1 DEF FsInv, NameTypes
<1>4. FsInv' /\ Same(streams, streams', t) /\ streams'[t] = Closed
  BY <1>1, <1>2, <1>3, SetStep
<1> QED BY <1>1, <1>4 DEF Closes

\* readdir.
LEMMA ReaddirStep ==
  ASSUME FsInv, NEW t \in Streams, streams[t].kind = "dir", StdioReaddir(t)
  PROVE  FsInv' /\ Keeps(t) /\ UNCHANGED <<dir, folders, data>>
<1>1. UNCHANGED <<dir, folders, data, promised>>
  BY DEF StdioReaddir
<1>2. streams[t] \in DirStreams
  BY StreamRecord DEF FsInv, FsGood
<1>3. PICK left \in SUBSET Names : streams' = [streams EXCEPT ![t].left = left]
  BY <1>2 DEF StdioReaddir, DirStreams
<1> DEFINE x == [streams[t] EXCEPT !.left = left]
<1>4. streams' = [streams EXCEPT ![t] = x]
  BY <1>3
<1>5. x \in AnyStream /\ x.kind = "dir"
  BY <1>2 DEF DirStreams, AnyStream
<1>6. NameTypes'
  <2>1. dir' = dir /\ folders' = folders
    BY <1>1
  <2> QED BY <2>1 DEF FsInv, NameTypes
<1> HIDE DEF x
<1>7. FsInv' /\ Same(streams, streams', t) /\ streams'[t] = x
  BY <1>1, <1>4, <1>5, <1>6, SetStep
<1> QED BY <1>1, <1>5, <1>7 DEF Keeps

\* What the names lead to stays the same.
NamesKept ==
  /\ dir' = dir
  /\ \A n \in Names : dir[n] # 0 => /\ data'[dir[n]] = data[dir[n]]
                                    /\ dir[n] \in folders' <=> dir[n] \in folders

\* What is kept when stream t is closed.
LEMMA ClosedKept ==
  ASSUME FsInv, NEW t \in Streams, NEW st2, Same(streams, st2, t), st2[t] = Closed,
         st2 \in [Streams -> AnyStream], NEW K, K = Kept(dir, [streams EXCEPT ![t] = Closed])
  PROVE  /\ \A u \in Streams : st2[u].kind = "file" => st2[u].ino \in K
         /\ \A n \in Names : dir[n] # 0 => dir[n] \in K
<1>1. streams \in [Streams -> AnyStream] /\ dir \in [Names -> Inodes \cup {0}]
  BY DEF FsInv, NameTypes, FsGood
<1>2. ASSUME NEW u \in Streams, st2[u].kind = "file" PROVE st2[u].ino \in K
  <2>1. u # t
    BY <1>2 DEF Closed
  <2>2. streams[u].kind = "file" /\ st2[u].ino = streams[u].ino
    BY <2>1, <1>2 DEF Same
  <2>3. streams[u].ino \in Inodes
    BY <2>2, <1>1, StreamRecord DEF FileStreams
  <2>4. [streams EXCEPT ![t] = Closed][u] = streams[u]
    BY <2>1, <1>1
  <2> QED BY <2>2, <2>3, <2>4 DEF Kept
<1>3. ASSUME NEW n \in Names, dir[n] # 0 PROVE dir[n] \in K
  BY <1>1, <1>3 DEF Kept
<1> QED BY <1>2, <1>3

\* fclose: what it wrote is held by the file, and what nobody can reach is freed.
LEMMA CloseStep ==
  ASSUME FsInv, NEW t \in Streams, streams[t].kind = "file", NEW vouch \in BOOLEAN, StdioClose(t, vouch)
  PROVE  /\ FsInv' /\ Closes(t)
         /\ streams[t].dirty = <<>> => NamesKept
<1> DEFINE i == streams[t].ino
           P == Pending(t)
           seq == Contents(t)
           K == Kept(dir, [streams EXCEPT ![t] = Closed])
<1>1. /\ streams[t] \in FileStreams /\ i \in Inodes /\ data[i] \in Seq(Written) /\ promised[i] \in Writes
      /\ Vouches(promised[i], data[i])
      /\ P \in SUBSET Pos /\ seq \in Seq(Written)
      /\ \A q \in Pos : q \notin P => Content(seq, q) = Content(data[i], q)
      /\ streams[t].dirty = <<>> => seq = data[i]
  BY OpenFile
<1>2. FsGood(data, streams, promised) /\ Closed \in AnyStream /\ Closed.kind # "file"
  BY DEF FsInv, AnyStream, Closed
<1>3. dir' = dir /\ folders' = folders \cap K /\ NameTypes'
  BY DEF StdioClose, FsInv, NameTypes
<1>4. data \in [Inodes -> Seq(Written)] /\ streams \in [Streams -> AnyStream] /\ dir \in [Names -> Inodes \cup {0}]
  BY DEF FsInv, FsGood, NameTypes
<1>5. CASE /\ data' = Reclaim([data EXCEPT ![i] = seq], K, <<>>)
           /\ streams' = [Superseded(i, P, t) EXCEPT ![t] = Closed]
           /\ promised' = Reclaim(IF vouch THEN Vouched(t)
                                  ELSE [promised EXCEPT ![i] = Without(@, P)], K, NoWrites)
  <2>1. PICK w \in Writes : /\ Vouches(w, seq)
                            /\ promised' = Reclaim([promised EXCEPT ![i] = w], K, NoWrites)
    <3>1. CASE vouch
      <4>1. PICK w \in Writes : Vouched(t) = [promised EXCEPT ![i] = w] /\ Vouches(w, seq)
        BY VouchedKept
      <4> QED BY <3>1, <4>1, <1>5
    <3>2. CASE ~vouch
      <4>1. Without(promised[i], P) \in Writes /\ Vouches(Without(promised[i], P), seq)
        BY <1>1, StillVouched
      <4> QED BY <3>2, <4>1, <1>5
    <3> QED BY <3>1, <3>2
  <2>2. streams' = [u \in Streams |-> IF u = t THEN Closed ELSE SupersededOf(streams, i, P, t)[u]]
    BY <1>5 DEF Superseded, SupersededOf
  <2>3. streams'[t] = Closed
    BY <2>2
  <2>4. ASSUME streams[t].dirty = <<>> PROVE [data EXCEPT ![i] = seq] = data
    BY <2>4, <1>1, <1>4
  <2>5. data' = Reclaim([data EXCEPT ![i] = seq], K, <<>>)
    BY <1>5
  <2>6. K = Kept(dir, [streams EXCEPT ![t] = Closed])
    OBVIOUS
  <2> HIDE DEF i, P, seq, K
  <2>7. Change(data, streams, promised, i, P, seq, t, Closed, w, streams')
    BY <1>1, <1>2, <2>1, <2>2 DEF Change
  <2>8. /\ FsGood([data EXCEPT ![i] = seq], streams', [promised EXCEPT ![i] = w])
        /\ Same(streams, streams', t)
    BY <2>7, FileChanged
  <2>9. streams' \in [Streams -> AnyStream]
    BY <2>8 DEF FsGood
  <2>10. /\ \A u \in Streams : streams'[u].kind = "file" => streams'[u].ino \in K
         /\ \A n \in Names : dir[n] # 0 => dir[n] \in K
    BY <2>3, <2>6, <2>8, <2>9, ClosedKept
  <2>11. FsGood(data', streams', promised')
    BY <2>1, <2>5, <2>8, <2>10, Reclaimed
  <2>12. streams[t].dirty = <<>> => NamesKept
    <3>1. ASSUME streams[t].dirty = <<>>, NEW n \in Names, dir[n] # 0
          PROVE  data'[dir[n]] = data[dir[n]] /\ (dir[n] \in folders' <=> dir[n] \in folders)
      <4>1. dir[n] \in Inodes /\ dir[n] \in K
        BY <3>1, <1>4, <2>10
      <4>2. data' = Reclaim(data, K, <<>>)
        BY <3>1, <2>4, <2>5
      <4> QED BY <4>1, <4>2, <1>3 DEF Reclaim
    <3> QED BY <3>1, <1>3 DEF NamesKept
  <2> QED BY <1>3, <2>3, <2>8, <2>11, <2>12 DEF FsInv, Closes
<1>6. CASE /\ streams[t].dirty # <<>>
           /\ data' = Reclaim(data, K, <<>>)
           /\ streams' = [streams EXCEPT ![t] = Closed]
           /\ promised' = Reclaim(promised, K, NoWrites)
  <2>1. FsGood(data, streams', promised) /\ Same(streams, streams', t)
    BY <1>2, <1>6, StreamSet
  <2>2. streams'[t] = Closed /\ streams' \in [Streams -> AnyStream]
    BY <1>2, <1>4, <1>6
  <2>3. \A u \in Streams : streams'[u].kind = "file" => streams'[u].ino \in K
    BY <2>1, <2>2, ClosedKept
  <2> HIDE DEF K
  <2>4. FsGood(data', streams', promised')
    BY <1>6, <2>1, <2>3, Reclaimed
  <2> QED BY <1>3, <1>6, <2>1, <2>2, <2>4 DEF FsInv, Closes
<1> QED BY <1>5, <1>6 DEF StdioClose

-----------------------------------------------------------------------------
(* The calls on names.                                                     *)

\* mkdir.
LEMMA MkdirStep ==
  ASSUME FsInv, NEW n \in Names, StdioMkdir(n)
  PROVE  FsInv' /\ streams' = streams
<1>1. Least(FreeInodes) \in Inodes
  <2>1. FreeInodes \in SUBSET Nat /\ FreeInodes # {}
    BY FsAssumption DEF FreeInodes, StdioMkdir
  <2>2. Least(FreeInodes) \in FreeInodes
    BY <2>1, LeastExists
  <2> QED BY <2>2 DEF FreeInodes
<1>2. /\ dir' = [dir EXCEPT ![n] = Least(FreeInodes)]
      /\ folders' = folders \cup {Least(FreeInodes)}
      /\ data' = data /\ streams' = streams /\ promised' = promised
  BY DEF StdioMkdir
<1>3. NameTypes'
  BY <1>1, <1>2 DEF FsInv, NameTypes
<1> QED BY <1>2, <1>3 DEF FsInv

\* The names change: the files that are open stay.
LEMMA RelinkStep ==
  ASSUME FsInv, NEW d \in [Names -> Inodes \cup {0}], Relink(d)
  PROVE  FsInv' /\ streams' = streams
<1> DEFINE K == Kept(d, streams)
<1>1. /\ dir' = d /\ folders' = folders \cap K
      /\ data' = Reclaim(data, K, <<>>) /\ promised' = Reclaim(promised, K, NoWrites)
      /\ streams' = streams
  BY DEF Relink
<1>2. FsGood(data, streams, promised) /\ streams \in [Streams -> AnyStream]
  BY DEF FsInv, FsGood
<1>3. ASSUME NEW t \in Streams, streams[t].kind = "file" PROVE streams[t].ino \in K
  <2>1. streams[t].ino \in Inodes
    BY <1>2, <1>3, StreamRecord DEF FileStreams
  <2> QED BY <2>1, <1>3 DEF Kept
<1>4. NameTypes'
  BY <1>1 DEF FsInv, NameTypes
<1> HIDE DEF K
<1>5. FsGood(data', streams', promised')
  BY <1>1, <1>2, <1>3, Reclaimed
<1> QED BY <1>1, <1>4, <1>5 DEF FsInv

\* REMOVE, RMDIR, RENAME and the hard link.
LEMMA NamesStep ==
  ASSUME FsInv, NEW n \in Names, NEW m \in Names,
         StdioRemove(n) \/ StdioRmdir(n) \/ StdioRename(n, m) \/ StdioHardlink(n, m)
  PROVE  FsInv' /\ streams' = streams
<1>1. dir \in [Names -> Inodes \cup {0}]
  BY DEF FsInv, NameTypes
<1>2. CASE Unlink(n)
  <2>1. [dir EXCEPT ![n] = 0] \in [Names -> Inodes \cup {0}]
    BY <1>1
  <2> QED BY <2>1, <1>2, RelinkStep DEF Unlink
<1>3. CASE StdioRename(n, m)
  <2> DEFINE d == IF dir[n] = dir[m] THEN dir ELSE [dir EXCEPT ![m] = dir[n], ![n] = 0]
  <2>1. d \in [Names -> Inodes \cup {0}]
    BY <1>1
  <2>2. Relink(d)
    BY <1>3 DEF StdioRename
  <2> HIDE DEF d
  <2> QED BY <2>1, <2>2, RelinkStep
<1>4. CASE StdioHardlink(n, m)
  <2>1. [dir EXCEPT ![m] = dir[n]] \in [Names -> Inodes \cup {0}]
    BY <1>1
  <2> QED BY <2>1, <1>4, RelinkStep DEF StdioHardlink
<1> QED BY <1>2, <1>3, <1>4 DEF StdioRemove, StdioRmdir

\* What FsInv says of the writes that were answered OK.
LEMMA HeldWrites == ASSUME FsInv PROVE AckedHeld
BY DEF FsInv, FsGood, AckedHeld, Honoured, Vouches, At, Content

-----------------------------------------------------------------------------
(* Sessions, their handles and the requests in progress.                   *)

Entries == [in_use : {TRUE}, id : Ids, kind : {"file", "dir"}, st : Streams, pflags : SUBSET Pflags]
Resting == {Idle, [op |-> "deinit"]}
Making == [op : {"mkdir"}, name : Names]
Opening == [op : {"fopen", "create"}, name : Names, flags : SUBSET Pflags, attrs : BOOLEAN]
Finishing == [op : {"finish"}, flags : SUBSET Pflags, attrs : BOOLEAN, st : Streams]
Steps == Resting \cup Making \cup Opening \cup Finishing

ServerTypes ==
  /\ handles \in [Sessions -> [Slots -> {Unused} \cup Entries]]
  /\ next_handle_id \in [Sessions -> Ids]
  /\ step \in [Sessions -> Steps]
  /\ wrapped \in [Sessions -> BOOLEAN]
  /\ given = [s \in Sessions |-> given[s]]

\* The stream that place h of session s refers to, 0 if it refers to none: place 0
\* is the OPEN in progress, the others are the handles.
Places == 0 .. MaxHandles
Ref(s, h) == IF h = 0 THEN IF step[s].op = "finish" THEN step[s].st ELSE 0
             ELSE IF handles[s][h] = Unused THEN 0 ELSE handles[s][h].st
KindAt(s, h) == IF h = 0 THEN "file" ELSE handles[s][h].kind

\* No two places refer to one stream.
Distinct ==
  \A s, r \in Sessions, h, k \in Places : Ref(s, h) # 0 /\ Ref(s, h) = Ref(r, k) => s = r /\ h = k
\* The open streams are those that some place refers to.
Exact == \A t \in Streams : streams[t] # Closed <=> \E s \in Sessions, h \in Places : Ref(s, h) = t
\* The streams are of the kind their place says, and have nothing to write when
\* the session is read-only.
Fitting ==
  \A s \in Sessions, h \in Places : Ref(s, h) # 0 =>
    /\ streams[Ref(s, h)].kind = KindAt(s, h)
    /\ s \in ReadOnly /\ KindAt(s, h) = "file" => streams[Ref(s, h)].dirty = <<>>
\* A read-only session is never about to create or to empty a file.
Reading ==
  \A s \in ReadOnly :
    /\ step[s].op \in {"idle", "fopen", "finish", "deinit"}
    /\ step[s].op \in {"fopen", "finish"} => step[s].flags \subseteq {"READ"}

RefInv == Distinct /\ Exact /\ Fitting
IInv == FsInv /\ ServerTypes /\ RefInv /\ Reading

-----------------------------------------------------------------------------
(* Records of the server.                                                  *)

\* A handle in use is an entry.
LEMMA UsedEntry ==
  ASSUME ServerTypes, NEW s \in Sessions, NEW h \in Slots, handles[s][h] # Unused
  PROVE  /\ handles[s][h] \in Entries /\ handles[s][h].id \in Ids /\ handles[s][h].st \in Streams
         /\ handles[s][h].kind \in {"file", "dir"}
BY DEF ServerTypes, Entries

\* The operation decides which record a step is.
LEMMA StepRecord ==
  ASSUME ServerTypes, NEW s \in Sessions
  PROVE  /\ step[s].op \in {"fopen", "create"} => step[s] \in Opening
         /\ step[s].op = "finish" => step[s] \in Finishing
         /\ step[s].op = "mkdir" => step[s] \in Making
         /\ step[s] = Idle => step[s].op = "idle"
<1>1. step[s] \in Resting \cup Making \cup Opening \cup Finishing
  BY DEF ServerTypes, Steps
<1> QED BY <1>1 DEF Resting, Making, Opening, Finishing, Idle

\* Handles and places are numbers.
LEMMA PlaceTypes ==
  /\ Slots \in SUBSET Nat /\ Slots \in SUBSET Places /\ 0 \in Places /\ 0 \notin Slots
  /\ \A h \in Places : h # 0 => h \in Slots
  /\ Streams \in SUBSET Nat /\ 0 \notin Streams
BY ServerAssumption, FsAssumption DEF Slots, Places

\* What a place refers to is a stream.
LEMMA RefType ==
  ASSUME ServerTypes, NEW s \in Sessions, NEW h \in Places
  PROVE  Ref(s, h) \in Streams \cup {0}
<1>1. CASE h = 0
  <2>1. CASE step[s].op = "finish"
    BY <1>1, <2>1, StepRecord DEF Ref, Finishing
  <2>2. CASE step[s].op # "finish"
    BY <1>1, <2>2 DEF Ref
  <2> QED BY <2>1, <2>2
<1>2. CASE h # 0
  BY <1>2, PlaceTypes, UsedEntry DEF Ref
<1> QED BY <1>1, <1>2

\* The handle a request names is in use.
LEMMA FoundEntry ==
  ASSUME ServerTypes, NEW s \in Sessions, NEW id, Find(s, id) # 0
  PROVE  /\ Find(s, id) \in Slots /\ handles[s][Find(s, id)] # Unused
         /\ handles[s][Find(s, id)].id = id
<1> DEFINE H == {h \in Slots : handles[s][h] # Unused /\ handles[s][h].id = id}
<1>1. H \in SUBSET Nat
  BY PlaceTypes
<1>2. H # {} /\ Find(s, id) = Least(H)
  BY DEF Find
<1>3. Least(H) \in H
  BY <1>1, <1>2, LeastExists
<1> QED BY <1>2, <1>3

\* The entry a new handle gets, and the stream a new FILE gets, are free.
LEMMA FreeFound ==
  ASSUME NEW s \in Sessions
  PROVE  /\ FreeSlots(s) # {} => Least(FreeSlots(s)) \in Slots /\ handles[s][Least(FreeSlots(s))] = Unused
         /\ FreeStreams # {} => Least(FreeStreams) \in Streams /\ streams[Least(FreeStreams)] = Closed
         /\ FreeSlots(s) # Slots => LET h == Least(Slots \ FreeSlots(s)) IN h \in Slots /\ handles[s][h] # Unused
<1>1. FreeSlots(s) \in SUBSET Nat /\ FreeStreams \in SUBSET Nat /\ (Slots \ FreeSlots(s)) \in SUBSET Nat
  BY PlaceTypes DEF FreeSlots, FreeStreams
<1>2. FreeSlots(s) # {} => Least(FreeSlots(s)) \in FreeSlots(s)
  BY <1>1, LeastExists
<1>3. FreeStreams # {} => Least(FreeStreams) \in FreeStreams
  BY <1>1, LeastExists
<1>4. FreeSlots(s) # Slots => Least(Slots \ FreeSlots(s)) \in Slots \ FreeSlots(s)
  <2>1. FreeSlots(s) # Slots => Slots \ FreeSlots(s) # {}
    BY DEF FreeSlots
  <2> QED BY <2>1, <1>1, LeastExists
<1>5. \A h : h \in FreeSlots(s) <=> h \in Slots /\ handles[s][h] = Unused
  BY DEF FreeSlots
<1>6. \A t \in FreeStreams : t \in Streams /\ streams[t] = Closed
  BY DEF FreeStreams, OpenStreams
<1> QED BY <1>2, <1>3, <1>4, <1>5, <1>6

-----------------------------------------------------------------------------
(* What a step of session s does to its places.                            *)

\* The places other than the ones H of session s.
Others(s, H) ==
  \A r \in Sessions, k \in Places : ~(r = s /\ k \in H) =>
    Ref(r, k)' = Ref(r, k) /\ KindAt(r, k)' = KindAt(r, k)

\* It works on a stream of its own, or on none.
Stays(s, h, t) ==
  /\ Others(s, {}) /\ Keeps(t)
  /\ t # 0 => h \in Places /\ t = Ref(s, h)
  /\ t # 0 /\ s \in ReadOnly /\ KindAt(s, h) = "file" => streams'[t].dirty = <<>>
\* Place h gets the new stream t.
Takes(s, h, t, kind) ==
  /\ h \in Places /\ Others(s, {h}) /\ Opens(t, kind) /\ kind \in {"file", "dir"}
  /\ Ref(s, h) = 0 /\ Ref(s, h)' = t /\ KindAt(s, h)' = kind
\* The stream of place h is closed.
Releases(s, h) ==
  /\ h \in Places /\ Others(s, {h})
  /\ Ref(s, h) # 0 /\ Closes(Ref(s, h)) /\ Ref(s, h)' = 0
\* The OPEN in progress leaves its stream to handle h.
Passes(s, h) ==
  /\ h \in Slots /\ Others(s, {0, h}) /\ streams' = streams
  /\ Ref(s, 0) # 0 /\ Ref(s, h) = 0
  /\ Ref(s, 0)' = 0 /\ Ref(s, h)' = Ref(s, 0) /\ KindAt(s, h)' = "file"

Moves(s) ==
  \/ \E h, t : Stays(s, h, t)
  \/ \E h, t, kind : Takes(s, h, t, kind)
  \/ \E h : Releases(s, h)
  \/ \E h : Passes(s, h)

\* A step on a stream of its own, or on none, leaves the places right.
LEMMA StaysKeeps ==
  ASSUME FsInv, FsInv', ServerTypes, RefInv, NEW s \in Sessions, NEW h, NEW t, Stays(s, h, t)
  PROVE  RefInv'
<1>1. ASSUME NEW r \in Sessions, NEW k \in Places
      PROVE  /\ Ref(r, k)' = Ref(r, k) /\ KindAt(r, k)' = KindAt(r, k)
             /\ Ref(r, k) \in Streams \cup {0}
  BY RefType DEF Stays, Others
<1>2. Distinct'
  BY <1>1 DEF RefInv, Distinct
<1>3. \A u \in Streams : streams'[u].kind = streams[u].kind
  BY DEF Stays, Keeps, Same
<1>4. \A u \in Streams : streams'[u] = Closed <=> streams[u] = Closed
  <2>1. \A u \in Streams : streams[u] \in AnyStream /\ streams'[u] \in AnyStream
    BY DEF FsInv, FsGood
  <2> QED BY <2>1, <1>3, StreamRecord
<1>5. Exact'
  BY <1>1, <1>4 DEF RefInv, Exact
<1>6. ASSUME NEW r \in Sessions, NEW k \in Places, Ref(r, k) # 0
      PROVE  /\ streams'[Ref(r, k)].kind = KindAt(r, k)
             /\ r \in ReadOnly /\ KindAt(r, k) = "file" => streams'[Ref(r, k)].dirty = <<>>
  <2>1. /\ streams[Ref(r, k)].kind = KindAt(r, k)
        /\ r \in ReadOnly /\ KindAt(r, k) = "file" => streams[Ref(r, k)].dirty = <<>>
    BY <1>6 DEF RefInv, Fitting
  <2>2. Ref(r, k) \in Streams
    BY <1>1, <1>6
  <2>3. CASE Ref(r, k) = t
    <3>1. r = s /\ k = h
      BY <2>3, <1>6 DEF RefInv, Distinct, Stays
    <3> QED BY <3>1, <2>1, <2>2, <2>3, <1>3, <1>6 DEF Stays
  <2>4. CASE Ref(r, k) # t
    BY <2>1, <2>2, <2>4, <1>3 DEF Stays, Keeps, Same
  <2> QED BY <2>3, <2>4
<1>7. Fitting'
  BY <1>1, <1>6 DEF Fitting
<1> QED BY <1>2, <1>5, <1>7 DEF RefInv

\* A new stream had no place.
LEMMA TakesKeeps ==
  ASSUME FsInv, FsInv', ServerTypes, RefInv, NEW s \in Sessions, NEW h, NEW t, NEW kind,
         Takes(s, h, t, kind)
  PROVE  RefInv'
<1>1. ASSUME NEW r \in Sessions, NEW k \in Places
      PROVE  /\ ~(r = s /\ k = h) => Ref(r, k)' = Ref(r, k) /\ KindAt(r, k)' = KindAt(r, k)
             /\ Ref(r, k) \in Streams \cup {0}
  BY RefType DEF Takes, Others
<1>2. h \in Places /\ Ref(s, h) = 0 /\ Ref(s, h)' = t /\ KindAt(s, h)' = kind /\ t \in Streams /\ t # 0
  BY PlaceTypes DEF Takes, Opens
<1>3. ASSUME NEW r \in Sessions, NEW k \in Places PROVE Ref(r, k) # t
  BY <1>2 DEF RefInv, Exact, Takes, Opens
<1>4. Distinct'
  BY <1>1, <1>2, <1>3 DEF RefInv, Distinct
<1>5. \A u \in Streams : u # t => streams'[u].kind = streams[u].kind
  BY DEF Takes, Opens, Same
<1>6. \A u \in Streams : u # t => (streams'[u] = Closed <=> streams[u] = Closed)
  <2>1. \A u \in Streams : streams[u] \in AnyStream /\ streams'[u] \in AnyStream
    BY DEF FsInv, FsGood
  <2> QED BY <2>1, <1>5, StreamRecord
<1>7. streams'[t] # Closed
  BY DEF Takes, Opens, Closed
<1>8. Exact'
  <2>1. ASSUME NEW u \in Streams
        PROVE  streams'[u] # Closed <=> \E r \in Sessions, k \in Places : Ref(r, k)' = u
    <3>1. CASE u = t
      BY <3>1, <1>2, <1>7
    <3>2. CASE u # t
      <4>1. ASSUME NEW r \in Sessions, NEW k \in Places PROVE Ref(r, k)' = u <=> Ref(r, k) = u
        BY <3>2, <1>1, <1>2, PlaceTypes
      <4> QED BY <3>2, <4>1, <1>6 DEF RefInv, Exact
    <3> QED BY <3>1, <3>2
  <2> QED BY <2>1 DEF Exact
<1>9. ASSUME NEW r \in Sessions, NEW k \in Places, Ref(r, k)' # 0
      PROVE  /\ streams'[Ref(r, k)'].kind = KindAt(r, k)'
             /\ r \in ReadOnly /\ KindAt(r, k)' = "file" => streams'[Ref(r, k)'].dirty = <<>>
  <2>1. CASE r = s /\ k = h
    BY <2>1, <1>2 DEF Takes, Opens
  <2>2. CASE ~(r = s /\ k = h)
    <3>1. Ref(r, k)' = Ref(r, k) /\ KindAt(r, k)' = KindAt(r, k) /\ Ref(r, k) \in Streams /\ Ref(r, k) # t
      BY <2>2, <1>1, <1>3, <1>9
    <3>2. /\ streams[Ref(r, k)].kind = KindAt(r, k)
          /\ r \in ReadOnly /\ KindAt(r, k) = "file" => streams[Ref(r, k)].dirty = <<>>
      BY <3>1, <1>9 DEF RefInv, Fitting
    <3> QED BY <3>1, <3>2, <1>5 DEF Takes, Opens, Same
  <2> QED BY <2>1, <2>2
<1>10. Fitting'
  BY <1>9 DEF Fitting
<1> QED BY <1>4, <1>8, <1>10 DEF RefInv

\* A closed stream had no other place.
LEMMA ReleasesKeeps ==
  ASSUME FsInv, FsInv', ServerTypes, RefInv, NEW s \in Sessions, NEW h, Releases(s, h)
  PROVE  RefInv'
<1> DEFINE t == Ref(s, h)
<1>1. ASSUME NEW r \in Sessions, NEW k \in Places
      PROVE  /\ ~(r = s /\ k = h) => Ref(r, k)' = Ref(r, k) /\ KindAt(r, k)' = KindAt(r, k)
             /\ Ref(r, k) \in Streams \cup {0}
  BY RefType DEF Releases, Others
<1>2. h \in Places /\ t # 0 /\ Ref(s, h)' = 0 /\ t \in Streams /\ streams'[t] = Closed
  BY RefType DEF Releases, Closes
<1>3. ASSUME NEW r \in Sessions, NEW k \in Places, Ref(r, k) = t PROVE r = s /\ k = h
  BY <1>2, <1>3 DEF RefInv, Distinct
<1>4. Distinct'
  BY <1>1, <1>2 DEF RefInv, Distinct
<1>5. \A u \in Streams : u # t => streams'[u].kind = streams[u].kind
  BY DEF Releases, Closes, Same
<1>6. \A u \in Streams : u # t => (streams'[u] = Closed <=> streams[u] = Closed)
  <2>1. \A u \in Streams : streams[u] \in AnyStream /\ streams'[u] \in AnyStream
    BY DEF FsInv, FsGood
  <2> QED BY <2>1, <1>5, StreamRecord
<1>7. Same(streams, streams', t)
  BY DEF Releases, Closes
<1> HIDE DEF t
<1>8. ASSUME NEW r \in Sessions, NEW k \in Places, NEW u \in Streams
      PROVE  Ref(r, k)' = u <=> Ref(r, k) = u /\ u # t
  <2>1. CASE r = s /\ k = h
    BY <2>1, <1>2, PlaceTypes DEF t
  <2>2. CASE ~(r = s /\ k = h)
    BY <2>2, <1>1, <1>3
  <2> QED BY <2>1, <2>2
<1>9. Exact'
  <2>1. ASSUME NEW u \in Streams
        PROVE  streams'[u] # Closed <=> \E r \in Sessions, k \in Places : Ref(r, k)' = u
    <3>1. CASE u = t
      BY <3>1, <1>2, <1>8
    <3>2. CASE u # t
      BY <3>2, <1>6, <1>8 DEF RefInv, Exact
    <3> QED BY <3>1, <3>2
  <2> QED BY <2>1 DEF Exact
<1>10. ASSUME NEW r \in Sessions, NEW k \in Places, Ref(r, k)' # 0
       PROVE  /\ streams'[Ref(r, k)'].kind = KindAt(r, k)'
              /\ r \in ReadOnly /\ KindAt(r, k)' = "file" => streams'[Ref(r, k)'].dirty = <<>>
  <2>1. ~(r = s /\ k = h)
    BY <1>2, <1>10
  <2>2. Ref(r, k)' = Ref(r, k) /\ KindAt(r, k)' = KindAt(r, k) /\ Ref(r, k) \in Streams /\ Ref(r, k) # t
    BY <2>1, <1>1, <1>3, <1>10
  <2>3. /\ streams[Ref(r, k)].kind = KindAt(r, k)
        /\ r \in ReadOnly /\ KindAt(r, k) = "file" => streams[Ref(r, k)].dirty = <<>>
    BY <2>2, <1>10 DEF RefInv, Fitting
  <2> QED BY <2>2, <2>3, <1>5, <1>7 DEF Same
<1>11. Fitting'
  BY <1>10 DEF Fitting
<1> QED BY <1>4, <1>9, <1>11 DEF RefInv

\* A stream that is passed on has one place before and one after.
LEMMA PassesKeeps ==
  ASSUME ServerTypes, RefInv, NEW s \in Sessions, NEW h, Passes(s, h)
  PROVE  RefInv'
<1>1. ASSUME NEW r \in Sessions, NEW k \in Places
      PROVE  /\ ~(r = s /\ k \in {0, h}) => Ref(r, k)' = Ref(r, k) /\ KindAt(r, k)' = KindAt(r, k)
             /\ Ref(r, k) \in Streams \cup {0}
  BY RefType DEF Passes, Others
<1>2. /\ h \in Places /\ 0 \in Places /\ h # 0 /\ Ref(s, 0) # 0 /\ Ref(s, h) = 0
      /\ Ref(s, 0)' = 0 /\ Ref(s, h)' = Ref(s, 0) /\ KindAt(s, h)' = "file" /\ KindAt(s, 0) = "file"
      /\ streams' = streams
  BY PlaceTypes DEF Passes, KindAt
<1>3. ASSUME NEW r \in Sessions, NEW k \in Places, Ref(r, k) = Ref(s, 0) PROVE r = s /\ k = 0
  BY <1>2, <1>3 DEF RefInv, Distinct
<1>4. ASSUME NEW r \in Sessions, NEW k \in Places, Ref(r, k)' # 0
      PROVE  \/ r = s /\ k = h /\ Ref(r, k)' = Ref(s, 0) /\ KindAt(r, k)' = "file"
             \/ /\ ~(r = s /\ k \in {0, h}) /\ Ref(r, k)' = Ref(r, k)
                /\ KindAt(r, k)' = KindAt(r, k) /\ Ref(r, k) # Ref(s, 0)
  BY <1>1, <1>2, <1>3, <1>4
<1>5. Distinct'
  <2>1. ASSUME NEW r1 \in Sessions, NEW r2 \in Sessions, NEW k1 \in Places, NEW k2 \in Places,
               Ref(r1, k1)' # 0, Ref(r1, k1)' = Ref(r2, k2)'
        PROVE  r1 = r2 /\ k1 = k2
    <3>0. /\ \/ r2 = s /\ k2 = h /\ Ref(r2, k2)' = Ref(s, 0)
             \/ Ref(r2, k2)' = Ref(r2, k2) /\ Ref(r2, k2) # Ref(s, 0)
      BY <2>1, <1>4
    <3>1. CASE r1 = s /\ k1 = h
      <4>1. Ref(r2, k2)' = Ref(s, 0)
        BY <3>1, <2>1, <1>2
      <4> QED BY <4>1, <3>0, <3>1
    <3>2. CASE ~(r1 = s /\ k1 = h)
      <4>1. Ref(r1, k1)' = Ref(r1, k1) /\ Ref(r1, k1) # Ref(s, 0)
        BY <3>2, <2>1, <1>4
      <4>2. Ref(r2, k2)' = Ref(r2, k2)
        BY <4>1, <3>0, <2>1
      <4>3. Ref(r1, k1) # 0 /\ Ref(r1, k1) = Ref(r2, k2)
        BY <4>1, <4>2, <2>1
      <4> QED BY <4>3 DEF RefInv, Distinct
    <3> QED BY <3>1, <3>2
  <2> QED BY <2>1 DEF Distinct
<1>6. Exact'
  <2>1. ASSUME NEW u \in Streams
        PROVE  (\E r \in Sessions, k \in Places : Ref(r, k) = u)
                 <=> \E r \in Sessions, k \in Places : Ref(r, k)' = u
    <3>0. u # 0
      BY PlaceTypes
    <3>1. ASSUME NEW r \in Sessions, NEW k \in Places, Ref(r, k) = u
          PROVE  \E q \in Sessions, j \in Places : Ref(q, j)' = u
      <4>1. CASE r = s /\ k = 0
        BY <4>1, <3>1, <1>2
      <4>2. CASE ~(r = s /\ k = 0)
        <5>1. ~(r = s /\ k \in {0, h})
          BY <4>2, <3>0, <3>1, <1>2
        <5> QED BY <5>1, <3>1, <1>1
      <4> QED BY <4>1, <4>2
    <3>2. ASSUME NEW r \in Sessions, NEW k \in Places, Ref(r, k)' = u
          PROVE  \E q \in Sessions, j \in Places : Ref(q, j) = u
      BY <3>0, <3>2, <1>2, <1>4
    <3> QED BY <3>1, <3>2
  <2> QED BY <2>1, <1>2 DEF RefInv, Exact
<1>7. ASSUME NEW r \in Sessions, NEW k \in Places, Ref(r, k)' # 0
      PROVE  /\ streams'[Ref(r, k)'].kind = KindAt(r, k)'
             /\ r \in ReadOnly /\ KindAt(r, k)' = "file" => streams'[Ref(r, k)'].dirty = <<>>
  BY <1>2, <1>4, <1>7 DEF RefInv, Fitting
<1>8. Fitting'
  BY <1>7 DEF Fitting
<1> QED BY <1>5, <1>6, <1>8 DEF RefInv

\* The places stay right whatever a step does to them.
LEMMA MovesKeep ==
  ASSUME FsInv, FsInv', ServerTypes, RefInv, NEW s \in Sessions, Moves(s)
  PROVE  RefInv'
BY StaysKeeps, TakesKeeps, ReleasesKeeps, PassesKeeps DEF Moves

-----------------------------------------------------------------------------
(* What a step of session s does to its table.                             *)

SameTable == UNCHANGED <<handles, next_handle_id, wrapped, given>>
Adds(s, h, e) ==
  /\ h \in Slots /\ handles[s][h] = Unused
  /\ e \in Entries /\ e.id = next_handle_id[s]
  /\ handles' = [handles EXCEPT ![s][h] = e]
  /\ next_handle_id' = [next_handle_id EXCEPT ![s] = NextId(e.id)]
  /\ wrapped' = [wrapped EXCEPT ![s] = @ \/ NextId(e.id) = 1]
  /\ given' = [given EXCEPT ![s] = @ \cup {<<e.id, e.st>>}]
Drops(s, h) ==
  /\ h \in Slots /\ handles[s][h] # Unused
  /\ handles' = [handles EXCEPT ![s][h] = Unused]
  /\ given' = [given EXCEPT ![s] = @ \ {<<handles[s][h].id, handles[s][h].st>>}]
  /\ UNCHANGED <<next_handle_id, wrapped>>
Restarts(s) ==
  /\ \A h \in Slots : handles[s][h] = Unused
  /\ next_handle_id' = [next_handle_id EXCEPT ![s] = 1]
  /\ wrapped' = [wrapped EXCEPT ![s] = FALSE]
  /\ UNCHANGED <<handles, given>>
TableMoves(s) ==
  SameTable \/ (\E h, e : Adds(s, h, e)) \/ (\E h : Drops(s, h)) \/ Restarts(s)

\* The tables keep their types.
LEMMA TableTypes ==
  ASSUME ServerTypes, NEW s \in Sessions, TableMoves(s), step' \in [Sessions -> Steps]
  PROVE  ServerTypes'
<1>1. CASE SameTable
  BY <1>1 DEF ServerTypes, SameTable
<1>2. ASSUME NEW h, NEW e, Adds(s, h, e) PROVE ServerTypes'
  <2>1. handles' \in [Sessions -> [Slots -> {Unused} \cup Entries]]
    BY <1>2 DEF Adds, ServerTypes
  <2>2. NextId(e.id) \in Ids
    BY <1>2, ServerAssumption DEF Adds, Entries, NextId, Ids
  <2>3. next_handle_id' \in [Sessions -> Ids]
    BY <1>2, <2>2 DEF Adds, ServerTypes
  <2>4. wrapped' \in [Sessions -> BOOLEAN]
    <3>1. (wrapped[s] \/ NextId(e.id) = 1) \in BOOLEAN
      OBVIOUS
    <3> QED BY <3>1, <1>2 DEF Adds, ServerTypes
  <2>5. given' = [r \in Sessions |-> given'[r]]
    BY <1>2 DEF Adds, ServerTypes
  <2> QED BY <2>1, <2>3, <2>4, <2>5 DEF ServerTypes
<1>3. ASSUME NEW h, Drops(s, h) PROVE ServerTypes'
  <2>1. handles' \in [Sessions -> [Slots -> {Unused} \cup Entries]]
    BY <1>3 DEF Drops, ServerTypes
  <2>2. next_handle_id' = next_handle_id /\ wrapped' = wrapped /\ given' = [r \in Sessions |-> given'[r]]
    BY <1>3 DEF Drops, ServerTypes
  <2> QED BY <2>1, <2>2 DEF ServerTypes
<1>4. CASE Restarts(s)
  <2>1. next_handle_id' \in [Sessions -> Ids]
    <3>1. 1 \in Ids
      BY ServerAssumption DEF Ids
    <3> QED BY <3>1, <1>4 DEF Restarts, ServerTypes
  <2>2. wrapped' \in [Sessions -> BOOLEAN]
    BY <1>4 DEF Restarts, ServerTypes
  <2>3. handles' = handles /\ given' = given
    BY <1>4 DEF Restarts
  <2> QED BY <2>1, <2>2, <2>3 DEF ServerTypes
<1> QED BY <1>1, <1>2, <1>3, <1>4 DEF TableMoves

-----------------------------------------------------------------------------
(* Every step of a session is one of these moves.                          *)

\* A place whose record stays refers to the same stream.
LEMMA PlaceKept ==
  ASSUME NEW r \in Sessions, NEW k \in Places,
         k = 0 => step'[r] = step[r], k # 0 => handles'[r][k] = handles[r][k]
  PROVE  Ref(r, k)' = Ref(r, k) /\ KindAt(r, k)' = KindAt(r, k)
BY DEF Ref, KindAt

\* A session that goes on to another step, or not.
LEMMA GotoKept ==
  ASSUME ServerTypes, NEW s \in Sessions, NEW next, Goto(s, next)
  PROVE  step'[s] = next /\ \A r \in Sessions : r # s => step'[r] = step[r]
BY DEF Goto, ServerTypes

\* The table stays, and the OPEN in progress may change.
LEMMA OthersTable ==
  ASSUME ServerTypes, NEW s \in Sessions, NEW next, Goto(s, next), handles' = handles
  PROVE  /\ Others(s, {0})
         /\ next.op # "finish" => Ref(s, 0)' = 0
         /\ next.op = "finish" => Ref(s, 0)' = next.st
         /\ next.op # "finish" /\ step[s].op # "finish" => Others(s, {})
<1>1. step'[s] = next /\ \A r \in Sessions : r # s => step'[r] = step[r]
  BY GotoKept
<1>2. Others(s, {0})
  BY <1>1, PlaceKept DEF Others
<1>3. /\ next.op # "finish" => Ref(s, 0)' = 0
      /\ next.op = "finish" => Ref(s, 0)' = next.st
  BY <1>1 DEF Ref
<1>4. ASSUME next.op # "finish", step[s].op # "finish" PROVE Others(s, {})
  <2>1. Ref(s, 0)' = Ref(s, 0) /\ KindAt(s, 0)' = KindAt(s, 0)
    BY <1>3, <1>4 DEF Ref, KindAt
  <2> QED BY <2>1, <1>2 DEF Others
<1> QED BY <1>2, <1>3, <1>4

\* Nothing of the server changes.
LEMMA OthersSame ==
  ASSUME UNCHANGED server_vars, ServerTypes, Reading, NEW s \in Sessions
  PROVE  Others(s, {}) /\ TableMoves(s) /\ ServerTypes' /\ Reading'
<1>1. /\ handles' = handles /\ step' = step /\ next_handle_id' = next_handle_id
      /\ wrapped' = wrapped /\ given' = given
  BY DEF server_vars
<1>2. Others(s, {})
  BY <1>1, PlaceKept DEF Others
<1>3. ServerTypes' /\ Reading'
  BY <1>1 DEF ServerTypes, Reading
<1> QED BY <1>1, <1>2, <1>3 DEF TableMoves, SameTable

\* One handle of session s changes.
SetsHandle(s, h, e) == handles' = [handles EXCEPT ![s][h] = e]

\* The other places do not.
LEMMA OthersHandle ==
  ASSUME ServerTypes, NEW s \in Sessions, NEW h \in Slots, NEW e, SetsHandle(s, h, e),
         \A r \in Sessions : r # s => step'[r] = step[r]
  PROVE  /\ Others(s, {0, h})
         /\ step'[s] = step[s] => Others(s, {h})
         /\ handles'[s][h] = e
<1>1. /\ handles'[s][h] = e
      /\ \A r \in Sessions, k \in Slots : ~(r = s /\ k = h) => handles'[r][k] = handles[r][k]
  BY DEF ServerTypes, SetsHandle
<1>2. Others(s, {0, h})
  BY <1>1, PlaceTypes, PlaceKept DEF Others
<1>3. step'[s] = step[s] => Others(s, {h})
  BY <1>1, PlaceTypes, PlaceKept DEF Others
<1> QED BY <1>1, <1>2, <1>3

\* What a step of session s establishes.
Effects(s) ==
  /\ FsInv' /\ ServerTypes' /\ Reading'
  /\ Moves(s) /\ TableMoves(s)
  /\ s \in ReadOnly => NamesKept

\* The next step of a session.
LEMMA GotoTypes ==
  ASSUME ServerTypes, Reading, NEW s \in Sessions, NEW next \in Steps, Goto(s, next), TableMoves(s),
         s \in ReadOnly => /\ next.op \in {"idle", "fopen", "finish", "deinit"}
                           /\ next.op \in {"fopen", "finish"} => next.flags \subseteq {"READ"}
  PROVE  ServerTypes' /\ Reading'
<1>1. step' \in [Sessions -> Steps]
  BY DEF Goto, ServerTypes
<1>2. ServerTypes'
  BY <1>1, TableTypes
<1>3. Reading'
  <2>1. step'[s] = next /\ \A r \in Sessions : r # s => step'[r] = step[r]
    BY GotoKept
  <2> QED BY <2>1, ServerAssumption DEF Reading
<1> QED BY <1>2, <1>3

\* Names that lead to the same.
LEMMA NamesSame ==
  ASSUME dir' = dir, folders' = folders, data' = data PROVE NamesKept
BY DEF NamesKept

\* An idle session that works on one of its streams.
LEMMA OwnStream ==
  ASSUME FsInv, ServerTypes, RefInv, NEW s \in Sessions, NEW id, Find(s, id) # 0
  PROVE  /\ Find(s, id) \in Places /\ Stream(s, id) = Ref(s, Find(s, id))
         /\ Stream(s, id) \in Streams /\ Stream(s, id) # 0
         /\ KindAt(s, Find(s, id)) = handles[s][Find(s, id)].kind
         /\ streams[Stream(s, id)].kind = handles[s][Find(s, id)].kind
         /\ s \in ReadOnly /\ handles[s][Find(s, id)].kind = "file" => streams[Stream(s, id)].dirty = <<>>
<1> DEFINE h == Find(s, id)
<1>1. h \in Slots /\ handles[s][h] # Unused
  BY FoundEntry
<1> HIDE DEF h
<1>2. h \in Places /\ h # 0 /\ handles[s][h].st \in Streams /\ handles[s][h].st # 0
  BY <1>1, UsedEntry, PlaceTypes
<1>3. Ref(s, h) = handles[s][h].st /\ KindAt(s, h) = handles[s][h].kind
  BY <1>1, <1>2 DEF Ref, KindAt
<1>4. /\ streams[Ref(s, h)].kind = KindAt(s, h)
      /\ s \in ReadOnly /\ KindAt(s, h) = "file" => streams[Ref(s, h)].dirty = <<>>
  BY <1>2, <1>3 DEF RefInv, Fitting
<1>5. Stream(s, id) = handles[s][h].st
  BY DEF Stream, h
<1> QED BY <1>2, <1>3, <1>4, <1>5 DEF h

\* Requests on an open handle.
LEMMA FileRequests ==
  ASSUME IInv, NEW s \in Sessions, NEW id,
         \/ HandleRead(s, id) \/ HandleFsync(s, id) \/ HandleReaddir(s, id)
         \/ \E p \in Pos, tag \in Tags : HandleWrite(s, id, p, tag)
         \/ \E n \in 0 .. MaxSize : HandleFsetstat(s, id, n)
  PROVE  Effects(s)
<1> DEFINE t == Stream(s, id)
           h == Find(s, id)
<1>1. UNCHANGED server_vars /\ Find(s, id) # 0
  BY DEF HandleRead, HandleFsync, HandleReaddir, HandleWrite, HandleFsetstat, FileEntry
<1>2. FsInv /\ ServerTypes /\ RefInv /\ Reading
  BY DEF IInv
<1>3. Others(s, {}) /\ TableMoves(s) /\ ServerTypes' /\ Reading'
  BY <1>1, <1>2, OthersSame
<1>4. /\ h \in Places /\ t = Ref(s, h) /\ t \in Streams /\ t # 0
      /\ KindAt(s, h) = handles[s][h].kind /\ streams[t].kind = handles[s][h].kind
      /\ s \in ReadOnly /\ handles[s][h].kind = "file" => streams[t].dirty = <<>>
  BY <1>1, <1>2, OwnStream
<1>5. ASSUME FsInv', Keeps(t), s \in ReadOnly /\ handles[s][h].kind = "file" => streams'[t].dirty = <<>>,
             s \in ReadOnly => NamesKept
      PROVE  Effects(s)
  <2>1. Stays(s, h, t)
    BY <1>3, <1>4, <1>5 DEF Stays
  <2> QED BY <2>1, <1>3, <1>5 DEF Effects, Moves
<1>6. CASE HandleRead(s, id)
  <2>1. StdioReadAt(t) /\ handles[s][h].kind = "file"
    BY <1>6 DEF HandleRead, FileEntry
  <2> HIDE DEF t, h
  <2>2. /\ FsInv' /\ Keeps(t) /\ dir' = dir /\ folders' = folders
        /\ streams[t].dirty = <<>> => streams'[t].dirty = <<>> /\ data' = data
    BY <2>1, <1>2, <1>4, ReadAtStep
  <2>3. s \in ReadOnly => NamesKept
    BY <2>1, <2>2, <1>4, NamesSame
  <2> QED BY <2>1, <2>2, <2>3, <1>4, <1>5
<1>7. CASE HandleReaddir(s, id)
  <2>1. StdioReaddir(t) /\ handles[s][h].kind = "dir"
    BY <1>7 DEF HandleReaddir
  <2> HIDE DEF t, h
  <2>2. FsInv' /\ Keeps(t) /\ dir' = dir /\ folders' = folders /\ data' = data
    BY <2>1, <1>2, <1>4, ReaddirStep
  <2>3. NamesKept
    BY <2>2, NamesSame
  <2> QED BY <2>1, <2>2, <2>3, <1>4, <1>5
<1>8. CASE HandleFsync(s, id)
  <2>1. StdioFsync(t) /\ handles[s][h].kind = "file" /\ s \notin ReadOnly
    BY <1>8 DEF HandleFsync, FileEntry, Permitted, Changing
  <2> HIDE DEF t, h
  <2>2. FsInv' /\ Keeps(t)
    BY <2>1, <1>2, <1>4, FsyncStep
  <2> QED BY <2>1, <2>2, <1>5
<1>9. ASSUME NEW p \in Pos, NEW tag \in Tags, HandleWrite(s, id, p, tag) PROVE Effects(s)
  <2>1. StdioWriteAt(t, p, tag) /\ handles[s][h].kind = "file" /\ s \notin ReadOnly
    BY <1>9 DEF HandleWrite, FileEntry, Permitted, Changing
  <2> HIDE DEF t, h
  <2>2. FsInv' /\ Keeps(t)
    BY <2>1, <1>2, <1>4, WriteAtStep
  <2> QED BY <2>1, <2>2, <1>5
<1>10. ASSUME NEW n \in 0 .. MaxSize, HandleFsetstat(s, id, n) PROVE Effects(s)
  <2>1. StdioFsetstat(t, n) /\ handles[s][h].kind = "file" /\ s \notin ReadOnly
    BY <1>10 DEF HandleFsetstat, FileEntry, Permitted, Changing
  <2> HIDE DEF t, h
  <2>2. FsInv' /\ Keeps(t)
    BY <2>1, <1>2, <1>4, FsetstatStep
  <2> QED BY <2>1, <2>2, <1>5
<1> QED BY <1>6, <1>7, <1>8, <1>9, <1>10

\* Requests on names, in one system call.
LEMMA NameRequests ==
  ASSUME IInv, NEW s \in Sessions, NEW n \in Names, NEW m \in Names,
         \/ \E size \in 0 .. MaxSize : HandleSetstat(s, n, size)
         \/ HandleRemove(s, n) \/ HandleRmdir(s, n) \/ HandleRename(s, n, m) \/ HandleHardlink(s, n, m)
  PROVE  Effects(s)
<1>1. UNCHANGED server_vars /\ s \notin ReadOnly
  BY DEF HandleSetstat, HandleRemove, HandleRmdir, HandleRename, HandleHardlink, Permitted, Changing
<1>2. FsInv /\ ServerTypes /\ RefInv /\ Reading
  BY DEF IInv
<1>3. Others(s, {}) /\ TableMoves(s) /\ ServerTypes' /\ Reading'
  BY <1>1, <1>2, OthersSame
<1>4. FsInv' /\ Keeps(0)
  <2>1. CASE \E size \in 0 .. MaxSize : HandleSetstat(s, n, size)
    BY <2>1, <1>2, SetstatStep DEF HandleSetstat
  <2>2. CASE HandleRemove(s, n) \/ HandleRmdir(s, n) \/ HandleRename(s, n, m) \/ HandleHardlink(s, n, m)
    <3>1. StdioRemove(n) \/ StdioRmdir(n) \/ StdioRename(n, m) \/ StdioHardlink(n, m)
      BY <2>2 DEF HandleRemove, HandleRmdir, HandleRename, HandleHardlink
    <3>2. FsInv' /\ streams' = streams
      BY <3>1, <1>2, NamesStep
    <3> QED BY <3>2, PlaceTypes DEF Keeps, Same
  <2> QED BY <2>1, <2>2
<1>5. Stays(s, 0, 0)
  BY <1>3, <1>4 DEF Stays
<1> QED BY <1>1, <1>3, <1>4, <1>5 DEF Effects, Moves

\* A session goes on to a step that is not the end of an OPEN, with the same
\* handles and no stream of its own touched.
LEMMA GotoRequest ==
  ASSUME IInv, NEW s \in Sessions, NEW next \in Steps, Goto(s, next), SameTable,
         step[s].op # "finish", next.op # "finish", FsInv', Keeps(0), s \in ReadOnly => NamesKept,
         s \in ReadOnly => /\ next.op \in {"idle", "fopen", "deinit"}
                           /\ next.op = "fopen" => next.flags \subseteq {"READ"}
  PROVE  Effects(s)
<1>1. FsInv /\ ServerTypes /\ RefInv /\ Reading
  BY DEF IInv
<1>2. handles' = handles /\ TableMoves(s)
  BY DEF SameTable, TableMoves
<1>3. ServerTypes' /\ Reading'
  BY <1>1, <1>2, GotoTypes
<1>4. Others(s, {})
  BY <1>1, <1>2, OthersTable
<1>5. Stays(s, 0, 0)
  BY <1>4 DEF Stays
<1> QED BY <1>2, <1>3, <1>5 DEF Effects, Moves

\* The steps a session may be in.
LEMMA StepsOf ==
  /\ Idle \in Steps /\ [op |-> "deinit"] \in Steps /\ Idle.op = "idle"
  /\ \A n \in Names : [op |-> "mkdir", name |-> n] \in Steps
BY DEF Steps, Resting, Making, Idle

\* The start of an OPEN, and a connection that ends.
LEMMA BeginRequests ==
  ASSUME IInv, NEW s \in Sessions,
         Disconnect(s) \/ \E n \in Names, f \in OpenModes, a \in BOOLEAN : OpenBegin(s, n, f, a)
  PROVE  Effects(s)
<1>1. FsInv /\ ServerTypes /\ step[s].op = "idle" /\ SameTable /\ UNCHANGED fs_vars
  <2>1. step[s] = Idle /\ UNCHANGED <<fs_vars, handles, next_handle_id, wrapped, given>>
    BY DEF Disconnect, OpenBegin
  <2>2. SameTable /\ UNCHANGED fs_vars
    BY <2>1 DEF SameTable
  <2> QED BY <2>1, <2>2, StepsOf DEF IInv
<1>2. FsInv' /\ Keeps(0) /\ NamesKept
  <2>1. dir' = dir /\ folders' = folders /\ data' = data
    BY <1>1 DEF fs_vars
  <2> QED BY <2>1, <1>1, NothingStep, NamesSame
<1>3. CASE Disconnect(s)
  <2>1. Goto(s, [op |-> "deinit"])
    BY <1>3 DEF Disconnect
  <2> QED BY <2>1, <1>1, <1>2, StepsOf, GotoRequest
<1>4. ASSUME NEW n \in Names, NEW f \in OpenModes, NEW a \in BOOLEAN, OpenBegin(s, n, f, a)
      PROVE  Effects(s)
  <2> DEFINE next == [op |-> "fopen", name |-> n, flags |-> f, attrs |-> a]
  <2>1. Goto(s, next)
    BY <1>4 DEF OpenBegin
  <2>2. f \in SUBSET Pflags
    BY ServerAssumption
  <2>3. next \in Steps /\ next.op = "fopen" /\ next.flags = f
    BY <2>2 DEF Steps, Opening
  <2>4. s \in ReadOnly => f \subseteq {"READ"}
    BY <1>4 DEF OpenBegin, Permitted
  <2> HIDE DEF next
  <2> QED BY <2>1, <2>3, <2>4, <1>1, <1>2, GotoRequest
<1> QED BY <1>3, <1>4

\* MKDIR and what follows it.
LEMMA MkdirRequests ==
  ASSUME IInv, NEW s \in Sessions,
         MkdirAttrs(s) \/ \E n \in Names, a \in BOOLEAN : HandleMkdir(s, n, a)
  PROVE  Effects(s)
<1>1. FsInv /\ ServerTypes /\ RefInv /\ Reading
  BY DEF IInv
<1>2. CASE MkdirAttrs(s)
  <2>1. step[s].op = "mkdir" /\ SameTable /\ Goto(s, Idle)
    BY <1>2 DEF MkdirAttrs, SameTable
  <2>2. s \notin ReadOnly
    BY <2>1, <1>1 DEF Reading
  <2>3. step[s].name \in Names
    BY <2>1, <1>1, StepRecord DEF Making
  <2>4. FsInv' /\ Keeps(0)
    <3>1. CASE UNCHANGED fs_vars
      BY <3>1, <1>1, NothingStep
    <3>2. CASE StdioRmdir(step[s].name)
      <4>1. FsInv' /\ streams' = streams
        BY <3>2, <2>3, <1>1, NamesStep
      <4> QED BY <4>1, PlaceTypes DEF Keeps, Same
    <3> QED BY <3>1, <3>2, <1>2 DEF MkdirAttrs
  <2> QED BY <2>1, <2>2, <2>4, StepsOf, GotoRequest
<1>3. ASSUME NEW n \in Names, NEW a \in BOOLEAN, HandleMkdir(s, n, a) PROVE Effects(s)
  <2> DEFINE next == IF a THEN [op |-> "mkdir", name |-> n] ELSE Idle
  <2>1. step[s] = Idle /\ SameTable /\ Goto(s, next) /\ s \notin ReadOnly /\ StdioMkdir(n)
    BY <1>3 DEF HandleMkdir, SameTable, Permitted, Changing
  <2>2. next \in Steps /\ next.op # "finish" /\ step[s].op # "finish"
    BY <2>1, StepsOf
  <2>3. FsInv' /\ Keeps(0)
    <3>1. FsInv' /\ streams' = streams
      BY <2>1, <1>1, MkdirStep
    <3> QED BY <3>1, PlaceTypes DEF Keeps, Same
  <2> HIDE DEF next
  <2> QED BY <2>1, <2>2, <2>3, GotoRequest
<1> QED BY <1>2, <1>3

\* An OPEN that has got its stream.
LEMMA OpenedRequest ==
  ASSUME IInv, NEW s \in Sessions, NEW t \in Streams, Opened(s, t), SameTable,
         step[s].op \in {"fopen", "create"}, FsInv', Opens(t, "file"), s \in ReadOnly => NamesKept
  PROVE  Effects(s)
<1> DEFINE next == [op |-> "finish", flags |-> step[s].flags, attrs |-> step[s].attrs, st |-> t]
<1>1. FsInv /\ ServerTypes /\ RefInv /\ Reading
  BY DEF IInv
<1>2. Goto(s, next) /\ handles' = handles /\ TableMoves(s)
  BY DEF Opened, SameTable, TableMoves
<1>3. step[s] \in Opening
  BY <1>1, StepRecord
<1>4. next \in Steps /\ next.op = "finish" /\ next.st = t /\ next.flags = step[s].flags
  BY <1>3 DEF Steps, Opening, Finishing
<1>5. s \in ReadOnly => next.flags \subseteq {"READ"}
  BY <1>1, <1>4 DEF Reading
<1> HIDE DEF next
<1>6. ServerTypes' /\ Reading'
  BY <1>1, <1>2, <1>4, <1>5, GotoTypes
<1>7. Others(s, {0}) /\ Ref(s, 0)' = t
  BY <1>1, <1>2, <1>4, OthersTable
<1>8. Ref(s, 0) = 0 /\ KindAt(s, 0)' = "file"
  BY DEF Ref, KindAt
<1>9. Takes(s, 0, t, "file")
  BY <1>7, <1>8, PlaceTypes DEF Takes
<1> QED BY <1>2, <1>6, <1>9 DEF Effects, Moves

\* fopen, once or twice.
LEMMA FopenRequests ==
  ASSUME IInv, NEW s \in Sessions, Fopen(s) \/ FopenCreate(s)
  PROVE  Effects(s)
<1> DEFINE n == step[s].name
           f == step[s].flags
           t == Least(FreeStreams)
<1>1. FsInv /\ ServerTypes /\ RefInv /\ Reading
  BY DEF IInv
<1>2. SameTable /\ step[s].op \in {"fopen", "create"}
  BY DEF Fopen, FopenCreate, SameTable
<1>3. step[s] \in Opening /\ n \in Names
  BY <1>1, <1>2, StepRecord DEF Opening
<1>4. FreeStreams # {} => t \in Streams /\ streams[t] = Closed
  BY FreeFound
<1>5. ("APPEND" \in f) \in BOOLEAN
  OBVIOUS
<1>6. CASE Goto(s, Idle) /\ UNCHANGED fs_vars
  <2>1. FsInv' /\ Keeps(0) /\ NamesKept
    <3>1. dir' = dir /\ folders' = folders /\ data' = data
      BY <1>6 DEF fs_vars
    <3> QED BY <3>1, <1>1, <1>6, NothingStep, NamesSame
  <2> QED BY <2>1, <1>2, <1>6, StepsOf, GotoRequest
<1>7. CASE /\ step[s].op = "fopen" /\ dir[n] = 0 /\ "CREAT" \in f /\ "TRUNC" \notin f
           /\ Goto(s, [step[s] EXCEPT !.op = "create"]) /\ UNCHANGED fs_vars
  <2> DEFINE next == [step[s] EXCEPT !.op = "create"]
  <2>1. next \in Steps /\ next.op = "create"
    BY <1>3 DEF Steps, Opening
  <2>2. s \notin ReadOnly
    BY <1>1, <1>7 DEF Reading
  <2>3. FsInv' /\ Keeps(0) /\ Goto(s, next)
    BY <1>1, <1>7, NothingStep
  <2> HIDE DEF next
  <2> QED BY <2>1, <2>2, <2>3, <1>2, GotoRequest
<1>8. CASE FreeStreams # {} /\ Opened(s, t) /\ FopenEmptied(n, "APPEND" \in f, t)
             /\ (step[s].op = "create" \/ "TRUNC" \in f)
  <2>1. s \notin ReadOnly
    BY <1>1, <1>2, <1>8 DEF Reading
  <2>2. t \in Streams /\ streams[t] = Closed /\ Opened(s, t) /\ FopenEmptied(n, "APPEND" \in f, t)
    BY <1>4, <1>8
  <2> HIDE DEF t, n
  <2>3. FsInv' /\ Opens(t, "file")
    BY <2>2, <1>1, <1>3, <1>5, FopenEmptiedStep
  <2> QED BY <2>1, <2>2, <2>3, <1>2, OpenedRequest
<1>9. CASE FreeStreams # {} /\ Opened(s, t) /\ FopenExisting(n, "WRITE" \in f, "APPEND" \in f, t)
  <2>1. t \in Streams /\ streams[t] = Closed /\ Opened(s, t) /\ FopenExisting(n, "WRITE" \in f, "APPEND" \in f, t)
    BY <1>4, <1>9
  <2> HIDE DEF t, n
  <2>2. FsInv' /\ Opens(t, "file") /\ UNCHANGED <<dir, folders, data>>
    BY <2>1, <1>1, <1>3, <1>5, FopenExistingStep
  <2>3. NamesKept
    BY <2>2, NamesSame
  <2> QED BY <2>1, <2>2, <2>3, <1>2, OpenedRequest
<1> QED BY <1>6, <1>7, <1>8, <1>9 DEF Fopen, FopenCreate

\* A new handle: alloc_handle.
LEMMA Allocated ==
  ASSUME ServerTypes, NEW s \in Sessions, NEW t \in Streams, NEW kind \in {"file", "dir"},
         NEW f \in SUBSET Pflags, FreeSlots(s) # {}, AllocHandle(s, t, kind, f),
         \A r \in Sessions : r # s => step'[r] = step[r]
  PROVE  \E h \in Slots : \E e :
           /\ Adds(s, h, e) /\ Others(s, {0, h}) /\ (step'[s] = step[s] => Others(s, {h}))
           /\ Ref(s, h) = 0 /\ Ref(s, h)' = t /\ KindAt(s, h)' = kind
<1>0. PICK h, id : h = Least(FreeSlots(s)) /\ id = next_handle_id[s]
  OBVIOUS
<1> DEFINE e == [in_use |-> TRUE, id |-> id, kind |-> kind, st |-> t, pflags |-> f]
<1>1. h \in Slots /\ handles[s][h] = Unused
  BY <1>0, FreeFound
<1>2. id \in Ids
  BY <1>0 DEF ServerTypes
<1>3. e \in Entries /\ e.id = id /\ e.st = t /\ e.kind = kind /\ e # Unused
  BY <1>2 DEF Entries, Unused
<1>4. /\ handles' = [handles EXCEPT ![s][h] = e]
      /\ next_handle_id' = [next_handle_id EXCEPT ![s] = NextId(id)]
      /\ wrapped' = [wrapped EXCEPT ![s] = @ \/ NextId(id) = 1]
      /\ given' = [given EXCEPT ![s] = @ \cup {<<id, t>>}]
  BY <1>0 DEF AllocHandle
<1>5. e.id = next_handle_id[s]
  BY <1>0, <1>3
<1> HIDE DEF e
<1>6. Adds(s, h, e)
  BY <1>1, <1>3, <1>4, <1>5 DEF Adds
<1>7. Others(s, {0, h}) /\ (step'[s] = step[s] => Others(s, {h})) /\ handles'[s][h] = e
  <2>1. SetsHandle(s, h, e)
    BY <1>4 DEF SetsHandle
  <2> QED BY <2>1, <1>1, OthersHandle
<1>8. h # 0
  BY <1>1, PlaceTypes
<1>9. Ref(s, h) = 0
  BY <1>1, <1>8 DEF Ref
<1>10. Ref(s, h)' = t /\ KindAt(s, h)' = kind
  BY <1>3, <1>7, <1>8 DEF Ref, KindAt
<1> QED BY <1>1, <1>6, <1>7, <1>9, <1>10

\* The end of an OPEN.
LEMMA FinishRequest ==
  ASSUME IInv, NEW s \in Sessions, OpenFinish(s)
  PROVE  Effects(s)
<1> DEFINE t == step[s].st
<1>1. FsInv /\ ServerTypes /\ RefInv /\ Reading
  BY DEF IInv
<1>2. step[s].op = "finish" /\ Goto(s, Idle)
  BY DEF OpenFinish
<1>3. step[s] \in Finishing /\ t \in Streams /\ step[s].flags \in SUBSET Pflags
  BY <1>1, <1>2, StepRecord DEF Finishing
<1>4. Ref(s, 0) = t /\ KindAt(s, 0) = "file" /\ t # 0 /\ 0 \in Places
  BY <1>2, <1>3, PlaceTypes DEF Ref, KindAt
<1>5. streams[t].kind = "file" /\ (s \in ReadOnly => streams[t].dirty = <<>>)
  BY <1>1, <1>4 DEF RefInv, Fitting
<1>6. step'[s] = Idle /\ \A r \in Sessions : r # s => step'[r] = step[r]
  BY <1>1, <1>2, GotoKept
<1>7. Ref(s, 0)' = 0
  BY <1>6, StepsOf DEF Ref
<1>8. CASE StdioClose(t, FALSE) /\ UNCHANGED <<handles, next_handle_id, wrapped, given>>
  <2>1. SameTable /\ TableMoves(s) /\ handles' = handles
    BY <1>8 DEF SameTable, TableMoves
  <2>2. ServerTypes' /\ Reading'
    BY <2>1, <1>1, <1>2, StepsOf, GotoTypes
  <2>3. Others(s, {0})
    BY <2>1, <1>1, <1>2, OthersTable
  <2>4. FALSE \in BOOLEAN
    OBVIOUS
  <2> HIDE DEF t
  <2>5. FsInv' /\ Closes(t) /\ (streams[t].dirty = <<>> => NamesKept)
    BY <1>1, <1>3, <1>5, <1>8, <2>4, CloseStep
  <2>6. Releases(s, 0)
    BY <2>3, <2>5, <1>4, <1>7 DEF Releases
  <2> QED BY <2>1, <2>2, <2>5, <2>6, <1>5 DEF Effects, Moves
<1>9. CASE FreeSlots(s) # {} /\ AllocHandle(s, t, "file", step[s].flags) /\ UNCHANGED fs_vars
  <2>1. PICK h, e : /\ h \in Slots /\ Adds(s, h, e) /\ Others(s, {0, h})
                    /\ Ref(s, h) = 0 /\ Ref(s, h)' = t /\ KindAt(s, h)' = "file"
    <3>1. "file" \in {"file", "dir"}
      OBVIOUS
    <3> HIDE DEF t
    <3> QED BY <3>1, <1>1, <1>3, <1>6, <1>9, Allocated
  <2>2. TableMoves(s)
    BY <2>1 DEF TableMoves
  <2>3. ServerTypes' /\ Reading'
    BY <2>2, <1>1, <1>2, StepsOf, GotoTypes
  <2>4. dir' = dir /\ folders' = folders /\ data' = data /\ streams' = streams
    BY <1>9 DEF fs_vars
  <2>5. FsInv' /\ NamesKept
    BY <2>4, <1>1, <1>9, NothingStep, NamesSame
  <2>6. Passes(s, h)
    BY <2>1, <2>4, <1>4, <1>7 DEF Passes
  <2> QED BY <2>2, <2>3, <2>5, <2>6 DEF Effects, Moves
<1> QED BY <1>8, <1>9 DEF OpenFinish

\* A handle that is closed: close_entry.
LEMMA EntryClosed ==
  ASSUME IInv, NEW s \in Sessions, NEW h \in Slots, handles[s][h] # Unused, NEW vouch \in BOOLEAN,
         CloseEntry(s, h, vouch), UNCHANGED <<next_handle_id, step, wrapped>>
  PROVE  Effects(s)
<1> DEFINE e == handles[s][h]
           t == e.st
<1>1. FsInv /\ ServerTypes /\ RefInv /\ Reading
  BY DEF IInv
<1>2. t \in Streams /\ e.kind \in {"file", "dir"} /\ t # 0 /\ h \in Places /\ h # 0
  BY <1>1, UsedEntry, PlaceTypes
<1>3. Ref(s, h) = t /\ KindAt(s, h) = e.kind
  BY <1>2 DEF Ref, KindAt
<1>4. streams[t].kind = e.kind /\ (s \in ReadOnly /\ e.kind = "file" => streams[t].dirty = <<>>)
  BY <1>1, <1>2, <1>3 DEF RefInv, Fitting
<1>5. /\ handles' = [handles EXCEPT ![s][h] = Unused] /\ step' = step
      /\ Drops(s, h)
  BY DEF CloseEntry, Drops
<1>6. Others(s, {h}) /\ handles'[s][h] = Unused
  <2>1. SetsHandle(s, h, Unused)
    BY <1>5 DEF SetsHandle
  <2> QED BY <2>1, <1>1, <1>5, OthersHandle
<1>7. Ref(s, h)' = 0
  BY <1>2, <1>6 DEF Ref
<1>8. TableMoves(s) /\ step' \in [Sessions -> Steps]
  BY <1>1, <1>5 DEF TableMoves, ServerTypes
<1>9. ServerTypes' /\ Reading'
  <2>1. ServerTypes'
    BY <1>1, <1>8, TableTypes
  <2>2. Reading'
    BY <1>1, <1>5 DEF Reading
  <2> QED BY <2>1, <2>2
<1>10. FsInv' /\ Closes(t) /\ (s \in ReadOnly => NamesKept)
  <2>1. CASE e.kind = "dir"
    <3>1. StdioClosedir(t)
      BY <2>1 DEF CloseEntry
    <3> HIDE DEF t, e
    <3>2. FsInv' /\ Closes(t) /\ UNCHANGED <<dir, folders, data>>
      BY <3>1, <1>1, <1>2, ClosedirStep
    <3> QED BY <3>2, NamesSame
  <2>2. CASE e.kind = "file"
    <3>1. StdioClose(t, vouch)
      BY <2>2 DEF CloseEntry
    <3> HIDE DEF t, e
    <3>2. FsInv' /\ Closes(t) /\ (streams[t].dirty = <<>> => NamesKept)
      BY <3>1, <2>2, <1>1, <1>2, <1>4, CloseStep
    <3> QED BY <3>2, <2>2, <1>4
  <2> QED BY <2>1, <2>2, <1>2
<1> HIDE DEF t, e
<1>11. Releases(s, h)
  BY <1>2, <1>3, <1>6, <1>7, <1>10 DEF Releases
<1> QED BY <1>8, <1>9, <1>10, <1>11 DEF Effects, Moves

\* CLOSE, and the end of a connection.
LEMMA CloseRequests ==
  ASSUME IInv, NEW s \in Sessions, DeinitClose(s) \/ \E id \in Ids : HandleClose(s, id)
  PROVE  Effects(s)
<1>1. FsInv /\ ServerTypes /\ RefInv /\ Reading
  BY DEF IInv
<1>2. ASSUME NEW id \in Ids, HandleClose(s, id) PROVE Effects(s)
  <2>1. /\ Find(s, id) # 0 /\ CloseEntry(s, Find(s, id), TRUE)
        /\ UNCHANGED <<next_handle_id, step, wrapped>> /\ TRUE \in BOOLEAN
    BY <1>2 DEF HandleClose
  <2>2. Find(s, id) \in Slots /\ handles[s][Find(s, id)] # Unused
    BY <2>1, <1>1, FoundEntry
  <2> QED BY <2>1, <2>2, EntryClosed
<1>3. CASE /\ FreeSlots(s) # Slots /\ CloseEntry(s, Least(Slots \ FreeSlots(s)), FALSE)
           /\ UNCHANGED <<next_handle_id, step, wrapped>>
  <2> DEFINE h == Least(Slots \ FreeSlots(s))
  <2>1. h \in Slots /\ handles[s][h] # Unused /\ FALSE \in BOOLEAN
    BY <1>3, FreeFound
  <2>2. CloseEntry(s, h, FALSE)
    BY <1>3
  <2> HIDE DEF h
  <2> QED BY <2>1, <2>2, <1>3, EntryClosed
<1>4. CASE /\ step[s].op = "deinit" /\ FreeSlots(s) = Slots /\ Goto(s, Idle)
           /\ next_handle_id' = [next_handle_id EXCEPT ![s] = 1]
           /\ wrapped' = [wrapped EXCEPT ![s] = FALSE]
           /\ UNCHANGED <<fs_vars, handles, given>>
  <2>1. Restarts(s) /\ TableMoves(s) /\ handles' = handles /\ UNCHANGED fs_vars
    <3>1. \A h \in Slots : handles[s][h] = Unused
      BY <1>4 DEF FreeSlots
    <3> QED BY <3>1, <1>4 DEF Restarts, TableMoves
  <2>2. ServerTypes' /\ Reading'
    BY <2>1, <1>1, <1>4, StepsOf, GotoTypes
  <2>3. Others(s, {})
    BY <2>1, <1>1, <1>4, StepsOf, OthersTable
  <2>4. FsInv' /\ Keeps(0) /\ NamesKept
    <3>1. dir' = dir /\ folders' = folders /\ data' = data
      BY <2>1 DEF fs_vars
    <3> QED BY <3>1, <2>1, <1>1, NothingStep, NamesSame
  <2>5. Stays(s, 0, 0)
    BY <2>3, <2>4 DEF Stays
  <2> QED BY <2>1, <2>2, <2>4, <2>5 DEF Effects, Moves
<1> QED BY <1>2, <1>3, <1>4 DEF DeinitClose

\* OPENDIR.
LEMMA OpendirRequest ==
  ASSUME IInv, NEW s \in Sessions, NEW n, HandleOpendir(s, n)
  PROVE  Effects(s)
<1> DEFINE t == Least(FreeStreams)
<1>1. FsInv /\ ServerTypes /\ RefInv /\ Reading
  BY DEF IInv
<1>2. step' = step /\ t \in Streams /\ streams[t] = Closed
  BY FreeFound DEF HandleOpendir
<1>3. CASE UNCHANGED <<fs_vars, handles, next_handle_id, wrapped, given>>
  <2>1. UNCHANGED server_vars /\ UNCHANGED fs_vars
    BY <1>2, <1>3 DEF server_vars
  <2>2. Others(s, {}) /\ TableMoves(s) /\ ServerTypes' /\ Reading'
    BY <2>1, <1>1, OthersSame
  <2>3. FsInv' /\ Keeps(0) /\ NamesKept
    <3>1. dir' = dir /\ folders' = folders /\ data' = data
      BY <2>1 DEF fs_vars
    <3> QED BY <3>1, <2>1, <1>1, NothingStep, NamesSame
  <2>4. Stays(s, 0, 0)
    BY <2>2, <2>3 DEF Stays
  <2> QED BY <2>2, <2>3, <2>4 DEF Effects, Moves
<1>4. CASE FreeSlots(s) # {} /\ StdioOpendir(n, t) /\ AllocHandle(s, t, "dir", {})
  <2>1. "dir" \in {"file", "dir"} /\ {} \in SUBSET Pflags /\ FreeSlots(s) # {}
        /\ StdioOpendir(n, t) /\ AllocHandle(s, t, "dir", {})
    BY <1>4
  <2> HIDE DEF t
  <2>2. PICK h, e : /\ h \in Slots /\ Adds(s, h, e) /\ Others(s, {h})
                    /\ Ref(s, h) = 0 /\ Ref(s, h)' = t /\ KindAt(s, h)' = "dir"
    BY <2>1, <1>1, <1>2, Allocated
  <2>3. TableMoves(s) /\ step' \in [Sessions -> Steps]
    BY <2>2, <1>1, <1>2 DEF TableMoves, ServerTypes
  <2>4. ServerTypes' /\ Reading'
    <3>1. ServerTypes'
      BY <2>3, <1>1, TableTypes
    <3>2. Reading'
      BY <1>1, <1>2 DEF Reading
    <3> QED BY <3>1, <3>2
  <2>5. FsInv' /\ Opens(t, "dir") /\ UNCHANGED <<dir, folders, data>>
    BY <2>1, <1>1, <1>2, OpendirStep
  <2>6. NamesKept
    BY <2>5, NamesSame
  <2>7. Takes(s, h, t, "dir")
    BY <2>1, <2>2, <2>5, PlaceTypes DEF Takes
  <2> QED BY <2>3, <2>4, <2>5, <2>6, <2>7 DEF Effects, Moves
<1> QED BY <1>3, <1>4 DEF HandleOpendir

\* Every step of a session.
LEMMA StepEffects ==
  ASSUME IInv, NEW s \in Sessions, HandlePacket(s)
  PROVE  Effects(s)
<1>1. CASE \E n \in Names, f \in OpenModes, a \in BOOLEAN : OpenBegin(s, n, f, a)
  BY <1>1, BeginRequests
<1>2. CASE Fopen(s) \/ FopenCreate(s)
  BY <1>2, FopenRequests
<1>3. CASE OpenFinish(s)
  BY <1>3, FinishRequest
<1>4. ASSUME NEW id \in Ids,
             \/ HandleClose(s, id) \/ HandleRead(s, id) \/ HandleFsync(s, id) \/ HandleReaddir(s, id)
             \/ \E p \in Pos, tag \in Tags : HandleWrite(s, id, p, tag)
             \/ \E n \in 0 .. MaxSize : HandleFsetstat(s, id, n)
      PROVE  Effects(s)
  BY <1>4, FileRequests, CloseRequests
<1>5. ASSUME NEW n \in Names,
             \/ \E size \in 0 .. MaxSize : HandleSetstat(s, n, size)
             \/ HandleRemove(s, n) \/ HandleRmdir(s, n)
             \/ \E m \in Names : HandleRename(s, n, m) \/ HandleHardlink(s, n, m)
      PROVE  Effects(s)
  BY <1>5, NameRequests
<1>6. ASSUME NEW n \in Names, \E a \in BOOLEAN : HandleMkdir(s, n, a) PROVE Effects(s)
  BY <1>6, MkdirRequests
<1>7. CASE \E n \in Names \cup {Top} : HandleOpendir(s, n)
  BY <1>7, OpendirRequest
<1>8. CASE MkdirAttrs(s)
  BY <1>8, MkdirRequests
<1>9. CASE Disconnect(s)
  BY <1>9, BeginRequests
<1>10. CASE DeinitClose(s)
  BY <1>10, CloseRequests
<1> QED BY <1>1, <1>2, <1>3, <1>4, <1>5, <1>6, <1>7, <1>8, <1>9, <1>10 DEF HandlePacket

-----------------------------------------------------------------------------
(* The handles that were given out.                                        *)

\* The client of s holds the handles in use, and as long as the numbers have not
\* wrapped each of them is smaller than the next one and no two are equal.
InUse(s, h) == handles[s][h] # Unused
Issued(s, h) == <<handles[s][h].id, handles[s][h].st>>
Numbered(s) ==
  /\ \A g : g \in given[s] <=> \E h \in Slots : InUse(s, h) /\ g = Issued(s, h)
  /\ ~wrapped[s] => \A h \in Slots : InUse(s, h) => handles[s][h].id < next_handle_id[s]
  /\ ~wrapped[s] => \A h, k \in Slots : /\ InUse(s, h) /\ InUse(s, k)
                                        /\ handles[s][h].id = handles[s][k].id
                                        => h = k
Numbers == \A s \in Sessions : Numbered(s)

\* The next handle gets a number of its own.
LEMMA AddsNumbered ==
  ASSUME ServerTypes, NEW s \in Sessions, Numbered(s), NEW h, NEW e, Adds(s, h, e)
  PROVE  Numbered(s)'
<1>1. h \in Slots /\ ~InUse(s, h) /\ e \in Entries /\ e.id = next_handle_id[s] /\ e.id \in Ids
  BY DEF Adds, InUse, Entries
<1>2. /\ handles'[s][h] = e /\ e # Unused
      /\ \A k \in Slots : k # h => handles'[s][k] = handles[s][k]
  <2>1. e # Unused
    BY <1>1 DEF Entries, Unused
  <2>2. handles' = [handles EXCEPT ![s][h] = e] /\ h \in Slots
    BY DEF Adds
  <2> QED BY <2>1, <2>2 DEF ServerTypes
<1>3. next_handle_id'[s] = NextId(e.id) /\ given'[s] = given[s] \cup {<<e.id, e.st>>}
  BY DEF Adds, ServerTypes
<1>4. \A k \in Slots : InUse(s, k)' <=> k = h \/ InUse(s, k)
  BY <1>1, <1>2 DEF InUse
<1>5. Issued(s, h)' = <<e.id, e.st>> /\ \A k \in Slots : k # h => Issued(s, k)' = Issued(s, k)
  BY <1>2 DEF Issued
<1>6. \A g : g \in given'[s] <=> \E k \in Slots : InUse(s, k)' /\ g = Issued(s, k)'
  <2>1. \A g : g \in given[s] <=> \E k \in Slots : InUse(s, k) /\ g = Issued(s, k)
    BY DEF Numbered
  <2>2. ASSUME NEW g PROVE g \in given'[s] <=> \E k \in Slots : InUse(s, k)' /\ g = Issued(s, k)'
    <3>1. ASSUME NEW k \in Slots, InUse(s, k)', g = Issued(s, k)' PROVE g \in given'[s]
      BY <3>1, <2>1, <1>3, <1>4, <1>5
    <3>2. ASSUME g \in given[s] PROVE \E k \in Slots : InUse(s, k)' /\ g = Issued(s, k)'
      <4>1. PICK k \in Slots : InUse(s, k) /\ g = Issued(s, k)
        BY <3>2, <2>1
      <4> QED BY <4>1, <1>1, <1>4, <1>5
    <3>3. ASSUME g = <<e.id, e.st>> PROVE \E k \in Slots : InUse(s, k)' /\ g = Issued(s, k)'
      BY <3>3, <1>1, <1>4, <1>5
    <3> QED BY <3>1, <3>2, <3>3, <1>3
  <2> QED BY <2>2
<1>7. ASSUME ~wrapped'[s] PROVE ~wrapped[s] /\ NextId(e.id) # 1
  <2>1. wrapped'[s] <=> wrapped[s] \/ NextId(e.id) = 1
    BY Zenon DEF Adds, ServerTypes
  <2> QED BY <1>7, <2>1
<1>8. ASSUME ~wrapped'[s], NEW k \in Slots, InUse(s, k)' PROVE handles'[s][k].id < next_handle_id'[s]
  <2>1. NextId(e.id) = e.id + 1 /\ e.id \in Nat
    BY <1>1, <1>7, <1>8, ServerAssumption DEF NextId, Ids
  <2>2. CASE k = h
    BY <2>1, <2>2, <1>2, <1>3
  <2>3. CASE k # h
    <3>1. InUse(s, k) /\ handles'[s][k] = handles[s][k] /\ handles[s][k].id \in Ids
      BY <2>3, <1>2, <1>4, <1>8, UsedEntry DEF InUse
    <3>2. handles[s][k].id < e.id
      BY <3>1, <1>1, <1>7, <1>8 DEF Numbered
    <3>3. handles[s][k].id \in Nat
      BY <3>1, ServerAssumption DEF Ids
    <3> QED BY <3>1, <3>2, <3>3, <2>1, <1>3
  <2> QED BY <2>2, <2>3
<1>9. ASSUME ~wrapped'[s], NEW k \in Slots, InUse(s, k), k # h PROVE handles'[s][k].id # e.id
  <2>1. handles[s][k].id \in Ids /\ handles[s][k].id < e.id /\ handles'[s][k] = handles[s][k]
    BY <1>1, <1>2, <1>7, <1>9, UsedEntry DEF InUse, Numbered
  <2> QED BY <2>1, <1>1, ServerAssumption DEF Ids
<1>10. ASSUME ~wrapped'[s], NEW j \in Slots, NEW k \in Slots, InUse(s, j)', InUse(s, k)',
              handles'[s][j].id = handles'[s][k].id
       PROVE  j = k
  <2>1. CASE j = h \/ k = h
    BY <2>1, <1>2, <1>4, <1>9, <1>10
  <2>2. CASE j # h /\ k # h
    <3>1. InUse(s, j) /\ InUse(s, k) /\ handles[s][j].id = handles[s][k].id
      BY <2>2, <1>2, <1>4, <1>10
    <3> QED BY <3>1, <1>7, <1>10 DEF Numbered
  <2> QED BY <2>1, <2>2
<1> QED BY <1>6, <1>8, <1>10 DEF Numbered

\* A handle that is closed is taken back, and no other one.
LEMMA DropsNumbered ==
  ASSUME ServerTypes, Distinct, NEW s \in Sessions, Numbered(s), NEW h, Drops(s, h)
  PROVE  Numbered(s)'
<1>1. h \in Slots /\ InUse(s, h)
  BY DEF Drops, InUse
<1>2. /\ handles'[s][h] = Unused
      /\ \A k \in Slots : k # h => handles'[s][k] = handles[s][k]
  BY DEF Drops, ServerTypes
<1>3. next_handle_id' = next_handle_id /\ wrapped' = wrapped /\ given'[s] = given[s] \ {Issued(s, h)}
  BY DEF Drops, ServerTypes, Issued
<1>4. \A k \in Slots : InUse(s, k)' <=> k # h /\ InUse(s, k)
  BY <1>1, <1>2 DEF InUse
<1>5. \A k \in Slots : k # h => Issued(s, k)' = Issued(s, k)
  BY <1>2 DEF Issued
<1>6. ASSUME NEW k \in Slots, InUse(s, k), k # h PROVE Issued(s, k) # Issued(s, h)
  <2>1. k \in Places /\ h \in Places /\ k # 0 /\ h # 0
    BY <1>1, PlaceTypes
  <2>2. Ref(s, k) = handles[s][k].st /\ Ref(s, h) = handles[s][h].st /\ Ref(s, k) # 0
    BY <2>1, <1>1, <1>6, UsedEntry, PlaceTypes DEF InUse, Ref
  <2>3. handles[s][k].st # handles[s][h].st
    BY <2>1, <2>2, <1>6 DEF Distinct
  <2> QED BY <2>3 DEF Issued
<1>7. \A g : g \in given'[s] <=> \E k \in Slots : InUse(s, k)' /\ g = Issued(s, k)'
  <2>1. \A g : g \in given[s] <=> \E k \in Slots : InUse(s, k) /\ g = Issued(s, k)
    BY DEF Numbered
  <2>2. ASSUME NEW g PROVE g \in given'[s] <=> \E k \in Slots : InUse(s, k)' /\ g = Issued(s, k)'
    <3>1. ASSUME NEW k \in Slots, InUse(s, k)', g = Issued(s, k)' PROVE g \in given'[s]
      <4>1. InUse(s, k) /\ k # h /\ g = Issued(s, k)
        BY <3>1, <1>4, <1>5
      <4> QED BY <4>1, <2>1, <1>3, <1>6
    <3>2. ASSUME g \in given'[s] PROVE \E k \in Slots : InUse(s, k)' /\ g = Issued(s, k)'
      <4>1. g \in given[s] /\ g # Issued(s, h)
        BY <3>2, <1>3
      <4>2. PICK k \in Slots : InUse(s, k) /\ g = Issued(s, k)
        BY <4>1, <2>1
      <4> QED BY <4>1, <4>2, <1>4, <1>5
    <3> QED BY <3>1, <3>2
  <2> QED BY <2>2
<1>8. ASSUME ~wrapped'[s], NEW k \in Slots, InUse(s, k)' PROVE handles'[s][k].id < next_handle_id'[s]
  BY <1>2, <1>3, <1>4, <1>8 DEF Numbered
<1>9. ASSUME ~wrapped'[s], NEW j \in Slots, NEW k \in Slots, InUse(s, j)', InUse(s, k)',
             handles'[s][j].id = handles'[s][k].id
      PROVE  j = k
  <2>1. InUse(s, j) /\ InUse(s, k) /\ handles[s][j].id = handles[s][k].id /\ ~wrapped[s]
    BY <1>2, <1>3, <1>4, <1>9
  <2> QED BY <2>1 DEF Numbered
<1> QED BY <1>7, <1>8, <1>9 DEF Numbered

\* The handles of every session stay numbered.
LEMMA NumbersStep ==
  ASSUME ServerTypes, Distinct, Numbers, NEW s \in Sessions, TableMoves(s)
  PROVE  Numbers'
<1>1. ASSUME NEW r \in Sessions, handles'[r] = handles[r], given'[r] = given[r],
             next_handle_id'[r] = next_handle_id[r], wrapped'[r] = wrapped[r]
      PROVE  Numbered(r)'
  BY <1>1 DEF Numbers, Numbered, InUse, Issued
<1>2. CASE SameTable
  <2>1. handles' = handles /\ given' = given /\ next_handle_id' = next_handle_id /\ wrapped' = wrapped
    BY <1>2 DEF SameTable
  <2> QED BY <2>1, <1>1 DEF Numbers
<1>3. ASSUME NEW r \in Sessions, r # s, ~SameTable
      PROVE  /\ handles'[r] = handles[r] /\ given'[r] = given[r]
             /\ next_handle_id'[r] = next_handle_id[r] /\ wrapped'[r] = wrapped[r]
  <2>1. ASSUME NEW h, NEW e, Adds(s, h, e)
        PROVE  /\ handles'[r] = handles[r] /\ given'[r] = given[r]
               /\ next_handle_id'[r] = next_handle_id[r] /\ wrapped'[r] = wrapped[r]
    BY <1>3, <2>1 DEF Adds, ServerTypes
  <2>2. ASSUME NEW h, Drops(s, h)
        PROVE  /\ handles'[r] = handles[r] /\ given'[r] = given[r]
               /\ next_handle_id'[r] = next_handle_id[r] /\ wrapped'[r] = wrapped[r]
    BY <1>3, <2>2 DEF Drops, ServerTypes
  <2>3. CASE Restarts(s)
    BY <1>3, <2>3 DEF Restarts, ServerTypes
  <2> QED BY <2>1, <2>2, <2>3, <1>3 DEF TableMoves
<1>4. ASSUME ~SameTable PROVE Numbered(s)'
  <2>1. Numbered(s)
    BY DEF Numbers
  <2>2. ASSUME NEW h, NEW e, Adds(s, h, e) PROVE Numbered(s)'
    BY <2>1, <2>2, AddsNumbered
  <2>3. ASSUME NEW h, Drops(s, h) PROVE Numbered(s)'
    BY <2>1, <2>3, DropsNumbered
  <2>4. CASE Restarts(s)
    <3>1. handles' = handles /\ given' = given /\ \A h \in Slots : ~InUse(s, h)
      BY <2>4 DEF Restarts, InUse
    <3>2. \A h \in Slots : ~InUse(s, h)'
      BY <3>1 DEF InUse
    <3>3. \A g : g \notin given[s]
      BY <3>1, <2>1 DEF Numbered
    <3> QED BY <3>1, <3>2, <3>3 DEF Numbered
  <2> QED BY <2>2, <2>3, <2>4, <1>4 DEF TableMoves
<1>5. ASSUME ~SameTable, NEW r \in Sessions PROVE Numbered(r)'
  <2>1. CASE r = s
    BY <2>1, <1>4, <1>5
  <2>2. CASE r # s
    BY <2>2, <1>1, <1>3, <1>5
  <2> QED BY <2>1, <2>2
<1> QED BY <1>2, <1>5 DEF Numbers

-----------------------------------------------------------------------------
(* The specification.                                                      *)

\* A step that keeps what the names lead to is not seen through them.
LEMMA NotSeen ==
  ASSUME FsInv, FsInv', NamesKept PROVE Visible' = Visible
<1>1. \A n \in Names : dir[n] \in Inodes \cup {0}
  BY DEF FsInv, NameTypes
<1>2. 0 \notin folders /\ 0 \notin folders'
  BY FsAssumption DEF FsInv, NameTypes
<1>3. ASSUME NEW n \in Names
      PROVE  /\ dir'[n] = dir[n]
             /\ (dir'[n] \in folders') = (dir[n] \in folders)
             /\ dir[n] # 0 => data'[dir'[n]] = data[dir[n]]
  <2>1. dir'[n] = dir[n]
    BY DEF NamesKept
  <2>2. (dir'[n] \in folders') <=> (dir[n] \in folders)
    BY <2>1, <1>2 DEF NamesKept
  <2>3. dir[n] # 0 => data'[dir'[n]] = data[dir[n]]
    BY <2>1 DEF NamesKept
  <2> QED BY <2>1, <2>2, <2>3
<1>4. ASSUME NEW n \in Names
      PROVE  <<dir'[n], dir'[n] \in folders', IF dir'[n] = 0 THEN <<>> ELSE data'[dir'[n]]>>
               = <<dir[n], dir[n] \in folders, IF dir[n] = 0 THEN <<>> ELSE data[dir[n]]>>
  BY <1>3
<1> QED BY <1>4 DEF Visible

\* The state a server starts in.
LEMMA InitHolds == Init => IInv /\ Numbers /\ ReadOnlyKept
<1> SUFFICES ASSUME Init PROVE IInv /\ Numbers /\ ReadOnlyKept
  OBVIOUS
<1>1. FsInv
  <2>1. /\ dir = [n \in Names |-> 0] /\ folders = {} /\ data = [i \in Inodes |-> <<>>]
        /\ streams = [t \in Streams |-> Closed] /\ promised = [i \in Inodes |-> NoWrites]
    BY DEF Init, FsInit
  <2>2. NameTypes
    BY <2>1 DEF NameTypes
  <2>3. Closed \in AnyStream /\ Closed.kind # "file"
    BY DEF AnyStream, Closed
  <2>4. NoWrites \in Writes /\ \A p \in Pos : NoWrites[p] = None
    BY DEF NoWrites, Writes, Written
  <2>5. \A i \in Inodes : Vouches(promised[i], data[i])
    BY <2>1, <2>4 DEF Vouches
  <2>6. data \in [Inodes -> Seq(Written)] /\ streams \in [Streams -> AnyStream] /\ promised \in [Inodes -> Writes]
    BY <2>1, <2>3, <2>4
  <2>7. \A t \in Streams : streams[t].kind # "file"
    BY <2>1, <2>3
  <2> QED BY <2>2, <2>5, <2>6, <2>7 DEF FsInv, FsGood
<1>2. /\ handles = [s \in Sessions |-> [h \in Slots |-> Unused]] /\ step = [s \in Sessions |-> Idle]
      /\ next_handle_id = [s \in Sessions |-> 1] /\ wrapped = [s \in Sessions |-> FALSE]
      /\ given = [s \in Sessions |-> {}] /\ changed = {}
      /\ streams = [t \in Streams |-> Closed]
  BY DEF Init, FsInit
<1>3. ServerTypes
  <2>1. 1 \in Ids
    BY ServerAssumption DEF Ids
  <2> QED BY <1>2, <2>1, StepsOf DEF ServerTypes
<1>4. ASSUME NEW s \in Sessions, NEW h \in Places PROVE Ref(s, h) = 0
  BY <1>2, StepsOf, PlaceTypes DEF Ref
<1>5. RefInv
  <2>1. \A t \in Streams : streams[t] = Closed /\ t # 0
    BY <1>2, PlaceTypes
  <2> QED BY <1>4, <2>1 DEF RefInv, Distinct, Exact, Fitting
<1>6. Reading
  BY <1>2, StepsOf, ServerAssumption DEF Reading
<1>7. Numbers
  <2>1. \A s \in Sessions, h \in Slots : ~InUse(s, h)
    BY <1>2 DEF InUse
  <2>2. \A s \in Sessions : given[s] = {}
    BY <1>2
  <2> QED BY <2>1, <2>2 DEF Numbers, Numbered
<1>8. ReadOnlyKept
  BY <1>2 DEF ReadOnlyKept
<1> QED BY <1>1, <1>3, <1>5, <1>6, <1>7, <1>8 DEF IInv

\* Every step keeps the invariant.
LEMMA NextHolds == IInv /\ Numbers /\ ReadOnlyKept /\ [Next]_vars => (IInv /\ Numbers /\ ReadOnlyKept)'
<1> SUFFICES ASSUME IInv, Numbers, ReadOnlyKept, [Next]_vars PROVE (IInv /\ Numbers /\ ReadOnlyKept)'
  OBVIOUS
<1>1. CASE Next
  <2>1. PICK s \in Sessions : /\ HandlePacket(s)
                              /\ changed' = IF Visible' = Visible THEN changed ELSE changed \cup {s}
    BY <1>1 DEF Next
  <2>2. FsInv /\ ServerTypes /\ RefInv /\ Distinct
    BY DEF IInv, RefInv
  <2>3. Effects(s)
    BY <2>1, StepEffects
  <2>4. /\ FsInv' /\ ServerTypes' /\ Reading' /\ Moves(s) /\ TableMoves(s)
        /\ s \in ReadOnly => NamesKept
    BY <2>3 DEF Effects
  <2>5. RefInv'
    BY <2>2, <2>4, MovesKeep
  <2>6. Numbers'
    BY <2>2, <2>4, NumbersStep
  <2>7. s \in ReadOnly => changed' = changed
    BY <2>1, <2>2, <2>4, NotSeen
  <2>8. ReadOnlyKept'
    <3>1. changed' \subseteq changed \cup {s}
      BY <2>1
    <3> QED BY <2>7, <3>1 DEF ReadOnlyKept
  <2> QED BY <2>4, <2>5, <2>6, <2>8 DEF IInv
<1>2. CASE UNCHANGED vars
  <2>1. /\ dir' = dir /\ folders' = folders /\ data' = data /\ streams' = streams /\ promised' = promised
        /\ handles' = handles /\ next_handle_id' = next_handle_id /\ step' = step
        /\ wrapped' = wrapped /\ given' = given /\ changed' = changed
    BY <1>2 DEF vars, fs_vars, server_vars
  <2>2. FsInv'
    BY <2>1 DEF IInv, FsInv, NameTypes
  <2>3. ServerTypes' /\ Reading'
    BY <2>1 DEF IInv, ServerTypes, Reading
  <2>4. \A s \in Sessions, h \in Places : Ref(s, h)' = Ref(s, h) /\ KindAt(s, h)' = KindAt(s, h)
    BY <2>1, PlaceKept
  <2>5. RefInv'
    BY <2>1, <2>4 DEF IInv, RefInv, Distinct, Exact, Fitting
  <2>6. Numbers'
    BY <2>1 DEF Numbers, Numbered, InUse, Issued
  <2> QED BY <2>1, <2>2, <2>3, <2>5, <2>6 DEF IInv, ReadOnlyKept
<1> QED BY <1>1, <1>2

\* The handle a client holds is found, and leads to the stream it was given for.
LEMMA GivenFound ==
  ASSUME IInv, Numbers, NEW s \in Sessions, ~wrapped[s], NEW g \in given[s]
  PROVE  Find(s, g[1]) # 0 /\ Stream(s, g[1]) = g[2]
<1>1. PICK h \in Slots : InUse(s, h) /\ g = Issued(s, h)
  BY DEF Numbers, Numbered
<1>2. g[1] = handles[s][h].id /\ g[2] = handles[s][h].st
  BY <1>1 DEF Issued
<1> DEFINE H == {k \in Slots : handles[s][k] # Unused /\ handles[s][k].id = g[1]}
<1>3. h \in H /\ \A k \in H : k = h
  BY <1>1, <1>2 DEF Numbers, Numbered, InUse
<1>4. H \in SUBSET Nat /\ H # {}
  BY <1>3, PlaceTypes
<1>5. Find(s, g[1]) = Least(H)
  BY <1>4 DEF Find
<1>6. Find(s, g[1]) = h
  BY <1>3, <1>4, <1>5, LeastExists
<1>7. h # 0
  BY PlaceTypes
<1> QED BY <1>2, <1>6, <1>7 DEF Stream

\* The invariant says what HandlesExact says.
LEMMA ExactHandles == ASSUME IInv, Numbers PROVE HandlesExact
<1>1. ServerTypes /\ Distinct /\ Exact
  BY DEF IInv, RefInv
<1>2. ASSUME NEW s \in Sessions, NEW h \in Slots, handles[s][h] # Unused
      PROVE  h \in Places /\ Ref(s, h) = handles[s][h].st /\ handles[s][h].st \in Streams /\ Ref(s, h) # 0
  BY <1>1, <1>2, UsedEntry, PlaceTypes DEF Ref
<1>3. ASSUME NEW t PROVE t \in OpenStreams <=> t \in UNION {Held(s) \cup InProgress(s) : s \in Sessions}
  <2>1. ASSUME t \in OpenStreams PROVE \E s \in Sessions : t \in Held(s) \/ t \in InProgress(s)
    <3>1. t \in Streams /\ t # 0 /\ streams[t] # Closed
      BY <2>1, PlaceTypes DEF OpenStreams
    <3>2. PICK s \in Sessions, h \in Places : Ref(s, h) = t
      BY <3>1, <1>1 DEF Exact
    <3>3. CASE h = 0
      BY <3>1, <3>2, <3>3 DEF Ref, InProgress
    <3>4. CASE h # 0
      <4>1. h \in Slots /\ handles[s][h] # Unused /\ t = handles[s][h].st
        BY <3>1, <3>2, <3>4, PlaceTypes DEF Ref
      <4> QED BY <4>1 DEF Held, FreeSlots
    <3> QED BY <3>3, <3>4
  <2>2. ASSUME NEW s \in Sessions, t \in Held(s) PROVE t \in OpenStreams
    <3>1. PICK h \in Slots : handles[s][h] # Unused /\ t = handles[s][h].st
      BY <2>2 DEF Held, FreeSlots
    <3>2. h \in Places /\ Ref(s, h) = t /\ t \in Streams
      BY <3>1, <1>2
    <3> QED BY <3>2, <1>1 DEF Exact, OpenStreams
  <2>3. ASSUME NEW s \in Sessions, t \in InProgress(s) PROVE t \in OpenStreams
    <3>1. step[s].op = "finish" /\ t = step[s].st
      BY <2>3 DEF InProgress
    <3>2. t \in Streams /\ Ref(s, 0) = t /\ 0 \in Places
      BY <3>1, <1>1, StepRecord, PlaceTypes DEF Finishing, Ref
    <3> QED BY <3>2, <1>1 DEF Exact, OpenStreams
  <2> QED BY <2>1, <2>2, <2>3
<1>4. OpenStreams = UNION {Held(s) \cup InProgress(s) : s \in Sessions}
  BY <1>3
<1>5. ASSUME NEW s \in Sessions, NEW r \in Sessions, NEW h \in Slots, NEW k \in Slots,
             handles[s][h] # Unused, handles[r][k] # Unused, handles[s][h].st = handles[r][k].st
      PROVE  s = r /\ h = k
  <2>1. h \in Places /\ k \in Places /\ Ref(s, h) # 0 /\ Ref(s, h) = Ref(r, k)
    BY <1>2, <1>5
  <2> QED BY <2>1, <1>1 DEF Distinct
<1> QED BY <1>4, <1>5, GivenFound DEF HandlesExact

\* The invariant holds for every behaviour.
LEMMA Invariance == Spec => [](IInv /\ Numbers /\ ReadOnlyKept)
BY InitHolds, NextHolds, PTL DEF Spec

\* No stream of the SFTP server leaks and none is shared, whatever fails half way,
\* and a handle leads to the stream it was given for.
THEOREM HandlesSafe == Spec => []HandlesExact
<1>1. IInv /\ Numbers /\ ReadOnlyKept => HandlesExact
  BY ExactHandles
<1> QED BY <1>1, Invariance, PTL

\* A WRITE answered OK is held by the stream or by the file, and by the file once a
\* CLOSE or an fsync was answered OK, whatever other sessions do to other positions.
THEOREM WritesSafe == Spec => []AckedHeld
<1>1. IInv /\ Numbers /\ ReadOnlyKept => AckedHeld
  BY HeldWrites DEF IInv
<1> QED BY <1>1, Invariance, PTL

\* A session under the read-only policy never changes a name or a file.
THEOREM ReadOnlySafe == Spec => []ReadOnlyKept
BY Invariance, PTL

=============================================================================
