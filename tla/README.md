# EMSSHD in TLA+

EMSSHD is an SSH server library in C for embedded systems: one session serves one connection
with one channel, either SFTP or a terminal. On it stand a Linux server program (`APP/emsshd`) and
emtask (`APP/emtask`), which runs tasks under a terminal and lets clients attach to them. This
directory holds TLA+ models of the library's core and of both programs, TLC configurations that
check them on small instances, and TLAPS proofs about them.

Paths are relative to the repository root; line numbers are those of the modelled commit.

## 1. Inventory

The library's own code is under `src/core`, `src/sftp` and `src/platform`; `Libs/` is vendored.

| Component | State it keeps | Hard behaviour | What makes it correct | Module |
|---|---|---|---|---|
| SFTP channel (`core/ssh_server.c`) | both windows, `sftp_rx` (reassembly), one cached response, EOF and CLOSE flags | pipelined requests, windows smaller than a response, EOF and CLOSE with work left | windows respected both ways, responses complete and in order, every request answered | `SftpChannel` |
| Transport session (`core/ssh_transport.c`, `core/ssh_packet.c`) | keys, sequence numbers and counts per direction, exchange hash, session id | re-exchange in any stage, timeouts inside it, wrapping numbers | both ends use the same keys for every packet, nothing but key exchange during an exchange, no stage on plain packets | `Transport` |
| Packet framing (`net_read_exact` and its callers) | place in the byte stream | pieces of any size, timeouts between them | never loses its place, what arrives is decoded | `PacketStream` |
| Terminal channel (`core/ssh_server.c`, `platform/posix_term.c`) | both windows, the child, flags | a child that exits at any moment, short writes, a receive poll of 50 ms | windows respected, exit reported, the session and the child end | `TerminalChannel`, `Stream` |
| Accepting a session (`core/ssh_server.c`, `core/ssh_userauth.c`, `platform/posix_passwd_auth.c`) | tries, user, channel, the request in hand | messages of any kind in any order, failures after something was started | only proven users, one reply to each request, nothing left behind | `Session` |
| SFTP request server (`sftp/sftp_server.c`, `platform/stdio_fs.c`) | handle slots and numbers, streams with buffers | several sessions on the same files, requests that fail half way | no handle leaked or shared, no acknowledged write lost, read-only is read-only | `SftpServer`, `StdioFs` |
| Codecs and negotiation (`core/ssh_buffer.c`, `ssh_kex.c`, `ssh_service.c`, `ssh_userauth.c`, `ssh_connection.c`, `sftp/sftp.c`) | none | bounds, sign bytes, inner lengths, trailing bytes | what is written is read; what is accepted has one reading | `Wire` |
| Linux server program (`APP/emsshd/Linux`, `platform/sshd_config_file.c`) | pool count, configuration per thread | the file changes between connection and login, failures on the way to a thread | the pool count is exact, nobody is admitted against the file | `ServerProgram`, `ConfigFile` |
| emtask terminals and sessions (`APP/emtask/emtask.c`) | child, restart history, replay ring, session manager | takeover, watchdog against attached session, restarts | one session, output without gap, restarts bounded, the child comes back | `EmtaskTerm`, `EmtaskSession` |
| emtask panel (`APP/emtask/emtask.c`) | task table, database, listeners, worker pool | crash between database and table, listener threads without the lock | what runs is what is stored, a restart loads, clients are served | `EmtaskPanel` |
| emtask screen (`APP/emtask/emtask.c`) | cells, cursor, scroll region, escape state | control sequences cut anywhere, resizing | the cursor stays on the screen, the snapshot shows the screen | `Screen` |

A session of the library is one thread: it calls setup, authentication, accept and the channel loop
in turn, and every receive call may itself run a whole re-exchange. The concurrency is between that
thread, the network, the peer and the child; between sessions there is only the file system. In the
programs, threads share a pool, and in emtask a task's terminal (`term->lock`) and the task table
(`task_lock`, which listener threads read without). The modules follow these borders: `Transport`
and `PacketStream` lie below a session, `Session` ends where `SftpChannel` and `TerminalChannel`
begin, `SftpServer` is what `SftpChannel` sees as a response, `EmtaskSession` is what runs in a
worker of `EmtaskPanel`. The hazards are listed, at their lines, under `hazards` in `PROJECT.json`.

## 2. Modules and the code

The client is not in the repository. It is a peer that keeps to the protocol, with the departures
named below, and is marked external in the map. In each module a definition whose comment begins
"Faulty variant" is a plausible mistake in the definition after it and is used by no specification.

### SftpChannel

State is that of `ssh_server_sftp_channel_t` (same names), the two message streams and the client.
Payload is abstracted to positions in two byte streams, requests and responses, so that loss,
repetition or reordering shows as a position that does not fit. Each loop body of the handler is
one action: `pc` is `receive`, `flush` (`maybe_flush_pending_sftp_response`), `parse`, `send`
(the chunk loop, which charges `peer_window_size` only after the last chunk) or `ended`.
`sftp_server_handle_packet` is the length of its response or an error. The client writes requests,
cuts them anywhere, opens its window in any steps, sends channel requests, EOF and CLOSE; once, as
`ClientMisbehave`, it exceeds the window or addresses another channel.

`SSH_ERR_CLOSED` and the failures of the transport below (network, packet check, skip limits) are
`TransportError`: from the channel's side each ends the session at any step. `max_sftp_packets` is
0, its default (no limit). A receive call that times out with nothing buffered changes nothing and
is left to stuttering. So is a client that stops for ever in the middle of a message: the fairness of the
client excludes it, as it excludes one that does not open its window.

### Transport

Keys are named by the exchange they come from, exchange hashes by the client's KEXINIT they start
from. A packet records the keys and sequence number it was made with and is accepted iff the
receiver has the same. `pc` is the call the server is in; during a re-exchange `ret` is the stage
whose receive call was interrupted. Stages: `service`, `userauth`, `open`, `request`, `channel`.
A channel message is one kind (`msg`) whose effects at this level are: answered or not, goes on,
moves to the next stage, or ends the session. Abstracted: the byte counters beside the packet
counters (`rekey_after_bytes`; same code, other increments), the contents of handshake messages,
the bounds of 8 and 16 on repeated refusals in a stage (the model allows any number, so it has
more behaviours than the code). The server never starts an exchange by itself: `rekey_needed` is
only reported, as in the code. The client keeps to the key exchange; at other times it sends any
packet at any stage, and during an exchange the IGNORE, DEBUG and DISCONNECT that RFC 4253 allows,
which the server's exchange calls refuse. One protected packet may be damaged on its way (`Damage`).
The write waits while the peer does not read (`MaxQueue`).

### PacketStream

A packet is its number of bytes; the first `Block` of them hold the length. The server is in the
first (`length`) or second (`rest`) `net_read_exact` of a packet, with `done` of `want` bytes read.
The network delivers any number of written bytes at a time. What is read for a length at the wrong
place is garbage: either refused or taken for any length. `stage` is what the caller does with
`SSH_ERR_NOT_FOUND`: before the channel loop the session ends, in the loop the call is repeated.
`TimeoutIsZero` tells the two readings of the adapter contract apart. The models for plain and for
protected packets are the same but for `Block` and for the MAC, which counts as part of the rest.

### TerminalChannel and Stream

State is that of `ssh_server_terminal_channel_t`, the child, the two message streams and the client.
`pc` says where the loop of `ssh_server_run_terminal_session` is: `pump`, `exit`, `receive`,
`closing` (in `posix_term_close`) or `ended`. Bytes are positions, as in `SftpChannel`. The child
writes, exits, closes its output or ignores SIGTERM (`deaf`) between any two steps; it has a pty or a
socket pair (`is_pty`), for which reads and writes fail differently. A write may be short, and the
rest of the input is then dropped as in the code; one that finds the socket of a child that is gone ends
the loop (`write_closed`). The client may stop in the middle of a message (`partial`): `net_read_exact`
has given up its timeout by then, and the server does not move until the rest comes or the connection breaks.

`Stream` is what a channel promises of one direction: bytes are delivered in order, within the
credit, and none after the close. `OutputIsStream` is the refinement
`INSTANCE Stream WITH delivered <- out_pos, granted <- recv_limit, closed <- close_sent`, checked as
a property of the run.

### Session

From the protected transport to a running channel, for `ssh_server_run_sftp_session`,
`ssh_server_run_terminal_session` and `ssh_server_run_auto_session`. A step is one message, timeout
or broken connection and all the server does with it. The client sends anything in any order, and may
stop in the middle of a message (`partial`). The name in a request is counted text (`Views`): AllowUsers,
PermitRootLogin and the comparison with the first request look at that; the password file, and the session
afterwards, at the name as a C string (`CString`), which is shorter when the text holds a zero byte. A
user has a password field in passwd and one in shadow, each absent, a mark or a hash; a password or
a signature is right or wrong. `owed` counts requests that wait for a reply. The running stages only
return a status.

### StdioFs and SftpServer

`StdioFs` is the host file system through the C library: names, inodes, streams that hold the last
write in a buffer (`dirty`) until the next seek, flush or close, when the kernel may refuse it; the library
then keeps the buffer or drops it (`FlushFails`), since no standard says which.
`SftpServer` puts the sessions with their handle tables over it. A request is one step per system
call that matters, since nothing locks the files between sessions. `given` and `promised` are
auxiliary: the handles a client was given, and what an answered CLOSE or fsync has put in the file.
A request that is refused before it touches anything, or only asks, has no action.

### EmtaskTerm and EmtaskSession

`EmtaskTerm` is the terminal of a task: each function that runs under `term->lock` is a step, the
child and the clock move between them. Output is counted, so that a gap or a repetition in what an
attached session is given is seen (`torn`). `EmtaskSession` adds the workers and the session manager:
a worker goes through authentication, the takeover with its wait, accept, reply, the run loop,
detach and release. A reply that fails after the attach sets `leaked`. A client may begin a message and not
go on with it (`stalled`), which holds its worker and with it the terminal; the clients of `SftpWorkers` may
ask for SFTP, with which a session has no terminal. `Pruned` keeps
the entries of the restart history that are in the window, in their order.

### EmtaskPanel

Slots of the task table, the database, the kernel's bound endpoints, the listener threads and the
shared pool. The listeners of a task are kept in the order they were opened in; a task with one complete
listener waits in `accept`, any other looks at its listeners one after the other, from the first each time
(`PollNext`). Any number of clients may connect, one at a time to each endpoint. A request of the panel is two steps, database and table, because the process may stop
between them (`Crash`) and because listeners run between them without the lock. A socket closed
while a thread waits in `select()` stays bound until the wait ends. Start-up loads the file and the
database and refuses a conflict (`Loadable`). Another program may hold an endpoint (`Contested`).

### Wire

A message is a sequence of fields; an encoder writes them one by one into a bounded buffer, the bytes
are delivered whole, cut, changed or with one added, and a decoder reads them one by one. Numbers
have `Word` digits of base `Base` in place of four bytes, written by shifting (`Shifted`) and read digit
by digit (`NumberAfter`). The numbers, texts and lists a message carries are constants. A name the code
compares with (a request type, a method, a service) is two bytes that stand for it, `UNKNOWN` any other.
A KEXINIT is followed by the choice of an algorithm for each pair of lists, of which the last two, the
languages, may be empty. `Spells` is the reference for
`Canonical`: where each field ends when the fields are written one after the other, and that its bytes are there.

### ConfigFile and ServerProgram

A configuration file is a sequence of lines that are already cut into words; names and patterns are
sequences of characters. The loop of `pattern_matches_wildcards` is followed round by round (`Round`; `Scan`
is its state after each round, `Turns` rounds are enough), and so is the reading of a file line by line
(`Reading`). Two references say what should come out: `Like`, that the name can be cut into parts, one for
each character of the pattern, a star taking any part and every other character exactly its own; and
`Says`, the last value given to a directive by a line in force. The criteria of Match are the seven the code
knows (User, Group, Host, Address, LocalAddress, LocalPort, RDomain); Group and RDomain are compared with
nothing, because the program never fills them in. Of a pattern of AllowUsers the part before `@` counts.
As in `Session` a user name is counted text that may be longer than the C string it is read as (`Text`).
`ServerProgram` has the accept loop with each of its failures, the threads, and the three readings
of the file; the administrator changes the file between any two steps.

### Screen

The emulator's state is a record (cells, cursor, saved cursor, region, escape state); a byte is one
step. A client that attaches is sent the snapshot in as many reads as its buffer makes of it, each resumed
by phase and offset, and runs it through the same emulator (`shown`); its window has a size of its own, which
the task is `told` while the screen keeps the one it has. The number of a control sequence is computed in an
`int`: one above `IntMax` becomes whatever the build makes of it (`Overflowed`), and `over` records that it
has happened. What the code does to memory once the cursor is off the screen is not modelled.

## 3. Runs

| Run | Checks | Distinct states | Result |
|---|---|---|---|
| `sftp_channel` | `PeerWindowRespected`, `ConformingClientAccepted`, `ResponsesInOrder`, `AnsweredUnlessFlushSkipped` | 436 000 | hold |
| `sftp_flush` | `SentOnceWindowOpens` | - | violated, section 5 |
| `transport` | `KeysInStep`, `StagesProtected`, `QuietDuringExchange`, `ExchangeSettles` | 493 000 | hold |
| `wire` | `InFrame`, `NoFalseAlarm`, `ArrivedDecoded`; `Understood`, `Canonical`, `SameChoice` | 158 000 | hold |
| `terminal_channel` | `HonestNotRejected`, `ExitReported`, `OutputIsStream`, `ExitNoticed`, `CloseEnds` | 751 000 | hold |
| `session` | `OnlyProvenUsers`, `OneReplyEach`, `NothingLeft`, `StuckOnlyByProbes` | 102 000 | hold |
| `sftp_server` | `HandlesExact`, `AckedHeld`, `ReadOnlyKept` | 731 000 | hold |
| `emtask_session` | `OneSession`, `ReplayExact`, `RestartBounded`, `ChildComesBack` | 307 000 | hold |
| `emtask_panel` | `StoreExact`, `RestartLoads`, `SessionsHaveTask`, `Served` | 340 000 | hold |
| `server_program` | `SlotsExact`, `ReadAsWritten`, `AdmittedAsWritten` | 205 000 | hold |
| `screen` | `OnScreen`, `SnapshotShown`, `OutsideKept` | 833 000 | hold |
| `screen_tab` | `SnapshotSent` | - | violated, section 5 |

The run `wire` is of two modules, `PacketStream` and `Wire`: a packet is handed on whole and the two share no
state, so a behaviour of `MCWire` moves one of them and leaves the other as it was (`layer`).

Some properties hold with an exception that the property itself names, because the code does not
give the whole promise; section 5 describes each:

- `AnsweredUnlessFlushSkipped`: a flush that the handler of WINDOW_ADJUST skips may hold up the answers
  (`FlushSkipped`); that it is skipped is the finding of `sftp_flush`.
- `StagesProtected`, `QuietDuringExchange`: not after a re-exchange given up on a timeout (`abandoned`).
  `KeysInStep` holds then too.
- `InFrame`, `NoFalseAlarm`, `ArrivedDecoded`: not after a timeout right between the two reads of a
  packet (`split`).
- `ExitReported`: not when the write of the client's last input found the socket of a child that was gone
  (`write_closed`), which the property says never happens on a pty.
- `ExitNoticed`, `StuckOnlyByProbes`, `ChildComesBack`: not while a client has begun a message and never
  completes it; `StuckOnlyByProbes` also names the endless row of key probes.
- `CloseEnds`: not with a child that ignores SIGTERM.
- `OneReplyEach`: a turn of the accept loop that has received something other than a request may
  repeat a refusal (`odd`).
- `OnlyProvenUsers`: speaks of the name that was checked, says that the user of the session is its C string,
  and promises what PermitRootLogin says for requests that name root itself.
- `HandlesExact`, in its last part: until the handle numbers wrap.
- `AckedHeld`: until a later request on the handle is answered with an error because its flush failed.
- `ReadAsWritten`, `AdmittedAsWritten`: for users whose names hold no star; the second also for names that are
  their own C string.
- `RestartBounded`: for a limit the history of 64 entries can hold.
- `OneSession`, `ChildComesBack`: not after a reply that failed just after the attach (`leaked`).
- `StoreExact`, `RestartLoads`: not after a request that failed half way (`torn`); that what runs is
  stored holds always.
- `Served`: unless again and again every place of the pool is in use (`Crowded`) or a listener in front of the
  client's has a client too (`Behind`).
- `OnScreen`, `OutsideKept`, `SnapshotShown`: until a number of a control sequence is too large for an `int`
  (`over`). `SnapshotShown` also: for a client of the screen's size, unless a read of the snapshot ended right
  behind a line break (`doubled`).
- `Canonical`: for every message but the user's signature, whose two numbers may have zeros in front.
- `SameChoice`: for lists that do not order two common names differently.

### Bounds

- `SftpChannel`: windows and buffer of 2, requests of 2 (one window) and 3 (longer than the buffer),
  responses of 2, which the client's first window of 1 does not take, three requests, two messages in
  flight, saturation at 2. Responses are sent in chunks from the loop and from the cache, and requests
  queue up behind them.
- `Transport`: two exchanges (the first and a re-exchange), sequence numbers modulo 3 so that they wrap,
  a count that saturates at 1 with a limit of 1, two skipped packets per call, two packets in flight.
- `PacketStream`: a first read of 2 bytes, packets of 3 to 5, three packets: one before, one with and
  one after a disturbance.
- `TerminalChannel`: windows of 1, a buffer of 2, two bytes each way, one request or signal, saturation at 3.
  A byte of input needs the window replenished, a byte of output a new grant.
- `Session`: two users, one of them root, and a third name that is root only as a C string;
  seven configurations (`MCConfigs`) with each session function, each root policy, each missing platform and each kind of account; three tries, limits of 2 and 3 in
  place of 8 and 16.
- `SftpServer`: a writing and a read-only session, one handle each, two handle numbers (so that they
  wrap), two names, one inode, a file of one unit with two values, four open modes and one refused.
- `EmtaskSession`: two workers, one of whose clients may ask for SFTP, a ring of 2 for three bytes, a limit of one restart in a window of one
  tick, two ticks. The limit is reached, and so is a restart after the window has passed.
- `EmtaskPanel`: three configurations (a task that moves to another port, and one with two addresses
  that wants that port), two requests, one stop, three places in the pool (one more than there are tasks at
  first, so that the pool is used up and is not), one contested endpoint. The number of clients has no bound.
- `Wire`: base 8 with two digits, texts and blobs of at most one byte, lists of at most two names, integers of
  two digits, one number of each width with different digits, three lists of names, of which the last two
  are the languages, one fault. The theorems are for all of them.
- `ServerProgram`: two connections, two threads, three users (root and two that only wildcards tell
  apart) and a name longer than its C string, eleven files, two changes.
- `Screen`: three rows of two columns or two of three; a screen with text, the cursor anywhere and any region at
  first; five bytes, which is a control sequence with its second number; an `int` of four bits, so that "9"
  is too large for it; tab stops every two columns; reads of five and eight bytes, of which some end within
  the clearing sequence, some within a line, before, within and behind a line break.

Deadlock is checked where the session must not stop by itself (`SftpChannel`, `Transport`,
`PacketStream`); in the run `wire` a message may end; elsewhere a bounded behaviour legitimately comes to its end.

### Fairness

- `SftpChannel`: the server's thread runs whenever it is not waiting for the network (weak, `Process`); a
  timed out receive is repeated (weak); a message that stays at the head of the stream is eventually
  taken although timeouts may come before it (strong: a poll that finds data returns it). The client
  reads, sends what it has written and opens its window; without that no server could answer.
- `Transport`: weak fairness of the server's calls and of receiving; a receive with nothing to read times
  out; the client reads and answers. Nothing is assumed of what the client sends otherwise.
- `PacketStream`: a read that has bytes returns them, and the network delivers what was written.
- `TerminalChannel`: weak fairness of the server's steps, which are not enabled in the middle of a message;
  nothing of the client or the child.
- `Session`: weak fairness of the server's step unless it is held in the middle of a message: between
  messages each receive has a timeout, so a message, a timeout or a broken connection comes.
- `EmtaskSession`: weak fairness of the monitor thread (capturing output, the watchdog) and of each
  worker's steps that do not wait for the client, unless the client holds it in the middle of a message. The
  pump and the look at the child's exit come after every receive, so they are taken (strong) also when the
  client begins one message after the other.
- `EmtaskPanel`: weak fairness of the second step of a request and of each listener thread. Nothing makes a
  session end, a client leave, another program release its port or a stopped process start again.
- `Screen` (`screen_tab`): weak fairness of the tab loop, which runs on its own, and strong fairness of the
  attach: a thread that waits for a lock that is free again and again gets it.

## 4. Proofs

Eight modules prove the invariants of the state machines, three action properties and one refinement, for
every value of the constants that the assumptions of the modules admit. `Session_proofs` holds those about
`ServerProgram` and `ConfigFile` too, `EmtaskSession_proofs` those about `Screen`, `Wire_proofs` those about
`Wire` and `PacketStream`.

| Theorem | States |
|---|---|
| `SftpChannel_proofs!TypeCorrect` | `Spec => []TypeOK`; the reassembly buffer never overflows |
| `SftpChannel_proofs!PeerWindowSafe` | `Spec => []PeerWindowRespected` |
| `SftpChannel_proofs!ConformingClientSafe` | `Spec => []ConformingClientAccepted` |
| `SftpChannel_proofs!ResponseOrder` | `Spec => []ResponsesInOrder` |
| `Wire_proofs!FrameSafe` | `Spec => []InFrame` (`PacketStream`) |
| `Wire_proofs!FalseAlarmSafe` | `Spec => []NoFalseAlarm` (`PacketStream`) |
| `Wire_proofs!UnderstoodSafe` | `WireSpec => []Understood` |
| `Wire_proofs!CanonicalSafe` | `WireSpec => []Canonical` |
| `Wire_proofs!SameChoiceSafe` | `WireSpec => []SameChoice` |
| `TerminalChannel_proofs!HonestSafe` | `Spec => []HonestNotRejected` |
| `TerminalChannel_proofs!ExitReportSafe` | `Spec => []ExitReported` |
| `TerminalChannel_proofs!OutputImplementsStream` | `Spec => OutputIsStream`: the output implements `Stream` |
| `Transport_proofs!KeysSafe` | `Spec => []KeysInStep` |
| `Transport_proofs!StagesSafe` | `Spec => []StagesProtected` |
| `Transport_proofs!QuietSafe` | `Spec => []QuietDuringExchange` |
| `Session_proofs!ProvenUsersSafe` | `Spec => []OnlyProvenUsers` |
| `Session_proofs!NothingLeftSafe` | `Spec => []NothingLeft` |
| `Session_proofs!OneReplySafe` | `Spec => []OneReplyEach` |
| `Session_proofs!SlotsExactSafe` | `ProgramSpec => []SlotsExact` |
| `Session_proofs!ReadAsWrittenSafe` | `ProgramSpec => []ReadAsWritten` |
| `Session_proofs!AdmittedAsWrittenSafe` | `ProgramSpec => AdmittedAsWritten` |
| `SftpServer_proofs!HandlesSafe` | `Spec => []HandlesExact` |
| `SftpServer_proofs!WritesSafe` | `Spec => []AckedHeld` |
| `SftpServer_proofs!ReadOnlySafe` | `Spec => []ReadOnlyKept` |
| `EmtaskSession_proofs!OneSessionSafe` | `Spec => []OneSession` |
| `EmtaskSession_proofs!RestartSafe` | `Spec => []RestartBounded` |
| `EmtaskSession_proofs!ReplaySafe` | `Spec => []ReplayExact` |
| `EmtaskSession_proofs!OnScreenSafe` | `ScreenSpec => []OnScreen` |
| `EmtaskSession_proofs!OutsideSafe` | `ScreenSpec => OutsideKept` |
| `EmtaskPanel_proofs!SessionsSafe` | `Spec => []SessionsHaveTask` |
| `EmtaskPanel_proofs!StoreSafe` | `Spec => []StoreExact` |
| `EmtaskPanel_proofs!RestartLoadsSafe` | `Spec => []RestartLoads` |

The bounds of the runs (`MaxOutput`, `MaxQueue`, `MaxKex`, `MaxTime` and the like) are constants too, so
the theorems hold with any of them. The assumptions on constants:
- `SftpChannel`: lengths and windows are naturals, the receive window and the length field are not empty,
  a request is at least as long as its length field, responses are not empty, the initial window fits 32
  bits. `PacketStream`: a packet is longer than its first read. `TerminalChannel`: windows and the buffer
  are not empty, the initial window fits 32 bits.
- `Transport`: sequence numbers have two values at least, the limit that starts a re-exchange can be counted
  to, the limits on lines, skipped packets and tries are not 0.
- `Session`: there is a configuration, root is a user, a user's name is its own C string and every name has
  one, the limits of the loops are not 0.
- `StdioFs`, `SftpServer`: an id of a stream or an inode is not 0, a file can hold a byte, a table a handle,
  a handle a number.
- `EmtaskTerm`, `EmtaskSession`: the ring of the replay holds a byte, the rest are naturals; `NoWorker` is
  no worker, the clients that may ask for SFTP are workers' clients.
- `EmtaskPanel`: a task has an address, there is a slot and a place in the pool, and (`StoredAssumption`) the
  tasks a run starts from, finitely many, pass the checks of `emtask_load_config`: a process that is up
  has loaded them.
- `ServerProgram`: finitely many connections, a place in the pool, `CliPassword` one of its three values, the
  addresses of both ends without a star (`ProgramAssumption`); a file is a sequence of lines of the kinds that the
  reading of a line makes, its patterns are texts (`FilesAssumption`).
- `Wire`: a byte has more than 7 values, so that the model's codes are bytes; there is a digit and a byte
  of an integer; the buffer holds a frame's length, and its size, a raw integer and the flags fit the
  length field (`SizesAssumption`: `ssh_buffer_put_string` and `packet_finish` refuse more); the values to
  be written fit their fields, the lists offered are valid lists, faults are bytes (`ValuesAssumption`).
- `Screen`: a window size has a row and a column, tab stops are apart, the first screen has the first size
  (`ScreenAssumption`); nothing about what a number too large for an `int` becomes. `SnapshotAssumption`, that
  a size is an `int` and a read takes a byte, is used by the run only.

**SftpChannel.** The properties are about messages on the wire and about the client's view, while the
code decides from its own counters, so none of them is inductive. `IInv` ties the two together. A
message carries `at`, its sender's stream position, and `lim`, the position its sender allows the
other end; along each queue they form chains:
- `AtChain`: the data in flight follows without gap on what the receiver has taken. For the client
  that is `got`, and the chain ends at `SentPos`, where the server believes it has sent to; for the
  server it is `Received`, and the chain ends at `sent` (`RequestStream`).
- `PeerCredit`: what the server believes it may send up to (`PeerLimit`), plus the grants in flight,
  is at most `recv_limit`, what the client has granted. Saturation only lowers it.
- `ServerCredit`: what the client believes it may send up to (`send_limit`), plus the adjustments in
  flight to it, is at most `ServerLimit`, so a client within its limit is within the server's window;
  `Trust` says that a client that is not `rogue` is within its limit.
- `ResponseShape`: a cached response ends at `produced` and is never there while the parser or the
  chunk loop runs; a response in the chunk loop fits what is left of the window.
The parts but the first hold while the session runs: an error may cut it off between two chunks.
The fields carry the sums over the queues, so that no recursive operator is needed.

**PacketStream.** `IInv` adds to the two properties that the packets written have lengths of `PacketLens`
(`PacketsWellFormed`), and that each read asks for its part of the packet it is in, the first block
or exactly the rest (`AsksForThePart`): without it a read could end at another place than the packet.

**Wire.** `Understood` and `Canonical` speak of the end of a message, `WireInv` of every moment on the way to
it. Two sequences describe the way: `Path`, what is still to come after each field, and `Layout`, where each
field ends in the bytes. While a message is written (`Writing`), `sent` goes along a path to `todo` and its
layout fills `buf`; once it is finished (`Complete`), the frame's length is the length that follows it. While one
is read (`Decoding`), what is in `got` is laid out over what was read, damaged or not; when it arrived as it
was (`Following`), `got` is the beginning of `sent`, at the same place of its path and of its layout. The facts
about single fields carry the rest; those about loops over digits and fields are inductions over the position
by minimal counterexample (`RoundByRound`, as under ServerProgram below):
- `NumberOfDigits`, `DigitsOfNumber`: shifting and adding up are inverse, for every width and base.
- `MpintBack`: an integer written without its leading zeros, and with one in front of a top bit, is read back.
- `ReadAgain`: whatever the bytes, a field that is accepted is the encoding of the value that was read.
- `ReadBack`: a field read where it was written takes exactly its bytes, has its value and passes its checks,
  unless it is an attribute flag that is not supported.
- `Shaped`: what follows from what was read keeps its order (what takes all the rest is last, a refused
  request comes right after its want_reply), so that an unknown request type is refused and not an error.
The choice of an algorithm rests on `FirstCommon`: over lists in the same order, the first name of one that
is in the other is the same from both sides.

**TerminalChannel.** Again the client's view and the server's counters are apart by what is in flight, and
here the messages carry no positions. `Fits(q, type, low, high)` says that whoever starts at `low` and adds
the amounts of the messages of one type in `q` ends at `high` or below; the sums are the values of a
function on the places between messages, which the lemmas extend at one end and cut at the other. With
it `InputCredit` says that what the client has sent is within what the server has taken plus its window,
and `OutputCredit` that what the server may still send is within what the client has granted. Both hold
while the session listens, when CLOSE has not been sent; `AllSent` says what a message in flight tells
of its sender. The refinement follows from `OutputCredit`: each step that moves `out_pos` is a send of
`Stream`, each that grants, produces or closes is the corresponding one, and all others stutter.

**Transport.** Whether the next packet passes the check depends on every packet before it. `Links` says that
the first packet of a stream fits the receiver's key and sequence number, each one the state its
predecessor leaves, and that the last leaves the sender's state; a NEWKEYS changes the key on the way. For
that to survive a NEWKEYS, both ends must mean the same exchange: `Table` lists, for each place of the
server in an exchange, where the client can be and which messages of the exchange are then under way, also
when a re-exchange was given up on a timeout; `Names` and `SameSession` say which exchange the names on both
sides stand for, and `Lines` that the plain lines are all before the packets. Each step of the two ends is
first shown to be one of a few `Moves`; each part is then kept by every move.

**Session.** The three properties have invariants of their own over the common `StageInv`. `HandleInv`: outside
a running stage nothing is held. `ReplyInv`: nothing is owed before the first channel request, and as long
as the connection works a turn of a loop settles what it takes up. `StepMoves` sorts the steps by how
they change the stage; authentication ends in success only with a right proof (`SuccessProves`).

**SftpServer and StdioFs.** `FsInv`: every stream honours what was answered through it (`Honoured`: in the
buffer or in the file, and the buffer is not older than what was answered), and every file what was
promised (`Vouches`). That the buffer is not older is what makes it inductive: a flush must not put an old
write over a newer one. Each call of the library is shown to be a `Change` that keeps `FsInv`. For the
handles the OPEN in progress counts as place 0 of its session. `RefInv`: no two places refer to one stream
(`Distinct`), the open streams are those referred to (`Exact`), each of the kind its place says (`Fitting`).
A step leaves the places as they are, takes a stream, releases one or passes one from the OPEN to its handle.
`Numbers`: the ids in use are below the next one until it wraps, so a handle that was given is not taken for
another. `Reading`: a read-only session is never about to create or to empty, and with `Fitting` its streams
have nothing to write; so none of its steps changes a name or contents.

**EmtaskSession.** `SessionInv`: a worker between accept and the end of detach is the active one, and the
terminal is attached while one has it. `RestartInv`: the history is the end of the list of all restarts, and
what it has lost has left the window (`LostFirst`). `RingInv`: the ring holds the last `replay_len` bytes in
order, also across its end, and what a session was given stops where its replay goes on (`Given`).

**EmtaskPanel.** `LockInv` says what `task_lock` keeps between the two steps of a request: the slot it found
unused is still unused, the task it replaces or deletes is there and has no session. `StoreInv`: the stored
rows are apart and loadable (`RowsInv`), and the tasks that outlast the request in progress are those of the
file and of the rows it does not write (`TableInv`), which holds in the middle of a request and after a
stop there.

**ServerProgram and ConfigFile.** `SlotInv` adds to `SlotsExact` that the loop starts a thread only for a
connection it has accepted and that has none: otherwise a start would count a slot and leave the number of
threads. `PolicyInv`: each thread that runs has a configuration, which comes from the one the program
started with. The rest is about what two loops compute, for every file and name. An induction over data is
out of reach as a theorem with an operator parameter, so it is done by minimal counterexample: `RoundByRound`
says of any set of round numbers, that 0 is in it and each next one is, and takes the least number not in
it from the order on the naturals being well founded; each use defines its set.
- `ScanInv`, after each round of the matching loop: since the last star no other star was passed, and as many
  characters of the pattern as of the name; the pattern is like the name exactly when what is left of it is
  like what is left of the name, here or with the last star taking more. That only the last star need be
  remembered is the point of the algorithm and rests on `LikeSegment`. `Left` drops
  in every round, so that the loop has ended after `Turns` rounds. It gives `WildcardsExact`: for a name
  without a star `pattern_matches_wildcards` is `Like`.
- From it, that a list of patterns with negated ones, a criterion and a whole Match line hold exactly when
  written so (`PicksExact`, `CriterionExact`, `ExpressionExact`).
- `ReadInv`, after each line: the next line counts exactly when it is in force, and each directive has the
  last value in force so far. It gives `LoadExact`, and with `PolicyInv` the two theorems: what
  `ssh_sshd_config_file_apply` and the command line make of the file at the moment of the login refuses whom
  the file refuses.

**Screen.** `ScreenInv` adds to `OnScreen`, as long as no number was too large for an `int`, the shape of the cells (a row for each line, a cell for each column)
and of the escape state. Each piece of the emulator (erasing, inserting, scrolling, a control sequence, a
character, a tab, a new size) is shown to keep it and to be `Kept`, which is the action property of that piece.

Model-checked only:
- Liveness (`AnsweredUnlessFlushSkipped`, `ExchangeSettles`, `ArrivedDecoded`, `ExitNoticed`, `CloseEnds`,
  `StuckOnlyByProbes`, `ChildComesBack`, `Served`): the prover does not handle fairness and `ENABLED`.
- `SnapshotShown` of `Screen`: a text written from the cells by one automaton is played back on another; the
  invariant would have to follow both through every cell and attribute.
- `SnapshotSent` and `SentOnceWindowOpens`, which are violated (section 5).

## 5. Findings and known behaviours

### Findings

**A tab can stop a task for ever** (`APP/emtask/emtask.c:6794`). The tab loop puts spaces until the
cursor has reached the next stop. In the last column a character only marks the line as wrapped and the
next one begins at column 0, so a stop at or beyond the last column is never reached: with 80 columns,
every tab from column 72 on. The loop runs under `term->lock`, so nobody can attach, read or write.
`APP/emtask/README.md:141` promises the snapshot of the current screen to a new connection. Run
`screen_tab` shows a client that waits for ever; the other properties of `Screen` are checked in `screen`.

**A cached response may stay in the cache although the window is open** (`src/core/ssh_server.c:1458`). On
WINDOW_ADJUST the handler adds the credit and returns before the flush when no request byte is buffered, the
normal case for a client that waits for its answer. `Doc/ssh_server-代码说明书.html:2737` says that the run loop
waits for a WINDOW_ADJUST and that the response is sent then. Run `sftp_flush` shows a response that is never
sent; the client's next request byte would set it going, and `AnsweredUnlessFlushSkipped` in `sftp_channel`
shows that nothing else holds an answer up.

### Known behaviours

What the models show of the code without contradicting a promise the runs check:

- **A timeout inside a re-exchange ends the session later** (`src/core/ssh_transport.c:1456`). The wait
  uses the timeout of the interrupted call, 50 ms on a terminal channel; the loop takes it for an idle
  channel and then meets the rest of the exchange as channel messages.
- **A client that stops in the middle of a message holds its session** (`src/core/ssh_transport.c:265`). Once a
  byte has been read a timeout makes `net_read_exact` read again, so neither the timeouts of the stages nor the
  poll of the channel loops come to anything: authentication has no limit, a child's exit is not noticed, and
  in emtask the watchdog leaves the attached terminal alone (`APP/emtask/emtask.c:6229`).
- **A name is checked as counted text and used as a C string** (`src/core/ssh_userauth.c:171`,
  `src/core/ssh_server.c:140` and `912`, `APP/emsshd/Linux/linux_posix_stdio_server.c:932`). The two differ for
  a name with a zero byte in it; the properties about users say which of the two they speak of.
- **A timeout between the two reads of a packet loses the place** (`src/core/ssh_transport.c:1382`).
- **0 from `net->read` is the end of the stream** (`src/core/ssh_transport.c:262`), while line 66 of
  `Doc/Plan/sshd_platform_api_implementation_details.md` has an adapter return 0 on a timeout. The
  adapters of the repository return `EMSSH_NET_IO_TIMEOUT`; `TimeoutIsZero` selects the other reading.
- **Output may be lost at exit** (`src/core/ssh_server.c:2144`). The exit status follows the first read
  that finds nothing, or a window that is used up, once the child is gone; what it wrote in between is
  not sent. The client's EOF (line 2438) is not passed on to the child, and input the terminal does not
  take at once (line 2483) is dropped.
- **Creating is not exclusive** (`src/platform/stdio_fs.c:383-408`): two sessions may both find no file,
  and the second `fopen` truncates what the first has written.
- **A flush that fails may drop what was acknowledged** (`src/platform/stdio_fs.c:432,555,576`). The request that
  had it flushed is answered with an error, but when the C library has dropped the data the CLOSE after it is
  answered OK.
- **A leaked attachment** (`APP/emtask/emtask.c:7589`): when CHANNEL_SUCCESS fails after the attach, the
  terminal stays attached and the watchdog leaves a dead child to the session that is gone.
- **A `restart_limit` above 64 is no limit** (`APP/emtask/emtask.c:6054`): the history holds 64 entries.
- **A stored row whose task does not start** (`APP/emtask/emtask.c:5028-5047`) stays in the database; a
  listener that waits in `select()` still holds the port when the task is changed and bound again.
- **A listener keeps a place of the pool while it waits** (`APP/emtask/emtask.c:7800`): with fewer places
  than listeners, or with sessions that do not end, a task is not served. Each poll of several listeners starts
  with the first one (5829), so a busy one delays those behind it. `Served` names both.
- **Match on Group and RDomain** is accepted (`src/platform/sshd_config_file.c:300`) and compared with nothing,
  since the program fills neither in; of `user@host` in AllowUsers the host is ignored
  (`APP/emsshd/Linux/linux_posix_stdio_server.c:912`).
- **A line taken out of the file** keeps the effect it had when it was last read
  (`APP/emsshd/Linux/linux_posix_stdio_server.c:1064`), since a reading only sets what it finds.
- **A star in a name is taken for the star of a pattern** (`src/platform/sshd_config_file.c:106`). The loop
  compares a character of the pattern with one of the name before it asks whether it is a star, so a star
  that meets a star is spent on it and not remembered: `*ab` does not match `*xab`. `AllowUsers` is matched
  with the same kind of loop. For all other names the loop is proved exact (`WildcardsExact`).
- **The server's order decides the algorithm** (`src/core/ssh_kex.c:88`), and a client decides by its own:
  the two agree when the orders do.
- **A snapshot read that ends right after a line break repeats it** (`APP/emtask/emtask.c:6835-6843`): the
  offset does not count line breaks, so the rows below come one line too low. `SnapshotShown` is checked with
  such reads and names them (`doubled`).
- **A client's window size does not change the screen at attach** (`APP/emtask/emtask.c:6957`): the task is told
  the new size, the snapshot is that of the old one.
- **The number of a control sequence may exceed an `int`** (`APP/emtask/emtask.c:6455`), which is undefined; a
  negative one takes the cursor off the screen (6644, 6653). The properties hold until then.

## 6. Not modelled

- Crypto backends: wrappers of third-party libraries; keys are abstracted to the exchange.
- The sending half of the byte stream: `net_write_all` and what a write that fails half way leaves behind
  (`src/core/ssh_transport.c:1312`).
- Path normalisation and attribute contents of the SFTP server; the portable, FatFs and littlefs
  adapters, whose behaviour is that of libraries outside the repository's own code.
- `platform/window_term.c` and the Windows sides of emtask: other system calls behind the same contract.
- Runtimes, random sources, `lwip_net.c`: wrappers of single calls.
- Command lines, HTTP and JSON parsing and login of the panel, the Flutter client.
- Examples (`concurrent_server.c` among them): wiring; the pools of the two programs are modelled.
- `Libs/`: vendored code.

## 7. Plan

1. Proofs: `SnapshotShown` of `Screen`, by the method of `Wire_proofs`; `SftpChannel` as an implementation of
   `Stream` (item 3) on the credit invariants.
2. The sending half of `PacketStream`: `net_write_all`, a failed write whose status is discarded
   (`src/core/ssh_server.c:1010`), and the sequence number after it.
3. `SftpChannel` as an implementation of `Stream` in both directions.
4. Path normalisation against a reference definition.
5. `window_term.c` behind `TerminalChannel`; the pool of `examples/concurrent_server.c`.
