---------------------------- MODULE ServerProgram ----------------------------
(***************************************************************************)
(* The Linux server program (linux_posix_stdio_server.c): it reads the     *)
(* configuration file at start, then again, with what is known of the      *)
(* connection, for every connection, and once more, with the user's name,  *)
(* for every attempt to log in. One thread accepts connections, a bounded  *)
(* pool of threads runs a session each. The administrator may change the   *)
(* file at any time.                                                       *)
(***************************************************************************)
EXTENDS ConfigFile, FiniteSets

CONSTANTS MaxWorkers,    \* --max-workers
          Clients,       \* connections
          Names,         \* names clients log in with: counted, any character in them
          OddCharacters, \* all but letters, digits, "_", "-" and "."
          RootName,      \* the name "root"
          Address,       \* the address clients come from
          LocalAddress,  \* the address they connect to
          Files,         \* contents the administrator may give the file
          KeyFiles,      \* the key files there are: their lines, by path
          UserKeys,      \* keys a client may hold
          HostKeyFiles,  \* paths of files with a private key that can be used
          MaxEdits,      \* bound on the number of changes to the file
          CliPassword,   \* --password-authentication, or Unset
          CliRoot        \* --permit-root-login, or Unset

None == "none"
Nul == "nul"  \* the character that ends a C string

\* A text up to the first place where it has character ch.
Before(text, ch) ==
    LET at == {i \in 1..Len(text) : text[i] = ch}
    IN  IF at = {} THEN text
        ELSE SubSeq(text, 1, (CHOOSE i \in at : \A j \in at : i <= j) - 1)

\* copy_username_request_local: the name, when the copy is read as a C string.
Text(name) == Before(name, Nul)

ASSUME ProgramAssumption ==
    /\ MaxWorkers \in Nat \ {0} /\ MaxEdits \in Nat /\ IsFiniteSet(Clients)
    /\ CliPassword \in {Unset, "yes", "no"} /\ Unset # "no"
    /\ CliRoot \in {Unset, "yes", "no", "prohibit-password"}
    /\ \A name \in Names : Len(name) \in Nat /\ Len(Text(name)) \in Nat
    /\ Len(Address) \in Nat /\ Plain(Address)
    /\ Len(LocalAddress) \in Nat /\ Plain(LocalAddress)

\* What a file may hold. Only lines of these kinds come out of the reading;
\* a pattern is a text.
ASSUME FilesAssumption ==
    \A f \in Files \ {Missing} :
        /\ Len(f) \in Nat /\ DOMAIN f = 1..Len(f)
        /\ \A i \in 1..Len(f) :
            /\ f[i].k \in {"other", "empty", "match", "set"}
            /\ f[i].k = "set" /\ f[i].key = "allow" =>
                   \A n \in DOMAIN f[i].v : Len(Before(f[i].v[n], "@")) \in Nat
            /\ f[i].k = "match" =>
                   \A n \in DOMAIN f[i].criteria :
                       f[i].criteria[n].key \in TextCriteria =>
                           \A j \in DOMAIN f[i].criteria[n].list :
                               Len(f[i].criteria[n].list[j].pat) \in Nat

VARIABLES file,     \* the configuration file
          edits,    \* changes made to it
          program,  \* "off", "up", "exited"
          base,     \* shared->base_server_config
          loop,     \* the accept loop: "reserve", "accept", "start"
          taken,    \* the client whose connection the loop has accepted
          active,   \* pool->active_workers
          client,   \* client[c]: "out", "waiting", "accepted", "gone"
          worker    \* worker[c]: the thread of c's session

programVars == <<file, edits, program, base, loop, taken, active, client, worker>>

\* A session's thread: what it does, its configuration, the name that logged in, as
\* it was sent, and by what.
NoWorker == [at |-> "none", config |-> None, user |-> << >>, by |-> None]
Running == {c \in Clients : worker[c].at # "none"}

-----------------------------------------------------------------------------
(* Policy.                                                                 *)

\* apply_cli_auth_overrides comes last.
Overridden(server) ==
    [server EXCEPT
        !.password = IF CliPassword = Unset THEN @ ELSE CliPassword = "yes",
        !.root = Over(CliRoot, @)]

Defaults == [listen |-> Unset, tries |-> 3, password |-> TRUE, pubkey |-> TRUE,
             root |-> Unset, allow |-> Unset, keysfile |-> Unset]

\* initialize_server_templates: the methods the file does not switch off.
Template(c) == Overridden(ssh_sshd_config_file_apply(c, Defaults))

\* fill_match_context_local: the host is the address; neither the group nor the
\* routing domain is filled in.
Context(user) == [User |-> user, Group |-> << >>, Host |-> Address,
                  Address |-> Address, LocalAddress |-> LocalAddress,
                  LocalPort |-> 22, RDomain |-> << >>]

\* AllowUsers: a list of patterns, matched against the counted name. Of
\* user@host only the user counts; a pattern with no user is passed over.
UserPart(token) == Before(token, "@")

UserAllowed(allow, name) ==
    allow # Unset =>
        /\ name # << >>
        /\ \E i \in DOMAIN allow :
              /\ UserPart(allow[i]) # << >>
              /\ pattern_matches_wildcards(UserPart(allow[i]), name)

RootAllows(mode, name, method) ==
    name = RootName => CASE mode = "no"  -> FALSE
                     [] mode = "yes" -> TRUE
                     [] OTHER        -> method # "password"

Offered(server, method) ==
    IF method = "password" THEN server.password ELSE server.pubkey

Permits(server, name, method) ==
    /\ Offered(server, method)
    /\ UserAllowed(server.allow, name)
    /\ RootAllows(server.root, name, method)

\* Faulty variant: the policy of the connection is kept.
PolicyOfSession(session, user) == [ok |-> TRUE, server |-> session]

\* load_runtime_policy_for_user: the file is read again.
PolicyFor(session, user) ==
    LET r == Load(file, Context(user))
    IN  [ok |-> r.ok,
         server |-> Overridden(ssh_sshd_config_file_apply(r.config, session))]

-----------------------------------------------------------------------------
(* Authorized keys. A path is a sequence of names; a path in the file may  *)
(* hold %u (the user), %h (the home directory) or an unknown escape.       *)

Home(user) == IF user = RootName THEN <<"root">> ELSE <<"home", user>>

DefaultKeysFile == <<[abs |-> FALSE, parts |-> <<"keys">>],
                     [abs |-> FALSE, parts |-> <<"keys2">>]>>

\* username_is_safe_for_path
SafeForPath(user) ==
    user # << >> /\ \A i \in 1..Len(user) : user[i] \notin OddCharacters

\* expand_authorized_keys_template
ExpandedPart(part, user) ==
    CASE part = "%u" -> <<user>>
      [] part = "%h" -> Home(user)
      [] OTHER       -> <<part>>

Expands(token) == "%?" \notin Range(token.parts)

Expanded(token, user) ==
    LET path == FlattenSeq([i \in DOMAIN token.parts |->
                               ExpandedPart(token.parts[i], user)])
        \* "%h" in front makes the path absolute
    IN  IF token.abs \/ Head(token.parts) = "%h" THEN path
        ELSE Home(user) \o path

\* line_publickey_blob_matches_request: a comment, or a line with no known
\* algorithm or no readable key, matches nothing.
LineHolds(line, key) == line = [k |-> "key", key |-> key]

\* authorized_keys_file_contains_key reads line by line up to a match or a
\* line that does not fit; a file that is not there holds nothing.
ContainsKey(path, key) ==
    /\ path \in DOMAIN KeyFiles
    /\ \E i \in DOMAIN KeyFiles[path] :
        /\ LineHolds(KeyFiles[path][i], key)
        /\ \A j \in 1..(i - 1) : KeyFiles[path][j].k # "long"

\* publickey_authorized_by_path_list: a path that cannot be expanded, or a
\* file that cannot be read, is passed over.
AuthorizedBy(list, user, key) ==
    \E i \in DOMAIN list :
        Expands(list[i]) /\ ContainsKey(Expanded(list[i], user), key)

KeysFileOf(server) ==
    IF server.keysfile = Unset THEN DefaultKeysFile ELSE server.keysfile

-----------------------------------------------------------------------------
ProgramInit ==
    /\ file \in Files /\ edits = 0
    /\ program = "off" /\ base = None
    /\ loop = "reserve" /\ taken = None /\ active = 0
    /\ client = [c \in Clients |-> "out"]
    /\ worker = [c \in Clients |-> NoWorker]

\* prepare_mbedtls_hostkey_if_needed: the key of the file the configuration
\* names, or a new one.
HostKeyReady(c) == c.hostkey = Unset \/ c.hostkey \in HostKeyFiles

\* main up to listen(): the adapters, the configuration, the host key and
\* the socket; any failure ends the program.
StartProgram ==
    /\ program = "off"
    /\ LET r == Load(file, NoContext)
       IN  \E rest \in BOOLEAN :
            IF r.ok /\ HostKeyReady(r.config) /\ rest
            THEN program' = "up" /\ base' = Template(r.config)
            ELSE program' = "exited" /\ UNCHANGED base
    /\ UNCHANGED <<file, edits, loop, taken, active, client, worker>>

\* worker_pool_reserve_slot waits until a slot is free.
Reserve ==
    /\ program = "up" /\ loop = "reserve" /\ active < MaxWorkers
    /\ active' = active + 1 /\ loop' = "accept"
    /\ UNCHANGED <<file, edits, program, base, taken, client, worker>>

\* worker_pool_release_slot
Released == IF active > 0 THEN active - 1 ELSE 0

Accept(c) ==
    /\ loop = "accept" /\ client[c] = "waiting"
    /\ client' = [client EXCEPT ![c] = "accepted"]
    /\ taken' = c /\ loop' = "start"
    /\ UNCHANGED <<file, edits, program, base, active, worker>>

AcceptFails ==
    /\ loop = "accept"
    /\ active' = Released /\ loop' = "reserve"
    /\ UNCHANGED <<file, edits, program, base, taken, client, worker>>

StartWorker ==
    /\ loop = "start"
    /\ worker' = [worker EXCEPT ![taken].at = "start"]
    /\ loop' = "reserve" /\ taken' = None
    /\ UNCHANGED <<file, edits, program, base, active, client>>

\* Faulty variant: the slot stays taken.
StartWorkerFailsHolding ==
    /\ loop = "start"
    /\ client' = [client EXCEPT ![taken] = "gone"]
    /\ loop' = "reserve" /\ taken' = None
    /\ UNCHANGED <<file, edits, program, base, active, worker>>

\* No memory for the task, or no thread: the connection is closed.
StartWorkerFails ==
    /\ loop = "start"
    /\ client' = [client EXCEPT ![taken] = "gone"]
    /\ active' = Released /\ loop' = "reserve" /\ taken' = None
    /\ UNCHANGED <<file, edits, program, base, worker>>

\* run_worker_session: the file is read for this connection; the
\* cryptography or the server may fail to start.
RunSession(c) ==
    /\ worker[c].at = "start"
    /\ LET r == Load(file, Context(<< >>))
       IN  \E rest \in BOOLEAN :
            worker' = [worker EXCEPT ![c] =
                IF r.ok /\ rest
                THEN [@ EXCEPT !.at = "session",
                               !.config = Overridden(
                                   ssh_sshd_config_file_apply(r.config, base))]
                ELSE [@ EXCEPT !.at = "end"]]
    /\ UNCHANGED <<file, edits, program, base, loop, taken, active, client>>

\* A request to log in: the server's own policy check with the
\* configuration of the connection, then linux_password_auth_cb or
\* linux_publickey_auth_cb with that of the user, then the password file
\* (Session) or the authorized keys. The policy is compared with the name as
\* it was sent; Match, the key files and the account go by the C string.
Admits(c, name, proof) ==
    /\ name # << >>
    /\ Permits(worker[c].config, name, proof.method)
    /\ LET p == PolicyFor(worker[c].config, Text(name))
       IN  /\ p.ok /\ Permits(p.server, name, proof.method)
           /\ proof.method = "publickey" =>
                  /\ SafeForPath(Text(name))
                  /\ AuthorizedBy(KeysFileOf(p.server), Text(name), proof.key)

\* What a client may prove: that it knows the password or holds a key.
Proofs == {[method |-> "password", key |-> None]}
          \cup {[method |-> "publickey", key |-> k] : k \in UserKeys}

LogIn(c, name, proof) ==
    /\ worker[c].at = "session" /\ worker[c].user = << >>
    /\ Admits(c, name, proof)
    /\ worker' = [worker EXCEPT ![c].user = name, ![c].by = proof]
    /\ UNCHANGED <<file, edits, program, base, loop, taken, active, client>>

EndSession(c) ==
    /\ worker[c].at = "session"
    /\ worker' = [worker EXCEPT ![c].at = "end"]
    /\ UNCHANGED <<file, edits, program, base, loop, taken, active, client>>

\* worker_main: the connection is closed and the slot given back.
WorkerEnds(c) ==
    /\ worker[c].at = "end"
    /\ worker' = [worker EXCEPT ![c] = NoWorker]
    /\ client' = [client EXCEPT ![c] = "gone"]
    /\ active' = Released
    /\ UNCHANGED <<file, edits, program, base, loop, taken>>

\* The world outside.
Connect(c) ==
    /\ program = "up" /\ client[c] = "out"
    /\ client' = [client EXCEPT ![c] = "waiting"]
    /\ UNCHANGED <<file, edits, program, base, loop, taken, active, worker>>

Edit ==
    /\ edits < MaxEdits
    /\ \E f \in Files \ {file} : file' = f
    /\ edits' = edits + 1
    /\ UNCHANGED <<program, base, loop, taken, active, client, worker>>

ProgramNext ==
    \/ StartProgram \/ Reserve \/ AcceptFails \/ StartWorker \/ StartWorkerFails \/ Edit
    \/ \E c \in Clients :
        \/ Accept(c) \/ RunSession(c) \/ EndSession(c) \/ WorkerEnds(c)
        \/ Connect(c)
        \/ \E name \in Names, proof \in Proofs : LogIn(c, name, proof)

ProgramSpec == ProgramInit /\ [][ProgramNext]_programVars

-----------------------------------------------------------------------------
(* Properties.                                                             *)

\* A slot of the pool is held by a running session or by the accept loop
\* and by nothing else, through every failure between accept() and the end
\* of the thread: the count neither leaks (in the end nobody would be
\* served) nor drops early (more threads than --max-workers).
SlotsExact ==
    active = Cardinality(Running) + (IF loop = "reserve" THEN 0 ELSE 1)

\* The file is read as its documentation has it, for every connection and
\* every user: each directive has the last value given to it outside the
\* Match blocks that do not hold, with negated patterns and wildcards.
\* (ListenAddress may bring a port with it and is left out, and so is a user
\* whose name holds a star: the loop over a pattern takes a star that meets
\* one in the name for that character.)
ReadAsWritten ==
    \A user \in {Text(name) : name \in Names} \cup {<< >>} : Plain(user) =>
        \A ctx \in {NoContext, Context(user)} :
            LET r == Load(file, ctx)
            IN  r.ok => \A key \in Keys \ {"listen", "port"} :
                            r.config[key] = Says(file, ctx, key)

\* What the file says now lets user log in by that proof; earlier is what held
\* for root when the connection came, and holds if the file is silent on it.
WrittenPermits(user, proof, earlier) ==
    LET Now(key) == Says(file, Context(user), key)
        root == Over(CliRoot, Over(Now("root"), earlier))
    IN  /\ Now(IF proof.method = "password" THEN "password" ELSE "pubkey") = "no"
               => proof.method = "password" /\ CliPassword = "yes"
        /\ Now("allow") # Unset =>
               \E i \in DOMAIN Now("allow") :
                   /\ UserPart(Now("allow")[i]) # << >>
                   /\ Like(UserPart(Now("allow")[i]), user)
        /\ user = RootName =>
               /\ root # "no"
               /\ proof.method = "password" => root = "yes"
        /\ proof.method = "publickey" /\ Now("keysfile") # Unset =>
               \E token \in Range(Now("keysfile")) :
                   /\ Expanded(token, user) \in DOMAIN KeyFiles
                   /\ \E line \in Range(KeyFiles[Expanded(token, user)]) :
                          LineHolds(line, proof.key)

\* A name that is its own C string and has no star in it.
Ordinary(name) == Text(name) = name /\ Plain(name)

LogInStep ==
    \A c \in Clients :
        /\ worker[c].user = << >> /\ worker'[c].user # << >>
        /\ Ordinary(worker'[c].user)
        => WrittenPermits(worker'[c].user, worker'[c].by, worker[c].config.root)

\* Nobody with an ordinary name logs in by a method, or under a name, that
\* the file refuses at that moment to that user from that address, unless
\* the command line says otherwise, nor root by a password that
\* PermitRootLogin prohibits, by its word or by default, nor anybody with a
\* key that is in none of the files it names for that user at that moment:
\* not by an older version of the file, and not by the version read for the
\* connection before the user was known. (A line that is taken out of the
\* file while the program runs is another matter: what was read at the start,
\* or for the connection, stays. A name that is longer than the C string it
\* is read as is left out: AllowUsers and PermitRootLogin are compared with
\* the whole of it, everything else with the C string.)
AdmittedAsWritten == [][LogInStep]_programVars
=============================================================================
