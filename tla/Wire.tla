-------------------------------- MODULE Wire --------------------------------
(***************************************************************************)
(* The message codecs: ssh_buffer.c (the bounded writer and reader of      *)
(* numbers, strings and name lists) and the tables of messages built on it *)
(* in ssh_kex.c, ssh_service.c, ssh_userauth.c, ssh_connection.c and       *)
(* sftp.c.                                                                 *)
(*                                                                         *)
(* A message is a sequence of fields, each of a kind; what was read may    *)
(* add fields (a request type, attribute flags, "a signature follows").    *)
(* One encoder writes a message field by field into a buffer of Capacity   *)
(* bytes; the bytes are then delivered as they are, cut short, with a byte *)
(* changed or with a byte added; one decoder reads them field by field.    *)
(* The numbers are written with Word digits of base Base in place of the   *)
(* four bytes of the code; a name the code compares with (a request type,  *)
(* a method, a service) is two bytes that stand for it.                    *)
(***************************************************************************)
EXTENDS Integers, Sequences, FiniteSets, SequencesExt

CONSTANTS Base,         \* values of a byte (256)
          Word,         \* bytes of a uint32 (4)
          FixedLen,     \* bytes of a raw integer of a signature (32)
          Capacity,     \* bytes of the buffer written into
          NameLists,    \* SSH_KEXINIT_NAMELIST_COUNT
          MaxBlob,      \* EMSSH_MAX_KEX_PUBLIC_KEY and the other blob limits
          Uint32s,      \* numbers a message may carry
          Uint64s,
          Texts,        \* strings a message may carry
          Offers,       \* name lists a client may send
          ServerLists,  \* the server's own name lists, one for each index
          FaultBytes    \* values a changed or added byte may take

VARIABLES format,  \* the message being written or read
          mode,    \* "write", "written", "full", "read", "done"
          todo,    \* fields still to be written, or still to be read
          buf,     \* the bytes written so far, then the bytes delivered
          sent,    \* the fields written, with their values
          intact,  \* the bytes were delivered as they were written
          place,   \* bytes read so far
          got,     \* the fields read, with their values
          verdict, \* "none", "ok", "bad", "unsupported"
          chosen   \* what ssh_kex_negotiate selected for each name list

wireVars == <<format, mode, todo, buf, sent, intact, place, got, verdict, chosen>>

-----------------------------------------------------------------------------
(* Numbers and strings.                                                    *)

Byte == 0..(Base - 1)

\* n without its last k digits (value >> 8 * k).
Shifted(n, width) ==
    LET q[k \in 0..width] == IF k = 0 THEN n ELSE q[k - 1] \div Base
    IN  q

Digits(n, width) == [i \in 1..width |-> Shifted(n, width)[width - i] % Base]
Fits(n, width) == n \in Nat /\ Shifted(n, width)[width] = 0

\* The number read after each of the digits.
NumberAfter(s) ==
    LET n[i \in 0..Len(s)] == IF i = 0 THEN 0 ELSE n[i - 1] * Base + s[i]
    IN  n

Number(s) == NumberAfter(s)[Len(s)]

\* ssh_buffer_put_string: the length, then the bytes.
Prefixed(s) == Digits(Len(s), Word) \o s

Stripped(s) ==
    LET nonzero == {i \in DOMAIN s : s[i] # 0}
    IN  IF nonzero = {} THEN << >>
        ELSE SubSeq(s, CHOOSE i \in nonzero : \A j \in nonzero : i <= j, Len(s))

\* Faulty variant: no zero in front of the top bit.
MpintUnsigned(s) == Prefixed(Stripped(s))

\* A positive mpint has no leading zero byte but the one that keeps the
\* top bit of the first byte from being read as a sign.
Mpint(s) ==
    LET t == Stripped(s)
    IN  Prefixed(IF t # << >> /\ t[1] >= Base \div 2 THEN <<0>> \o t ELSE t)

\* Byte values with a meaning in a name list: 0 is not a name character.
COMMA == 1

ValidList(s) ==
    \/ s = << >>
    \/ /\ s[1] # COMMA /\ s[Len(s)] # COMMA
       /\ \A i \in 1..(Len(s) - 1) : ~(s[i] = COMMA /\ s[i + 1] = COMMA)
       /\ \A i \in DOMAIN s : s[i] # 0

\* The names of a list, in order: the n-th ends at the n-th comma.
ListNames(s) ==
    LET commas == {i \in DOMAIN s : s[i] = COMMA}
        Comma(n) == IF n = 0 THEN 0
                    ELSE IF n > Cardinality(commas) THEN Len(s) + 1
                    ELSE CHOOSE i \in commas : Cardinality({j \in commas : j <= i}) = n
    IN  IF s = << >> THEN << >>
        ELSE [n \in 1..(Cardinality(commas) + 1) |->
                 SubSeq(s, Comma(n - 1) + 1, Comma(n) - 1)]

-----------------------------------------------------------------------------
(* The messages. "id" is the message number; the kinds of the other fields *)
(* are explained where they are written and read.                          *)

KexInit == <<"id", "cookie">> \o [i \in 1..NameLists |-> "list"]
                              \o <<"bool", "zero">>
KexEcdhInit == <<"id", "blob">>
KexEcdhReply == <<"id", "blob", "blob", "blob">>
NewKeys == <<"id">>
HostkeySignature == <<"mpint", "mpint">>
UserSignature == <<"fixed", "fixed">>

ServiceRequest == <<"id", "name">>
ServiceAccept == <<"id", "name">>

UserauthRequest == <<"id", "name", "service", "method">>
UserauthFailure == <<"id", "str", "bool">>
UserauthPkOk == <<"id", "name", "name">>
UserauthSuccess == <<"id">>

ChannelOpen == <<"id", "str", "u32", "u32", "u32">>
GlobalRequest == <<"id", "str", "bool", "rest">>
RequestFailure == <<"id">>
OpenConfirmation == <<"id", "u32", "u32", "u32", "u32">>
OpenFailure == <<"id", "u32", "u32", "str", "str">>
ExitStatus == <<"id", "u32", "str", "bool", "u32">>
ChannelSuccess == <<"id", "u32">>
ChannelFailure == <<"id", "u32">>

\* ssh_channel_message_decode: the five messages of an open channel.
CHANNEL_ADJUST == 1
CHANNEL_DATA == 2
CHANNEL_REQUEST == 3
CHANNEL_EOF == 4
CHANNEL_CLOSE == 5
WindowAdjust == <<"u32", "pos">>
ChannelData == <<"u32", "str">>
ChannelRequest == <<"u32", "reqtype", "wish">>
ChannelEnd == <<"u32">>
ChannelMessage == <<"chan">>

SftpInit == <<"id", "u32", "rest">>
SftpPath == <<"id", "u32", "str">>
SftpOpen == <<"id", "u32", "str", "u32", "rest4">>
SftpClose == <<"id", "u32", "str">>
SftpFstat == <<"id", "u32", "str">>
SftpReaddir == <<"id", "u32", "str">>
SftpRead == <<"id", "u32", "str", "u64", "u32">>
SftpWrite == <<"id", "u32", "str", "u64", "str">>
SftpMkdir == <<"id", "u32", "str", "rest4">>
SftpRename == <<"id", "u32", "str", "str">>
SftpSetstat == <<"id", "u32", "str", "attrs">>
SftpFsetstat == <<"id", "u32", "str", "attrs">>
SftpExtended == <<"id", "u32", "str", "rest">>
SftpVersion == <<"id", "u32">>
SftpStatus == <<"id", "u32", "u32", "str", "str">>
SftpHandle == <<"id", "u32", "str">>
SftpData == <<"id", "u32", "str">>
SftpAttrs == <<"id", "u32", "putattrs">>
SftpName == <<"id", "u32", "u32", "str", "str", "putattrs">>

Ssh == [kexinit |-> KexInit, ecdh_init |-> KexEcdhInit,
        ecdh_reply |-> KexEcdhReply, newkeys |-> NewKeys,
        hostkey_signature |-> HostkeySignature,
        user_signature |-> UserSignature,
        service_request |-> ServiceRequest, service_accept |-> ServiceAccept,
        userauth_request |-> UserauthRequest,
        userauth_failure |-> UserauthFailure, pk_ok |-> UserauthPkOk,
        userauth_success |-> UserauthSuccess, channel_open |-> ChannelOpen,
        global_request |-> GlobalRequest, request_failure |-> RequestFailure,
        open_confirmation |-> OpenConfirmation, open_failure |-> OpenFailure,
        exit_status |-> ExitStatus, channel_success |-> ChannelSuccess,
        channel_failure |-> ChannelFailure,
        channel_message |-> ChannelMessage]

\* The messages of SFTP: inside a frame that starts with its length.
Sftp == [init |-> SftpInit, path |-> SftpPath, open |-> SftpOpen,
         close |-> SftpClose, fstat |-> SftpFstat, readdir |-> SftpReaddir,
         read |-> SftpRead, write |-> SftpWrite, mkdir |-> SftpMkdir,
         rename |-> SftpRename, setstat |-> SftpSetstat,
         fsetstat |-> SftpFsetstat, extended |-> SftpExtended,
         version |-> SftpVersion, status |-> SftpStatus,
         handle |-> SftpHandle, data |-> SftpData, attrs |-> SftpAttrs,
         name |-> SftpName]

Framed(f) == f \in DOMAIN Sftp
Formats == [f \in DOMAIN Ssh \cup DOMAIN Sftp |-> IF Framed(f) THEN Sftp[f] ELSE Ssh[f]]

\* Messages only the server writes: a client's decoder reads them, and
\* the code has none for them.
ServerOnly == {"hostkey_signature", "userauth_failure", "pk_ok",
               "userauth_success", "request_failure", "open_confirmation",
               "open_failure", "exit_status", "channel_success",
               "channel_failure",
               "version", "status", "handle", "data", "attrs", "name"}

-----------------------------------------------------------------------------
(* Fields that depend on what was read before.                             *)

\* Names the code compares with; any other string is another name.
CONNECTION == <<6, 0>>
NONE == <<6, 1>>
PASSWORD == <<6, 2>>
PUBLICKEY == <<6, 3>>
SUBSYSTEM == <<7, 0>>
PTY_REQ == <<7, 1>>
SHELL == <<7, 2>>
EXEC == <<7, 3>>
ENV == <<7, 4>>
WINDOW_CHANGE == <<7, 5>>
SIGNAL == <<7, 6>>
UNKNOWN == <<5>>

\* The fields of a channel request, after want_reply.
RequestFields(type) ==
    CASE type = SUBSYSTEM     -> <<"str">>
      [] type = PTY_REQ       -> <<"str", "u32", "u32", "u32", "u32", "str">>
      [] type = SHELL         -> << >>
      [] type = EXEC          -> <<"str">>
      [] type = ENV           -> <<"str", "str">>
      [] type = WINDOW_CHANGE -> <<"u32", "u32", "u32", "u32">>
      [] type = SIGNAL        -> <<"str">>
      [] OTHER                -> <<"refused">>

\* The fields of an authentication request; those of a method the server
\* does not know stay unread.
MethodFields(method) ==
    CASE method = NONE      -> << >>
      [] method = PASSWORD  -> <<"bool", "str">>
      [] method = PUBLICKEY -> <<"signed", "name", "name">>
      [] OTHER              -> <<"rest">>

Bit(n, b) == (n \div b) % 2 = 1
SIZE == 1
UIDGID == 2
PERMISSIONS == 4
ACMODTIME == 8
EXTENDED == 16
UNSUPPORTED == 32
SUPPORTED == SIZE + UIDGID + PERMISSIONS + ACMODTIME

AttrFields(flags) ==
    (IF Bit(flags, SIZE) THEN <<"u64">> ELSE << >>)
    \o (IF Bit(flags, UIDGID) THEN <<"u32", "u32">> ELSE << >>)
    \o (IF Bit(flags, PERMISSIONS) THEN <<"u32">> ELSE << >>)
    \o (IF Bit(flags, ACMODTIME) THEN <<"u32", "u32">> ELSE << >>)
    \o (IF Bit(flags, EXTENDED) THEN <<"count">> ELSE << >>)

\* The same, as the reader of attributes has it, and as put_attrs has it:
\* what is not supported is left out, extensions too.
PutAttrFields(flags) ==
    (IF Bit(flags, SIZE) THEN <<"u64">> ELSE << >>)
    \o (IF Bit(flags, UIDGID) THEN <<"u32", "u32">> ELSE << >>)
    \o (IF Bit(flags, PERMISSIONS) THEN <<"u32">> ELSE << >>)
    \o (IF Bit(flags, ACMODTIME) THEN <<"u32", "u32">> ELSE << >>)

ChannelFields(id) ==
    CASE id = CHANNEL_ADJUST  -> WindowAdjust
      [] id = CHANNEL_DATA    -> ChannelData
      [] id = CHANNEL_REQUEST -> ChannelRequest
      [] OTHER                -> ChannelEnd

\* What follows a field of kind k with value v, before the fields in rest.
Follow(k, v, rest) ==
    CASE k = "chan"     -> ChannelFields(v) \o rest
      [] k = "reqtype"  -> rest \o RequestFields(v)
      [] k = "method"   -> MethodFields(v)
      [] k = "signed"   -> rest \o (IF v = 1 THEN <<"name">> ELSE << >>)
      [] k = "attrs"    -> AttrFields(v) \o rest
      [] k = "putattrs" -> PutAttrFields(v) \o rest
      [] k = "count"    -> [i \in 1..(2 * v) |-> "str"] \o rest
      [] OTHER          -> rest

-----------------------------------------------------------------------------
(* Writing.                                                                *)

Flags == {"bool", "wish", "signed"}
Words == {"u32", "pos", "zero", "attrs", "putattrs", "count", "frame"}
Raw == {"cookie", "rest", "rest4"}
Strings == {"str", "name", "blob", "list", "reqtype", "method", "service"}

Encoded(k, v) ==
    CASE k \in {"id", "chan"} \cup Flags -> <<v>>
      [] k \in Words                     -> Digits(v, Word)
      [] k = "u64"                       -> Digits(v, 2 * Word)
      [] k \in {"mpint", "fixed"}          -> Mpint(v)
      [] k \in Raw                       -> v
      [] OTHER                           -> Prefixed(v)

Samples(k) ==
    CASE k = "chan"     -> 1..5
      [] k = "id"       -> {1}
      [] k \in Flags    -> {0, 1}
      [] k = "u32"      -> Uint32s
      [] k = "u64"      -> Uint64s
      [] k = "pos"      -> {1}
      [] k = "zero"     -> {0}
      [] k = "count"    -> {0, 1}
      [] k = "attrs"    -> {0, SIZE + PERMISSIONS, SUPPORTED, SIZE + EXTENDED, UNSUPPORTED}
      [] k = "putattrs" -> {0, SIZE, SUPPORTED}
      [] k = "list"     -> Offers
      [] k = "reqtype"  -> {SUBSYSTEM, PTY_REQ, SHELL, EXEC, ENV,
                            WINDOW_CHANGE, SIGNAL, UNKNOWN}
      [] k = "method"   -> {NONE, PASSWORD, PUBLICKEY, UNKNOWN}
      [] k = "service"  -> {CONNECTION}
      [] k \in {"mpint", "fixed"} -> [1..FixedLen -> {0, 1, Base - 1}]
      [] k = "cookie"   -> {<<5>>}
      [] k = "name"     -> Texts \ {<< >>}
      [] k = "blob"     -> {s \in Texts : Len(s) \in 1..MaxBlob}
      [] k = "rest4"    -> {Digits(0, Word)}
      [] OTHER          -> Texts

\* packet_payload_init leaves room for the length of a frame, which is the
\* first field of the message once packet_finish has put it there.
Reserved(f) == IF Framed(f) THEN <<<<"frame", 0>>>> ELSE << >>
Begin(f) == IF Framed(f) THEN <<"frame">> \o Formats[f] ELSE Formats[f]
Room(bytes) == Len(buf) + Len(bytes) <= Capacity

ASSUME SizesAssumption ==
    /\ Base \in Nat /\ Base > 7 /\ Word \in Nat \ {0} /\ FixedLen \in Nat \ {0}
    /\ Capacity \in Nat /\ Capacity >= Word /\ MaxBlob \in Nat /\ NameLists \in Nat
    /\ Fits(Capacity, Word) /\ Fits(FixedLen + 1, Word) /\ Fits(UNSUPPORTED, Word)
    /\ Len(ServerLists) = NameLists

ASSUME ValuesAssumption ==
    /\ \A n \in Uint32s : Fits(n, Word)
    /\ \A n \in Uint64s : Fits(n, 2 * Word)
    /\ \A s \in Texts \cup Offers : s \in Seq(Byte) /\ Fits(Len(s), Word)
    /\ \A s \in Offers : ValidList(s)
    /\ FaultBytes \subseteq Byte

WireInit ==
    /\ format \in DOMAIN Formats
    /\ mode = "write" /\ todo = Formats[format]
    /\ buf = (IF Framed(format) THEN Digits(0, Word) ELSE << >>)
    /\ sent = Reserved(format) /\ intact = TRUE
    /\ place = 0 /\ got = << >> /\ verdict = "none" /\ chosen = << >>

\* One ssh_buffer_put_* call; the caller returns at the first that fails.
Put ==
    /\ mode = "write" /\ todo # << >> /\ Head(todo) # "refused"
    /\ \E v \in Samples(Head(todo)) :
        LET k == Head(todo)
        IN  IF Room(Encoded(k, v))
            THEN /\ buf' = buf \o Encoded(k, v)
                 /\ sent' = Append(sent, <<k, v>>)
                 /\ todo' = Follow(k, v, Tail(todo))
                 /\ UNCHANGED mode
            ELSE \* ssh_buffer_put_string may have written the length
                 /\ buf' = IF k \in Strings /\ Room(Digits(0, Word))
                           THEN buf \o Digits(Len(v), Word) ELSE buf
                 /\ mode' = "full"
                 /\ UNCHANGED <<sent, todo>>
    /\ UNCHANGED <<format, intact, place, got, verdict, chosen>>

\* packet_finish writes the length of the payload in front of it.
Finish ==
    /\ mode = "write" /\ todo \in {<< >>, <<"refused">>}
    /\ mode' = "written"
    /\ LET size == Len(buf) - Word
       IN  IF Framed(format)
           THEN /\ buf' = Digits(size, Word) \o SubSeq(buf, Word + 1, Len(buf))
                /\ sent' = [sent EXCEPT ![1] = <<"frame", size>>]
           ELSE UNCHANGED <<buf, sent>>
    /\ UNCHANGED <<format, todo, intact, place, got, verdict, chosen>>

-----------------------------------------------------------------------------
(* Delivery: the peer, or the way to it, may have got the message wrong.   *)

Damaged(s) ==
    {SubSeq(s, 1, n) : n \in 0..(Len(s) - 1)}
    \cup {Append(s, b) : b \in FaultBytes}
    \cup {[s EXCEPT ![i] = b] : i \in DOMAIN s, b \in FaultBytes}

Transmit ==
    /\ mode = "written"
    /\ mode' = "read" /\ place' = 0
    /\ todo' = Begin(format)
    /\ \E bytes \in {buf} \cup (IF format \in ServerOnly THEN {} ELSE Damaged(buf)) :
        /\ buf' = bytes
        /\ intact' = (bytes = buf)
    /\ UNCHANGED <<format, sent, got, verdict, chosen>>

-----------------------------------------------------------------------------
(* Reading.                                                                *)

Left == Len(buf) - place
Bytes(from, n) == SubSeq(buf, from + 1, from + n)

\* The bytes a field of kind k takes, or -1 when they are not all there.
Span(k) ==
    LET n == CASE k \in {"id", "chan"} \cup Flags -> 1
               [] k \in Words -> Word
               [] k = "u64"   -> 2 * Word
               [] k = "cookie" -> 1
               [] k \in Raw \ {"cookie"} -> Left
               [] OTHER       -> IF Left < Word THEN Left + 1
                                 ELSE Word + Number(Bytes(place, Word))
    IN  IF n <= Left THEN n ELSE -1

\* The client reads an mpint with the top bit set as a negative number,
\* which stands for nothing here.
Negative(s) == s # << >> /\ s[1] >= Base \div 2

\* mpint_view_to_fixed: the integer, with zeros in front.
Fixed(s) ==
    LET t == Stripped(s)
    IN  IF Len(t) > FixedLen THEN t ELSE
        [i \in 1..FixedLen |->
            IF i <= FixedLen - Len(t) THEN 0 ELSE t[i - (FixedLen - Len(t))]]

Value(k, n) ==
    CASE k \in {"id", "chan"}            -> buf[place + 1]
      [] k \in Flags                     -> IF buf[place + 1] # 0 THEN 1 ELSE 0
      [] k \in Words \cup {"u64"}        -> Number(Bytes(place, n))
      [] k \in Raw                       -> Bytes(place, n)
      [] k = "fixed"                     -> Fixed(Bytes(place + Word, n - Word))
      [] k = "mpint" -> LET s == Bytes(place + Word, n - Word)
                        IN  IF Negative(s) THEN << >> ELSE Fixed(s)
      [] OTHER                           -> Bytes(place + Word, n - Word)

\* ssh_buffer_get_bool takes no byte but 0 and 1.
IsFlag(b) == b \in {0, 1}

\* The checks on a value once it has been read.
Accepts(k, v, n) ==
    CASE k = "id"       -> v = 1
      [] k = "chan"     -> v \in 1..5
      [] k \in Flags    -> IsFlag(buf[place + 1])
      [] k = "pos"      -> v # 0
      [] k = "zero"     -> v = 0
      [] k = "name"     -> v # << >>
      [] k = "blob"     -> Len(v) \in 1..MaxBlob
      [] k = "service"  -> v = CONNECTION
      [] k = "list"     -> ValidList(v)
      [] k = "fixed"    -> Len(Stripped(Bytes(place + Word, n - Word))) <= FixedLen
      [] k = "rest4"    -> n >= Word
      [] k = "frame"    -> v # 0 /\ v = Left - Word
      [] k \in {"attrs", "putattrs"} -> v <= SUPPORTED + EXTENDED
      [] OTHER          -> TRUE

\* A channel request other than "subsystem" whose fields are not right is
\* one the server does not support: it is refused and the session goes on.
Lenient ==
    /\ format = "channel_message" /\ \E i \in DOMAIN got : got[i][1] = "wish"
    /\ \A i \in DOMAIN got : got[i][1] = "reqtype" => got[i][2] # SUBSYSTEM

Refusal(k) ==
    IF Lenient \/ k \in {"chan", "attrs", "refused"} THEN "unsupported" ELSE "bad"

\* One ssh_buffer_get_* call with the checks that follow it.
Get ==
    /\ mode = "read" /\ todo # << >>
    /\ LET k == Head(todo)
           n == Span(k)
           v == Value(k, n)
       IN  IF k # "refused" /\ n >= 0 /\ (n >= 0 => Accepts(k, v, n))
           THEN /\ place' = place + n
                /\ got' = Append(got, <<k, v>>)
                /\ todo' = Follow(k, v, Tail(todo))
                /\ UNCHANGED <<mode, verdict>>
           ELSE /\ mode' = "done"
                /\ verdict' = IF n < 0 /\ ~Lenient THEN "bad" ELSE Refusal(k)
                /\ UNCHANGED <<place, got, todo>>
    /\ UNCHANGED <<format, buf, sent, intact, chosen>>

\* Faulty variant: what is left after the last field is ignored.
AtEndUnchecked == TRUE

\* Every decoder ends with a check that nothing is left.
AtEnd == Left = 0

EndMessage ==
    /\ mode = "read" /\ todo = << >>
    /\ mode' = "done"
    /\ verdict' = IF AtEnd THEN "ok" ELSE IF Lenient THEN "unsupported" ELSE "bad"
    /\ UNCHANGED <<format, todo, buf, sent, intact, place, got, chosen>>

-----------------------------------------------------------------------------
(* Negotiation.                                                            *)

\* The name lists a KEXINIT carried, in order.
Lists(fields) == LET read == SelectSeq(fields, LAMBDA f : f[1] = "list")
                 IN  [i \in DOMAIN read |-> read[i][2]]

First(names, pool) ==
    LET hits == {i \in DOMAIN names : names[i] \in Range(pool)}
    IN  IF hits = {} THEN << >>
        ELSE names[CHOOSE i \in hits : \A j \in hits : i <= j]

\* Faulty variant: the last common name is taken.
LastMatch(client, server) == First(Reverse(ListNames(server)), ListNames(client))

\* select_first_match: the server's list is the outer loop.
FirstMatch(client, server) == First(ListNames(server), ListNames(client))

\* The last two lists are of languages, one for each direction.
Languages == {NameLists - 1, NameLists}

\* A list with no match fails the exchange; a list of languages may also be
\* empty on either side.
Fails(i, client) ==
    /\ FirstMatch(client, ServerLists[i]) = << >>
    /\ i \in Languages => client # << >> /\ ServerLists[i] # << >>

\* ssh_kex_negotiate returns at the first list that fails.
Negotiate ==
    /\ mode = "done" /\ verdict = "ok" /\ format = "kexinit" /\ chosen = << >>
    /\ LET client == Lists(got)
       IN  IF \E i \in 1..NameLists : Fails(i, client[i])
           THEN verdict' = "unsupported" /\ UNCHANGED chosen
           ELSE /\ chosen' = [i \in 1..NameLists |->
                                 FirstMatch(client[i], ServerLists[i])]
                /\ UNCHANGED verdict
    /\ UNCHANGED <<format, mode, todo, buf, sent, intact, place, got>>

WireNext == Put \/ Finish \/ Transmit \/ Get \/ EndMessage \/ Negotiate

WireSpec == WireInit /\ [][WireNext]_wireVars

-----------------------------------------------------------------------------
(* Properties.                                                             *)

\* What is delivered as it was written is understood as it was meant: the
\* decoder accepts the message and reads the very values that were written,
\* or it refuses the request (a type or attribute it does not support) or
\* the offer (no algorithm in common).
Understood ==
    mode = "done" /\ intact =>
        \/ verdict = "ok" /\ got = sent
        \/ /\ verdict = "unsupported"
           /\ \/ format = "kexinit" /\ got = sent
              \/ \E i \in DOMAIN sent :
                    sent[i] \in {<<"reqtype", UNKNOWN>>, <<"attrs", UNSUPPORTED>>}

\* Where each field ends when the fields are written one after the other.
Ends(fields) ==
    LET end[i \in 0..Len(fields)] ==
            IF i = 0 THEN 0
            ELSE end[i - 1] + Len(Encoded(fields[i][1], fields[i][2]))
    IN  end

\* bytes is the encoding of the fields and nothing else.
Spells(bytes, fields) ==
    LET end == Ends(fields)
    IN  /\ end[Len(fields)] = Len(bytes)
        /\ \A i \in 1..Len(fields) :
               SubSeq(bytes, end[i - 1] + 1, end[i]) = Encoded(fields[i][1], fields[i][2])

\* A message that is accepted says only one thing: written again from the
\* values read, it is the message that arrived, byte for byte. Nothing was
\* cut off, ignored or read in two ways. A tail the decoder keeps unread (the
\* rest of a request it does not know) is one of the values. The one message
\* left out is a user's signature: mpint_view_to_fixed takes its two numbers
\* with any zeros in front, so several messages say the same.
Canonical ==
    mode = "done" /\ verdict = "ok" /\ format # "user_signature" => Spells(buf, got)

\* Two lists put the names they share in the same order.
SameOrder(a, b) ==
    \A i, j \in DOMAIN a, k, l \in DOMAIN b :
        a[i] = b[k] /\ a[j] = b[l] /\ i < j => k < l

\* Server and client settle each algorithm on their own, the client by the
\* order of its own list. They settle on the same one whenever their lists
\* do not contradict each other, and nothing but a language is left open.
SameChoice ==
    \A i \in DOMAIN chosen :
        LET client == ListNames(Lists(got)[i])
            server == ListNames(ServerLists[i])
        IN  /\ SameOrder(client, server) => chosen[i] = First(client, server)
            /\ i \notin Languages => chosen[i] # << >>
=============================================================================
