------------------------------ MODULE ConfigFile ------------------------------
(***************************************************************************)
(* sshd_config_file.c: reading a configuration file with Match blocks, and *)
(* laying what it sets over a server configuration.                        *)
(*                                                                         *)
(* A file is a sequence of lines. A line is                                *)
(*   [k |-> "set", key, v]      a directive; v = Bad when its value does  *)
(*                              not parse                                  *)
(*   [k |-> "match", criteria]  a Match line; << >> stands for "all"       *)
(*   [k |-> "empty"]            a directive with no value                  *)
(*   [k |-> "other"]            a comment, a blank line, a lone word       *)
(* A name (of a user, of an address) and a pattern are sequences of        *)
(* characters; a criterion is [key, neg, list], its list a sequence of     *)
(* [neg, pat].                                                             *)
(***************************************************************************)
EXTENDS Integers, Sequences, SequencesExt

CONSTANTS Unset,  \* a directive that has not been set
          Bad     \* a value that does not parse

Keys == {"port", "listen", "tries", "password", "pubkey", "root", "allow",
         "subsystem", "keysfile", "chroot", "hostkey"}

ssh_sshd_config_file_defaults == [k \in Keys |-> Unset]

-----------------------------------------------------------------------------
(* Patterns.                                                               *)

\* A name with no star in it: the loop below takes a star in a name for an
\* ordinary character and tries that first.
Plain(val) == \A i \in 1..Len(val) : val[i] # "*"

\* Faulty variant: a star takes nothing more.
GoesNowhere(s) == FALSE

\* A mismatch after a star: the star takes one character more.
GoesBack(s) == s.sp # 0

\* One round of the loop of pattern_matches_wildcards: p and v are the next
\* positions, sp and sv where to go back to (sp = 0: there was no star yet).
Round(pat, val, s) ==
    IF s.at = "lost" \/ s.v > Len(val) THEN s
    ELSE IF s.p <= Len(pat) /\ pat[s.p] \in {"?", val[s.v]}
         THEN [s EXCEPT !.p = @ + 1, !.v = @ + 1]
    ELSE IF s.p <= Len(pat) /\ pat[s.p] = "*"
         THEN [s EXCEPT !.p = @ + 1, !.sp = s.p + 1, !.sv = s.v]
    ELSE IF GoesBack(s) THEN [s EXCEPT !.p = s.sp, !.v = s.sv + 1, !.sv = @ + 1]
    ELSE [s EXCEPT !.at = "lost"]

\* More rounds than the loop can take.
Turns(pat, val) == (Len(val) + 3) * (Len(pat) + Len(val) + 3)

Scan(pat, val) ==
    LET after[i \in 0..Turns(pat, val)] ==
            IF i = 0 THEN [p |-> 1, v |-> 1, sp |-> 0, sv |-> 0, at |-> "loop"]
            ELSE Round(pat, val, after[i - 1])
    IN  after

pattern_matches_wildcards(pat, val) ==
    LET s == Scan(pat, val)[Turns(pat, val)]
    IN  s.at # "lost" /\ \A i \in s.p..Len(pat) : pat[i] = "*"

\* Negated patterns exclude; with none but negated ones the rest is matched.
list_pattern_matches(list, val) ==
    LET hit == {i \in DOMAIN list : pattern_matches_wildcards(list[i].pat, val)}
    IN  /\ val # << >>
        /\ \A i \in hit : ~list[i].neg
        /\ hit # {} \/ \A i \in DOMAIN list : list[i].neg

\* A port list: a token that is no port makes the whole list fail.
match_local_port_list(list, port) ==
    /\ port # 0
    /\ \A i \in DOMAIN list : list[i].pat # 0 /\ (list[i].neg => list[i].pat # port)
    /\ \/ \A i \in DOMAIN list : list[i].neg
       \/ \E i \in DOMAIN list : ~list[i].neg /\ list[i].pat = port

\* What a Match line may ask about: texts, and the port.  The context has a value for
\* each; << >> and 0 stand for a field that is not filled in, which nothing matches.
TextCriteria == {"User", "Group", "Host", "Address", "LocalAddress", "RDomain"}
Criteria == TextCriteria \cup {"LocalPort"}

NoContext == [User |-> << >>, Group |-> << >>, Host |-> << >>, Address |-> << >>,
              LocalAddress |-> << >>, LocalPort |-> 0, RDomain |-> << >>]

evaluate_match_criterion(c, ctx) ==
    IF c.key = "LocalPort" THEN match_local_port_list(c.list, ctx.LocalPort)
    ELSE list_pattern_matches(c.list, ctx[c.key])

\* Every criterion must hold; !Keyword turns one round.
evaluate_match_expression(criteria, ctx) ==
    \A i \in DOMAIN criteria :
        evaluate_match_criterion(criteria[i], ctx) # criteria[i].neg

-----------------------------------------------------------------------------
(* Lines.                                                                  *)

\* The result of reading: the directives so far, whether the lines that
\* come next count, and whether an error has ended the reading.
Failed(r) == [r EXCEPT !.ok = FALSE]

\* With a port set already the port is not looked for: an address without
\* brackets then keeps it as part of its name.
parse_listen_address(c, v) ==
    IF c.port = Unset
    THEN [c EXCEPT !.listen = [v EXCEPT !.port = Unset], !.port = v.port]
    ELSE [c EXCEPT !.listen = IF v.bracket THEN [v EXCEPT !.port = Unset] ELSE v]

\* A directive replaces an earlier one; those of another implementation
\* and unknown ones are passed over.
parse_one_directive(r, key, v) ==
    IF key \notin Keys THEN r
    ELSE IF v = Bad THEN Failed(r)
    ELSE IF key = "listen" THEN [r EXCEPT !.config = parse_listen_address(@, v)]
    ELSE [r EXCEPT !.config[key] = v]

\* A keyword that is none of these ends the reading.
MatchLine(r, criteria, ctx) ==
    IF \E i \in DOMAIN criteria : criteria[i].key \notin Criteria THEN Failed(r)
    ELSE [r EXCEPT !.active = evaluate_match_expression(criteria, ctx)]

parse_line_inplace(r, line, ctx) ==
    IF ~r.ok THEN r
    ELSE CASE line.k = "other" -> r
           [] line.k = "empty" -> Failed(r)
           [] line.k = "match" -> MatchLine(r, line.criteria, ctx)
           [] OTHER -> IF r.active THEN parse_one_directive(r, line.key, line.v) ELSE r

Missing == <<[k |-> "missing"]>>

\* The file is read line by line to its end; a file that cannot be opened
\* fails.
Reading(file, ctx) ==
    LET after[i \in 0..Len(file)] ==
            IF i = 0 THEN [config |-> ssh_sshd_config_file_defaults,
                           active |-> TRUE, ok |-> TRUE]
            ELSE parse_line_inplace(after[i - 1], file[i], ctx)
    IN  after

Load(file, ctx) ==
    IF file = Missing THEN [config |-> ssh_sshd_config_file_defaults,
                            active |-> TRUE, ok |-> FALSE]
    ELSE Reading(file, ctx)[Len(file)]

-----------------------------------------------------------------------------
(* Laying a file over a server configuration.                              *)

Over(v, old) == IF v = Unset THEN old ELSE v

\* "no" takes the method away; "yes" brings none back.
ssh_sshd_config_file_apply(c, server) ==
    [server EXCEPT
        !.listen   = Over(c.listen, @),
        !.tries    = Over(c.tries, @),
        !.password = @ /\ c.password # "no",
        !.pubkey   = @ /\ c.pubkey # "no",
        !.root     = Over(c.root, @),
        !.allow    = Over(c.allow, @),
        !.keysfile = Over(c.keysfile, @)]

-----------------------------------------------------------------------------
(* What a file says, as its documentation has it: the reference the        *)
(* reading is compared with.                                               *)

\* A pattern is like a name when the name can be cut into as many parts as
\* the pattern has characters, part i ending at cut[i + 1]: any part for "*",
\* a single character for "?", that very character for any other.
Part(pat, val, cut, i) ==
    IF pat[i] = "*" THEN cut[i] <= cut[i + 1]
    ELSE cut[i + 1] = cut[i] + 1 /\ pat[i] \in {"?", val[cut[i] + 1]}

Like(pat, val) ==
    \E cut \in [1..(Len(pat) + 1) -> 0..Len(val)] :
        /\ cut[1] = 0 /\ cut[Len(pat) + 1] = Len(val)
        /\ \A i \in 1..Len(pat) : Part(pat, val, cut, i)

Picks(c, val) ==
    /\ val # << >>
    /\ ~\E i \in DOMAIN c.list : c.list[i].neg /\ Like(c.list[i].pat, val)
    /\ (\E i \in DOMAIN c.list : ~c.list[i].neg) =>
           \E i \in DOMAIN c.list : ~c.list[i].neg /\ Like(c.list[i].pat, val)

Holds(c, ctx) ==
    IF c.key = "LocalPort" THEN match_local_port_list(c.list, ctx.LocalPort) # c.neg
    ELSE Picks(c, ctx[c.key]) # c.neg

\* Line i is in force: the Match line above it, if any, holds.
InForce(file, i, ctx) ==
    LET above == {j \in 1..(i - 1) : file[j].k = "match"}
    IN  above # {} =>
          LET m == CHOOSE j \in above : \A n \in above : n <= j
          IN  \A n \in DOMAIN file[m].criteria : Holds(file[m].criteria[n], ctx)

\* The last value in force of a directive.
Says(file, ctx, key) ==
    LET lines == {i \in DOMAIN file : /\ file[i].k = "set" /\ file[i].key = key
                                      /\ InForce(file, i, ctx)}
    IN  IF lines = {} THEN Unset
        ELSE file[CHOOSE i \in lines : \A j \in lines : j <= i].v
=============================================================================
