--------------------------- MODULE MCServerProgram ---------------------------
(* Three users, and files that set, refuse and match in different ways.    *)
EXTENDS ServerProgram

MCRoot == <<"r">>
\* One name is longer than the C string it is read as.
MCNames == {MCRoot, <<"a", "b">>, <<"a", "a", "b">>, <<"a", "b", Nul>>}
MCLocalAddress == <<"y">>
MCAddress == <<"x">>

\* The second user has keys of its own; the third is given one by a path
\* the administrator may name. The file of the second user breaks off at a
\* line that is too long.
Key(k) == [k |-> "key", key |-> k]
MCKeyFiles ==
    (<<"home", <<"a", "b">>, "keys">> :>
        <<[k |-> "note"], Key("k1"), [k |-> "long"], Key("k2")>>)
    @@ (<<"etc", <<"a", "a", "b">>>> :> <<Key("k2")>>)

Set(key, v) == [k |-> "set", key |-> key, v |-> v]
Match(criteria) == [k |-> "match", criteria |-> criteria]
Pat(p) == [neg |-> FALSE, pat |-> p]
NotPat(p) == [neg |-> TRUE, pat |-> p]
When(key, list) == [key |-> key, neg |-> FALSE, list |-> list]
Unless(key, list) == [key |-> key, neg |-> TRUE, list |-> list]

MCFiles ==
    {\* nothing but a comment
     <<[k |-> "other"]>>,
     \* one user may not use a password; all the others may, after the block
     <<Match(<<When("User", <<Pat(<<"*", "a", "b">>), NotPat(<<"a", "b">>)>>)>>),
       Set("password", "no"), Match(<< >>), Set("tries", 2)>>,
     \* only some names, root not at all
     <<Set("allow", <<<<"@", "h">>, <<"a", "*", "b", "@", "h">>, MCRoot>>), Set("root", "no"),
       Set("kexalgorithms", "x"), Set("hostkey", "hk")>>,
     \* a block for one port and one address, and one for everybody else
     <<Set("listen", [host |-> "h", port |-> 22, bracket |-> FALSE]),
       Match(<<When("LocalPort", <<Pat(22)>>), When("Address", <<Pat(<<"?">>)>>)>>),
       Set("pubkey", "no"), Set("root", "yes"),
       Match(<<Unless("Address", <<Pat(<<"x">>)>>)>>),
       Set("password", "no")>>,
     \* root by a key only from one host; the group and the domain are never known
     <<Match(<<When("Host", <<Pat(<<"x">>)>>), When("LocalAddress", <<Pat(<<"*">>)>>)>>),
       Set("root", "prohibit-password"),
       Match(<<Unless("Group", <<Pat(<<"*">>)>>)>>), Set("tries", 1),
       Match(<<When("RDomain", <<NotPat(<<"x">>)>>)>>), Set("allow", <<MCRoot>>)>>,
     \* keys kept in one place
     <<Set("keysfile", <<[abs |-> TRUE, parts |-> <<"%?", "x">>],
                         [abs |-> TRUE, parts |-> <<"etc", "%u">>],
                         [abs |-> FALSE, parts |-> <<"%h", "keys2">>]>>)>>,
     \* a directive with no value, or a bad one; a criterion of another implementation
     <<[k |-> "empty"]>>, <<Set("tries", Bad)>>, <<Set("hostkey", "gone")>>,
     <<Match(<<When("Exec", <<Pat(<<"x">>)>>)>>)>>,
     <<[k |-> "missing"]>>}
=============================================================================
