----------------------------- MODULE MCSanitize -----------------------------
(* Texts of two phrases, or three short ones, with something in between.      *)
EXTENDS Sanitize

AnnsHome == <<"/", "home", "/", "ann">>
AnnsCache == AnnsHome \o <<"/", ".", "cache">>
TmpDir == <<"/", "tmp", "/">>
MCDirs == [home |-> AnnsHome, cache |-> AnnsCache, config |-> AnnsHome \o <<"/", ".", "config">>,
           tmp |-> TmpDir]
MCEnv == [USER |-> <<"ann">>, USERNAME |-> <<"bob">>, COMPUTERNAME |-> <<"ann", "-", "pc">>]

Mail == <<"bob", "@", "x", ".", "y">>
Blob == <<"K7f">>

Phrases ==
    {AnnsHome \o <<"/", "src">>, AnnsHome \o <<"m", "/", "src">>, AnnsCache, TmpDir \o <<"src">>,
     <<"/", "home", "/", "bob", "/", "src">>, <<"\\", "\\", "bob", "\\", "src">>,
     <<"c", ":", "\\", "users", "\\", "bob">>, <<"src", "/", "home", "/", "bob">>,
     Host, User, <<"ann", "@", "x", ".", "y">>, <<"bob", "@", "pc">>, Mail, Blob,
     <<"3", ".", "7", ".", "3", ".", "7">>, <<"3", ":", "7", ":", "3">>,
     <<"3", ":", " ", "core", ":", ":", "src">>, <<"http", ":", "/", "/", "bob">>,
     <<"thread", " ", "'", "x", "'", " ", "panicked">>}

Glue == {<<>>, <<" ">>, <<"\n">>, <<":">>, <<"[">>, <<",", " ">>, <<"=">>}

MCText ==
    {p \o g \o q : p, q \in Phrases, g \in Glue}
    \cup {p \o g \o q \o h \o r : p, q, r \in {Mail, Blob, Host, <<"/", "src", "/", "bob">>}, g, h \in Glue}

\* The premises of the theorems hold of these texts and this host.
ASSUME PremisesHold == PlainHome /\ FreshText
=============================================================================
