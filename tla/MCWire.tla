------------------------------- MODULE MCWire -------------------------------
(* Reports with payloads that hold newlines and look like headers, and for    *)
(* the stub, which sends nothing, every pair of metadata fields in any order. *)
EXTENDS Wire

MCFold(x) ==
    CASE x = "App_Version" -> "app_version" [] x = "OS" -> "os"
      [] x = "EN" -> "en" [] x = "Linux" -> "linux" [] x = "V" -> "v"
      [] OTHER -> x

MCReport(kind, metadata, attachments) ==
    [stream |-> kind, title |-> "title", body |-> "body",
     metadata |-> metadata, attachments |-> attachments]

Att(name, content_type, payload) ==
    [name |-> name, content_type |-> content_type, bytes |-> payload]

Os == <<"os", <<"Linux", " ", "6", ".", "8", ".", "0">>>>

\* A payload that reads like one more item, and an empty one.
LooksLikeItem == ItemBytes(Item("event", "", "", "", <<Byte("x")>>))

Manual == MCReport("ManualIssues", <<>>, <<>>)
Crash == MCReport("CrashReports", <<Os>>,
                  <<Att("minidump", "application/x-minidump", <<Newline, Byte("x"), Newline>>)>>)
Nasty == MCReport("CrashReports", <<>>, <<Att("log", "text/plain", LooksLikeItem),
                                          Att("dump", "application/x-minidump", <<>>)>>)
Large == MCReport("ManualIssues", <<>>, <<Att("log", "text/plain", [i \in 1 .. 30 |-> Byte("x")])>>)

Values == {<<>>, <<" ">>, <<"v", "3", ".", "7", ".", "9", "-", "rc">>, <<"3">>, <<"3", ".", "rc", "+", "9">>,
           <<"V", "3", ".", "7">>, <<"rc">>, <<".", "7">>,
           <<"Linux", " ", "6", ".", "8", ".", "0", " ", "9">>, <<" ", "Linux", " ", " ", "11", " ", "9", "rc">>,
           <<"Linux", "-", "6", ".", "8", ".", "0">>, <<"Linux", " ", "9", "rc", " ", "7">>, <<"6", ".", "8", " ", "Linux">>,
           <<"EN", "_", "US", ".", "UTF", "-", "8">>, <<"en">>, <<"-", "US">>}
Fields == {"App_Version", "os", "OS", "locale", "hostname"} \X Values
Metadata == {<<f>> : f \in Fields} \cup {<<f, g>> : f, g \in Fields}

\* A request whose texts hold what a link is made of, and one that is too long.
MCReserved == {" ", "&", "=", "%", "+", "#", "\n", ","}
MCHex(b) ==
    CASE b = " " -> <<"2", "0">> [] b = "&" -> <<"2", "6">> [] b = "=" -> <<"3", "D">>
      [] b = "%" -> <<"2", "5">> [] b = "+" -> <<"2", "B">> [] b = "#" -> <<"2", "3">>
      [] b = "\n" -> <<"0", "A">> [] b = "," -> <<"2", "C">>
MCRequest(title, body, template, labels) ==
    [repo |-> "owner/repo", title |-> title, body |-> body, template |-> template, labels |-> labels]
Titles == {<<>>} \cup {<<b>> : b \in MCReserved} \cup {<<"v", b, "2">> : b \in MCReserved}
Requests ==
    {MCRequest(title, body, <<"rc">>, labels) :
        title \in Titles, body \in Titles, labels \in {<<>>, <<<<"en">>, <<"US">>>>}}
    \cup {MCRequest(<<"v">>, <<"%", "2", "0", "\n", "&">>, <<>>, <<>>)}

MCCases ==
    {"issue"} \X Requests \cup
    {<<"stub", MCReport("CrashReports", metadata, <<>>)>> : metadata \in Metadata}
    \cup {"lean", "sealed"} \X {Manual, Crash, Nasty, Large}
    \cup {"onion"} \X {Crash, Nasty, Large}

MCNonce == <<"a", "f">>
MCAnswers == {<<"HTTP", " ", "2", "0", "0", "\r\n">>, <<"HTTP", " ", "3", "0", "2", "\r\n">>,
              <<"HTTP", " ", "4", "0", "4", "\r\n">>, <<"HTTP", " ", "5", "0", "3", "\r\n">>,
              <<"junk", " ", "2", "0", "0", "\r\n">>, <<"junk", "junk", "junk", "junk", "junk", "junk", "junk", "junk">>}
MCPads == {<<>>, LooksLikeItem}

ASSUME MCCodesEnd == CodesEnd

=============================================================================
