------------------------------- MODULE Intake -------------------------------
(* Manual-issue intake (itasha-report-core, intake.rs): the links a host opens *)
(* when a user files an issue, and what it copies to the clipboard when a link *)
(* would be too long or cannot be opened.  A text is a sequence of bytes, of   *)
(* which a word of unreserved ones may be taken as one.                        *)
EXTENDS Quasi

CONSTANTS
    Reserved,   \* the bytes that have to be encoded
    Hex(_),     \* the two hex digits of such a byte
    GITHUB_URL_LENGTH_THRESHOLD

Unreserved == Digit \cup Letter \cup {"-", "_", ".", "~"}
Text == Seq(Unreserved \cup Reserved)

\* The bytes that a link is put together with, or that a form reads as others.
Structure == {"#", "&", "=", "%", "+"}

ASSUME IntakeAssumption ==
    /\ GITHUB_URL_LENGTH_THRESHOLD \in Nat
    /\ Structure \cap Unreserved = {} /\ "," \in Reserved
    /\ \A b \in Reserved : /\ Hex(b) = <<Hex(b)[1], Hex(b)[2]>>
                           /\ {Hex(b)[1], Hex(b)[2]} \cap Structure = {}
    /\ \A b, c \in Reserved : Hex(b) = Hex(c) => b = c

percent_encode(s) ==
    Ext!FlattenSeq([i \in DOMAIN s |->
                  IF s[i] \in Unreserved THEN <<s[i]>> ELSE <<"%">> \o Hex(s[i])])

\* Fields with their values, in order; the names have nothing to encode.
Query(params) ==
    Ext!FlattenSeq([i \in DOMAIN params |->
                  (IF i = 1 THEN <<>> ELSE <<"&">>)
                  \o <<params[i][1], "=">> \o percent_encode(params[i][2])])

CommaJoined(parts) ==
    Ext!FlattenSeq([i \in DOMAIN parts |-> (IF i = 1 THEN <<>> ELSE <<",">>) \o parts[i]])

\* A request is [repo, title, body, template, labels]; no template is <<>>.
Params(request) ==
    <<<<"title", request.title>>, <<"body", request.body>>>>
    \o (IF request.template = <<>> THEN <<>> ELSE <<<<"template", request.template>>>>)
    \o (IF request.labels = <<>> THEN <<>>
        ELSE <<<<"labels", CommaJoined(request.labels)>>>>)

to_url(request) ==
    <<"https://github.com/", request.repo, "/issues/new?">> \o Query(Params(request))

fits_url_length(request) == Len(to_url(request)) <= GITHUB_URL_LENGTH_THRESHOLD

clipboard_fallback_body(request) == request.title \o <<"\n", "\n">> \o request.body

MailParams(subject, body) == <<<<"subject", subject>>, <<"body", body>>>>

mailto_url(address, subject, body) ==
    <<"mailto:", address, "?">> \o Query(MailParams(subject, body))

-----------------------------------------------------------------------------
(* What a browser and the form behind the link make of it.                     *)

Decoded(s) ==
    LET from[i \in 1 .. Len(s) + 3] ==
          IF i > Len(s) THEN <<>>
          ELSE IF s[i] = "%" /\ \E b \in Reserved : Hex(b) = SubSeq(s, i + 1, i + 2)
            THEN <<CHOOSE b \in Reserved : Hex(b) = SubSeq(s, i + 1, i + 2)>> \o from[i + 3]
          ELSE <<IF s[i] = "+" THEN " " ELSE s[i]>> \o from[i + 1]
    IN from[1]

\* The fields behind the third part of a link, up to a fragment.
Form(url) ==
    LET pairs == Split(First(SubSeq(url, 4, Len(url)), {"#"}), {"&"})
    IN [i \in DOMAIN pairs |->
          LET name == First(pairs[i], {"="})
          IN <<name[1], Decoded(SubSeq(pairs[i], Len(name) + 2, Len(pairs[i])))>>]
=============================================================================
