------------------------------ MODULE Sanitize ------------------------------
(* The sanitizer (itasha-report-core's sanitize.rs) with the path anchoring    *)
(* and the free-text redaction it calls (redact.rs), for one string of a       *)
(* report: a field (title, metadata key or value) or the body, which goes line *)
(* by line.  A text is a sequence of glyphs.  A glyph is one character that    *)
(* the code looks at, a word the code does not look into, or a placeholder;    *)
(* two words side by side are one longer word.  Widths are counted in glyphs.  *)
EXTENDS Naturals, Sequences, FiniteSets, Functions

CONSTANTS
    Word,      \* words: letters and digits
    Number,    \* the words that are numbers
    Letter,    \* the words of one letter
    Secret,    \* the words with the shape of a key, token, address or id
    Text,      \* the strings to sanitize
    Dirs,      \* the platform's directories: "home", "tmp", "cache", "config"
    Env,       \* the environment variables that are set, with their values
    MaxLines,  \* SizeCaps.max_lines
    MaxField   \* SizeCaps.max_field_bytes

REDACTED == "<redacted>"
HOME_PLACEHOLDER == "<HOME>"
PATH_DROP == "<path>"
Marker == <<"...", "[truncated]">>

White == {" ", "\t", "\n"}
PathEnd == White \cup {"\"", "'", "(", ")", "[", "]", "{", "}", ",", ";"}
Placeholder == {HOME_PLACEHOLDER, "<HOST>", "<USER>", "<home>", "<tmp>", "<cache>",
                PATH_DROP, REDACTED}
Character == {"/", "\\", ":", ".", "@", "-", "_", "=", "+"} \cup PathEnd
Glyph == Word \cup Character \cup Placeholder \cup {Marker[1], Marker[2]}
PathChar == Glyph \ PathEnd

\* No character that the code looks at, nor a placeholder, is a word; a field has room
\* for the marker.
ASSUME SanitizeAssumption ==
    /\ Number \subseteq Word /\ Letter \subseteq Word /\ Secret \subseteq Word
    /\ Word \cap (Character \cup Placeholder) = {}
    /\ Text \subseteq Seq(Glyph)
    /\ Dirs \in [{"home", "tmp", "cache", "config"} -> Seq(Glyph)]
    /\ \A name \in DOMAIN Env : Env[name] \in Seq(Glyph)
    /\ MaxLines \in Nat /\ MaxField \in Nat /\ MaxField >= Len(Marker)

VARIABLES
    kind,   \* what is sanitized: a field or a body
    input,  \* its text
    lines,  \* the lines still to do
    text,   \* the line being done, and at the end the capped result
    out,    \* the lines that are done
    pc

vars == <<kind, input, lines, text, out, pc>>

-----------------------------------------------------------------------------
(* Rewriting a text from left to right.                                       *)

\* Replace by mark every run of glyphs, where run[i] is the length of the one that
\* starts at i, or 0.
Rewrite(s, run, mark) ==
    LET from[i \in 1 .. Len(s) + 1] ==
          IF i > Len(s) THEN <<>>
          ELSE IF run[i] > 0 THEN <<mark>> \o from[i + run[i]]
          ELSE <<s[i]>> \o from[i + 1]
    IN from[1]

Occurs(s, i, part) ==
    /\ part # <<>>
    /\ i + Len(part) - 1 <= Len(s)
    /\ SubSeq(s, i, i + Len(part) - 1) = part
Contains(s, part) == \E i \in 1 .. Len(s) : Occurs(s, i, part)

Replace(s, part, mark) ==
    Rewrite(s, [i \in DOMAIN s |-> IF Occurs(s, i, part) THEN Len(part) ELSE 0], mark)

\* The form with forward slashes.
Slashed(s) == [i \in DOMAIN s |-> IF s[i] = "\\" THEN "/" ELSE s[i]]

\* How far a run of glyphs of a class goes from i.
RunEnd(s, i, class) ==
    CHOOSE j \in i .. Len(s) + 1 :
        /\ \A k \in i .. (j - 1) : s[k] \in class
        /\ j = Len(s) + 1 \/ s[j] \notin class

-----------------------------------------------------------------------------
(* Who and where the host is.                                                 *)

\* The second variable counts when the first is not set; an empty value is None.
EnvOr(name, other) ==
    IF name \in DOMAIN Env THEN Env[name] ELSE IF other \in DOMAIN Env THEN Env[other] ELSE <<>>

\* trim_end_matches.
WithoutSeparators(s) ==
    LET black == {i \in DOMAIN s : s[i] \notin {"/", "\\"}}
    IN IF black = {} THEN <<>>
       ELSE SubSeq(s, 1, CHOOSE b \in black : \A k \in black : k <= b)

\* HostIdentity::detect; <<>> is None.
identity ==
    [home_dir |-> Dirs["home"], cache_dir |-> Dirs["cache"], config_dir |-> Dirs["config"],
     tmp_dir  |-> WithoutSeparators(Dirs["tmp"]),
     username |-> EnvOr("USER", "USERNAME"),
     hostname |-> EnvOr("HOSTNAME", "COMPUTERNAME")]

Home == identity.home_dir
User == identity.username
Host == identity.hostname

-----------------------------------------------------------------------------
(* strip_identity: the home path, the host name, the user name, the paths.    *)

replace_path_prefixes(s) ==
    IF Home = <<>> THEN s
    ELSE Replace(Replace(s, Home, HOME_PLACEHOLDER), Slashed(Home), HOME_PLACEHOLDER)

WordByte == Word \cup {"_"}

\* A token stands alone: no word goes on before or after it.
StandsAlone(s, i, token) ==
    /\ Occurs(s, i, token)
    /\ i = 1 \/ s[i - 1] \notin WordByte
    /\ i + Len(token) > Len(s) \/ s[i + Len(token)] \notin WordByte

\* Mutant: a name is also replaced inside longer words.
ReplaceInside(s, token, mark) == Replace(s, token, mark)

replace_token(s, token, mark) ==
    Rewrite(s, [i \in DOMAIN s |-> IF StandsAlone(s, i, token) THEN Len(token) ELSE 0], mark)

\* The roots with their anchors, longest first and in the order they were pushed
\* among equals.
PathRoots(pushed) ==
    LET Before(a, b) == \/ Len(pushed[a][1]) > Len(pushed[b][1])
                        \/ Len(pushed[a][1]) = Len(pushed[b][1]) /\ a <= b
    IN [k \in DOMAIN pushed |->
          pushed[CHOOSE a \in DOMAIN pushed :
                    Cardinality({b \in DOMAIN pushed : Before(b, a)}) = k]]

path_roots ==
    PathRoots(<<<<identity.cache_dir, "<cache>">>, <<identity.config_dir, "<cache>">>,
                <<identity.tmp_dir, "<tmp>">>, <<identity.home_dir, "<home>">> >>)

\* A root is registered in its own form and with forward slashes.
AnchoredAt(s, root) == Replace(Replace(s, root[1], root[2]), Slashed(root[1]), root[2])
Anchored(s) ==
    LET upTo[k \in 0 .. Len(path_roots)] ==
          IF k = 0 THEN s ELSE AnchoredAt(upTo[k - 1], path_roots[k])
    IN upTo[Len(path_roots)]

BeforePath == {" ", "\t", "\"", "'", "(", "=", ":", ","}

\* The length of an absolute path that starts at i: a slash with something after
\* it, a drive root, or two backslashes.
absolute_path_run_at(s, i) ==
    LET starts == i = 1 \/ s[i - 1] \in BeforePath
        Has(n) == i + n <= Len(s)
        From(n) == RunEnd(s, i + n, PathChar) - i
    IN CASE s[i] = "/" /\ starts /\ Has(1) /\ s[i + 1] \in PathChar -> From(1)
         [] s[i] = "\\" /\ Has(1) /\ s[i + 1] = "\\" -> From(2)
         [] s[i] \in Letter /\ starts /\ Has(2) /\ s[i + 1] = ":" /\ s[i + 2] \in {"/", "\\"}
              -> From(3)
         [] OTHER -> 0

drop_unrecognized_absolute_paths(s) ==
    Rewrite(s, [i \in DOMAIN s |-> absolute_path_run_at(s, i)], PATH_DROP)

\* Mutant: the roots are anchored and nothing is dropped.
AnchorOnly(s) == Anchored(s)

anchor_paths(s) == drop_unrecognized_absolute_paths(Anchored(s))

\* Mutant: the user name is stripped before the host name that contains it.
UserFirst(s) ==
    anchor_paths(replace_token(replace_token(replace_path_prefixes(s), User, "<USER>"),
                               Host, "<HOST>"))

\* None is never replaced: no token occurs when it is empty.
strip_identity(s) ==
    anchor_paths(replace_token(replace_token(replace_path_prefixes(s), Host, "<HOST>"),
                               User, "<USER>"))

-----------------------------------------------------------------------------
(* redact_free_text: every token between white space whose core is sensitive. *)

EdgePunct == {".", ",", ";", ":", "!", "?", ")", "(", "\"", "'"}

Count(s, g) == Cardinality({i \in DOMAIN s : s[i] = g})

\* The first character of a class.
First(s, g) == CHOOSE i \in DOMAIN s : s[i] = g /\ \A j \in 1 .. (i - 1) : s[j] # g

\* Parts between separators, none of them empty.
NoEmptyPart(s, g) ==
    /\ s # <<>> /\ s[1] # g /\ s[Len(s)] # g
    /\ \A i \in 1 .. (Len(s) - 1) : s[i] # g \/ s[i + 1] # g

is_email(s) ==
    /\ Count(s, "@") = 1
    /\ LET at == First(s, "@")
           domain == SubSeq(s, at + 1, Len(s))
       IN /\ at > 1
          /\ \A i \in 1 .. (at - 1) : s[i] \in Word \cup {".", "_", "%", "+", "-"}
          /\ Count(domain, ".") > 0 /\ NoEmptyPart(domain, ".")
          /\ \A i \in DOMAIN domain : domain[i] \in Word \cup {".", "-"}

Schemes == {"http", "https", "ftp"}
is_url(s) == \E scheme \in Schemes : Occurs(s, 1, <<scheme, ":", "/", "/">>)

is_ipv4(s) ==
    /\ Len(s) = 7
    /\ \A i \in 1 .. 7 : IF i % 2 = 0 THEN s[i] = "." ELSE s[i] \in Number

is_ipv6(s) ==
    /\ Count(s, ":") >= 2
    /\ \/ Contains(s, <<":", ":">>)
       \/ /\ \A i \in DOMAIN s : s[i] \in Number \cup {":"}
          /\ \A i \in 1 .. (Len(s) - 1) : s[i] \notin Number \/ s[i + 1] = ":"
          /\ Cardinality({i \in DOMAIN s : s[i] \in Number}) >= 3

\* MAC addresses, JWTs, AWS keys, UUIDs and blobs of high entropy: a word of that
\* shape, also inside a longer blob of the alphabet of base 64.
HasSecretShape(s) ==
    /\ \E i \in DOMAIN s : s[i] \in Secret
    /\ \A i \in DOMAIN s : s[i] \in Word \cup {"+", "/", "=", "_", "-"}

is_sensitive(s) ==
    is_email(s) \/ is_url(s) \/ is_ipv4(s) \/ is_ipv6(s) \/ HasSecretShape(s)

\* The token around i, without the punctuation at its ends; <<1, 0>> for none.
Core(s, i) ==
    LET first == CHOOSE a \in 1 .. i : /\ \A k \in a .. i : s[k] \notin White
                                       /\ a = 1 \/ s[a - 1] \in White
        last == RunEnd(s, i, Glyph \ White) - 1
        inner == {k \in first .. last : s[k] \notin EdgePunct}
    IN IF inner = {} THEN <<1, 0>>
       ELSE <<CHOOSE a \in inner : \A k \in inner : a <= k,
              CHOOSE b \in inner : \A k \in inner : k <= b>>

SensitiveAt(s, i) ==
    LET core == IF s[i] \in White THEN <<1, 0>> ELSE Core(s, i)
    IN IF core[1] = i /\ core[2] >= i /\ is_sensitive(SubSeq(s, core[1], core[2]))
         THEN core[2] - core[1] + 1 ELSE 0

redact_tokens(s) == Rewrite(s, [i \in DOMAIN s |-> SensitiveAt(s, i)], REDACTED)

\* The end of the last token in a run of tokens with only white space and simple
\* punctuation between them.
Joining == White \cup {",", ";", ":", "/", "-", "."}
ClusterAt(s, i) ==
    IF s[i] # REDACTED THEN 0
    ELSE LET reach == RunEnd(s, i, Joining \cup {REDACTED}) - 1
             tokens == {k \in i .. reach : s[k] = REDACTED}
         IN (CHOOSE k \in tokens : \A l \in tokens : l <= k) - i + 1

\* Mutant: only the tokens that touch each other are taken together.
CollapseTouching(s) ==
    Rewrite(s, [i \in DOMAIN s |-> IF s[i] = REDACTED THEN RunEnd(s, i, {REDACTED}) - i ELSE 0],
            REDACTED)

collapse_redactions(s) == Rewrite(s, [i \in DOMAIN s |-> ClusterAt(s, i)], REDACTED)

redact_free_text(s) == collapse_redactions(redact_tokens(s))

-----------------------------------------------------------------------------
(* Which lines of a body are kept.                                            *)

Trim(s) ==
    LET black == {i \in DOMAIN s : s[i] \notin White}
    IN IF black = {} THEN <<>>
       ELSE SubSeq(s, CHOOSE a \in black : \A k \in black : a <= k,
                      CHOOSE b \in black : \A k \in black : k <= b)

contains_unnormalized_home(s) ==
    \E part \in {<<"/", "home", "/">>, <<"/", "users", "/">>, <<"\\", "users", "\\">>,
                 <<"/", "root", "/">>, <<"c", ":", "\\", "users">>} : Contains(s, part)

FrameChar == Word \cup Placeholder
             \cup {"_", ":", "(", ")", "{", "}", ",", " ", "&", "*", "'", ".", "+", "-", "[", "]"}

is_frame_symbol_line(s) ==
    /\ Count(s, ":") > 0
    /\ LET index == Trim(SubSeq(s, 1, First(s, ":") - 1))
           rest == Trim(SubSeq(s, First(s, ":") + 1, Len(s)))
       IN /\ index # <<>> /\ \A i \in DOMAIN index : index[i] \in Number
          /\ rest # <<>> /\ \A i \in DOMAIN rest : rest[i] \in FrameChar

is_normalized_location_line(s) ==
    LET body == IF Occurs(s, 1, <<"at", " ">>) THEN SubSeq(s, 3, Len(s)) ELSE s
    IN Contains(body, <<HOME_PLACEHOLDER>>) \/ body = <<>> \/ body[1] # "/"

is_safe_shape(line) ==
    LET s == Trim(line) IN
    \/ s = <<>>
    \/ /\ ~contains_unnormalized_home(s)
       /\ \/ is_frame_symbol_line(s)
          \/ is_normalized_location_line(s)
          \/ Occurs(s, 1, <<"thread", " ", "'">>) /\ Contains(s, <<"panicked">>)
          \/ \A i \in DOMAIN s : s[i] \notin {"/", "\\", "@"}

-----------------------------------------------------------------------------
(* The sanitizer.                                                             *)

\* str::lines: a newline at the end starts no line.
Lines(s) ==
    LET from[i \in 1 .. Len(s) + 2] ==
          IF i > Len(s) THEN <<>>
          ELSE LET j == RunEnd(s, i, Glyph \ {"\n"})
               IN <<SubSeq(s, i, j - 1)>> \o from[j + 1]
    IN from[1]

Joined(parts) ==
    LET upTo[k \in 0 .. Len(parts)] ==
          IF k = 0 THEN <<>>
          ELSE upTo[k - 1] \o (IF k = 1 THEN parts[k] ELSE <<"\n">> \o parts[k])
    IN upTo[Len(parts)]

\* Mutant: the marker is added to a full field.
CapAndMark(s) == IF Len(s) <= MaxField THEN s ELSE SubSeq(s, 1, MaxField) \o Marker

cap_bytes(s) ==
    IF Len(s) <= MaxField THEN s ELSE SubSeq(s, 1, MaxField - Len(Marker)) \o Marker

FirstLines(s) == SubSeq(s, 1, IF Len(s) < MaxLines THEN Len(s) ELSE MaxLines)

Init ==
    /\ kind \in {"field", "body"}
    /\ input \in Text
    /\ lines = IF kind = "field" THEN <<input>> ELSE FirstLines(Lines(input))
    /\ text = <<>>
    /\ out = <<>>
    /\ pc = "line"

Strip ==
    /\ pc = "line" /\ lines # <<>>
    /\ text' = strip_identity(Head(lines))
    /\ lines' = Tail(lines)
    /\ pc' = "stripped"
    /\ UNCHANGED <<kind, input, out>>

\* A frame of a backtrace is kept as it is.
KeepFrame ==
    /\ pc = "stripped" /\ kind = "body" /\ is_frame_symbol_line(Trim(text))
    /\ out' = Append(out, text)
    /\ pc' = "line"
    /\ UNCHANGED <<kind, input, lines, text>>

RedactText ==
    /\ pc = "stripped"
    /\ kind = "field" \/ ~is_frame_symbol_line(Trim(text))
    /\ text' = redact_free_text(text)
    /\ pc' = "redacted"
    /\ UNCHANGED <<kind, input, lines, out>>

\* A line of a body that has no safe shape is replaced as a whole.
Judge ==
    /\ pc = "redacted"
    /\ out' = Append(out, IF kind = "field" \/ is_safe_shape(text) THEN text ELSE <<REDACTED>>)
    /\ pc' = "line"
    /\ UNCHANGED <<kind, input, lines, text>>

Cap ==
    /\ pc = "line" /\ lines = <<>>
    /\ text' = cap_bytes(Joined(out))
    /\ pc' = "done"
    /\ UNCHANGED <<kind, input, lines, out>>

Next == Strip \/ KeepFrame \/ RedactText \/ Judge \/ Cap

Spec == Init /\ [][Next]_vars

-----------------------------------------------------------------------------
(* What must hold.                                                            *)

\* No step invents a glyph, and what leaves the sanitizer is within the cap.
TypeOK ==
    /\ kind \in {"field", "body"}
    /\ pc \in {"line", "stripped", "redacted", "done"}
    /\ \A s \in {input, text} \cup Range(lines) \cup Range(out) : Range(s) \subseteq Glyph
    /\ kind = "body" => Len(lines) + Len(out) <= MaxLines
    /\ pc = "done" => Len(text) <= MaxField

Result == Joined(out)

\* No word is left that stands at one of these positions only.
Gone(words, covered) ==
    \A w \in words :
        Count(Result, w) <= Cardinality({i \in DOMAIN input : input[i] = w /\ i \notin covered})

\* The positions of the tokens that stand alone in the text.
Identities ==
    {i \in DOMAIN input :
        \E token \in {User, Host} : \E j \in 1 .. i :
            StandsAlone(input, j, token) /\ i < j + Len(token)}

\* The home path has neither a placeholder in it nor a line break, and no text comes
\* with a redaction in it: what some of the theorems ask for.
PlainHome == Home \in Seq(Glyph \ (Placeholder \cup {"\n"}))
FreshText == \A s \in Text : REDACTED \notin Range(s)

\* No home path is left, in either form.
NoHomePath ==
    pc = "done" => ~Contains(Result, Home) /\ ~Contains(Result, Slashed(Home))

\* Nothing is left of the user, the host or the home path: no home path, no name
\* that stands alone, and of a host name that contains the user name no part
\* either, in whichever order they stand in the text (sanitize.rs:225).
NoLocalIdentity ==
    /\ NoHomePath
    /\ pc = "done" =>
        /\ \A i \in DOMAIN Result :
              ~StandsAlone(Result, i, User) /\ ~StandsAlone(Result, i, Host)
        /\ Gone((Range(User) \cup Range(Host)) \cap Word, Identities)

RootPaths == {path_roots[k][1] : k \in DOMAIN path_roots}

\* An absolute path that starts the text or a word of it, whoever's it is, unless
\* it has a recognized root as a prefix.
ForeignPathAt(i) ==
    /\ i = 1 \/ input[i - 1] \in {" ", "\t"} \/ (kind = "body" /\ input[i - 1] = "\n")
    /\ \/ input[i] = "/" /\ i < Len(input) /\ input[i + 1] \in Word
       \/ Occurs(input, i, <<"\\", "\\">>)
       \/ input[i] \in Letter /\ Occurs(input, i + 1, <<":", "\\">>)
    /\ \A r \in RootPaths : ~Occurs(input, i, r) /\ ~Occurs(input, i, Slashed(r))
ForeignPaths ==
    {i \in DOMAIN input :
        \E j \in 1 .. i : ForeignPathAt(j) /\ i < RunEnd(input, j, PathChar)}

\* Does an absolute path start at i, behind one of these glyphs or at the beginning: a
\* slash or a drive root with a name, or, wherever it stands, the root of a share?
PathStarts(s, i, before) ==
    LET Has(n, class) == i + n <= Len(s) /\ s[i + n] \in class
        separate == i = 1 \/ s[i - 1] \in before
    IN \/ separate /\ Has(0, {"/"}) /\ Has(1, Word)
       \/ Has(0, {"\\"}) /\ Has(1, {"\\"}) /\ Has(2, Word)
       \/ separate /\ Has(0, Letter) /\ Has(1, {":"}) /\ Has(2, {"/", "\\"}) /\ Has(3, Word)

\* No line or field that is done has an absolute path at its beginning or behind a
\* space, a quote, '(' or '=', which is where the comment on the scan says that one
\* starts (redact.rs:106).  It says nothing of the other places,
\* although anchor_paths is to "fail closed" (redact.rs:11-13): behind '[', '{', ';' or a
\* newline of a field a path stays whole.
NoListedPath ==
    \A line \in Range(out) : \A i \in DOMAIN line :
        ~PathStarts(line, i, {" ", "\"", "'", "(", "="})

\* No word of a foreign path is left that starts the text, a word of it or a line of a
\* body, and no path is made where the scan looks for one by what is replaced around
\* others.  Paths behind punctuation, and behind a newline in a field, are not meant:
\* some of them stay.
ForeignPathsGone ==
    /\ NoListedPath
    /\ pc = "done" => Gone(Range(input) \cap Word, ForeignPaths)

\* The positions of tokens, with white space around them, that are sensitive as they
\* stand and in which no name, directory or other path of a file is replaced.
SensitiveTokens ==
    {i \in DOMAIN input :
        \E a \in 1 .. i : \E b \in i .. Len(input) :
            /\ a = 1 \/ input[a - 1] \in White
            /\ b = Len(input) \/ input[b + 1] \in White
            /\ \A k \in a .. b : /\ input[k] \notin White /\ k \notin Identities
                                /\ absolute_path_run_at(input, k) = 0
            /\ \A r \in RootPaths : ~Contains(SubSeq(input, a, b), r)
            /\ is_sensitive(SubSeq(input, a, b))}

\* No word of such a token is left in a field: what is replaced before in its
\* neighbourhood does not hide it from the detectors (redact.rs:15).
SecretsGone ==
    pc = "done" /\ kind = "field" =>
        Gone(Range(input) \cap Word, SensitiveTokens)

\* How many secrets stood side by side in a field or a line cannot be read off:
\* between two redactions there is something else to read (redact.rs:18).
RedactionsUncounted ==
    pc = "done" => \A s \in Range(out) : \A i, j \in DOMAIN s :
        i < j /\ s[i] = REDACTED /\ s[j] = REDACTED
            => \E k \in i .. j : s[k] \notin Joining \cup {REDACTED}
=============================================================================
