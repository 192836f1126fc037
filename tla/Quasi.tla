------------------------------- MODULE Quasi -------------------------------
(* The allowlist of metadata and the coarsening of its values                 *)
(* (itasha-report-core, quasi.rs).  A value is a sequence of glyphs: digits,  *)
(* letters, punctuation and spaces; <<>> stands for None as a result.  A key  *)
(* is a string, and Fold maps it, or a letter, to its lower case.             *)
EXTENDS Naturals, Sequences, FiniteSets
Ext == INSTANCE SequencesExt

CONSTANTS
    Digit,      \* numbers, as glyphs
    Letter,     \* words of ASCII letters
    VLetter,    \* the letters v and V
    Fold(_)     \* to_ascii_lowercase

\* What separates the parts of a value is neither a number nor a word.
ASSUME QuasiAssumption ==
    /\ VLetter \subseteq Letter /\ Digit \cap Letter = {} /\ "0" \in Digit
    /\ {" ", ".", "-", "+", "_"} \cap (Digit \cup Letter) = {}
    /\ \A x \in Letter : Fold(x) \in Letter /\ Fold(Fold(x)) = Fold(x)

AllIn(s, class) == \A i \in DOMAIN s : s[i] \in class
Numeric(s) == s # <<>> /\ AllIn(s, Digit)

\* Without the glyphs of a class at the left end, at both ends.
TrimLeft(s, class) ==
    LET rest == {i \in DOMAIN s : s[i] \notin class}
    IN IF rest = {} THEN <<>> ELSE SubSeq(s, CHOOSE i \in rest : \A j \in rest : i <= j, Len(s))
Trim(s) ==
    LET black == {i \in DOMAIN s : s[i] # " "}
    IN IF black = {} THEN <<>>
       ELSE SubSeq(s, CHOOSE i \in black : \A j \in black : i <= j,
                      CHOOSE i \in black : \A j \in black : j <= i)

\* The parts between separators of a class, empty ones too.
Split(s, class) ==
    LET cuts == {0, Len(s) + 1} \cup {i \in DOMAIN s : s[i] \in class}
        Nth(n) == CHOOSE c \in cuts : Cardinality({d \in cuts : d < c}) = n
    IN [n \in 1 .. (Cardinality(cuts) - 1) |-> SubSeq(s, Nth(n - 1) + 1, Nth(n) - 1)]

First(s, class) == Split(s, class)[1]

\* MAJOR.MINOR, the minor version 0 when there is none or it is no number.
coarsen_version(raw) ==
    LET parts == Split(First(TrimLeft(Trim(raw), VLetter), {"-", "+"}), {"."})
        major == Trim(parts[1])
        minor == IF Len(parts) > 1 /\ Numeric(Trim(parts[2])) THEN Trim(parts[2]) ELSE <<"0">>
    IN IF Numeric(major) THEN major \o <<".">> \o minor ELSE <<>>

coarsen_os_version_token(token) ==
    LET parts == Split(token, {"."})
    IN IF ~Numeric(parts[1]) THEN <<>>
       ELSE IF Len(parts) > 1 /\ Numeric(parts[2]) THEN parts[1] \o <<".">> \o parts[2]
       ELSE parts[1]

\* The parts that are not empty; parts with spaces between them.
Filled(parts) ==
    Ext!FlattenSeq([i \in DOMAIN parts |-> IF parts[i] = <<>> THEN <<>> ELSE <<parts[i]>>])
Spaced(words) ==
    Ext!FlattenSeq([i \in DOMAIN words |-> (IF i = 1 THEN <<>> ELSE <<" ">>) \o words[i]])

\* The words in front, and of the token after them the version if it is one.
coarsen_os(raw) ==
    LET words == Filled(Split(raw, {" "}))
        stop == CHOOSE n \in 1 .. (Len(words) + 1) :
                    /\ \A k \in 1 .. (n - 1) : words[k][1] \in Letter
                    /\ n = Len(words) + 1 \/ words[n][1] \notin Letter
        version == IF stop <= Len(words) /\ words[stop][1] \in Digit
                     THEN coarsen_os_version_token(words[stop]) ELSE <<>>
    IN Spaced(SubSeq(words, 1, stop - 1) \o IF version = <<>> THEN <<>> ELSE <<version>>)

\* The language, in lower case.
coarsen_locale(raw) ==
    LET lang == Trim(First(Trim(raw), {"-", "_", "."}))
    IN IF AllIn(lang, Letter) THEN [i \in DOMAIN lang |-> Fold(lang[i])] ELSE <<>>

ALLOWED_FIELDS == <<"app_version", "os", "locale">>

Coarsened(key, raw) ==
    CASE key = "app_version" -> coarsen_version(raw)
      [] key = "os" -> coarsen_os(raw)
      [] key = "locale" -> coarsen_locale(raw)

\* The first value of a key, coarsened; a key is compared without regard to case.
Found(metadata, key) ==
    LET at == {i \in DOMAIN metadata : Fold(metadata[i][1]) = key}
    IN IF at = {} THEN <<>>
       ELSE Coarsened(key, metadata[CHOOSE i \in at : \A j \in at : i <= j][2])

\* Mutant: the fields come in the order of the metadata.
AsListed(metadata) ==
    LET kept == SelectSeq(metadata, LAMBDA f : \E k \in DOMAIN ALLOWED_FIELDS :
                    ALLOWED_FIELDS[k] = Fold(f[1]) /\ Coarsened(Fold(f[1]), f[2]) # <<>>)
    IN [i \in DOMAIN kept |-> <<Fold(kept[i][1]), Coarsened(Fold(kept[i][1]), kept[i][2])>>]

\* In the order of the allowlist, without what could not be coarsened.
safe_fields(metadata) ==
    Ext!FlattenSeq([k \in DOMAIN ALLOWED_FIELDS |->
        LET value == Found(metadata, ALLOWED_FIELDS[k])
        IN IF value = <<>> THEN <<>> ELSE <<<<ALLOWED_FIELDS[k], value>>>>])
=============================================================================
