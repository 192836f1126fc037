------------------------------ MODULE Signature ------------------------------
(* The crash signature of itasha-report-aggregate (signature.rs): a stack     *)
(* frame is a sequence of glyphs, which are names, numbers, addresses, hashes *)
(* of a monomorphization, closure marks and punctuation, and normalize_frame  *)
(* makes a symbol of it.  The digest is one-way and collides with no other:   *)
(* the normalized frames stand for it.                                        *)
EXTENDS Quasi

CONSTANTS
    Drive,     \* the words of one letter
    Address,   \* 0x and hex digits
    Hash,      \* h and eight to twenty hex digits
    SIGNATURE_FRAME_DEPTH

Closure == "{{closure}}"

\* Where a part begins for the first time; behind the end when it does not.
Find(s, part) ==
    LET at == {i \in 1 .. (Len(s) - Len(part) + 1) : SubSeq(s, i, i + Len(part) - 1) = part}
    IN IF at = {} THEN Len(s) + 1 ELSE CHOOSE i \in at : \A j \in at : i <= j

Until(s, part) == SubSeq(s, 1, Find(s, part) - 1)

Numbers(s) == TrimLeft(s, Digit) # s

\* "12: foo" and "#3 foo".
strip_frame_ordinal(s) ==
    LET colon == Find(s, <<":">>)
        hash == TrimLeft(Tail(s), {" "})
    IN IF colon \in 2 .. Len(s) /\ Numeric(SubSeq(s, 1, colon - 1))
         THEN TrimLeft(SubSeq(s, colon + 1, Len(s)), {" "})
       ELSE IF s # <<>> /\ s[1] = "#" /\ Numbers(hash)
         THEN TrimLeft(TrimLeft(hash, Digit), {" "})
       ELSE s

\* How deep in angle brackets the glyph behind n is; a bracket that closes nothing counts
\* for none.
Depth(s) ==
    LET depth[n \in 0 .. Len(s)] ==
          IF n = 0 THEN 0
          ELSE IF s[n] = "<" THEN depth[n - 1] + 1
          ELSE IF s[n] = ">" /\ depth[n - 1] > 0 THEN depth[n - 1] - 1
          ELSE depth[n - 1]
    IN depth

strip_angle_groups(s) ==
    LET depth == Depth(s)
        kept == {n \in DOMAIN s : depth[n - 1] = 0 /\ s[n] \notin {"<", ">"}}
        Nth(k) == CHOOSE n \in kept : Cardinality({m \in kept : m <= n}) = k
    IN [k \in 1 .. Cardinality(kept) |-> s[Nth(k)]]

looks_like_path(token) ==
    \/ \E i \in DOMAIN token : token[i] \in {"/", "\\"}
    \/ /\ Len(token) >= 2 /\ token[1] \in Drive /\ token[2] = ":"
       /\ Len(token) = 2 \/ token[3] # ":"

looks_like_address(token) ==
    LET t == TrimLeft(token, {"+"}) IN Len(t) = 1 /\ t[1] \in Address

\* The closures go, and then a hash at the end.
strip_rust_hash_suffix(s) ==
    LET open == Until(s, <<":", ":", Closure>>)
        n == Len(open)
    IN IF n >= 3 /\ open[n] \in Hash /\ open[n - 1] = ":" /\ open[n - 2] = ":"
         THEN SubSeq(open, 1, n - 3) ELSE open

\* Cut at a plus, and at a colon before a digit.
strip_trailing_offset_and_line(s) ==
    LET t == Until(s, <<"+">>)
        sites == {i \in 1 .. (Len(t) - 1) : t[i] = ":" /\ t[i + 1] \in Digit \cup Address}
    IN IF sites = {} THEN t ELSE SubSeq(t, 1, (CHOOSE i \in sites : \A j \in sites : i <= j) - 1)

TrimColons(s) ==
    LET black == {i \in DOMAIN s : s[i] # ":"}
    IN IF black = {} THEN <<>>
       ELSE SubSeq(s, CHOOSE i \in black : \A j \in black : i <= j,
                      CHOOSE i \in black : \A j \in black : j <= i)

\* The symbol of a frame; <<>> is None.
normalize_frame(raw) ==
    LET bare == strip_frame_ordinal(Trim(raw))
        here == Trim(Until(Until(bare, <<" ", "at", " ">>), <<" ", "@", " ">>))
        tokens == SelectSeq(Split(strip_angle_groups(here), {" "}),
                            LAMBDA t : t # <<>> /\ ~looks_like_path(t) /\ ~looks_like_address(t))
        symbol == TrimColons(strip_trailing_offset_and_line(strip_rust_hash_suffix(tokens[1])))
    IN IF tokens = <<>> \/ looks_like_path(symbol) \/ looks_like_address(symbol)
         THEN <<>> ELSE symbol

Take(s) == IF Len(s) <= SIGNATURE_FRAME_DEPTH THEN s ELSE SubSeq(s, 1, SIGNATURE_FRAME_DEPTH)

Symbols(frames) ==
    SelectSeq([i \in DOMAIN frames |-> normalize_frame(frames[i])], LAMBDA symbol : symbol # <<>>)

\* Mutant: the frames are counted before those without a symbol are dropped.
TopFrames(frames) == Symbols(Take(frames))

\* The first symbols; <<>> is None.
crash_signature(frames) == Take(Symbols(frames))
=============================================================================
