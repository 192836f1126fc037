---------------------------- MODULE WireHygiene ----------------------------
(* How the onion transport hides the size of a report                         *)
(* (itasha-report-transport-tor, hygiene.rs and transport.rs): the serialized *)
(* envelope is refused beyond a cap, and otherwise grows by one padding item  *)
(* of random bytes up to a fixed bucket.  The item's header holds its own     *)
(* length in decimal, so that how many bytes fit depends on how many digits   *)
(* their number has; pad_random_len looks for the answer by iteration.        *)
(*                                                                            *)
(* A behaviour pads one envelope.  Its bytes do not matter, only how many     *)
(* they are: lengths are numbers, and a padding item of len bytes is Framing  *)
(* + Digits(len) + len long.                                                  *)
EXTENDS Naturals, FiniteSets, FiniteSetsExt

CONSTANTS
    Buckets,      \* TorTransportConfig::padding_buckets
    Framing,      \* pad_item_fixed_overhead()
    MaxPayload,   \* TorTransportConfig::max_payload_bytes
    MaxSize       \* bound on the lengths of envelopes, at most a billion

ASSUME HygieneAssumption ==
    /\ Buckets \subseteq Nat /\ IsFiniteSet(Buckets)
    /\ Framing \in Nat
    /\ MaxPayload \in Nat
    /\ MaxSize \in Nat

VARIABLES
    size,        \* the length of the envelope without padding
    pc,          \* where build_padded_payload is
    candidates,  \* the buckets it has not tried yet
    budget,      \* what of the bucket is left for the digits and the bytes
    len,         \* the number of random bytes
    round,       \* how many rounds the iteration has done
    wire         \* the length of what is returned

vars == <<size, pc, candidates, budget, len, round, wire>>

TypeOK ==
    /\ size \in 1 .. MaxSize
    /\ pc \in {"cap", "choose", "iterate", "clamp", "assemble", "done", "refused"}
    /\ candidates \in SUBSET Buckets
    /\ budget \in Nat
    /\ len \in Nat
    /\ round \in 0 .. 4
    /\ wire \in Nat

Init ==
    /\ size \in 1 .. MaxSize
    /\ pc = "cap"
    /\ candidates = {}
    /\ budget = 0
    /\ len = 0
    /\ round = 0
    /\ wire = 0

PowersOfTen == {10, 100, 1000, 10000, 100000, 1000000, 10000000, 100000000, 1000000000}

\* decimal_digits, and what serde_json writes.
Digits(n) == 1 + Cardinality({p \in PowersOfTen : n >= p})

Return(length) == pc' = "done" /\ wire' = length

\* build_padded_payload: the envelope is built and measured before anything else.
CheckCap ==
    /\ pc = "cap"
    /\ IF size > MaxPayload
       THEN pc' = "refused" /\ UNCHANGED candidates
       ELSE /\ pc' = "choose"
            /\ candidates' = {b \in Buckets : b >= size}
    /\ UNCHANGED <<size, budget, len, round, wire>>

-----------------------------------------------------------------------------
(* pad_bytes_with_rng: the buckets in ascending order.                        *)

\* Mutant of Room: a bucket is taken as soon as it is larger than the envelope.
AnyRoom(b) == b > size
Room(b) == b >= size + Framing

\* Mutant of Left: the framing is counted without the newline after the payload.
LeftWithoutNewline(b) == b - size - (Framing - 1)
Left(b) == b - size - Framing

OnBucket ==
    /\ pc = "choose" /\ candidates # {} /\ Min(candidates) = size
    /\ Return(size)
    /\ UNCHANGED <<size, candidates, budget, len, round>>

\* Too small a gap for a padding item: the next bucket is tried.
SkipBucket ==
    /\ pc = "choose" /\ candidates # {} /\ Min(candidates) # size
    /\ ~Room(Min(candidates))
    /\ candidates' = candidates \ {Min(candidates)}
    /\ UNCHANGED <<size, pc, budget, len, round, wire>>

\* No bucket is left: the envelope is sent as it is.
NoBucket ==
    /\ pc = "choose" /\ candidates = {}
    /\ Return(size)
    /\ UNCHANGED <<size, candidates, budget, len, round>>

\* A gap as large as the framing alone gets an empty item at once.
TakeBucket ==
    /\ pc = "choose" /\ candidates # {} /\ Min(candidates) # size
    /\ Room(Min(candidates))
    /\ budget' = Left(Min(candidates))
    /\ len' = budget'
    /\ round' = 0
    /\ pc' = IF budget' = 0 THEN "assemble" ELSE "iterate"
    /\ UNCHANGED <<size, candidates, wire>>

-----------------------------------------------------------------------------
(* pad_random_len: at most four rounds of len = budget - Digits(len), which   *)
(* near a power of ten swing between two lengths, and then a clamp.           *)

Iterate ==
    /\ pc = "iterate"
    /\ IF round = 4 \/ (Digits(len) <= budget /\ budget - Digits(len) = len)
       THEN pc' = "clamp" /\ UNCHANGED <<len, round>>
       ELSE IF budget < Digits(len)
       THEN pc' = "assemble" /\ len' = 0 /\ UNCHANGED round
       ELSE len' = budget - Digits(len) /\ round' = round + 1 /\ UNCHANGED pc
    /\ UNCHANGED <<size, candidates, budget, wire>>

\* Mutant of Clamp: it forgets to count down.
ClampForEver ==
    /\ pc = "clamp"
    /\ Digits(len) + len <= budget \/ len = 0
    /\ pc' = "assemble"
    /\ UNCHANGED <<size, candidates, budget, len, round, wire>>

Clamp ==
    /\ pc = "clamp"
    /\ IF Digits(len) + len > budget /\ len > 0
       THEN len' = len - 1 /\ UNCHANGED pc
       ELSE pc' = "assemble" /\ UNCHANGED len
    /\ UNCHANGED <<size, candidates, budget, round, wire>>

\* assemble_padded: the envelope with the padding item, serialized again.
Assemble ==
    /\ pc = "assemble"
    /\ Return(size + Framing + Digits(len) + len)
    /\ UNCHANGED <<size, candidates, budget, len, round>>

Next ==
    \/ CheckCap
    \/ OnBucket \/ SkipBucket \/ NoBucket \/ TakeBucket
    \/ Iterate \/ Clamp \/ Assemble

Spec == Init /\ [][Next]_vars /\ WF_vars(Next)

-----------------------------------------------------------------------------
(* What must hold.                                                            *)

\* Is there a number of bytes that fills a room exactly, their digits included?
Fillable(room) ==
    \E n \in (IF room > 10 THEN room - 10 ELSE 0) .. room : Digits(n) + n = room

Roomy == {b \in Buckets : Room(b)}

\* What pad_envelope_bytes returns, said without its iteration: the smallest bucket
\* with room for a padding item, exactly if any number of bytes fills it.  This is
\* what the code does, which is less than what it promises (hygiene.rs:144-149): where
\* no number fills the bucket the result is one byte off it, and where no bucket has
\* room the envelope goes as it is, also just below a bucket.
LandsWherePossible ==
    pc = "done" =>
        IF size \in Buckets \/ Roomy = {} THEN wire = size
        ELSE LET b == Min(Roomy) IN
             IF Fillable(b - size - Framing) THEN wire = b ELSE wire \in {b - 1, b + 1}

\* The search for the length comes to an end also where it swings between two.
Returns == <>(pc \in {"done", "refused"})
=============================================================================
