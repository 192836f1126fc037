------------------------------ MODULE MCScrub ------------------------------
(* Dumps for module Scrub: a header, the directory, the streams in the order  *)
(* of the directory, then the module names.  Streams do not overlap, as a     *)
(* writer lays them out; a dump may be cut short, may have no header, and a   *)
(* name may give a length that is odd or too large.                           *)
EXTENDS Scrub

CONSTANTS Cuts       \* by how many cells a dump may be cut short

Environ == LinuxStream + 7
CommentStreamA == 10
ThreadList == 3

\* Contents no field of the format takes for a position in these dumps.
Secret == 1000001
Kept == 1000002
Path == 1000003
Base == 1000004
Hash == 1000005

Fill(n, c) == [i \in 1 .. n |-> c]

\* A name as its length, in bytes, and its units.
NameForms == {<<n[1] + 2 * Len(n[2]), n[2]>> :
             n \in {<<0, <<Path, 47, Base>> >>, <<0, <<92, Path, 92, Base, Base>> >>,
                    <<0, <<Base>> >>, <<0, <<Path, 47>> >>, <<0, <<>> >>,
                    <<1, <<Path, 47, Base>> >>, <<40, <<Path, 47, Base>> >>}}

Module(nameRva) ==
    <<Kept, Kept, Kept, Hash, Hash, nameRva>> \o Fill(MODULE_ENTRY_SIZE - 6, Kept)

\* The streams of a dump: a type and a size, the module list's from its modules.
List(n) == <<ModuleListStream, 1 + n * MODULE_ENTRY_SIZE>>
Others == {<<Environ, 2>>, <<CommentStreamA, 1>>, <<ThreadList, 2>>}
Layouts(n) == {s \in [1 .. 3 -> Others \cup {List(n)}] :
                 /\ \A i, j \in 1 .. 3 : i # j => s[i] # s[j]
                 /\ List(n) \in {s[1], s[2], s[3]}}

\* The offset of the k-th of a sequence of sizes, and a sequence of parts in a row.
RECURSIVE Offset(_, _, _), Row(_)
Offset(sizes, k, from) == IF k = 1 THEN from ELSE sizes[k - 1] + Offset(sizes, k - 1, from)
Row(parts) == IF parts = <<>> THEN <<>> ELSE Head(parts) \o Row(Tail(parts))

AsBuffer(s) == [o \in 0 .. Len(s) - 1 |-> s[o + 1]]

Dump(layout, names) ==
    LET sizes == [i \in DOMAIN layout |-> layout[i][2]]
        first == HEADER_SIZE + DIRECTORY_ENTRY_SIZE * Len(layout)
        after == Offset(sizes, Len(layout) + 1, first)
        nameSizes == [i \in DOMAIN names |-> 1 + Len(names[i][2])]
        header == <<MINIDUMP_SIGNATURE, Kept, Len(layout), HEADER_SIZE,
                    Kept, Kept, Kept, Kept>>
        slots == [i \in DOMAIN layout |->
                     <<layout[i][1], layout[i][2], Offset(sizes, i, first)>>]
        modules == [i \in DOMAIN names |-> Module(Offset(nameSizes, i, after))]
        payload(i) == IF layout[i][1] = ModuleListStream
                        THEN <<Len(names)>> \o Row(modules)
                        ELSE Fill(layout[i][2],
                                  IF is_identifying_stream(layout[i][1]) THEN Secret ELSE Kept)
        strings == [i \in DOMAIN names |-> <<names[i][1]>> \o names[i][2]]
    IN header \o Row(slots) \o Row([i \in DOMAIN layout |-> payload(i)])
              \o Row(strings)

PathAndBase == {<<6, <<Path, 47, Base>> >>, <<2, <<Base>> >>}
WithModules == {Dump(l, n) : l \in Layouts(1), n \in [1 .. 1 -> NameForms]}
                \cup {Dump(l, n) : l \in Layouts(2), n \in [1 .. 2 -> PathAndBase]}
CutShort(s, c) == AsBuffer(SubSeq(s, 1, IF c > Len(s) THEN 0 ELSE Len(s) - c))

MCDumps == {CutShort(s, c) : s \in WithModules, c \in Cuts}
             \cup {[AsBuffer(s) EXCEPT ![0] = Kept] : s \in {Dump(l, <<n>>) : l \in Layouts(1), n \in PathAndBase}}

\* The theorems of ScrubProofs that want a file laid out as a writer lays it out speak of these.
ASSUME MCDumpsAreLaidOut == \A d \in MCDumps : LaidOut(d)
=============================================================================
