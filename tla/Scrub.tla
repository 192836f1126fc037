------------------------------- MODULE Scrub -------------------------------
(* The minidump minimizer, scrub_minidump_in_place (itasha-crash-capture's    *)
(* scrub.rs): what module CrashMonitor takes as one step, Minimize.  A dump   *)
(* is an array of cells, a cell standing for one 32-bit word or, inside a     *)
(* module name, for one UTF-16 unit.  The minimizer checks the header, lists  *)
(* the stream directory, then rewrites the buffer stream by stream: an        *)
(* identifying stream is erased and its directory slot emptied, the module    *)
(* list loses its fingerprints and its directory paths, all else is kept.     *)
(* The sums the code checks for overflow cannot overflow in 64 bits.          *)
EXTENDS Integers, Sequences, FiniteSets

CONSTANTS Dumps      \* the files a dump writer may leave behind

\* The format, in cells.
HEADER_SIZE == 8
DIRECTORY_ENTRY_SIZE == 3
MODULE_ENTRY_SIZE == 27
MODULE_CHECKSUM_OFFSET == 3
MODULE_TIME_DATE_STAMP_OFFSET == 4
MODULE_NAME_RVA_OFFSET == 5
MINIDUMP_SIGNATURE == 1347241037
DROPPED_STREAM_SENTINEL == 0

\* The stream types the minimizer tells apart, by their numbers in the format.
ModuleListStream == 4
LinuxStream == 1197932544
MozLinuxLimits == 1299841027

\* A buffer is a function from 0 .. n - 1; a cell holds any word.
ASSUME DumpsAssumption ==
    \A b \in Dumps : /\ IsFiniteSet(DOMAIN b)
                     /\ DOMAIN b = 0 .. Cardinality(DOMAIN b) - 1
                     /\ \A o \in DOMAIN b : b[o] \in Nat

VARIABLES
    dump,    \* the file as it was read
    buf,     \* the buffer being minimized
    pc,      \* where the minimizer is, or how it ended
    entries, \* the directory as the first pass collected it
    cur,     \* the entry the second pass is at
    mod,     \* the module coarsen_module_list is at
    report   \* the ScrubReport

vars == <<dump, buf, pc, entries, cur, mod, report>>

ScrubError == {"TooShort", "BadSignature", "DirectoryOutOfBounds"}

Size(b) == Cardinality(DOMAIN b)

\* Write zeros over a set of cells; a write outside the buffer would make it grow
\* here, where the code would panic.
Zeroed(b, cells) == [o \in DOMAIN b \cup cells |-> IF o \in cells THEN 0 ELSE b[o]]

\* LinuxEnviron, LinuxCmdLine, LinuxProcStatus, LinuxMaps, LinuxAuxv,
\* MozLinuxLimits, Memory64List, MemoryInfoList, HandleData, CommentA, CommentW.
is_identifying_stream(type) ==
    type \in {LinuxStream + 7, LinuxStream + 6, LinuxStream + 4,
              LinuxStream + 9, LinuxStream + 8, MozLinuxLimits, 9, 16, 12, 10, 11}

Init ==
    /\ dump \in Dumps
    /\ buf = dump
    /\ pc = "header"
    /\ entries = <<>>
    /\ cur = 1
    /\ mod = 0
    /\ report = [dropped |-> 0, coarsened |-> 0, zeroed |-> 0]

-----------------------------------------------------------------------------
(* The header and the first pass.                                             *)

StreamCount(b) == b[2]
DirRva(b) == b[3]

\* What is wrong with the header, if anything.
HeaderError(b) ==
    CASE Size(b) < HEADER_SIZE -> "TooShort"
      [] Size(b) >= HEADER_SIZE /\ b[0] # MINIDUMP_SIGNATURE -> "BadSignature"
      [] OTHER -> IF DirRva(b) + StreamCount(b) * DIRECTORY_ENTRY_SIZE > Size(b)
                    THEN "DirectoryOutOfBounds"
                    ELSE "none"

Entry(b, slot) ==
    [slot |-> slot, type |-> b[slot], size |-> b[slot + 1], rva |-> b[slot + 2]]

Directory(b) ==
    [i \in 1 .. StreamCount(b) |-> Entry(b, DirRva(b) + (i - 1) * DIRECTORY_ENTRY_SIZE)]

Refuse ==
    /\ pc = "header" /\ HeaderError(buf) # "none"
    /\ pc' = HeaderError(buf)
    /\ UNCHANGED <<dump, buf, entries, cur, mod, report>>

Collect ==
    /\ pc = "header" /\ HeaderError(buf) = "none"
    /\ entries' = Directory(buf)
    /\ pc' = "streams"
    /\ UNCHANGED <<dump, buf, cur, mod, report>>

-----------------------------------------------------------------------------
(* The second pass.                                                           *)

Here == entries[cur]
At(phase) == pc = phase /\ cur <= Len(entries)

InBounds(b, e) == e.rva + e.size <= Size(b)
Payload(e) == e.rva .. (e.rva + e.size - 1)
Slot(e) == e.slot .. (e.slot + DIRECTORY_ENTRY_SIZE - 1)

\* Mutants: a stream that ends with the buffer counts as out of bounds; the bounds
\* are not looked at; the cell before the payload is taken too.
ErasedIfBefore(e) ==
    Slot(e) \cup (IF e.rva + e.size < Size(buf) THEN Payload(e) ELSE {})
ErasedUnchecked(e) == Slot(e) \cup Payload(e)
ErasedFromBefore(e) ==
    Slot(e) \cup (IF InBounds(buf, e) THEN {e.rva - 1} \cup Payload(e) ELSE {})

\* An identifying stream loses its payload, when all of it is in the buffer, and
\* in any case its slot: type, size and position become zero.
Erased(e) == Slot(e) \cup (IF InBounds(buf, e) THEN Payload(e) ELSE {})

Counted(r, e) ==
    [r EXCEPT !.dropped = @ + 1,
              !.zeroed = @ + IF InBounds(buf, e) THEN e.size ELSE 0]

DropStream ==
    /\ At("streams") /\ is_identifying_stream(Here.type)
    /\ buf' = Zeroed(buf, Erased(Here))
    /\ report' = Counted(report, Here)
    /\ cur' = cur + 1
    /\ UNCHANGED <<dump, pc, entries, mod>>

KeepStream ==
    /\ At("streams")
    /\ ~is_identifying_stream(Here.type) /\ Here.type # ModuleListStream
    /\ cur' = cur + 1
    /\ UNCHANGED <<dump, buf, pc, entries, mod, report>>

\* coarsen_module_list is entered; a list that is not in the buffer, or too short
\* for its count, is left as it is.
ModuleList ==
    /\ At("streams") /\ Here.type = ModuleListStream
    /\ IF InBounds(buf, Here) /\ Here.size >= 1
         THEN pc' = "modules" /\ mod' = 0 /\ UNCHANGED cur
         ELSE cur' = cur + 1 /\ UNCHANGED <<pc, mod>>
    /\ UNCHANGED <<dump, buf, entries, report>>

-----------------------------------------------------------------------------
(* A module name is a length in bytes and then its units.                     *)

Separator == {47, 92}

NameUnits(b, at) == b[at] \div 2
NameCells(b, at) == (at + 1) .. (at + NameUnits(b, at))

\* A length that is zero or odd, or does not fit, leaves the name untouched.
NameReadable(b, at) ==
    /\ at \in DOMAIN b
    /\ b[at] # 0 /\ b[at] % 2 = 0
    /\ at + 1 + NameUnits(b, at) <= Size(b)

\* The separators of a name, as offsets of its units.
Separators(b, at) == {i \in 0 .. (NameUnits(b, at) - 1) : b[at + 1 + i] \in Separator}

LastSeparator(b, at) ==
    CHOOSE i \in Separators(b, at) : \A j \in Separators(b, at) : j <= i

\* Mutant: a name that ends in a separator is left alone.
TrailingStays(b, at) ==
    IF NameReadable(b, at) /\ Separators(b, at) # {}
          /\ LastSeparator(b, at) + 1 < NameUnits(b, at)
      THEN LET base == LastSeparator(b, at) + 1
               units == NameUnits(b, at)
           IN [o \in DOMAIN b \cup NameCells(b, at) |->
                 IF o \in NameCells(b, at)
                   THEN IF o + base <= at + units THEN b[o + base] ELSE 0
                   ELSE b[o]]
      ELSE b

\* What follows the last separator moves to the front and zeros take its place;
\* nothing after it leaves a name of zeros.
coarsen_module_name_to_basename(b, at) ==
    IF NameReadable(b, at) /\ Separators(b, at) # {}
      THEN LET base == LastSeparator(b, at) + 1
               units == NameUnits(b, at)
           IN [o \in DOMAIN b \cup NameCells(b, at) |->
                 IF o \in NameCells(b, at)
                   THEN IF o + base <= at + units THEN b[o + base] ELSE 0
                   ELSE b[o]]
      ELSE b

ModuleAt(e, m) == e.rva + 1 + m * MODULE_ENTRY_SIZE

\* The loop's bounds: the count the list gives, and the end of the buffer (not of
\* the stream).
ModuleInside(b, e, m) ==
    m < b[e.rva] /\ ModuleAt(e, m) + MODULE_ENTRY_SIZE <= Size(b)

Fingerprint(e, m) == {ModuleAt(e, m) + MODULE_CHECKSUM_OFFSET,
                      ModuleAt(e, m) + MODULE_TIME_DATE_STAMP_OFFSET}

CoarsenModule ==
    /\ At("modules") /\ ModuleInside(buf, Here, mod)
    /\ LET plain == Zeroed(buf, Fingerprint(Here, mod)) IN
       buf' = coarsen_module_name_to_basename(
                  plain, plain[ModuleAt(Here, mod) + MODULE_NAME_RVA_OFFSET])
    /\ mod' = mod + 1
    /\ report' = [report EXCEPT !.coarsened = @ + 1]
    /\ UNCHANGED <<dump, pc, entries, cur>>

LastModule ==
    /\ At("modules") /\ ~ModuleInside(buf, Here, mod)
    /\ pc' = "streams"
    /\ cur' = cur + 1
    /\ UNCHANGED <<dump, buf, entries, mod, report>>

Finish ==
    /\ pc = "streams" /\ cur > Len(entries)
    /\ pc' = "done"
    /\ UNCHANGED <<dump, buf, entries, cur, mod, report>>

Next ==
    \/ Refuse \/ Collect \/ DropStream \/ KeepStream \/ ModuleList
    \/ CoarsenModule \/ LastModule \/ Finish

Spec == Init /\ [][Next]_vars

-----------------------------------------------------------------------------
(* What must hold.                                                            *)

\* The domain of buf says that no write falls outside the file.
TypeOK ==
    /\ dump \in Dumps
    /\ DOMAIN buf = DOMAIN dump
    /\ \A o \in DOMAIN buf : buf[o] \in Nat
    /\ pc \in {"header", "streams", "modules", "done"} \cup ScrubError
    /\ entries \in Seq([slot : Nat, type : Nat, size : Nat, rva : Nat])
    /\ cur \in 1 .. (Len(entries) + 1)
    /\ mod \in Nat
    /\ report \in [dropped : Nat, coarsened : Nat, zeroed : Nat]

\* The streams of a file, by its directory, and those the minimizer has work with.
Streams(d) ==
    IF HeaderError(d) = "none" THEN {Directory(d)[i] : i \in 1 .. StreamCount(d)} ELSE {}
Identifying(d) == {e \in Streams(d) : is_identifying_stream(e.type)}
ModuleLists(d) == {e \in Streams(d) : e.type = ModuleListStream /\ e.size >= 1 /\ InBounds(d, e)}

\* The modules a list really has, and the names that can be read.
Modules(d, e) == {m \in 0 .. (d[e.rva] - 1) : ModuleInside(d, e, m)}
NameAt(d, e, m) == d[ModuleAt(e, m) + MODULE_NAME_RVA_OFFSET]
Names(d) ==
    {at \in DOMAIN d : /\ NameReadable(d, at)
                       /\ \E e \in ModuleLists(d) : \E m \in Modules(d, e) : at = NameAt(d, e, m)}

\* When the minimizer succeeds, an identifying stream that lay in the file is all
\* zeros there and cannot be found in the directory, and no slot of the directory
\* has an identifying type (scrub.rs:25, "it zeroes the stream payload bytes and
\* neutralizes the directory entry").
ReservoirsErased ==
    pc = "done" =>
        /\ \A e \in Identifying(dump) :
              /\ \A o \in Slot(e) : buf[o] = 0
              /\ InBounds(dump, e) => \A o \in Payload(e) : buf[o] = 0
        /\ \A e \in Streams(dump) : ~is_identifying_stream(buf[e.slot])

\* The basename of a name by the definition of one: what is left of it has no
\* separator, ends where the name ended, and what came before it ended in one.
IsBasename(base, name) ==
    /\ \A i \in DOMAIN base : base[i] \notin Separator
    /\ \E path \in {SubSeq(name, 1, k) : k \in 0 .. Len(name)} :
          /\ name = path \o base
          /\ path # <<>> => path[Len(path)] \in Separator

NameOf(b, at) == [i \in 1 .. NameUnits(dump, at) |-> b[at + i]]

\* When the minimizer succeeds, a module whose name can be read has its basename
\* there, zeros after it, and nothing of its directory path (scrub.rs:351, "no
\* path-prefix bytes survive"), and the length before it still says where it ends.
OnlyBasenames ==
    pc = "done" =>
        \A at \in Names(dump) :
            /\ buf[at] = dump[at]
            /\ \E k \in 0 .. NameUnits(dump, at) :
                  /\ IsBasename(SubSeq(NameOf(buf, at), 1, k), NameOf(dump, at))
                  /\ \A i \in (k + 1) .. NameUnits(dump, at) : buf[at + i] = 0

\* The cells the minimizer may change: the identifying streams that lie in the file and
\* the slots of all of them, of the modules the fingerprints, and the names.
Secrets(d) ==
    (UNION {Slot(e) : e \in Identifying(d)})
    \cup (UNION {Payload(e) : e \in {i \in Identifying(d) : InBounds(d, i)}})
Fingerprints(d) == UNION {UNION {Fingerprint(e, m) : m \in Modules(d, e)} : e \in ModuleLists(d)}
NameText(d) == UNION {NameCells(d, at) : at \in Names(d)}
Rewritable(d) == Secrets(d) \cup Fingerprints(d) \cup NameText(d)

\* Everything else is as the writer left it at every step, the stacks, the thread
\* and system streams and the base, size and debug id of every module: what a
\* stackwalker needs (scrub.rs:45).
StackwalkerKeeps == \A o \in DOMAIN dump \ Rewritable(dump) : buf[o] = dump[o]

-----------------------------------------------------------------------------
(* How a writer lays a file out: nothing that is rewritten leads to a name,   *)
(* and a name shares no cell with what is erased or with another name.        *)

\* The cells that lead to the names: the counts of the lists, the positions of the names
\* and their lengths.
Guides(d) ==
    {o \in DOMAIN d : \E e \in ModuleLists(d) :
        \/ o = e.rva
        \/ \E m \in Modules(d, e) :
              o \in {ModuleAt(e, m) + MODULE_NAME_RVA_OFFSET, NameAt(d, e, m)}}

LaidOut(d) ==
    /\ Guides(d) \cap Rewritable(d) = {}
    /\ NameText(d) \cap (Secrets(d) \cup Fingerprints(d) \cup {e.slot : e \in Streams(d)}) = {}
    /\ \A n, o \in Names(d) : n # o => NameCells(d, n) \cap NameCells(d, o) = {}
=============================================================================
