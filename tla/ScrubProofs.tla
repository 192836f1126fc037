---------------------------- MODULE ScrubProofs ----------------------------
(***************************************************************************)
(* The minimizer, on files of any size and content: it never writes        *)
(* outside the buffer, which in the code would be a panic of the monitor   *)
(* between the raw and the minimized dump.  And on every file that is laid *)
(* out as a writer lays it out: what identifies is gone, names are         *)
(* basenames, and all else is as the writer left it.                       *)
(***************************************************************************)
EXTENDS Scrub, SequenceTheorems, FiniteSetTheorems, WellFoundedInduction, TLAPS

Reading == {"streams", "modules", "done"}

\* The entries are those of a directory that lies in the file, and coarsen_module_list
\* has checked what it is about to read.
Directed ==
  /\ pc \notin Reading => entries = <<>> /\ cur = 1 /\ buf = dump
  /\ pc \in Reading => HeaderError(dump) = "none" /\ entries = Directory(dump)
  /\ pc = "modules" => /\ cur <= Len(entries) /\ Here.type = ModuleListStream
                       /\ Here.size >= 1 /\ InBounds(dump, Here)
  /\ pc = "done" => cur > Len(entries)

BoundsInv == TypeOK /\ Directed

\* A buffer of the minimizer: cells from 0 on, as DumpsAssumption has them.
IsBuffer(b) == /\ Size(b) \in Nat
               /\ DOMAIN b = 0 .. Size(b) - 1
               /\ \A o \in DOMAIN b : b[o] \in Nat

\* Every file is a buffer (scrub.rs:164, the slice scrub_minidump_in_place is given).
LEMMA DumpsAreBuffers == \A d \in Dumps : IsBuffer(d)
<1> SUFFICES ASSUME NEW d \in Dumps PROVE IsBuffer(d)
  OBVIOUS
<1>1. IsFiniteSet(DOMAIN d)
  BY DumpsAssumption
<1>2. Size(d) \in Nat
  BY <1>1, FS_CardinalityType DEF Size
<1> QED
  BY <1>2, DumpsAssumption DEF IsBuffer, Size

\* What has the cells of a buffer, with words in them, is one, of the same size.
LEMMA SameCells ==
  ASSUME NEW b, IsBuffer(b), NEW c, DOMAIN c = DOMAIN b, \A o \in DOMAIN c : c[o] \in Nat
  PROVE  IsBuffer(c) /\ Size(c) = Size(b)
BY DEF IsBuffer, Size

\* A header that passes its checks gives a directory inside the file (scrub.rs:193-200).
LEMMA DirectoryInside ==
  ASSUME NEW b, IsBuffer(b), HeaderError(b) = "none"
  PROVE  /\ Size(b) >= HEADER_SIZE
         /\ StreamCount(b) \in Nat /\ DirRva(b) \in Nat
         /\ DirRva(b) + StreamCount(b) * DIRECTORY_ENTRY_SIZE <= Size(b)
<1>1. Size(b) >= HEADER_SIZE
  <2>1. Size(b) < HEADER_SIZE => HeaderError(b) = "TooShort"
    BY DEF HeaderError
  <2> QED
    BY <2>1 DEF IsBuffer, HEADER_SIZE
<1>2. StreamCount(b) \in Nat /\ DirRva(b) \in Nat
  BY <1>1 DEF IsBuffer, HEADER_SIZE, StreamCount, DirRva
<1>3. DirRva(b) + StreamCount(b) * DIRECTORY_ENTRY_SIZE <= Size(b)
  <2>1. b[0] # MINIDUMP_SIGNATURE => HeaderError(b) = "BadSignature"
    BY <1>1 DEF HeaderError, IsBuffer, HEADER_SIZE
  <2>2. ~(DirRva(b) + StreamCount(b) * DIRECTORY_ENTRY_SIZE > Size(b))
    BY <1>1, <2>1 DEF HeaderError, IsBuffer, HEADER_SIZE
  <2> QED
    BY <1>2, <2>2 DEF IsBuffer, DIRECTORY_ENTRY_SIZE
<1> QED
  BY <1>1, <1>2, <1>3

EntryType == [slot : Nat, type : Nat, size : Nat, rva : Nat]

\* The entries are words of the directory, whose slots lie in the file (scrub.rs:214-228).
LEMMA EntriesInside ==
  ASSUME NEW b, IsBuffer(b), HeaderError(b) = "none"
  PROVE  /\ Directory(b) \in Seq(EntryType) /\ Len(Directory(b)) = StreamCount(b)
         /\ \A i \in 1 .. StreamCount(b) :
              /\ Directory(b)[i] \in EntryType
              /\ Directory(b)[i] = Entry(b, Directory(b)[i].slot)
              /\ Slot(Directory(b)[i]) \subseteq DOMAIN b
              /\ Directory(b)[i].slot \in Slot(Directory(b)[i])
<1>1. /\ Size(b) \in Nat /\ StreamCount(b) \in Nat /\ DirRva(b) \in Nat
      /\ DirRva(b) + StreamCount(b) * 3 <= Size(b)
  BY DirectoryInside DEF DIRECTORY_ENTRY_SIZE, IsBuffer
<1>2. ASSUME NEW i \in 1 .. StreamCount(b)
      PROVE  /\ Directory(b)[i] \in EntryType
             /\ Directory(b)[i] = Entry(b, Directory(b)[i].slot)
             /\ Slot(Directory(b)[i]) \subseteq DOMAIN b
             /\ Directory(b)[i].slot \in Slot(Directory(b)[i])
  <2> DEFINE s == DirRva(b) + (i - 1) * 3
  <2>1. s \in Nat /\ s + 3 <= Size(b)
    BY <1>1
  <2>2. Directory(b)[i] = Entry(b, s)
    BY DEF Directory, DIRECTORY_ENTRY_SIZE
  <2> HIDE DEF s
  <2>3. s \in DOMAIN b /\ s + 1 \in DOMAIN b /\ s + 2 \in DOMAIN b
    BY <1>1, <2>1 DEF IsBuffer
  <2>4. Entry(b, s) \in EntryType /\ Entry(b, s).slot = s
    BY <2>1, <2>3 DEF Entry, EntryType, IsBuffer
  <2>5. Slot(Entry(b, s)) \subseteq DOMAIN b /\ s \in Slot(Entry(b, s))
    BY <1>1, <2>1, <2>4 DEF Slot, DIRECTORY_ENTRY_SIZE, IsBuffer
  <2> QED
    BY <2>2, <2>4, <2>5
<1>3. Directory(b) = [i \in 1 .. StreamCount(b) |-> Directory(b)[i]]
  BY DEF Directory
<1>4. Directory(b) \in Seq(EntryType)
  BY <1>1, <1>2, <1>3, IsASeq
<1>5. Len(Directory(b)) = StreamCount(b)
  BY <1>1, <1>3, <1>4, LenProperties
<1> QED
  BY <1>2, <1>4, <1>5

-----------------------------------------------------------------------------
(* One name.                                                                  *)

\* A name that can be read lies in the buffer, behind its length (scrub.rs:315-337).
LEMMA NameInside ==
  ASSUME NEW b, IsBuffer(b), NEW at, NameReadable(b, at)
  PROVE  /\ at \in Nat /\ at \in DOMAIN b /\ at \notin NameCells(b, at)
         /\ NameUnits(b, at) \in Nat
         /\ NameCells(b, at) \subseteq DOMAIN b
         /\ \A o \in NameCells(b, at) : /\ o \in Nat /\ at < o /\ o <= at + NameUnits(b, at)
                                        /\ o - at - 1 \in 0 .. (NameUnits(b, at) - 1)
<1>1. at \in Nat /\ at \in DOMAIN b /\ b[at] \in Nat
  BY DEF NameReadable, IsBuffer
<1>2. NameUnits(b, at) \in Nat
  BY <1>1 DEF NameUnits
<1>3. at + 1 + NameUnits(b, at) <= Size(b)
  BY DEF NameReadable
<1> HIDE DEF NameUnits
<1> QED
  BY <1>1, <1>2, <1>3 DEF NameCells, IsBuffer

\* What the loop leaves in last_sep (scrub.rs:340-348).
LEMMA LastIsLast ==
  ASSUME NEW b, IsBuffer(b), NEW at, NameReadable(b, at), Separators(b, at) # {}
  PROVE  /\ LastSeparator(b, at) \in 0 .. (NameUnits(b, at) - 1)
         /\ LastSeparator(b, at) \in Separators(b, at)
         /\ \A j \in Separators(b, at) : j <= LastSeparator(b, at)
<1> DEFINE u == NameUnits(b, at)
           S == Separators(b, at)
           T == {k \in Nat : u - k \in S}
<1>1. u \in Nat /\ S \subseteq 0 .. (u - 1)
  BY NameInside DEF Separators
<1> HIDE DEF u, S
<1>2. T # {}
  <2>1. PICK i \in S : TRUE
    BY DEF S
  <2>2. u - i \in T
    BY <1>1, <2>1
  <2> QED
    BY <2>2
<1>3. PICK k \in T : \A j \in T : ~(<<j, k>> \in OpToRel(<, Nat))
  <2>1. T \subseteq Nat
    OBVIOUS
  <2> HIDE DEF T
  <2> QED
    BY <1>2, <2>1, NatLessThanWellFounded, WFMin
<1>4. \A j \in S : j <= u - k
  <2> TAKE j \in S
  <2>1. u - j \in T
    BY <1>1
  <2>2. ~(u - j < k)
    BY <1>3, <2>1 DEF OpToRel
  <2>3. u \in Nat /\ j \in Nat /\ k \in Nat
    BY <1>1
  <2> HIDE DEF T
  <2> QED
    BY <2>2, <2>3
<1>5. u - k \in S
  BY <1>3
<1>6. LastSeparator(b, at) \in S /\ \A j \in S : j <= LastSeparator(b, at)
  BY <1>4, <1>5 DEF LastSeparator, S
<1> QED
  BY <1>1, <1>6 DEF S, u

\* The names in place of a path: c is b with the name at a position coarsened.
\* Nothing outside the name is touched, and all that is moved is in the name
\* (scrub.rs:349-383).
LEMMA Coarsened ==
  ASSUME NEW b, IsBuffer(b), NEW at,
         NEW c, c = coarsen_module_name_to_basename(b, at)
  PROVE  /\ DOMAIN c = DOMAIN b
         /\ \A o \in DOMAIN c : c[o] \in Nat
         /\ ~NameReadable(b, at) => c = b
         /\ NameReadable(b, at) => \A o \in DOMAIN b \ NameCells(b, at) : c[o] = b[o]
<1>1. CASE ~(NameReadable(b, at) /\ Separators(b, at) # {})
  BY <1>1 DEF coarsen_module_name_to_basename, IsBuffer
<1>2. CASE NameReadable(b, at) /\ Separators(b, at) # {}
  <2> DEFINE base == LastSeparator(b, at) + 1
             u == NameUnits(b, at)
             N == NameCells(b, at)
  <2>1. at \in Nat /\ u \in Nat /\ N \subseteq DOMAIN b /\ N = (at + 1) .. (at + u)
        /\ base \in 1 .. u
    BY <1>2, NameInside, LastIsLast DEF NameCells
  <2>2. c = [o \in DOMAIN b \cup N |->
               IF o \in N THEN IF o + base <= at + u THEN b[o + base] ELSE 0 ELSE b[o]]
    BY <1>2 DEF coarsen_module_name_to_basename
  <2> HIDE DEF base, u, N
  <2>3. DOMAIN c = DOMAIN b
    BY <2>1, <2>2
  <2>4. ASSUME NEW o \in N PROVE c[o] \in Nat
    <3>1. o + base <= at + u => o + base \in N
      BY <2>1
    <3> QED
      BY <2>1, <2>2, <3>1 DEF IsBuffer
  <2>5. ASSUME NEW o \in DOMAIN b \ N PROVE c[o] = b[o]
    BY <2>2
  <2> QED
    BY <1>2, <2>3, <2>4, <2>5 DEF N, IsBuffer
<1> QED
  BY <1>1, <1>2

-----------------------------------------------------------------------------
(* No write outside the buffer.                                               *)

\* Zeros in cells of a buffer leave a buffer of the same size.
LEMMA ZeroedInside ==
  ASSUME NEW b, IsBuffer(b), NEW cells, cells \subseteq DOMAIN b
  PROVE  /\ DOMAIN Zeroed(b, cells) = DOMAIN b
         /\ \A o \in DOMAIN b : /\ Zeroed(b, cells)[o] \in Nat
                                /\ o \in cells => Zeroed(b, cells)[o] = 0
                                /\ o \notin cells => Zeroed(b, cells)[o] = b[o]
BY DEF Zeroed, IsBuffer

\* The file and what becomes of it are buffers of one size.
LEMMA BuffersHere == TypeOK => IsBuffer(dump) /\ IsBuffer(buf) /\ Size(buf) = Size(dump)
BY DumpsAreBuffers, SameCells DEF TypeOK

\* A module that the loop reads lies in the buffer (scrub.rs:280-298).
LEMMA ModuleCellsInside ==
  ASSUME NEW b, IsBuffer(b), NEW e \in EntryType, NEW m \in Nat, ModuleInside(b, e, m)
  PROVE  /\ ModuleAt(e, m) \in Nat
         /\ ModuleAt(e, m) .. (ModuleAt(e, m) + MODULE_ENTRY_SIZE - 1) \subseteq DOMAIN b
         /\ Fingerprint(e, m) \subseteq DOMAIN b
         /\ ModuleAt(e, m) + MODULE_NAME_RVA_OFFSET \in DOMAIN b
         /\ ModuleAt(e, m) + MODULE_NAME_RVA_OFFSET \notin Fingerprint(e, m)
<1>1. ModuleAt(e, m) \in Nat
  BY DEF ModuleAt, MODULE_ENTRY_SIZE, EntryType
<1>2. ModuleAt(e, m) + 27 <= Size(b)
  BY DEF ModuleInside, MODULE_ENTRY_SIZE
<1>3. Size(b) \in Nat /\ DOMAIN b = 0 .. (Size(b) - 1)
  BY DEF IsBuffer
<1>4. ModuleAt(e, m) .. (ModuleAt(e, m) + MODULE_ENTRY_SIZE - 1) \subseteq DOMAIN b
  BY <1>1, <1>2, <1>3 DEF MODULE_ENTRY_SIZE
<1>5. /\ Fingerprint(e, m) = {ModuleAt(e, m) + 3, ModuleAt(e, m) + 4}
      /\ ModuleAt(e, m) + MODULE_NAME_RVA_OFFSET = ModuleAt(e, m) + 5
  BY DEF Fingerprint, MODULE_CHECKSUM_OFFSET, MODULE_TIME_DATE_STAMP_OFFSET, MODULE_NAME_RVA_OFFSET
<1> QED
  BY <1>1, <1>2, <1>3, <1>4, <1>5

\* The entry the second pass is at is one of the directory of the file.
LEMMA HereInside ==
  ASSUME BoundsInv, pc \in {"streams", "modules"}, cur <= Len(entries)
  PROVE  /\ Here \in EntryType /\ Here \in Streams(dump)
         /\ Here.type = dump[Here.slot] /\ Here.slot \in Slot(Here)
         /\ Slot(Here) \subseteq DOMAIN dump
         /\ Payload(Here) \subseteq Nat
         /\ InBounds(dump, Here) => Payload(Here) \subseteq DOMAIN dump
<1>1. IsBuffer(dump) /\ HeaderError(dump) = "none" /\ entries = Directory(dump)
  BY BuffersHere DEF BoundsInv, Directed, Reading
<1>2. cur \in 1 .. StreamCount(dump) /\ StreamCount(dump) \in Nat
  BY <1>1, EntriesInside, DirectoryInside DEF BoundsInv, TypeOK
<1>3. /\ Here \in EntryType /\ Here = Entry(dump, Here.slot)
      /\ Slot(Here) \subseteq DOMAIN dump /\ Here.slot \in Slot(Here)
  BY <1>1, <1>2, EntriesInside DEF Here
<1>4. Here \in Streams(dump)
  BY <1>1, <1>2 DEF Streams, Here
<1>5. Here.type = dump[Here.slot]
  BY <1>3 DEF Entry
<1>6. Payload(Here) \subseteq Nat
  BY <1>3 DEF Payload, EntryType
<1>7. InBounds(dump, Here) => Payload(Here) \subseteq DOMAIN dump
  BY <1>1, <1>3 DEF InBounds, Payload, EntryType, IsBuffer
<1> QED
  BY <1>3, <1>4, <1>5, <1>6, <1>7

\* The buffer after the erasure of a stream (scrub.rs:231-247).
LEMMA DropStreamInside ==
  ASSUME BoundsInv, DropStream
  PROVE  /\ Erased(Here) \subseteq DOMAIN buf
         /\ DOMAIN buf' = DOMAIN dump
         /\ \A o \in DOMAIN dump : /\ buf'[o] \in Nat
                                   /\ o \in Erased(Here) => buf'[o] = 0
                                   /\ o \notin Erased(Here) => buf'[o] = buf[o]
<1>1. IsBuffer(buf) /\ Size(buf) = Size(dump) /\ DOMAIN buf = DOMAIN dump
  BY BuffersHere DEF BoundsInv, TypeOK
<1>2. /\ Slot(Here) \subseteq DOMAIN dump
      /\ InBounds(dump, Here) => Payload(Here) \subseteq DOMAIN dump
  BY HereInside DEF DropStream, At
<1>3. Erased(Here) \subseteq DOMAIN buf
  BY <1>1, <1>2 DEF Erased, InBounds
<1> QED
  BY <1>1, <1>3, ZeroedInside DEF DropStream

\* The buffer after the rewriting of a module (scrub.rs:299-307): its fingerprint is
\* zeros, and the name its record points to is coarsened.
LEMMA CoarsenModuleInside ==
  ASSUME BoundsInv, CoarsenModule,
         NEW plain, plain = Zeroed(buf, Fingerprint(Here, mod)),
         NEW at, at = plain[ModuleAt(Here, mod) + MODULE_NAME_RVA_OFFSET]
  PROVE  /\ IsBuffer(plain) /\ DOMAIN plain = DOMAIN dump
         /\ Fingerprint(Here, mod) \subseteq DOMAIN dump
         /\ ModuleAt(Here, mod) + MODULE_NAME_RVA_OFFSET \in DOMAIN dump
         /\ at = buf[ModuleAt(Here, mod) + MODULE_NAME_RVA_OFFSET]
         /\ \A o \in DOMAIN dump : /\ o \in Fingerprint(Here, mod) => plain[o] = 0
                                   /\ o \notin Fingerprint(Here, mod) => plain[o] = buf[o]
         /\ buf' = coarsen_module_name_to_basename(plain, at)
         /\ DOMAIN buf' = DOMAIN dump /\ \A o \in DOMAIN dump : buf'[o] \in Nat
<1>1. IsBuffer(buf) /\ DOMAIN buf = DOMAIN dump /\ mod \in Nat
  BY BuffersHere DEF BoundsInv, TypeOK
<1>2. Here \in EntryType /\ ModuleInside(buf, Here, mod)
  BY HereInside DEF CoarsenModule, At
<1>3. /\ Fingerprint(Here, mod) \subseteq DOMAIN buf
      /\ ModuleAt(Here, mod) + MODULE_NAME_RVA_OFFSET \in DOMAIN buf
      /\ ModuleAt(Here, mod) + MODULE_NAME_RVA_OFFSET \notin Fingerprint(Here, mod)
  BY <1>1, <1>2, ModuleCellsInside
<1>4. /\ DOMAIN plain = DOMAIN buf
      /\ \A o \in DOMAIN buf : /\ plain[o] \in Nat
                               /\ o \in Fingerprint(Here, mod) => plain[o] = 0
                               /\ o \notin Fingerprint(Here, mod) => plain[o] = buf[o]
  BY <1>1, <1>3, ZeroedInside
<1>5. IsBuffer(plain)
  BY <1>1, <1>4, SameCells
<1>6. buf' = coarsen_module_name_to_basename(plain, at)
  BY DEF CoarsenModule
<1>7. DOMAIN buf' = DOMAIN plain /\ \A o \in DOMAIN buf' : buf'[o] \in Nat
  BY <1>5, <1>6, Coarsened
<1> QED
  BY <1>1, <1>3, <1>4, <1>5, <1>6, <1>7

\* The bounds hold at first.
LEMMA BoundsInit == Init => BoundsInv
<1> SUFFICES ASSUME Init PROVE BoundsInv
  OBVIOUS
<1>1. IsBuffer(dump)
  BY DumpsAreBuffers DEF Init
<1>2. entries \in Seq([slot : Nat, type : Nat, size : Nat, rva : Nat]) /\ Len(entries) = 0
  BY EmptySeq DEF Init
<1>3. TypeOK
  BY <1>1, <1>2 DEF Init, TypeOK, IsBuffer, ScrubError
<1> QED
  BY <1>3 DEF Init, BoundsInv, Directed, Reading

\* What the actions do not touch stays bounded.
LEMMA BoundsNext == BoundsInv /\ [Next]_vars => BoundsInv'
<1> SUFFICES ASSUME BoundsInv, [Next]_vars PROVE BoundsInv'
  OBVIOUS
<1>1. TypeOK /\ Directed
  BY DEF BoundsInv
<1>2. /\ IsBuffer(dump) /\ IsBuffer(buf) /\ Size(buf) = Size(dump)
      /\ Len(entries) \in Nat /\ cur \in Nat
  BY <1>1, BuffersHere, LenProperties DEF TypeOK
<1>0. report \in [dropped : Nat, coarsened : Nat, zeroed : Nat]
  BY <1>1 DEF TypeOK
<1>3. CASE Refuse
  <2>1. HeaderError(buf) \in ScrubError
    BY <1>3 DEF Refuse, HeaderError, ScrubError
  <2> QED
    BY <1>1, <1>3, <2>1 DEF Refuse, BoundsInv, TypeOK, Directed, Reading, ScrubError
<1>4. CASE Collect
  <2>1. buf = dump /\ cur = 1 /\ HeaderError(dump) = "none"
    BY <1>1, <1>4 DEF Collect, Directed, Reading
  <2> QED
    BY <1>1, <1>2, <1>4, EntriesInside, LenProperties DEF Collect, BoundsInv, TypeOK, Directed, Reading, EntryType
<1>5. CASE DropStream
  <2>1. Here.size \in Nat
    BY <1>5, HereInside DEF DropStream, At, EntryType
  <2>2. report' \in [dropped : Nat, coarsened : Nat, zeroed : Nat]
    <3> DEFINE z == IF InBounds(buf, Here) THEN Here.size ELSE 0
    <3>1. z \in Nat
      BY <2>1
    <3>2. report.dropped + 1 \in Nat /\ report.zeroed + z \in Nat
      BY <1>0, <3>1
    <3>3. report' = [report EXCEPT !.dropped = report.dropped + 1, !.zeroed = report.zeroed + z]
      BY <1>5 DEF DropStream, Counted
    <3> HIDE DEF z
    <3> QED
      BY <1>0, <3>2, <3>3
  <2>3. DOMAIN buf' = DOMAIN dump' /\ \A o \in DOMAIN buf' : buf'[o] \in Nat
    BY <1>5, DropStreamInside DEF DropStream
  <2> QED
    BY <1>1, <1>2, <1>5, <2>2, <2>3 DEF DropStream, At, BoundsInv, TypeOK, Directed, Reading, Here
<1>6. CASE KeepStream
  <2>1. /\ cur' = cur + 1 /\ cur <= Len(entries) /\ pc = "streams"
        /\ UNCHANGED <<dump, buf, pc, entries, mod, report>>
    BY <1>6 DEF KeepStream, At
  <2> QED
    BY <1>1, <1>2, <2>1 DEF BoundsInv, TypeOK, Directed, Reading
<1>7. CASE ModuleList
  <2>1. InBounds(buf, Here) <=> InBounds(dump, Here)
    BY <1>2 DEF InBounds
  <2>2. CASE InBounds(buf, Here) /\ Here.size >= 1
    <3>1. /\ pc' = "modules" /\ mod' = 0 /\ cur <= Len(entries) /\ Here.type = ModuleListStream
          /\ UNCHANGED <<dump, buf, entries, cur, report>> /\ pc = "streams"
      BY <1>7, <2>2 DEF ModuleList, At
    <3> QED
      BY <1>1, <2>1, <2>2, <3>1 DEF BoundsInv, TypeOK, Directed, Reading, Here, InBounds
  <2>3. CASE ~(InBounds(buf, Here) /\ Here.size >= 1)
    <3>1. /\ cur' = cur + 1 /\ cur <= Len(entries) /\ pc = "streams"
          /\ UNCHANGED <<dump, buf, pc, entries, mod, report>>
      BY <1>7, <2>3 DEF ModuleList, At
    <3> QED
      BY <1>1, <1>2, <3>1 DEF BoundsInv, TypeOK, Directed, Reading
  <2> QED
    BY <2>2, <2>3
<1>8. CASE CoarsenModule
  <2>1. /\ pc = "modules" /\ mod' = mod + 1 /\ report' = [report EXCEPT !.coarsened = @ + 1]
        /\ UNCHANGED <<dump, pc, entries, cur>>
    BY <1>8 DEF CoarsenModule, At
  <2>2. report' \in [dropped : Nat, coarsened : Nat, zeroed : Nat]
    BY <1>0, <2>1
  <2>3. DOMAIN buf' = DOMAIN dump' /\ \A o \in DOMAIN buf' : buf'[o] \in Nat
    BY <1>8, <2>1, CoarsenModuleInside
  <2> QED
    <3>1. TypeOK'
      BY <1>1, <1>2, <2>1, <2>2, <2>3 DEF TypeOK
    <3>2. Directed'
      BY <1>1, <2>1 DEF Directed, Reading, Here, InBounds
    <3> QED
      BY <3>1, <3>2 DEF BoundsInv
<1>9. CASE LastModule
  <2>1. /\ pc = "modules" /\ pc' = "streams" /\ cur' = cur + 1
        /\ UNCHANGED <<dump, buf, entries, mod, report>>
    BY <1>9 DEF LastModule, At
  <2> QED
    BY <1>1, <1>2, <2>1 DEF BoundsInv, TypeOK, Directed, Reading
<1>10. CASE Finish
  BY <1>1, <1>2, <1>10 DEF Finish, BoundsInv, TypeOK, Directed, Reading, Here
<1>11. CASE UNCHANGED vars
  BY <1>1, <1>11 DEF vars, BoundsInv, TypeOK, Directed, Reading, Here
<1> QED
  BY <1>3, <1>4, <1>5, <1>6, <1>7, <1>8, <1>9, <1>10, <1>11 DEF Next

\* Whatever the file says of its streams, modules and names, no write falls outside it.
THEOREM NoWriteOutside == Spec => []TypeOK
<1>1. BoundsInv => TypeOK
  BY DEF BoundsInv
<1> QED
  BY <1>1, BoundsInit, BoundsNext, PTL DEF Spec

-----------------------------------------------------------------------------
(* A name that is coarsened once, or twice because two modules share it.      *)

Short(b, at) == coarsen_module_name_to_basename(b, at)

\* A cell of a coarsened path.
LEMMA ShortCell ==
  ASSUME NEW b, NEW at, NameReadable(b, at), Separators(b, at) # {},
         NEW o \in NameCells(b, at)
  PROVE  Short(b, at)[o] = IF o + (LastSeparator(b, at) + 1) <= at + NameUnits(b, at)
                             THEN b[o + (LastSeparator(b, at) + 1)] ELSE 0
BY DEF Short, coarsen_module_name_to_basename

\* A name without a separator is a basename already (scrub.rs:349).
LEMMA ShortOfBasename ==
  ASSUME NEW b, NEW at, Separators(b, at) = {}
  PROVE  Short(b, at) = b
BY DEF Short, coarsen_module_name_to_basename

\* Buffers that agree on a name's length agree on where it is and whether it can be read.
LEMMA SameExtent ==
  ASSUME NEW b, IsBuffer(b), NEW d, IsBuffer(d), DOMAIN b = DOMAIN d, Size(b) = Size(d),
         NEW at, at \in DOMAIN d, b[at] = d[at]
  PROVE  /\ NameReadable(b, at) <=> NameReadable(d, at)
         /\ NameUnits(b, at) = NameUnits(d, at)
         /\ NameCells(b, at) = NameCells(d, at)
BY DEF NameReadable, NameUnits, NameCells

\* Buffers that agree on a name agree on what is made of it.
LEMMA ShortOfSame ==
  ASSUME NEW b, IsBuffer(b), NEW d, IsBuffer(d), DOMAIN b = DOMAIN d, Size(b) = Size(d),
         NEW at, NameReadable(d, at), b[at] = d[at],
         \A o \in NameCells(d, at) : b[o] = d[o]
  PROVE  \A o \in NameCells(d, at) : Short(b, at)[o] = Short(d, at)[o]
<1> DEFINE u == NameUnits(d, at)
           N == NameCells(d, at)
<1>1. /\ NameReadable(b, at) /\ NameUnits(b, at) = u /\ NameCells(b, at) = N
      /\ at \in Nat /\ u \in Nat /\ N = (at + 1) .. (at + u)
  BY SameExtent, NameInside DEF NameCells
<1>2. Separators(b, at) = Separators(d, at)
  <2>1. \A i \in 0 .. (u - 1) : at + 1 + i \in N
    BY <1>1
  <2>2. \A i \in 0 .. (u - 1) : b[at + 1 + i] = d[at + 1 + i]
    BY <2>1
  <2> QED
    BY <1>1, <2>2 DEF Separators
<1>3. CASE Separators(d, at) = {}
  BY <1>2, <1>3, ShortOfBasename
<1>4. CASE Separators(d, at) # {}
  <2>1. LastSeparator(b, at) = LastSeparator(d, at) /\ LastSeparator(d, at) \in 0 .. (u - 1)
    <3>1. /\ LastSeparator(d, at) \in 0 .. (u - 1)
          /\ LastSeparator(d, at) \in Separators(d, at)
          /\ \A j \in Separators(d, at) : j <= LastSeparator(d, at)
      BY <1>4, LastIsLast
    <3>2. /\ LastSeparator(b, at) \in 0 .. (u - 1)
          /\ LastSeparator(b, at) \in Separators(d, at)
          /\ \A j \in Separators(d, at) : j <= LastSeparator(b, at)
      BY <1>1, <1>2, <1>4, LastIsLast
    <3>3. LastSeparator(b, at) <= LastSeparator(d, at) /\ LastSeparator(d, at) <= LastSeparator(b, at)
      BY <3>1, <3>2
    <3> QED
      BY <1>1, <3>1, <3>2, <3>3
  <2> TAKE o \in N
  <2> DEFINE p == o + (LastSeparator(d, at) + 1)
  <2>2. p <= at + u => p \in N
    BY <1>1, <2>1
  <2>3. Short(d, at)[o] = IF p <= at + u THEN d[p] ELSE 0
    BY <1>4, ShortCell
  <2>4. Short(b, at)[o] = IF p <= at + u THEN b[p] ELSE 0
    BY <1>1, <1>2, <1>4, <2>1, ShortCell
  <2> HIDE DEF p
  <2> QED
    BY <2>2, <2>3, <2>4
<1> QED
  BY <1>3, <1>4

\* What is left of a name has no separator.
LEMMA ShortHasNoSeparator ==
  ASSUME NEW d, IsBuffer(d), NEW at, NameReadable(d, at)
  PROVE  \A o \in NameCells(d, at) : Short(d, at)[o] \notin Separator
<1> DEFINE u == NameUnits(d, at)
<1>1. at \in Nat /\ u \in Nat /\ NameCells(d, at) = (at + 1) .. (at + u)
  BY NameInside DEF NameCells
<1> SUFFICES ASSUME NEW o \in NameCells(d, at) PROVE Short(d, at)[o] \notin Separator
  OBVIOUS
<1>2. CASE Separators(d, at) = {}
  <2>1. o - at - 1 \in 0 .. (u - 1) /\ at + 1 + (o - at - 1) = o
    BY <1>1
  <2>2. d[o] \notin Separator
    BY <1>2, <2>1 DEF Separators
  <2> QED
    BY <1>2, <2>2, ShortOfBasename
<1>3. CASE Separators(d, at) # {}
  <2> DEFINE last == LastSeparator(d, at)
             p == o + (last + 1)
  <2>1. last \in 0 .. (u - 1) /\ \A j \in Separators(d, at) : j <= last
    BY <1>3, LastIsLast
  <2>2. Short(d, at)[o] = IF p <= at + u THEN d[p] ELSE 0
    BY <1>3, ShortCell
  <2> HIDE DEF last
  <2>3. CASE p <= at + u
    <3>1. /\ p - at - 1 \in 0 .. (u - 1) /\ at + 1 + (p - at - 1) = p
          /\ ~(p - at - 1 <= last)
      BY <1>1, <2>1, <2>3
    <3>2. d[p] \notin Separator
      BY <2>1, <3>1 DEF Separators
    <3> QED
      BY <2>2, <2>3, <3>2
  <2>4. CASE ~(p <= at + u)
    BY <2>2, <2>4 DEF Separator
  <2> QED
    BY <2>3, <2>4
<1> QED
  BY <1>2, <1>3

\* Coarsening a coarsened name changes nothing.
LEMMA ShortOfShort ==
  ASSUME NEW b, IsBuffer(b), NEW d, IsBuffer(d), DOMAIN b = DOMAIN d, Size(b) = Size(d),
         NEW at, NameReadable(d, at), b[at] = d[at],
         \A o \in NameCells(d, at) : b[o] = Short(d, at)[o]
  PROVE  Short(b, at) = b
<1>1. /\ NameUnits(b, at) = NameUnits(d, at) /\ at \in Nat /\ NameUnits(d, at) \in Nat
      /\ NameCells(d, at) = (at + 1) .. (at + NameUnits(d, at))
  BY SameExtent, NameInside DEF NameCells
<1>2. \A i \in 0 .. (NameUnits(d, at) - 1) : at + 1 + i \in NameCells(d, at)
  BY <1>1
<1>3. \A i \in 0 .. (NameUnits(d, at) - 1) : b[at + 1 + i] \notin Separator
  BY <1>2, ShortHasNoSeparator
<1>4. Separators(b, at) = {}
  BY <1>1, <1>3 DEF Separators
<1> QED
  BY <1>4, ShortOfBasename

-----------------------------------------------------------------------------
(* The contents of the file at every step.  All that leads the minimizer to a *)
(* name stays as it was written, so that it coarsens the names the file has,  *)
(* each from what was written there or from what is left of it.               *)

AsWritten(at) == \A o \in NameCells(dump, at) : buf[o] = dump[o]
Shortened(at) == \A o \in NameCells(dump, at) : buf[o] = Short(dump, at)[o]

Taken(d, e) == Slot(e) \cup (IF InBounds(d, e) THEN Payload(e) ELSE {})
Gone(e) == \A o \in Taken(dump, e) : buf[o] = 0

SlotsKeptOrEmptied == \A e \in Streams(dump) : buf[e.slot] \in {0, dump[e.slot]}
NamesKeptOrShortened == \A at \in Names(dump) : AsWritten(at) \/ Shortened(at)

\* A module's name, if it can be read, is a basename.
ModuleDone(e, m) == NameAt(dump, e, m) \in Names(dump) => Shortened(NameAt(dump, e, m))

\* What the entries that have been passed, and the modules of the list being coarsened,
\* have been made of.
PassedDone ==
  pc \in Reading =>
    /\ \A i \in 1 .. (cur - 1) :
         /\ entries[i] \in Identifying(dump) => Gone(entries[i])
         /\ entries[i] \in ModuleLists(dump) =>
              \A m \in Modules(dump, entries[i]) : ModuleDone(entries[i], m)
    /\ pc = "modules" => \A m \in Modules(dump, Here) : m < mod => ModuleDone(Here, m)

Contents == StackwalkerKeeps /\ SlotsKeptOrEmptied /\ NamesKeptOrShortened /\ PassedDone
ScrubInv == BoundsInv /\ Contents

\* What one step may write: zeros over a secret or a fingerprint, or a whole coarsened
\* name.
Writes ==
  /\ \A o \in DOMAIN dump \ NameText(dump) :
       buf'[o] = buf[o] \/ (o \in Secrets(dump) \cup Fingerprints(dump) /\ buf'[o] = 0)
  /\ \A at \in Names(dump) :
       \/ \A o \in NameCells(dump, at) : buf'[o] = buf[o]
       \/ \A o \in NameCells(dump, at) : buf'[o] = Short(dump, at)[o]

\* The slots and the payloads of identifying streams are secrets, inside the file.
LEMMA TakenIsSecret ==
  ASSUME NEW d, IsBuffer(d), HeaderError(d) = "none"
  PROVE  /\ \A e \in Streams(d) : e.slot \in DOMAIN d
         /\ \A e \in Identifying(d) : Taken(d, e) \subseteq Secrets(d) /\ Taken(d, e) \subseteq DOMAIN d
<1>1. \A e \in Streams(d) : e \in EntryType /\ Slot(e) \subseteq DOMAIN d /\ e.slot \in Slot(e)
  BY EntriesInside DEF Streams
<1>2. ASSUME NEW e \in Identifying(d)
      PROVE  Taken(d, e) \subseteq Secrets(d) /\ Taken(d, e) \subseteq DOMAIN d
  <2>1. e \in EntryType /\ Slot(e) \subseteq DOMAIN d
    BY <1>1 DEF Identifying
  <2>2. InBounds(d, e) => Payload(e) \subseteq DOMAIN d
    BY <2>1 DEF InBounds, Payload, EntryType, IsBuffer
  <2>3. Slot(e) \subseteq Secrets(d)
    BY DEF Secrets
  <2>4. ASSUME InBounds(d, e) PROVE Payload(e) \subseteq Secrets(d)
    <3> DEFINE I == {i \in Identifying(d) : InBounds(d, i)}
    <3>1. e \in I
      BY <2>4
    <3>2. UNION {Payload(i) : i \in I} \subseteq Secrets(d)
      BY DEF Secrets
    <3> HIDE DEF I
    <3> QED
      BY <3>1, <3>2
  <2> QED
    BY <2>1, <2>2, <2>3, <2>4 DEF Taken
<1> QED
  BY <1>1, <1>2

\* The names lie in the file.
LEMMA NamesInside ==
  ASSUME NEW d, IsBuffer(d)
  PROVE  \A at \in Names(d) : /\ NameReadable(d, at) /\ at \in DOMAIN d /\ at \in Guides(d)
                              /\ NameCells(d, at) \subseteq DOMAIN d
                              /\ NameCells(d, at) \subseteq NameText(d)
BY NameInside DEF Names, Guides, NameText

\* Such writes keep what is kept and undo nothing, when the file is laid out.
LEMMA WritesUndoNothing ==
  ASSUME BoundsInv, LaidOut(dump), pc \in Reading, Writes, dump' = dump
  PROVE  /\ StackwalkerKeeps => StackwalkerKeeps'
         /\ SlotsKeptOrEmptied => SlotsKeptOrEmptied'
         /\ NamesKeptOrShortened => NamesKeptOrShortened'
         /\ \A e \in Identifying(dump) : Gone(e) => Gone(e)'
         /\ \A at \in Names(dump) : Shortened(at) => Shortened(at)'
<1>1. IsBuffer(dump) /\ HeaderError(dump) = "none"
  BY BuffersHere DEF BoundsInv, Directed
<1>2. StackwalkerKeeps => StackwalkerKeeps'
  BY DEF StackwalkerKeeps, Writes, Rewritable
<1>3. SlotsKeptOrEmptied => SlotsKeptOrEmptied'
  <2>1. \A e \in Streams(dump) : e.slot \in DOMAIN dump \ NameText(dump)
    BY <1>1, TakenIsSecret DEF LaidOut
  <2> QED
    BY <2>1 DEF SlotsKeptOrEmptied, Writes
<1>4. ASSUME NEW e \in Identifying(dump), Gone(e) PROVE Gone(e)'
  <2>1. Taken(dump, e) \subseteq DOMAIN dump \ NameText(dump)
    BY <1>1, TakenIsSecret DEF LaidOut
  <2> QED
    BY <1>4, <2>1 DEF Gone, Writes
<1>5. ASSUME NEW at \in Names(dump)
      PROVE  /\ Shortened(at) => Shortened(at)'
             /\ AsWritten(at) => AsWritten(at)' \/ Shortened(at)'
  BY DEF Shortened, AsWritten, Writes
<1>6. NamesKeptOrShortened => NamesKeptOrShortened'
  BY <1>5 DEF NamesKeptOrShortened
<1> QED
  BY <1>2, <1>3, <1>4, <1>5, <1>6

\* A stream is erased by such writes (scrub.rs:231-247).
LEMMA DropStreamWrites ==
  ASSUME BoundsInv, LaidOut(dump), DropStream
  PROVE  Writes /\ \A e : e = Here => Gone(e)'
<1>1. IsBuffer(dump) /\ HeaderError(dump) = "none" /\ Size(buf) = Size(dump)
  BY BuffersHere DEF BoundsInv, Directed, Reading, DropStream, At
<1>2. Here \in Identifying(dump)
  BY HereInside DEF Identifying, DropStream, At
<1>3. Erased(Here) = Taken(dump, Here)
  BY <1>1 DEF Erased, Taken, InBounds
<1>4. /\ Taken(dump, Here) \subseteq Secrets(dump) /\ Taken(dump, Here) \subseteq DOMAIN dump
      /\ Secrets(dump) \cap NameText(dump) = {}
  BY <1>1, <1>2, TakenIsSecret DEF LaidOut
<1>5. \A o \in DOMAIN dump : /\ o \in Taken(dump, Here) => buf'[o] = 0
                             /\ o \notin Taken(dump, Here) => buf'[o] = buf[o]
  BY <1>3, DropStreamInside
<1>6. Writes
  BY <1>1, <1>4, <1>5, NamesInside DEF Writes
<1>7. ASSUME NEW e, e = Here PROVE Gone(e)'
  BY <1>4, <1>5, <1>7 DEF Gone, DropStream
<1> QED
  BY <1>6, <1>7

\* The loop reads the modules the file has: the count of a list and the positions of the
\* names are as they were written (scrub.rs:275-307).
LEMMA ModulesAsWritten ==
  ASSUME BoundsInv, StackwalkerKeeps, LaidOut(dump), pc = "modules"
  PROVE  /\ Here \in ModuleLists(dump) /\ Here \in EntryType
         /\ ModuleInside(buf, Here, mod) <=> mod \in Modules(dump, Here)
         /\ \A m \in Modules(dump, Here) : m \in Nat /\ (m >= mod => ModuleInside(buf, Here, mod))
<1>1. /\ IsBuffer(dump) /\ Size(buf) = Size(dump) /\ mod \in Nat
      /\ cur <= Len(entries) /\ Here.type = ModuleListStream
      /\ Here.size >= 1 /\ InBounds(dump, Here)
  BY BuffersHere DEF BoundsInv, Directed, TypeOK
<1>2. Here \in EntryType /\ Here \in Streams(dump)
  BY <1>1, HereInside
<1>3. Here \in ModuleLists(dump)
  BY <1>1, <1>2 DEF ModuleLists
<1>4. Here.rva \in DOMAIN dump
  BY <1>1, <1>2 DEF InBounds, EntryType, IsBuffer
<1>5. Here.rva \in Guides(dump)
  BY <1>3, <1>4 DEF Guides
<1>6. buf[Here.rva] = dump[Here.rva] /\ dump[Here.rva] \in Nat
  BY <1>1, <1>4, <1>5 DEF LaidOut, StackwalkerKeeps, IsBuffer
<1>7. ModuleInside(buf, Here, mod) <=> ModuleInside(dump, Here, mod)
  BY <1>1, <1>6 DEF ModuleInside
<1>8. ModuleInside(dump, Here, mod) <=> mod \in Modules(dump, Here)
  BY <1>1, <1>6 DEF ModuleInside, Modules
<1>9. ASSUME NEW m \in Modules(dump, Here), m >= mod PROVE ModuleInside(dump, Here, mod)
  <2>1. m \in Nat /\ m < dump[Here.rva] /\ ModuleAt(Here, m) + MODULE_ENTRY_SIZE <= Size(dump)
    BY <1>6 DEF Modules, ModuleInside
  <2>2. ModuleAt(Here, mod) <= ModuleAt(Here, m) /\ ModuleAt(Here, mod) \in Nat /\ ModuleAt(Here, m) \in Nat
    BY <1>1, <1>2, <1>9, <2>1 DEF ModuleAt, MODULE_ENTRY_SIZE, EntryType
  <2>3. mod < dump[Here.rva]
    BY <1>1, <1>6, <1>9, <2>1
  <2>4. Size(dump) \in Nat
    BY <1>1 DEF IsBuffer
  <2> QED
    BY <2>1, <2>2, <2>3, <2>4 DEF ModuleInside, MODULE_ENTRY_SIZE
<1>10. \A m \in Modules(dump, Here) : m \in Nat
  BY <1>6 DEF Modules
<1> QED
  BY <1>2, <1>3, <1>7, <1>8, <1>9, <1>10

\* A module is coarsened by such writes, and its name is then what is left of the one that
\* was written, whether or not another module shares it (scrub.rs:299-383).
LEMMA CoarsenModuleWrites ==
  ASSUME BoundsInv, Contents, LaidOut(dump), CoarsenModule
  PROVE  /\ Writes
         /\ \A n \in Names(dump) : n = NameAt(dump, Here, mod) => Shortened(n)'
<1> DEFINE plain == Zeroed(buf, Fingerprint(Here, mod))
           pointer == ModuleAt(Here, mod) + MODULE_NAME_RVA_OFFSET
           at == plain[pointer]
<1>1. /\ IsBuffer(plain) /\ DOMAIN plain = DOMAIN dump
      /\ Fingerprint(Here, mod) \subseteq DOMAIN dump /\ pointer \in DOMAIN dump
      /\ at = buf[pointer]
      /\ \A o \in DOMAIN dump : /\ o \in Fingerprint(Here, mod) => plain[o] = 0
                                /\ o \notin Fingerprint(Here, mod) => plain[o] = buf[o]
      /\ buf' = Short(plain, at)
  BY CoarsenModuleInside DEF Short
<1> HIDE DEF plain
<1>2. /\ IsBuffer(dump) /\ Size(plain) = Size(dump) /\ dump' = dump
      /\ pc = "modules" /\ ModuleInside(buf, Here, mod) /\ StackwalkerKeeps
  BY <1>1, BuffersHere, SameCells DEF BoundsInv, CoarsenModule, At, Contents, IsBuffer
<1>3. Here \in ModuleLists(dump) /\ mod \in Modules(dump, Here)
  BY <1>2, ModulesAsWritten
<1>4. Fingerprint(Here, mod) \subseteq Fingerprints(dump)
  BY <1>3 DEF Fingerprints
<1>5. at = NameAt(dump, Here, mod)
  <2>1. pointer \in Guides(dump)
    BY <1>1, <1>3 DEF Guides
  <2>2. buf[pointer] = dump[pointer]
    BY <1>1, <1>2, <2>1 DEF LaidOut, StackwalkerKeeps
  <2> QED
    BY <1>1, <2>2 DEF NameAt
<1> HIDE DEF at
<1>6. \A o \in NameText(dump) : o \notin Fingerprint(Here, mod)
  BY <1>4 DEF LaidOut
<1>7. ASSUME at \in DOMAIN dump
      PROVE  /\ plain[at] = dump[at]
             /\ NameReadable(plain, at) <=> NameReadable(dump, at)
             /\ NameCells(plain, at) = NameCells(dump, at)
             /\ NameReadable(dump, at) <=> at \in Names(dump)
  <2>1. at \in Guides(dump) /\ (NameReadable(dump, at) <=> at \in Names(dump))
    BY <1>3, <1>5, <1>7 DEF Guides, Names
  <2>2. at \notin Rewritable(dump) /\ at \notin Fingerprint(Here, mod)
    BY <1>4, <2>1 DEF LaidOut, Rewritable
  <2>3. plain[at] = dump[at]
    BY <1>1, <1>2, <1>7, <2>2 DEF StackwalkerKeeps
  <2> QED
    BY <1>1, <1>2, <1>7, <2>1, <2>3, SameExtent
<1>8. CASE at \notin Names(dump)
  <2>1. ~NameReadable(plain, at)
    <3>1. at \in DOMAIN dump => ~NameReadable(plain, at)
      BY <1>7, <1>8
    <3> QED
      BY <1>1, <3>1 DEF NameReadable
  <2>2. buf' = plain
    BY <1>1, <2>1, Coarsened DEF Short
  <2>3. Writes
    BY <1>1, <1>2, <1>4, <1>6, <2>2, NamesInside DEF Writes
  <2> QED
    BY <1>5, <1>8, <2>3
<1>9. CASE at \in Names(dump)
  <2>1. at \in DOMAIN dump /\ NameReadable(dump, at) /\ NameCells(dump, at) \subseteq NameText(dump)
    BY <1>2, <1>9, NamesInside
  <2>2. /\ plain[at] = dump[at] /\ NameReadable(plain, at)
        /\ NameCells(plain, at) = NameCells(dump, at)
    BY <1>7, <2>1
  <2>3. \A o \in DOMAIN dump \ NameCells(dump, at) : buf'[o] = plain[o]
    BY <1>1, <2>2, Coarsened DEF Short
  <2>4. \A o \in NameCells(dump, at) : plain[o] = buf[o]
    BY <1>1, <1>2, <1>6, <1>9, <2>1, NamesInside
  <2>5. \A o \in NameCells(dump, at) : buf'[o] = Short(dump, at)[o]
    <3>1. CASE AsWritten(at)
      <4>1. \A o \in NameCells(dump, at) : plain[o] = dump[o]
        BY <2>4, <3>1 DEF AsWritten
      <4> QED
        BY <1>1, <1>2, <2>1, <2>2, <4>1, ShortOfSame
    <3>2. CASE Shortened(at)
      <4>1. \A o \in NameCells(dump, at) : plain[o] = Short(dump, at)[o]
        BY <2>4, <3>2 DEF Shortened
      <4>2. buf' = plain
        BY <1>1, <1>2, <2>1, <2>2, <4>1, ShortOfShort
      <4> QED
        BY <4>1, <4>2
    <3> QED
      BY <1>9, <3>1, <3>2 DEF Contents, NamesKeptOrShortened
  <2>6. ASSUME NEW n \in Names(dump), n # at PROVE \A o \in NameCells(dump, n) : buf'[o] = buf[o]
    <3>1. NameCells(dump, n) \cap NameCells(dump, at) = {}
      BY <1>9, <2>6 DEF LaidOut
    <3>2. NameCells(dump, n) \subseteq NameText(dump) /\ NameCells(dump, n) \subseteq DOMAIN dump
      BY <1>2, NamesInside
    <3> QED
      BY <1>1, <1>6, <2>3, <3>1, <3>2
  <2>7. \A o \in DOMAIN dump \ NameText(dump) :
          buf'[o] = buf[o] \/ (o \in Secrets(dump) \cup Fingerprints(dump) /\ buf'[o] = 0)
    BY <1>1, <1>4, <2>1, <2>3
  <2>8. Writes
    BY <2>5, <2>6, <2>7 DEF Writes
  <2>9. ASSUME NEW n \in Names(dump), n = at PROVE Shortened(n)'
    BY <1>2, <2>5, <2>9 DEF Shortened
  <2> QED
    BY <1>5, <2>8, <2>9
<1> QED
  BY <1>8, <1>9

\* Before the second pass begins nothing has been written.
LEMMA NothingWritten == BoundsInv /\ buf = dump /\ (pc \in Reading => pc = "streams" /\ cur = 1) => Contents
<1> SUFFICES ASSUME BoundsInv, buf = dump, pc \in Reading => pc = "streams" /\ cur = 1
             PROVE  Contents
  OBVIOUS
<1>1. PassedDone
  BY DEF PassedDone
<1> QED
  BY <1>1 DEF Contents, StackwalkerKeeps, SlotsKeptOrEmptied, NamesKeptOrShortened, AsWritten

\* Steps that write nothing keep what is kept.
LEMMA QuietStep ==
  ASSUME Contents, UNCHANGED <<dump, buf>>
  PROVE  /\ StackwalkerKeeps' /\ SlotsKeptOrEmptied' /\ NamesKeptOrShortened'
         /\ \A e : Gone(e) => Gone(e)'
         /\ \A at : Shortened(at) => Shortened(at)'
BY DEF Contents, StackwalkerKeeps, SlotsKeptOrEmptied, NamesKeptOrShortened, AsWritten, Shortened, Gone

\* The entry that is passed is as the minimizer promises, and those before it stay so.
LEMMA PassEntry ==
  ASSUME BoundsInv, Contents, pc \in Reading, pc' = "streams", UNCHANGED <<dump, entries>>,
         cur \in Nat, cur' = cur + 1,
         \A e \in Identifying(dump) : Gone(e) => Gone(e)',
         \A at \in Names(dump) : Shortened(at) => Shortened(at)',
         Here \in Identifying(dump) => \A e : e = Here => Gone(e)',
         Here \in ModuleLists(dump) => \A m \in Modules(dump, Here) : ModuleDone(Here, m)
  PROVE  PassedDone'
<1> SUFFICES ASSUME NEW i \in 1 .. cur
             PROVE  /\ entries[i] \in Identifying(dump) => \A e : e = entries[i] => Gone(e)'
                    /\ entries[i] \in ModuleLists(dump) =>
                         \A m \in Modules(dump, entries[i]), at \in Names(dump) :
                           NameAt(dump, entries[i], m) = at => Shortened(at)'
  BY DEF PassedDone, ModuleDone, Gone, Shortened
<1>1. CASE i = cur
  BY <1>1 DEF Here, ModuleDone
<1>2. CASE i # cur
  <2>1. i \in 1 .. (cur - 1)
    BY <1>2
  <2>2. entries[i] \in Identifying(dump) => Gone(entries[i])
    BY <2>1 DEF Contents, PassedDone
  <2>3. ASSUME entries[i] \in ModuleLists(dump), NEW m \in Modules(dump, entries[i]), NEW at \in Names(dump),
               NameAt(dump, entries[i], m) = at
        PROVE  Shortened(at)
    <3>1. ModuleDone(entries[i], m)
      BY <2>1, <2>3 DEF Contents, PassedDone
    <3> QED
      BY <2>3, <3>1 DEF ModuleDone
  <2> QED
    BY <2>2, <2>3
<1> QED
  BY <1>1, <1>2

\* The contents hold at first: nothing has been written yet.
LEMMA ScrubInit == Init => ScrubInv
<1> SUFFICES ASSUME Init PROVE ScrubInv
  OBVIOUS
<1>1. BoundsInv /\ buf = dump /\ pc = "header"
  BY BoundsInit DEF Init
<1> QED
  BY <1>1, NothingWritten DEF ScrubInv, Reading

\* Every step keeps the contents, of files that are laid out (scrub.rs:219-388).
LEMMA ScrubNext ==
  ASSUME \A d \in Dumps : LaidOut(d)
  PROVE  ScrubInv /\ [Next]_vars => ScrubInv'
<1> SUFFICES ASSUME ScrubInv, [Next]_vars PROVE ScrubInv'
  OBVIOUS
<1>1. /\ BoundsInv /\ Contents /\ BoundsInv' /\ LaidOut(dump)
      /\ cur \in Nat /\ mod \in Nat
  BY BoundsNext, BuffersHere, LenProperties DEF ScrubInv, BoundsInv, TypeOK
<1> SUFFICES Contents'
  BY <1>1 DEF ScrubInv
<1>2. CASE Refuse \/ Collect
  <2>1. buf = dump /\ cur = 1 /\ UNCHANGED <<dump, buf, cur>> /\ (pc' \in Reading => pc' = "streams")
    BY <1>1, <1>2 DEF Refuse, Collect, BoundsInv, TypeOK, Directed, Reading, HeaderError
  <2> QED
    BY <1>1, <2>1 DEF PassedDone, Reading, Contents, StackwalkerKeeps, SlotsKeptOrEmptied,
       NamesKeptOrShortened, AsWritten
<1>3. CASE DropStream
  <2>1. /\ pc = "streams" /\ pc' = "streams" /\ cur' = cur + 1 /\ UNCHANGED <<dump, entries>>
        /\ Here.type # ModuleListStream
    BY <1>3 DEF DropStream, At, is_identifying_stream, LinuxStream, MozLinuxLimits, ModuleListStream
  <2>2. Writes /\ \A e : e = Here => Gone(e)'
    BY <1>1, <1>3, DropStreamWrites
  <2>3. /\ StackwalkerKeeps' /\ SlotsKeptOrEmptied' /\ NamesKeptOrShortened'
        /\ \A e \in Identifying(dump) : Gone(e) => Gone(e)'
        /\ \A at \in Names(dump) : Shortened(at) => Shortened(at)'
    BY <1>1, <2>1, <2>2, WritesUndoNothing DEF Contents, Reading
  <2>4. Here \notin ModuleLists(dump)
    BY <2>1 DEF ModuleLists
  <2>5. PassedDone'
    BY <1>1, <2>1, <2>2, <2>3, <2>4, PassEntry DEF Reading
  <2> QED
    BY <2>3, <2>5 DEF Contents
<1>4. CASE KeepStream
  <2>1. /\ pc = "streams" /\ pc' = "streams" /\ cur' = cur + 1 /\ UNCHANGED <<dump, buf, entries>>
        /\ Here \notin Identifying(dump) /\ Here \notin ModuleLists(dump)
    BY <1>4 DEF KeepStream, At, Identifying, ModuleLists
  <2>2. PassedDone'
    BY <1>1, <2>1, QuietStep, PassEntry DEF Reading
  <2> QED
    BY <1>1, <2>1, <2>2, QuietStep DEF Contents
<1>5. CASE ModuleList
  <2>1. UNCHANGED <<dump, buf, entries>> /\ pc = "streams" /\ Here.type = ModuleListStream
    BY <1>5 DEF ModuleList, At
  <2>2. CASE pc' = "modules" /\ mod' = 0 /\ cur' = cur
    <3>1. PassedDone'
      BY <1>1, <2>1, <2>2 DEF Contents, PassedDone, Reading, Gone, ModuleDone, Shortened, Here, Modules
    <3> QED
      BY <1>1, <2>1, <3>1, QuietStep DEF Contents
  <2>3. CASE pc' = "streams" /\ cur' = cur + 1 /\ ~(InBounds(buf, Here) /\ Here.size >= 1)
    <3>1. Here \notin Identifying(dump)
      BY <2>1 DEF Identifying, is_identifying_stream, ModuleListStream, LinuxStream, MozLinuxLimits
    <3>2. Here \notin ModuleLists(dump)
      BY <1>1, <2>3, BuffersHere DEF ModuleLists, InBounds, BoundsInv
    <3>3. PassedDone'
      BY <1>1, <2>1, <2>3, <3>1, <3>2, QuietStep, PassEntry DEF Reading
    <3> QED
      BY <1>1, <2>1, <3>3, QuietStep DEF Contents
  <2> QED
    BY <1>5, <2>1, <2>2, <2>3 DEF ModuleList
<1>6. CASE CoarsenModule
  <2>1. /\ pc = "modules" /\ pc' = "modules" /\ mod' = mod + 1 /\ UNCHANGED <<dump, entries, cur>>
    BY <1>6 DEF CoarsenModule, At
  <2>2. Writes /\ \A n \in Names(dump) : n = NameAt(dump, Here, mod) => Shortened(n)'
    BY <1>1, <1>6, CoarsenModuleWrites
  <2>3. /\ StackwalkerKeeps' /\ SlotsKeptOrEmptied' /\ NamesKeptOrShortened'
        /\ \A e \in Identifying(dump) : Gone(e) => Gone(e)'
        /\ \A at \in Names(dump) : Shortened(at) => Shortened(at)'
    BY <1>1, <2>1, <2>2, WritesUndoNothing DEF Contents, Reading
  <2>4. \A e, m : ModuleDone(e, m) => ModuleDone(e, m)'
    BY <2>1, <2>3 DEF ModuleDone
  <2>5. ASSUME NEW m \in Modules(dump, Here), m < mod + 1 PROVE ModuleDone(Here, m)'
    <3>1. m \in Int
      BY <2>5 DEF Modules
    <3>2. CASE m < mod
      <4>1. ModuleDone(Here, m)
        BY <1>1, <2>1, <3>2 DEF Contents, PassedDone, Reading
      <4> QED
        BY <2>1, <2>3, <4>1 DEF ModuleDone, Here
    <3>3. CASE m = mod
      BY <2>1, <2>2, <3>3 DEF ModuleDone, Here
    <3> QED
      BY <1>1, <2>5, <3>1, <3>2, <3>3
  <2>6. PassedDone'
    BY <1>1, <2>1, <2>3, <2>4, <2>5 DEF Contents, PassedDone, Reading, Here
  <2> QED
    BY <2>3, <2>6 DEF Contents
<1>7. CASE LastModule
  <2>1. /\ pc = "modules" /\ pc' = "streams" /\ cur' = cur + 1 /\ ~ModuleInside(buf, Here, mod)
        /\ UNCHANGED <<dump, buf, entries>>
    BY <1>7 DEF LastModule, At
  <2>2. /\ Here \in ModuleLists(dump)
        /\ \A m \in Modules(dump, Here) : m \in Nat /\ ~(m >= mod)
    BY <1>1, <2>1, ModulesAsWritten DEF Contents
  <2>3. Here \notin Identifying(dump)
    BY <2>2 DEF ModuleLists, Identifying, is_identifying_stream, ModuleListStream, LinuxStream, MozLinuxLimits
  <2>4. \A m \in Modules(dump, Here) : ModuleDone(Here, m)
    BY <1>1, <2>1, <2>2 DEF Contents, PassedDone, Reading
  <2>5. PassedDone'
    BY <1>1, <2>1, <2>3, <2>4, QuietStep, PassEntry DEF Reading
  <2> QED
    BY <1>1, <2>1, <2>5, QuietStep DEF Contents
<1>8. CASE Finish \/ UNCHANGED vars
  <2>1. /\ UNCHANGED <<dump, buf, entries, cur, mod>>
        /\ pc' = pc \/ (pc = "streams" /\ pc' = "done")
    BY <1>8 DEF Finish, vars
  <2>2. PassedDone'
    BY <1>1, <2>1 DEF Contents, PassedDone, Reading, Gone, ModuleDone, Shortened, Here
  <2> QED
    BY <1>1, <2>1, <2>2, QuietStep DEF Contents
<1> QED
  BY <1>2, <1>3, <1>4, <1>5, <1>6, <1>7, <1>8 DEF Next

\* A coarsened name that was written is a basename followed by zeros.
LEMMA ShortIsBasename ==
  ASSUME NEW at \in Names(dump), IsBuffer(dump), Shortened(at)
  PROVE  \E k \in 0 .. NameUnits(dump, at) :
           /\ IsBasename(SubSeq(NameOf(buf, at), 1, k), NameOf(dump, at))
           /\ \A i \in (k + 1) .. NameUnits(dump, at) : buf[at + i] = 0
<1> DEFINE u == NameUnits(dump, at)
           N == NameCells(dump, at)
           name == NameOf(dump, at)
           left == NameOf(buf, at)
<1>1. /\ NameReadable(dump, at) /\ at \in Nat /\ u \in Nat /\ N = (at + 1) .. (at + u)
      /\ \A o \in N : dump[o] \in Nat
  BY NamesInside, NameInside DEF NameCells, IsBuffer
<1>2. \A i \in 1 .. u : /\ at + i \in N /\ left[i] = Short(dump, at)[at + i] /\ name[i] = dump[at + i]
                        /\ left[i] \notin Separator
  <2>1. \A i \in 1 .. u : at + i \in N
    BY <1>1
  <2> QED
    BY <1>1, <2>1, ShortHasNoSeparator DEF Shortened, NameOf
<1>3. name \in Seq(Nat) /\ Len(name) = u
  BY <1>1, <1>2 DEF NameOf
<1>4. PICK base \in 0 .. u :
        /\ \A i \in 1 .. u : left[i] = IF i + base <= u THEN name[i + base] ELSE 0
        /\ base > 0 => name[base] \in Separator
  <2>1. CASE Separators(dump, at) = {}
    <3>1. \A i \in 1 .. u : left[i] = IF i + 0 <= u THEN name[i + 0] ELSE 0
      BY <1>1, <1>2, <2>1, ShortOfBasename
    <3> QED
      BY <1>1, <3>1
  <2>2. CASE Separators(dump, at) # {}
    <3> DEFINE last == LastSeparator(dump, at)
    <3>1. last \in 0 .. (u - 1) /\ last \in Separators(dump, at)
      BY <1>1, <2>2, LastIsLast
    <3>2. name[last + 1] \in Separator
      <4>1. last + 1 \in 1 .. u /\ at + 1 + last = at + (last + 1)
        BY <1>1, <3>1
      <4>2. dump[at + 1 + last] \in Separator
        BY <3>1 DEF Separators
      <4> HIDE DEF last, name, left, u
      <4> QED
        BY <1>2, <4>1, <4>2
    <3>3. \A i \in 1 .. u : left[i] = IF i + (last + 1) <= u THEN name[i + (last + 1)] ELSE 0
      <4> TAKE i \in 1 .. u
      <4>1. left[i] = IF (at + i) + (last + 1) <= at + u THEN dump[(at + i) + (last + 1)] ELSE 0
        BY <1>1, <1>2, <2>2, ShortCell
      <4>2. i + (last + 1) <= u => name[i + (last + 1)] = dump[(at + i) + (last + 1)]
        BY <1>1, <1>2, <3>1
      <4> QED
        BY <1>1, <3>1, <4>1, <4>2
    <3>4. last + 1 \in 0 .. u
      BY <1>1, <3>1
    <3> HIDE DEF last, name, left, u
    <3> QED
      BY <3>2, <3>3, <3>4
  <2> QED
    BY <2>1, <2>2
<1> DEFINE k == u - base
           rest == SubSeq(left, 1, k)
           path == SubSeq(name, 1, base)
<1> HIDE DEF u, N, name, left
<1>5. /\ k \in 0 .. u /\ rest \in Seq(Nat) /\ Len(rest) = k
      /\ \A i \in 1 .. k : rest[i] = name[i + base] /\ rest[i] = left[i]
  <2>1. \A i \in 1 .. k : i \in 1 .. u /\ i + base <= u /\ i + base \in 1 .. u
    BY <1>1, <1>4
  <2>2. \A i \in 1 .. k : left[i] = name[i + base] /\ left[i] \in Nat
    BY <1>3, <1>4, <2>1, ElementOfSeq
  <2>3. k \in 0 .. u /\ (1 <= k => k - 1 + 1 = k) /\ k - 1 + 1 = k /\ \A i \in 1 .. k : 1 + i - 1 = i
    BY <1>1, <1>4
  <2> QED
    <3> HIDE DEF k
    <3>1. k \in Int /\ 1 \in Int
      BY <1>1, <2>3
    <3>2. /\ rest \in Seq(Nat) /\ Len(rest) = IF 1 <= k THEN k - 1 + 1 ELSE 0
          /\ \A i \in 1 .. (k - 1 + 1) : rest[i] = left[1 + i - 1]
      BY <2>2, <3>1, SubSeqProperties
    <3> QED
      BY <1>1, <2>2, <2>3, <3>2
<1>6. /\ path \in Seq(Nat) /\ Len(path) = base /\ \A i \in 1 .. base : path[i] = name[i]
  <2>1. \A i \in 1 .. base : name[i] \in Nat
    BY <1>1, <1>3, <1>4, ElementOfSeq
  <2>2. base \in Int /\ 1 \in Int
    BY <1>1, <1>4
  <2>3. /\ path \in Seq(Nat) /\ Len(path) = IF 1 <= base THEN base - 1 + 1 ELSE 0
        /\ \A i \in 1 .. (base - 1 + 1) : path[i] = name[1 + i - 1]
    BY <2>1, <2>2, SubSeqProperties
  <2> QED
    BY <1>1, <1>4, <2>3
<1> HIDE DEF rest, path, k
<1>7. /\ path \o rest \in Seq(Nat) /\ Len(path \o rest) = base + k
      /\ \A i \in 1 .. (base + k) : (path \o rest)[i] = IF i <= base THEN path[i] ELSE rest[i - base]
  <2>1. /\ path \o rest \in Seq(Nat) /\ Len(path \o rest) = Len(path) + Len(rest)
        /\ \A i \in 1 .. Len(path) + Len(rest) :
             (path \o rest)[i] = IF i <= Len(path) THEN path[i] ELSE rest[i - Len(path)]
    <3>1. path \in Seq(Nat) /\ rest \in Seq(Nat)
      BY <1>5, <1>6
    <3> QED
      BY <3>1, ConcatProperties, Zenon
  <2> QED
    BY <1>5, <1>6, <2>1
<1>8. name = path \o rest
  <2>1. base + k = u
    BY <1>1, <1>4 DEF k
  <2>2. \A i \in 1 .. u : name[i] = (path \o rest)[i]
    <3> TAKE i \in 1 .. u
    <3>0. /\ base \in Nat /\ k \in Nat /\ u \in Nat /\ i \in 1 .. (base + k)
      BY <1>1, <1>4, <1>5, <2>1
    <3>1. CASE i <= base
      BY <1>6, <1>7, <3>0, <3>1
    <3>2. CASE i > base
      <4>1. i - base \in 1 .. k /\ (i - base) + base = i
        BY <3>0, <3>2
      <4>2. name[i] = rest[i - base]
        BY <1>5, <4>1
      <4> QED
        BY <1>7, <3>0, <3>2, <4>2
    <3>3. i <= base \/ i > base
      BY <3>0
    <3> QED
      BY <3>1, <3>2, <3>3, Zenon
  <2> QED
    BY <1>3, <1>7, <2>1, <2>2, SeqEqual
<1>9. IsBasename(rest, name)
  <2>1. \A i \in DOMAIN rest : rest[i] \notin Separator
    <3>1. DOMAIN rest = 1 .. k
      BY <1>5, LenProperties
    <3>2. \A i \in 1 .. k : i \in 1 .. u /\ rest[i] = left[i]
      BY <1>1, <1>5
    <3> QED
      BY <1>2, <3>1, <3>2
  <2>2. path # <<>> => path[Len(path)] \in Separator
    BY <1>4, <1>6
  <2>3. path \in {SubSeq(name, 1, n) : n \in 0 .. Len(name)}
    BY <1>3, <1>4 DEF path
  <2> QED
    BY <1>8, <2>1, <2>2, <2>3 DEF IsBasename
<1>10. \A i \in (k + 1) .. u : buf[at + i] = 0
  <2> TAKE i \in (k + 1) .. u
  <2>1. left[i] = 0
    BY <1>1, <1>4, <1>5 DEF k
  <2> QED
    BY <1>1, <1>5, <2>1 DEF left, NameOf, u
<1> QED
  BY <1>5, <1>9, <1>10 DEF u, name, left, rest

\* On files that are laid out as a writer does, nothing the minimizer means to keep is
\* changed, at any step.
THEOREM KeepsWhatIsNeeded ==
  ASSUME \A d \in Dumps : LaidOut(d)
  PROVE  Spec => []StackwalkerKeeps
<1>1. ScrubInv => StackwalkerKeeps
  BY DEF ScrubInv, Contents
<1>2. ScrubInv /\ [Next]_vars => ScrubInv'
  BY ScrubNext
<1> QED
  BY <1>1, <1>2, ScrubInit, PTL DEF Spec

\* On such files the minimizer succeeds only with every identifying stream erased, and
\* none left in the directory.
THEOREM NothingIdentifyingLeft ==
  ASSUME \A d \in Dumps : LaidOut(d)
  PROVE  Spec => []ReservoirsErased
<1>1. ScrubInv => ReservoirsErased
  <2> SUFFICES ASSUME ScrubInv, pc = "done" PROVE ReservoirsErased
    BY DEF ReservoirsErased
  <2>1. /\ BoundsInv /\ Contents /\ HeaderError(dump) = "none" /\ entries = Directory(dump)
        /\ cur > Len(entries) /\ cur \in Nat /\ IsBuffer(dump)
    BY BuffersHere, LenProperties DEF ScrubInv, BoundsInv, TypeOK, Directed, Reading
  <2>2. ASSUME NEW e \in Identifying(dump) PROVE Gone(e)
    <3>1. PICK i \in 1 .. StreamCount(dump) : e = entries[i]
      BY <2>1 DEF Identifying, Streams
    <3>2. i \in 1 .. (cur - 1)
      BY <2>1, <3>1, EntriesInside, DirectoryInside
    <3> QED
      BY <2>1, <3>1, <3>2 DEF Contents, PassedDone, Reading
  <2>3. ASSUME NEW e \in Streams(dump) PROVE ~is_identifying_stream(buf[e.slot])
    <3>1. e \in EntryType /\ e = Entry(dump, e.slot) /\ e.slot \in Slot(e)
      BY <2>1, EntriesInside DEF Streams
    <3>2. dump[e.slot] = e.type
      BY <3>1 DEF Entry
    <3>3. ~is_identifying_stream(0)
      BY DEF is_identifying_stream, LinuxStream, MozLinuxLimits
    <3>4. CASE is_identifying_stream(e.type)
      BY <2>2, <3>1, <3>3, <3>4 DEF Identifying, Gone, Taken
    <3>5. CASE ~is_identifying_stream(e.type)
      BY <2>1, <3>2, <3>3, <3>5 DEF Contents, SlotsKeptOrEmptied
    <3> QED
      BY <3>4, <3>5
  <2> QED
    BY <2>2, <2>3 DEF ReservoirsErased, Gone, Taken
<1>2. ScrubInv /\ [Next]_vars => ScrubInv'
  BY ScrubNext
<1> QED
  BY <1>1, <1>2, ScrubInit, PTL DEF Spec

\* On such files every module name that can be read is its basename in the end, however
\* many modules share it.
THEOREM PathsAreGone ==
  ASSUME \A d \in Dumps : LaidOut(d)
  PROVE  Spec => []OnlyBasenames
<1>1. ScrubInv => OnlyBasenames
  <2> SUFFICES ASSUME ScrubInv, pc = "done", NEW at \in Names(dump)
               PROVE  /\ buf[at] = dump[at]
                      /\ Shortened(at) /\ IsBuffer(dump)
    BY ShortIsBasename DEF OnlyBasenames
  <2>1. /\ BoundsInv /\ Contents /\ HeaderError(dump) = "none" /\ entries = Directory(dump)
        /\ cur > Len(entries) /\ cur \in Nat /\ IsBuffer(dump)
    BY BuffersHere, LenProperties DEF ScrubInv, BoundsInv, TypeOK, Directed, Reading
  <2>2. buf[at] = dump[at]
    BY <2>1, NamesInside DEF LaidOut, Contents, StackwalkerKeeps, BoundsInv, TypeOK
  <2>3. PICK e \in ModuleLists(dump) : \E m \in Modules(dump, e) : at = NameAt(dump, e, m)
    BY DEF Names
  <2>4. PICK i \in 1 .. StreamCount(dump) : e = entries[i]
    BY <2>1, <2>3 DEF ModuleLists, Streams
  <2>5. i \in 1 .. (cur - 1)
    BY <2>1, <2>4, EntriesInside, DirectoryInside
  <2>6. Shortened(at)
    BY <2>1, <2>3, <2>4, <2>5 DEF Contents, PassedDone, Reading, ModuleDone
  <2> QED
    BY <2>1, <2>2, <2>6
<1>2. ScrubInv /\ [Next]_vars => ScrubInv'
  BY ScrubNext
<1> QED
  BY <1>1, <1>2, ScrubInit, PTL DEF Spec
=============================================================================
