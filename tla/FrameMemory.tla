----------------------------- MODULE FrameMemory -----------------------------
(***************************************************************************)
(* One P010 frame on its way through memory: the descriptor tables are     *)
(* built over the scatter list of the buffer (gc573-video-dma.c), the      *)
(* engine writes the planes along them, luma as two 12-bit samples in      *)
(* three bytes, and the completion unpacks the luma to 16-bit samples in   *)
(* place (gc573-video.c).  Bytes are numbers, sizes are in bytes.          *)
(***************************************************************************)
EXTENDS Integers, Sequences, SequencesExt

CONSTANTS
    Width, Height,      \* a small frame
    Scatters,           \* scatter lists: sequences of segment lengths
    Samples,            \* luma pictures: functions of the index of a sample
    MaxDescriptors      \* GC555_VIDEO_DMA_MAX_DESCRIPTORS

Pixels == Width * Height
LumaSize == 2 * Pixels
ChromaSize == Pixels
LumaTransfer == (LumaSize \div 4) * 3
Planes == {"luma", "chroma"}
Offset(p) == IF p = "luma" THEN 0 ELSE LumaSize
Span(p) == IF p = "luma" THEN LumaTransfer ELSE ChromaSize

VARIABLES
    sg,                 \* the scatter list: lengths; segments lie apart
    plane, index, skip, remaining,      \* build_table in progress
    table,              \* per plane: a sequence of descriptors
    count,              \* per plane: the descriptors that are needed
    data,               \* the buffer as the CPU sees it, by offset
    picture,            \* the luma samples the source sent
    next,               \* pair of samples that is unpacked next
    pc

vars == <<sg, plane, index, skip, remaining, table, count, data, picture, next,
          pc>>

\* Segment i begins at address 1000 * i.
Address(i) == 1000 * i

RECURSIVE Prefix(_, _)
Prefix(s, n) == IF n = 0 THEN 0 ELSE Prefix(s, n - 1) + s[n]

\* The offset of the buffer that lies at an address.
OffsetAt(a) == Prefix(sg, a \div 1000 - 1) + (a % 1000)

Init ==
    /\ sg \in Scatters /\ picture \in Samples
    /\ plane = "luma" /\ index = 1 /\ skip = 0 /\ remaining = LumaTransfer
    /\ table = [p \in Planes |-> <<>>] /\ count = [p \in Planes |-> 0]
    /\ data = [o \in 0 .. 3 * Pixels - 1 |-> 0]
    /\ next = Pixels \div 2
    /\ pc = "build"

-----------------------------------------------------------------------------
(* gc555_video_dma_build_table: one segment of the scatter list per step    *)

\* Segments in front of the span are skipped.
SkipSegment ==
    /\ pc = "build" /\ index <= Len(sg) /\ skip >= sg[index]
    /\ skip' = skip - sg[index] /\ index' = index + 1
    /\ UNCHANGED <<sg, plane, remaining, table, count, data, picture, next, pc>>

Length == IF sg[index] - skip < remaining THEN sg[index] - skip ELSE remaining

\* Mutant: the descriptor of the first segment starts where the segment does.
Descriptor_NoSkip == [address |-> Address(index), length |-> Length]

Descriptor == [address |-> Address(index) + skip, length |-> Length]

\* Descriptors that do not fit into the table are counted, not stored.
Store(d) ==
    table' = IF count[plane] < MaxDescriptors
             THEN [table EXCEPT ![plane] = Append(@, d)] ELSE table

TakeSegment ==
    /\ pc = "build" /\ index <= Len(sg) /\ skip < sg[index]
    /\ IF Length % 8 # 0 \/ (Address(index) + skip) % 4 # 0
       THEN /\ pc' = "failed"
            /\ UNCHANGED <<index, skip, remaining, table, count>>
       ELSE /\ Store(Descriptor)
            /\ count' = [count EXCEPT ![plane] = @ + 1]
            /\ remaining' = remaining - Length
            /\ skip' = 0 /\ index' = index + 1
            /\ pc' = IF remaining = Length THEN "built" ELSE pc
    /\ UNCHANGED <<sg, plane, data, picture, next>>

\* The list ends before the span does.
OutOfSegments ==
    /\ pc = "build" /\ index > Len(sg)
    /\ pc' = "failed"
    /\ UNCHANGED <<sg, plane, index, skip, remaining, table, count, data,
                   picture, next>>

\* gc555_video_dma_prepare: chroma follows luma, too long a table is refused.
FinishTable ==
    /\ pc = "built"
    /\ IF count[plane] > MaxDescriptors
       THEN pc' = "failed" /\ UNCHANGED <<plane, index, skip, remaining>>
       ELSE IF plane = "luma"
       THEN /\ plane' = "chroma" /\ index' = 1
            /\ skip' = Offset("chroma") /\ remaining' = Span("chroma")
            /\ pc' = "build"
       ELSE pc' = "dma" /\ UNCHANGED <<plane, index, skip, remaining>>
    /\ UNCHANGED <<sg, table, count, data, picture, next>>

-----------------------------------------------------------------------------
(* The engine (external): it writes a stream of bytes along a table         *)

\* Two samples in three bytes.
PackedByte(o) ==
    LET a == picture[2 * (o \div 3)]  b == picture[2 * (o \div 3) + 1]
    IN  CASE o % 3 = 0 -> a % 256
          [] o % 3 = 1 -> (a \div 256) + (b % 16) * 16
          [] o % 3 = 2 -> b \div 16

\* Chroma bytes are recognizable.
Stream(p, o) == IF p = "luma" THEN PackedByte(o) ELSE 1000 + o

Targets(p) ==
    FoldLeft(LAMBDA s, d : s \o [k \in 1 .. d.length |-> d.address + k - 1],
             <<>>, table[p])

Written(p, before) ==
    LET t == Targets(p)
    IN  [o \in DOMAIN before |->
            IF \E k \in DOMAIN t : OffsetAt(t[k]) = o
            THEN Stream(p, (CHOOSE k \in DOMAIN t : OffsetAt(t[k]) = o) - 1)
            ELSE before[o]]

Transfer ==
    /\ pc = "dma"
    /\ data' = Written("chroma", Written("luma", data))
    /\ pc' = "unpack"
    /\ UNCHANGED <<sg, plane, index, skip, remaining, table, count, picture,
                   next>>

-----------------------------------------------------------------------------
(* gc555_video_unpack_p010: pairs of samples, the last one first            *)

PairAt == next - 1

Row == PairAt \div (Width \div 2)
Column == PairAt % (Width \div 2)

UnpackPair ==
    /\ pc = "unpack" /\ next > 0
    /\ LET source == (Row * Width * 3) \div 2 + Column * 3
           target == Row * Width * 2 + Column * 4
           b0 == data[source]  b1 == data[source + 1]  b2 == data[source + 2]
           pixel0 == (b0 + (b1 % 16) * 256) * 16
           pixel1 == ((b1 \div 16) + b2 * 16) * 16
       IN  data' = [data EXCEPT ![target] = pixel0 % 256,
                                ![target + 1] = pixel0 \div 256,
                                ![target + 2] = pixel1 % 256,
                                ![target + 3] = pixel1 \div 256]
    /\ next' = next - 1
    /\ UNCHANGED <<sg, plane, index, skip, remaining, table, count, picture, pc>>

Done ==
    /\ pc = "unpack" /\ next = 0
    /\ pc' = "done"
    /\ UNCHANGED <<sg, plane, index, skip, remaining, table, count, data,
                   picture, next>>

Next ==
    \/ SkipSegment \/ TakeSegment \/ OutOfSegments \/ FinishTable
    \/ Transfer \/ UnpackPair \/ Done

Spec == Init /\ [][Next]_vars

-----------------------------------------------------------------------------
(* Properties *)

\* A table that is handed to the engine leads through the bytes of its span of
\* the buffer, each once and in order, however the buffer is scattered.
TableCoversSpan ==
    pc \in {"dma", "unpack", "done"} =>
        \A p \in Planes :
            LET t == Targets(p)
            IN  /\ Len(t) = Span(p)
                /\ \A k \in 1 .. Len(t) : OffsetAt(t[k]) = Offset(p) + k - 1

\* However many descriptors a buffer needs, no more than fit are written.
TableBounded == \A p \in Planes : Len(table[p]) <= MaxDescriptors

\* The frame an application gets: each sample in the upper twelve bits of its
\* sixteen, no packed byte overwritten before it was read, chroma untouched.
FrameDecoded ==
    pc = "done" =>
        /\ \A k \in 0 .. Pixels - 1 :
               data[2 * k] + 256 * data[2 * k + 1] = 16 * picture[k]
        /\ \A o \in 0 .. ChromaSize - 1 : data[LumaSize + o] = 1000 + o
=============================================================================
