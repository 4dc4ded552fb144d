-------------------------------- MODULE Edid --------------------------------
(***************************************************************************)
(* The EDID shown to the source (gc573-edid.c): what the display behind    *)
(* the splitter supports, cut down to what the card can capture.  An EDID  *)
(* is a record of its parts; data blocks keep their sizes, because they    *)
(* must fit one extension, and modes their numbers, because they are       *)
(* compared with a tolerance.  Checksums and the packing of bytes are left *)
(* out.  One display per behavior.                                         *)
(***************************************************************************)
EXTENDS Naturals, Sequences, FiniteSets, SequencesExt, FiniteSetsExt

CONSTANTS
    Source,     \* the EDID of the card
    Sinks,      \* the EDIDs of displays
    CeaTimings  \* the modes the kernel knows, by VIC

VARIABLES sink, merged
edidVars == <<sink, merged>>

MaxModes == 64              \* GC555_EDID_MAX_MODES
Tolerance == 1000           \* GC555_EDID_REFRESH_TOLERANCE_MILLIHZ
DataEnd == 127              \* the checksum's place in an extension
DtdSize == 18

-----------------------------------------------------------------------------
(* Modes                                                                    *)

Mode(w, h, interlaced, mhz) == [w |-> w, h |-> h, i |-> interlaced, mhz |-> mhz]

ModesEqual(a, b) ==
    /\ a.w = b.w /\ a.h = b.h /\ a.i = b.i
    /\ (IF a.mhz > b.mhz THEN a.mhz - b.mhz ELSE b.mhz - a.mhz) <= Tolerance

Listed(list, mode) == \E k \in DOMAIN list : ModesEqual(list[k], mode)

AddMode(list, mode) ==
    IF mode.w = 0 \/ mode.h = 0 \/ mode.mhz = 0 \/ Len(list) >= MaxModes \/ Listed(list, mode)
    THEN list ELSE Append(list, mode)
AddModes(list, modes) == FoldLeft(AddMode, list, modes)

\* The established modes: <<byte, bit, width, height, rate, interlaced>>.
EstablishedModes ==
    { <<0, 7, 720, 400, 70, FALSE>>,   <<0, 6, 720, 400, 88, FALSE>>,   <<0, 5, 640, 480, 60, FALSE>>,
      <<0, 4, 640, 480, 67, FALSE>>,   <<0, 3, 640, 480, 72, FALSE>>,   <<0, 2, 640, 480, 75, FALSE>>,
      <<0, 1, 800, 600, 56, FALSE>>,   <<0, 0, 800, 600, 60, FALSE>>,   <<1, 7, 800, 600, 72, FALSE>>,
      <<1, 6, 800, 600, 75, FALSE>>,   <<1, 5, 832, 624, 75, FALSE>>,   <<1, 4, 1024, 768, 87, TRUE>>,
      <<1, 3, 1024, 768, 60, FALSE>>,  <<1, 2, 1024, 768, 70, FALSE>>,  <<1, 1, 1024, 768, 75, FALSE>>,
      <<1, 0, 1280, 1024, 75, FALSE>>, <<2, 7, 1152, 870, 75, FALSE>> }
Established(ids) ==
    {Mode(e[3], e[4], e[6], e[5] * 1000) : e \in {e \in EstablishedModes : <<e[1], e[2]>> \in ids}}

\* A standard timing: its width code, its aspect code, its rate code.
FromStandard(t) ==
    LET w == (t.code + 31) * 8
        h == CASE t.aspect = 0 -> (w * 10) \div 16   [] t.aspect = 1 -> (w * 3) \div 4
               [] t.aspect = 2 -> (w * 4) \div 5     [] t.aspect = 3 -> (w * 9) \div 16
    IN Mode(w, h, FALSE, (t.rate + 60) * 1000)

\* A detailed timing: pixels, lines of a field, and rate of the fields; a
\* descriptor without a clock is no timing.
IsTiming(d) == d.clock > 0
FromDtd(d) == Mode(d.w, IF d.i THEN 2 * d.lines ELSE d.lines, d.i, d.mhz)

\* Bit 7 of a VIC marks it native.
Vic(v) == v % 128
KnownVic(v) == Vic(v) \in DOMAIN CeaTimings
FromVic(v) == CeaTimings[Vic(v)]

\* gc555_cta_vic_allowed
VicAllowed(v) ==
    Vic(v) \in {1, 2, 3, 4, 5} \cup 16 .. 20 \cup 31 .. 34 \cup {63, 90} \cup 93 .. 97

-----------------------------------------------------------------------------
(* Extensions                                                               *)

\* The first block of a kind, which is the one that counts.
HasBlock(cta, kind) == \E k \in DOMAIN cta.blocks : cta.blocks[k].kind = kind
Block(cta, kind) == SelectSeq(cta.blocks, LAMBDA b : b.kind = kind)[1]
VicsOf(cta) == IF HasBlock(cta, "video") THEN Block(cta, "video").vics ELSE <<>>

BlocksSize(blocks) == FoldLeft(LAMBDA sum, b : sum + b.size, 0, blocks)

\* gc555_cta_parse: byte 2 says where the blocks end and the timings begin, of
\* which at most four count.
Parses(cta) == cta.offset \in 4 .. DataEnd /\ cta.offset = 4 + BlocksSize(cta.blocks)
DtdsOf(cta) ==
    SubSeq(cta.dtds, 1, Min({Len(cta.dtds), (DataEnd - cta.offset) \div DtdSize, 4}))

\* gc555_edid_collect_modes
BaseModes(edid) ==
    LET established == SetToSeq(Established(edid.established))
        standard == [k \in DOMAIN edid.standard |-> FromStandard(edid.standard[k])]
        timings == SelectSeq(edid.dtds, IsTiming)
    IN AddModes(<<>>, established \o standard \o [k \in DOMAIN timings |-> FromDtd(timings[k])])
CtaModes(list, cta) ==
    LET known == SelectSeq(VicsOf(cta), KnownVic)
        timings == SelectSeq(DtdsOf(cta), IsTiming)
    IN AddModes(list, [k \in DOMAIN known |-> FromVic(known[k])]
                      \o [k \in DOMAIN timings |-> FromDtd(timings[k])])
Modes(edid) == FoldLeft(CtaModes, BaseModes(edid), edid.ctas)

SourceModes == Modes(Source)
Shared(mode) == Listed(SourceModes, mode)

-----------------------------------------------------------------------------
(* gc555_edid_compose_base                                                  *)

\* Mutant: a mode is taken although the source lacks it.
FirstShared_Any(modes) ==
    FoldLeft(LAMBDA kept, k :
                 IF ~\E j \in DOMAIN kept : ModesEqual(modes[kept[j]], modes[k])
                 THEN Append(kept, k) ELSE kept,
             <<>>, [k \in DOMAIN modes |-> k])

\* The places at which each shared mode occurs first.
FirstShared(modes) ==
    FoldLeft(LAMBDA kept, k :
                 IF Shared(modes[k]) /\ ~\E j \in DOMAIN kept : ModesEqual(modes[kept[j]], modes[k])
                 THEN Append(kept, k) ELSE kept,
             <<>>, [k \in DOMAIN modes |-> k])

ComposeBase(edid) ==
    LET timings == SelectSeq(edid.dtds, IsTiming)
        standard == FirstShared([k \in DOMAIN edid.standard |-> FromStandard(edid.standard[k])])
        dtds == FirstShared([k \in DOMAIN timings |-> FromDtd(timings[k])])
    IN [established |-> Source.established \cap edid.established,
        standard |-> [k \in DOMAIN standard |-> edid.standard[standard[k]]],
        dtds |-> [k \in DOMAIN dtds |-> timings[dtds[k]]]]

-----------------------------------------------------------------------------
(* gc555_cta_merge: each operator is the block it appends, or none          *)

\* The places, in the display's video block, of the VICs that stay.
RetainedSvds(cta) ==
    LET vics == VicsOf(cta) IN
    SelectSeq([k \in DOMAIN vics |-> k],
              LAMBDA k : VicAllowed(vics[k]) /\ KnownVic(vics[k]) /\ Shared(FromVic(vics[k])))

VideoBlock(cta) ==
    LET svds == RetainedSvds(cta) IN
    IF svds = <<>> THEN <<>>
    ELSE <<[kind |-> "video", size |-> 1 + Len(svds),
            vics |-> [k \in DOMAIN svds |-> VicsOf(cta)[svds[k]]]]>>

\* gc555_cta_find_lpcm: the first descriptor of uncompressed audio.
Lpcm(cta) ==
    IF HasBlock(cta, "audio") THEN SelectSeq(Block(cta, "audio").sads, LAMBDA s : s.lpcm) ELSE <<>>
AudioBlock(cta) ==
    LET ours == Lpcm(Source.ctas[1])
        theirs == Lpcm(cta)
    IN IF ours = <<>> \/ theirs = <<>> THEN <<>>
       ELSE LET rates == ours[1].rates \cap theirs[1].rates \cap {32, 44, 48}
                widths == ours[1].widths \cap theirs[1].widths
            IN IF rates = {} \/ widths = {} THEN <<>>
               ELSE <<[kind |-> "audio", size |-> 4,
                       sads |-> <<[lpcm |-> TRUE, channels |-> Min({ours[1].channels,
                                   theirs[1].channels}), rates |-> rates, widths |-> widths]>>]>>
SpeakerBlock(cta) ==
    IF ~HasBlock(Source.ctas[1], "speaker") \/ ~HasBlock(cta, "speaker") THEN <<>>
    ELSE <<[kind |-> "speaker", size |-> 4,
            speakers |-> Block(Source.ctas[1], "speaker").speakers \cap Block(cta, "speaker").speakers
                         \cap {0, 1, 2, 3, 6}]>>

\* gc555_cta_limit_hdmi_vsdb: the 4096 pixel mode becomes the one before it.
LimitedVics(vics) ==
    FoldLeft(LAMBDA done, v :
                 Append(done, IF v # 4 THEN v ELSE IF done = <<>> THEN 3 ELSE done[Len(done)]),
             <<>>, vics)
HdmiBlock(cta) ==
    IF ~HasBlock(cta, "hdmi") THEN <<>>
    ELSE <<[Block(cta, "hdmi") EXCEPT !.vics = LimitedVics(@)]>>

\* Mutant: the source's clock is promised whatever the display's.
ForumBlock_SourceClock(cta) ==
    IF HasBlock(Source.ctas[1], "forum") /\ HasBlock(cta, "forum")
    THEN <<Block(Source.ctas[1], "forum")>> ELSE <<>>

\* The block of the HDMI Forum: the lower clock, what both have.
ForumBlock(cta) ==
    IF ~HasBlock(Source.ctas[1], "forum") \/ ~HasBlock(cta, "forum") THEN <<>>
    ELSE LET ours == Block(Source.ctas[1], "forum")
             theirs == Block(cta, "forum")
         IN IF ours.size < 8 \/ theirs.size < 8 THEN <<>>
            ELSE <<[ours EXCEPT !.clock = Min({@, theirs.clock}), !.flags = @ \cap theirs.flags]>>

\* Modes that exist in 4:2:0 only.
Y420OnlyBlock(cta) ==
    LET vics == IF HasBlock(cta, "y420 only") THEN Block(cta, "y420 only").vics ELSE <<>>
        kept == SelectSeq(vics, LAMBDA v : Vic(v) \in {96, 97})
    IN IF kept = <<>> THEN <<>>
       ELSE <<[kind |-> "y420 only", size |-> 2 + Len(kept), vics |-> kept]>>

\* gc555_cta_svd_supports_y420: a map without bits means every VIC.
SupportsY420(cta, svd) ==
    HasBlock(cta, "y420 map") /\ (Block(cta, "y420 map").size = 2 \/ svd \in Block(cta, "y420 map").svds)

\* Mutant: the display's places are kept, not those in the new video block.
Y420MapBlock_OldPlaces(cta) ==
    LET svds == {k \in ToSet(RetainedSvds(cta)) : SupportsY420(cta, k)} IN
    IF svds = {} THEN <<>>
    ELSE <<[kind |-> "y420 map", size |-> 2 + (Max(svds) + 7) \div 8, svds |-> svds]>>

\* Modes that also exist in 4:2:0, by their place in the new video block.
Y420MapBlock(cta) ==
    LET kept == RetainedSvds(cta)
        svds == {k \in DOMAIN kept : SupportsY420(cta, kept[k])}
    IN IF svds = {} THEN <<>>
       ELSE <<[kind |-> "y420 map", size |-> 2 + (Max(svds) + 7) \div 8, svds |-> svds]>>

Copied(cta, kind) == IF HasBlock(cta, kind) THEN <<Block(cta, kind)>> ELSE <<>>

\* Mutant: the room is not checked.
FitDtds_All(offset, dtds) == dtds

\* As many of the display's shared timings as there is room for.
FitDtds(offset, dtds) == SubSeq(dtds, 1, Min({Len(dtds), (DataEnd - offset) \div DtdSize}))

MergeCta(cta) ==
    LET blocks == VideoBlock(cta) \o AudioBlock(cta) \o SpeakerBlock(cta) \o HdmiBlock(cta)
                  \o ForumBlock(cta) \o Y420OnlyBlock(cta) \o Y420MapBlock(cta)
                  \o Copied(cta, "colorimetry") \o Copied(cta, "capability") \o Copied(cta, "hdr")
        dtds == SelectSeq(DtdsOf(cta), LAMBDA d : IsTiming(d) /\ Shared(FromDtd(d)))
        offset == 4 + BlocksSize(blocks)
    IN [offset |-> offset, blocks |-> blocks,
        dtds |-> IF offset <= DataEnd THEN FitDtds(offset, dtds) ELSE <<>>]

\* gc555_edid_merge: the base block and the display's first extension; an error
\* when that does not parse, or the blocks do not fit.
MergeOf(edid) ==
    IF edid.ctas = <<>> THEN [base |-> ComposeBase(edid), ctas |-> <<>>, error |-> FALSE]
    ELSE LET cta == edid.ctas[1] IN
         IF ~Parses(cta) \/ MergeCta(cta).offset > DataEnd
         THEN [base |-> ComposeBase(edid), ctas |-> <<>>, error |-> TRUE]
         ELSE [base |-> ComposeBase(edid), ctas |-> <<MergeCta(cta)>>, error |-> FALSE]

-----------------------------------------------------------------------------
(* gc555_edid_parse_caps: what a link made for an EDID may use              *)

VsdbClock(cta) ==
    IF HasBlock(cta, "hdmi") /\ Block(cta, "hdmi").size >= 8 THEN Block(cta, "hdmi").clock ELSE 0
ForumClock(cta) ==
    IF HasBlock(cta, "forum") /\ Block(cta, "forum").size >= 6 THEN Block(cta, "forum").clock ELSE 0
Is4k60(v) == Vic(v) \in {96, 97, 101, 102}

CtaCaps(cta) ==
    LET vics == ToSet(VicsOf(cta)) IN
    {"1080p" : v \in {v \in vics : Vic(v) = 16}}
    \cup {"4k30" : v \in {v \in vics : Vic(v) \in {94, 95}}}
    \cup {"4k60" : v \in {v \in vics : Is4k60(v)}}
    \cup (IF HasBlock(cta, "hdmi") \/ HasBlock(cta, "forum") THEN {"hdmi"} ELSE {})
    \cup (IF HasBlock(cta, "hdmi") /\ Block(cta, "hdmi").vics # <<>> THEN {"4k30"} ELSE {})
    \cup (IF HasBlock(cta, "hdmi") /\ Block(cta, "hdmi").size >= 7
          THEN {f : f \in Block(cta, "hdmi").deep} ELSE {})
    \cup (IF HasBlock(cta, "forum") THEN {"4k60"} ELSE {})
    \cup (IF HasBlock(cta, "forum") /\ Block(cta, "forum").size >= 8
          THEN {f : f \in Block(cta, "forum").flags} ELSE {})
    \cup (IF HasBlock(cta, "y420 only") /\ \E v \in ToSet(Block(cta, "y420 only").vics) : Is4k60(v)
          THEN {"y420 required", "4k60"} ELSE {})
    \cup {"y420 4k60" : k \in {k \in DOMAIN VicsOf(cta) :
                                       Is4k60(VicsOf(cta)[k]) /\ SupportsY420(cta, k)}}

Caps(standard, ctas) ==
    [features |-> UNION {CtaCaps(ctas[k]) : k \in DOMAIN ctas}
                  \cup {"1080p" : k \in {k \in DOMAIN standard :
                            standard[k].code = 209 /\ standard[k].aspect = 3 /\ standard[k].rate = 0}},
     clock |-> Max({0} \cup {VsdbClock(ctas[k]) : k \in DOMAIN ctas}
                       \cup {ForumClock(ctas[k]) : k \in DOMAIN ctas})]

-----------------------------------------------------------------------------
Nothing == [base |-> [established |-> {}, standard |-> <<>>, dtds |-> <<>>], ctas |-> <<>>,
            error |-> TRUE]

EdidInit == sink \in Sinks /\ merged = Nothing
EdidNext == merged = Nothing /\ merged' = MergeOf(sink) /\ UNCHANGED sink

Valid == ~merged.error
MergedModes ==
    Modes([established |-> merged.base.established, standard |-> merged.base.standard,
           dtds |-> merged.base.dtds, ctas |-> merged.ctas])

\* The source is shown no mode that card and display do not both support (a mode
\* is the same within 1 Hz), whatever part of the EDID announces it, the modes in
\* 4:2:0 only and the HDMI block's 4K modes included (gc573-edid.c:465).
ModesShared ==
    Valid =>
        /\ \A k \in DOMAIN MergedModes :
               Shared(MergedModes[k]) /\ Listed(Modes(sink), MergedModes[k])
        /\ \A c \in ToSet(merged.ctas) :
               /\ HasBlock(c, "y420 only") =>
                      \A v \in ToSet(Block(c, "y420 only").vics) : Shared(FromVic(v))
               /\ HasBlock(c, "hdmi") => 4 \notin ToSet(Block(c, "hdmi").vics)

\* Nothing that both support is lost on the way, except timings of the extension
\* for which there is no room (gc573-edid.c:824, :1038).
NothingLost ==
    Valid =>
        /\ \A t \in ToSet(sink.standard) : Shared(FromStandard(t)) =>
               Listed(MergedModes, FromStandard(t))
        /\ \A d \in ToSet(sink.dtds) : IsTiming(d) /\ Shared(FromDtd(d)) =>
               Listed(MergedModes, FromDtd(d))
        /\ \A c \in ToSet(merged.ctas) : \A v \in ToSet(VicsOf(sink.ctas[1])) :
               VicAllowed(v) /\ KnownVic(v) /\ Shared(FromVic(v)) => v \in ToSet(VicsOf(c))

\* What the merged EDID lets a source use, the display supports: the splitter
\* sets its links up from either (gc573-edid.c:961).
NoNewCapability ==
    Valid =>
        LET ours == Caps(merged.base.standard, merged.ctas)
            theirs == Caps(sink.standard, sink.ctas)
        IN ours.features \subseteq theirs.features /\ ours.clock <= theirs.clock

\* A mode is marked as possible in 4:2:0 exactly if the display marked that mode,
\* although the modes change their places (gc573-edid.c:994).
MapFollowsModes ==
    Valid => \A c \in ToSet(merged.ctas) : \A k \in DOMAIN VicsOf(c) :
        SupportsY420(c, k) <=> \E j \in DOMAIN VicsOf(sink.ctas[1]) :
            VicsOf(sink.ctas[1])[j] = VicsOf(c)[k] /\ SupportsY420(sink.ctas[1], j)

\* The extension fits its block with all its timings, and it parses again as it
\* was meant (gc573-edid.c:1031).
Fits ==
    Valid => \A c \in ToSet(merged.ctas) :
        /\ Parses(c) /\ c.offset + DtdSize * Len(c.dtds) <= DataEnd
        /\ DtdsOf(c) = c.dtds
=============================================================================
