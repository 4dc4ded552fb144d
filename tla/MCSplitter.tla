----------------------------- MODULE MCSplitter -----------------------------
(***************************************************************************)
(* The HDMI splitter IT6664 for TLC: SplitterCore, that is its receiver,   *)
(* also with a quick input and a failing call, its hot plug and the EDID   *)
(* it publishes, with how that EDID is merged (Edid).  Each is explored by *)
(* itself.                                                                 *)
(***************************************************************************)
EXTENDS SplitterCore, Edid

VARIABLE subject

\* The card's EDID, the modes the kernel knows by VIC, and displays that differ
\* in one part after another.
Dtd(w, lines, mhz) == [w |-> w, lines |-> lines, i |-> FALSE, mhz |-> mhz, clock |-> 1]
Name == [w |-> 0, lines |-> 0, i |-> FALSE, mhz |-> 0, clock |-> 0]
Standard(code, aspect) == [code |-> code, aspect |-> aspect, rate |-> 0]
Video(vics) == [kind |-> "video", size |-> 1 + Len(vics), vics |-> vics]
Hdmi(size, clock, vics) ==
    [kind |-> "hdmi", size |-> size, clock |-> clock, vics |-> vics, deep |-> {"30", "36", "444"}]
Forum(size, clock, flags) == [kind |-> "forum", size |-> size, clock |-> clock, flags |-> flags]
Sad(lpcm, rates) == [lpcm |-> lpcm, channels |-> 8, rates |-> rates, widths |-> {16, 24}]
Audio(sads) == [kind |-> "audio", size |-> 1 + 3 * Len(sads), sads |-> sads]
Plain(kind, size) == [kind |-> kind, size |-> size]
Speakers(set) == [kind |-> "speaker", size |-> 4, speakers |-> set]
Y420(vics) == [kind |-> "y420 only", size |-> 2 + Len(vics), vics |-> vics]
Y420Map(size, svds) == [kind |-> "y420 map", size |-> size, svds |-> svds]
Cta(blocks, dtds) == [offset |-> 4 + BlocksSize(blocks), blocks |-> blocks, dtds |-> dtds]

CardEdid ==
    [established |-> {<<0, 5>>, <<0, 2>>, <<0, 0>>, <<1, 3>>, <<1, 1>>, <<1, 0>>},
     standard |-> <<Standard(209, 3), Standard(129, 1), Standard(129, 2), Standard(129, 0),
                    Standard(139, 3), Standard(149, 0), Standard(179, 0), Standard(59, 2)>>,
     dtds |-> <<Dtd(3840, 2160, 60000), Dtd(1920, 1080, 239964), Name, Name>>,
     ctas |-> <<Cta(<<Video(<<97, 96, 95, 94, 93, 16, 31, 90, 63, 5, 20, 4, 19, 18, 17, 3, 2, 1, 34,
                              33, 32, 22, 21, 7, 6>>),
                      Audio(<<Sad(TRUE, {32, 44, 48})>>), Speakers({0, 1, 2, 3, 6}),
                      Hdmi(8, 300, <<>>), Forum(8, 600, {"scdc", "y420 30", "y420 36"}),
                      Plain("capability", 3), Plain("colorimetry", 4), Y420Map(3, {1, 2}),
                      Plain("hdr", 4)>>,
                    <<Dtd(2560, 1440, 120000), Dtd(2560, 1440, 144006), Dtd(1920, 1080, 144000)>>)>>]

P(w, h, hz) == Mode(w, h, FALSE, hz)
CeaModes ==
    [v \in {1, 2, 4, 5, 16, 17, 19, 20, 31, 32, 33, 34, 93, 94, 95, 96, 97, 101, 102} |->
        CASE v = 1 -> P(640, 480, 59940)      [] v = 2 -> P(720, 480, 59940)
          [] v = 4 -> P(1280, 720, 60000)     [] v = 5 -> Mode(1920, 1080, TRUE, 60000)
          [] v = 16 -> P(1920, 1080, 60000)   [] v = 17 -> P(720, 576, 50000)
          [] v = 19 -> P(1280, 720, 50000)    [] v = 20 -> Mode(1920, 1080, TRUE, 50000)
          [] v = 31 -> P(1920, 1080, 50000)   [] v = 32 -> P(1920, 1080, 24000)
          [] v = 33 -> P(1920, 1080, 25000)   [] v = 34 -> P(1920, 1080, 30000)
          [] v = 93 -> P(3840, 2160, 24000)   [] v = 94 -> P(3840, 2160, 25000)
          [] v = 95 -> P(3840, 2160, 30000)   [] v = 96 -> P(3840, 2160, 50000)
          [] v = 97 -> P(3840, 2160, 60000)   [] v = 101 -> P(4096, 2160, 50000)
          [] v = 102 -> P(4096, 2160, 60000)]

Bases ==
    { [established |-> {<<0, 7>>, <<0, 5>>, <<1, 4>>, <<1, 3>>},
       standard |-> <<Standard(209, 3), Standard(209, 3), Standard(149, 3), Standard(129, 2),
                      Standard(129, 1)>>,
       dtds |-> <<Dtd(1920, 1080, 143981), Dtd(1920, 1080, 144000), Name, Dtd(3440, 1440, 60000)>>],
      [established |-> {}, standard |-> <<>>, dtds |-> <<Dtd(3840, 2160, 59997), Name>>] }
Videos ==
    { <<>>, <<Video(<<144, 4, 19, 5>>)>>, <<Video(<<102, 97, 101, 96, 144>>)>>,
      <<Video(<<1, 2, 3, 4, 5, 6, 7, 22, 97, 17, 96, 31, 63, 90, 107, 47, 118, 117, 93, 94, 95>>)>> }
Hdmis == { <<>>, <<Hdmi(6, 0, <<>>)>>, <<Hdmi(16, 340, <<4, 1, 4>>)>> }
Forums == { <<>>, <<Forum(6, 600, {})>>, <<Forum(8, 340, {"scdc", "y420 30"})>> }
Only == { <<>>, <<Y420(<<101, 97>>)>>, <<Y420(<<102>>)>> }
Maps == { <<>>, <<Y420Map(2, {})>>, <<Y420Map(4, {1, 4, 11})>> }
Rest ==
    { <<Plain("colorimetry", 4), Plain("hdr", 7)>>,
      <<Audio(<<Sad(FALSE, {48})>>), Plain("capability", 3), Plain("hdr", 4)>>,
      <<Audio(<<Sad(FALSE, {48}), Sad(TRUE, {48, 96})>>), Speakers({0, 5, 6}), Plain("hdr", 32),
        Plain("colorimetry", 24)>> }
SinkDtds ==
    { <<>>, <<Dtd(2560, 1440, 143912), Dtd(2560, 1080, 60000), Dtd(2560, 1440, 119998),
              Dtd(1920, 1080, 60000), Dtd(3840, 2160, 60000)>> }

Sink(base, ctas) ==
    [established |-> base.established, standard |-> base.standard, dtds |-> base.dtds, ctas |-> ctas]
\* Extensions that are full: the last block leaves room for the timings exactly.
Full ==
    LET used(b) == 4 + BlocksSize(b)
        starts == {v \o f \o m : v \in Videos, f \in Forums, m \in Maps}
        dtds(n) == SubSeq(<<Dtd(2560, 1440, 143912), Dtd(2560, 1440, 119998), Dtd(1920, 1080, 60000),
                            Dtd(3840, 2160, 60000)>>, 1, n)
        rest(b, n) == DataEnd - DtdSize * n - used(b)
        fill(r) == IF r <= 32 THEN <<Plain("hdr", r)>>
                   ELSE <<Plain("colorimetry", 32), Plain("hdr", r - 32)>>
    IN {Cta(b[1] \o fill(rest(b[1], b[2])), dtds(b[2])) :
            b \in {b \in starts \X (0 .. 4) : rest(b[1], b[2]) \in (4 .. 32) \cup (36 .. 64)}}

SinkEdids ==
    LET ctas == {Cta(v \o r \o h \o f \o o \o m, d) :
                    v \in Videos, h \in Hdmis, f \in Forums, o \in Only, m \in Maps,
                    r \in Rest, d \in SinkDtds}
        real == {c \in ctas : c.offset <= DataEnd}
    IN {Sink(b, <<c>>) : b \in Bases, c \in real \cup Full} \cup {Sink(b, <<>>) : b \in Bases}
       \cup {Sink(b, <<[offset |-> 0, blocks |-> <<>>, dtds |-> <<>>]>>) : b \in Bases}
\* What the splitter passes on for a display.
Passed(d) == <<"merged", d>>

\* The input moves while the work runs, and a call may fail.
Quickly == INSTANCE SplitterRx WITH
    Quick <- TRUE, Crossing <- TRUE, Transmitting <- FALSE, Coalescing <- TRUE,
    MaxMoves <- 5, MaxFails <- 1

allParts == <<subject, vars, edidVars, outputsVars>>

\* The component that is explored; the others rest in an initial state.
SplitterInit ==
    /\ subject \in {"receiver", "quick", "outputs", "edid"}
    /\ Init /\ (subject # "receiver" => in = NoInput)
    /\ subject # "edid" => sink = CHOOSE s \in SinkEdids : TRUE
    /\ EdidInit
    /\ Outputs!Init
    /\ subject # "outputs" => source /\ pin1 /\ display \in Displays \ Unmergeable /\ merging

SplitterNext ==
    /\ UNCHANGED subject
    /\ IF subject = "receiver" THEN Next
       ELSE IF subject = "quick" THEN Quickly!Next
       ELSE UNCHANGED vars
    /\ IF subject = "edid" THEN EdidNext ELSE UNCHANGED edidVars
    /\ IF subject = "outputs" THEN Outputs!Next ELSE UNCHANGED outputsVars

SplitterSpec ==
    /\ SplitterInit /\ [][SplitterNext]_allParts
    /\ WF_vars(subject = "receiver" /\ Work)
    /\ SF_vars(subject = "receiver" /\ SendAvi)
    /\ SF_vars(subject = "receiver" /\ FinishEngine)
    /\ WF_outputsVars(subject = "outputs" /\ Outputs!Work)
    /\ WF_outputsVars(subject = "outputs" /\ Outputs!Resume)

\* The receiver follows its input: a picture that stays is found with its class
\* and colors, one that is gone is given up, and retries end.
PictureFollowed ==
    subject = "receiver" =>
        PictureFound /\ PictureGone /\ Settled /\ ColoursCurrent /\ RetriesEnd

\* The source ends up with the EDID that receiver and display call for, and HPD
\* comes back though a call fails.
EdidShown ==
    subject = "outputs" =>
        Outputs!HpdReturns /\ Outputs!CardEdidShown /\ Outputs!DisplayDecides

\* The merged EDID promises no mode and no feature that card and display do not
\* share, loses none that fits, and parses.
EdidSound ==
    subject = "edid" =>
        /\ ModesShared /\ NothingLost /\ NoNewCapability
        /\ MapFollowsModes /\ Fits
=============================================================================
