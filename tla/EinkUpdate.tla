----------------------------- MODULE EinkUpdate -----------------------------
(***************************************************************************)
(* The e-ink display: badge_eink_display(), badge_eink_display_greyscale()  *)
(* and badge_eink_update() (badge_eink.c), the waveform tables they load    *)
(* into the panel (badge_eink_lut.c), and the busy wait in front of every   *)
(* command (badge_eink_dev.c).                                              *)
(*                                                                          *)
(* Three actors: the MicroPython task that draws, one command at a time;    *)
(* the panel, which refreshes on its own after command 0x20 and holds its   *)
(* busy pin high meanwhile; and the interrupt of that pin, which gives a    *)
(* semaphore on both edges.  The image is one pixel per line: every         *)
(* operation treats the pixels of a line alike.  A pixel of an image is its *)
(* value after xlat_curve; a 1-bit image has the values 0 and 255.          *)
(*                                                                          *)
(* The panel is external.  Its pixels are Unknown until driven.  At the     *)
(* line time of badge_eink_display() a drive saturates a pixel if it is     *)
(* long enough; the "faster" and "fastest" tables, which need two and four  *)
(* updates for a full one (badge_eink_lut.c:44, 52), only darken or lighten *)
(* it.  At the short line time of the greyscale loop a drive adds to the    *)
(* whiteness, in proportion to the cycles and the lines scanned per cycle.  *)
(***************************************************************************)
EXTENDS Integers, Sequences, SequencesExt

CONSTANTS
  DISP_SIZE_Y,  \* lines of the panel (296 in badge_eink.h)
  Images,       \* the images an application draws
  Luts,         \* the values of the LUT bits of the flags (0: none given)
  Layers        \* the layer counts that greyscale is called with

ASSUME SizeAssumption == DISP_SIZE_Y \in {8 * n : n \in 1..37}
ASSUME FlagAssumption == Luts \subseteq 0..15 /\ Layers \subseteq 1..16

Line    == 0..(DISP_SIZE_Y - 1)
Devices == {"GDEH029A1", "DEPG0290B1"}
ASSUME ImageAssumption == Images \subseteq [Line -> 0..255]

Unknown   == -1
Darkened  == -2   \* last driven towards black, but too briefly to be sure to be black
Lightened == -3   \* last driven towards white, but too briefly to be sure to be white
Black     == 0
White     == 2 * 256 * DISP_SIZE_Y   \* more than any sum of greyscale drives

VARIABLES
  dev,     \* badge_eink_dev_type, read from NVS at boot
  mem,     \* badge_eink_tmpbuf, badge_eink_oldbuf, badge_eink_have_oldbuf
  pc,      \* where the drawing task is
  wait,    \* where it is in badge_eink_dev_busy_wait()
  conf,    \* the update being sent: struct badge_eink_update
  grey,    \* the locals of badge_eink_display_greyscale(), layers = 0 outside it
  panel,   \* the registers and the two image memories of the panel
  busy,    \* the busy pin
  trigger, \* badge_eink_dev_intr_trigger has been given
  shown,   \* what is visible
  asked,   \* the picture the last drawing call has asked for (history)
  faint    \* a faster or fastest update was drawn since the last full one (history)

driver == <<dev, mem, pc, wait, conf, grey>>
glass  == <<panel, busy, trigger, shown>>
drawn  == <<asked, faint>>
vars   == <<driver, glass, drawn>>

Commands  == {"lut", "ram24", "ram26", "regs", "start"}
Bits      == [Line -> {0, 1}]
AllZero   == [y \in Line |-> 0]
Picture   == [Line -> Lightened..White]
NoConf    == [list |-> <<>>, flags |-> {}, fine |-> FALSE, y_start |-> 0, y_end |-> 0]
Nothing   == [y \in Line |-> Unknown]
NoGrey    == [img |-> AllZero, rot |-> FALSE, layers |-> 0, layer |-> 0, j |-> 0]

-----------------------------------------------------------------------------
(* Waveforms.  An entry holds one voltage for each (old bit, new bit) pair. *)

\* The voltages byte: two bits for each of the pairs 00, 01, 10, 11; 1 is VSH (black), 2 is VSL (white).
Volts(byte) == [k \in 1..4 |-> (byte \div 4^(k - 1)) % 4]
At(v, o, n) == v[2 * o + n + 1]
Entry(length, byte) == [length |-> length, volts |-> Volts(byte)]

badge_eink_lut_full ==
  << Entry(23, 2), Entry(4, 1), Entry(11, 17), Entry(4, 18), Entry(6, 34), Entry(5, 102),
     Entry(4, 105), Entry(5, 89), Entry(1, 88), Entry(14, 153), Entry(1, 136) >>
badge_eink_lut_normal ==
  << Entry(3, 16), Entry(5, 24), Entry(1, 8), Entry(8, 24), Entry(2, 8) >>
badge_eink_lut_faster  == << Entry(1, 16), Entry(8, 24), Entry(1, 8) >>
badge_eink_lut_fastest == << Entry(1, 16), Entry(5, 24), Entry(1, 8) >>

\* The table badge_eink_update() selects; what is out of range selects the full one.
LutEntries(lut) ==
  CASE lut = 1 -> badge_eink_lut_normal
    [] lut = 2 -> badge_eink_lut_faster
    [] lut = 3 -> badge_eink_lut_fastest
    [] OTHER   -> badge_eink_lut_full

\* Bitwise or of two voltages; the reserved 3 becomes the voltage towards the new bit.
Merge(a, b, n) == IF {a, b} \subseteq {0, a} THEN a
                  ELSE IF a = 0 THEN b ELSE 1 + n

\* badge_eink_lut_conv(): FIRST makes the voltages independent of the old bit,
\* PARTIAL keeps only those of the pixels that change, WHITE and BLACK (set by no
\* caller) only those of the pixels with that new colour.
LutConv(v, flags) ==
  [k \in 1..4 |-> LET o == (k - 1) \div 2
                      n == (k - 1) % 2 IN
     IF \/ "PARTIAL" \in flags /\ o = n
        \/ "WHITE" \in flags /\ n = 0
        \/ "BLACK" \in flags /\ n = 1 THEN 0
     ELSE IF "FIRST" \in flags THEN Merge(At(v, 0, n), At(v, 1, n), n) ELSE At(v, o, n)]

\* One GDEH029A1 entry: slots of at most 15 cycles each.
Slots(e) ==
  [i \in 1..((e.length + 14) \div 15) |->
     [length |-> IF 15 * i <= e.length THEN 15 ELSE e.length % 15, volts |-> e.volts]]

\* badge_eink_lut_generate(): the slots in the order in which the panel plays
\* them.  The GDEH029A1 has 20, the last one for an empty cycle; the DEPG0290B1
\* has seven groups of which two phases are used.
LutGenerate(d, list, flags) ==
  LET slots == IF d = "GDEH029A1" THEN FlattenSeq([i \in DOMAIN list |-> Slots(list[i])])
                                  ELSE list
  IN  [i \in DOMAIN slots |->
         [length |-> slots[i].length, volts |-> LutConv(slots[i].volts, flags)]]
LutFits(d, lut) == Len(lut) <= (IF d = "GDEH029A1" THEN 19 ELSE 14)

-----------------------------------------------------------------------------
(* The panel (external). *)

\* What a waveform does to a pixel, for each (old bit, new bit) pair: the voltage
\* it ends on and the cycles for which it drives there since any other voltage.
NoDrive == [last |-> 0, cycles |-> 0]
Effect(lut) ==
  [k \in 1..4 |->
     FoldLeft(LAMBDA d, e :
                CASE e.volts[k] = 0      -> d
                  [] e.volts[k] = d.last -> [d EXCEPT !.cycles = @ + e.length]
                  [] OTHER               -> [last |-> e.volts[k], cycles |-> e.length],
              NoDrive, lut)]
NoEffect == [k \in 1..4 |-> NoDrive]

\* The cycles that surely saturate a pixel: the full and the normal table drive for at
\* least as many, the faster and fastest ones for 9 and 6.
Saturating == 15
Short      == {2, 3}   \* the LUT values of the faster and the fastest table

Saturates(effect) ==
  \A k \in 1..4 : effect[k].last # 0 => effect[k].cycles >= Saturating

\* Every pixel that changes is driven and ends on the voltage of its new bit; after
\* FIRST so is every other pixel, and otherwise it is at most driven back there.
Drives(effect, flags) ==
  \A o, n \in {0, 1} :
    /\ At(effect, o, n).last \in {0, 1 + n}
    /\ o # n \/ flags = {"FIRST"} => At(effect, o, n).last # 0

\* A fact about the tables above, which TLC evaluates in full: for every LUT value of
\* the flags, on both panels, the waveform drives to the new image; and only the
\* faster and fastest tables are too short to get there in one update.
ASSUME WaveformAssumption ==
  \A d \in Devices, lut \in 0..15, flags \in {{"FIRST"}, {"PARTIAL"}, {}} :
    LET effect == Effect(LutGenerate(d, LutEntries(lut), flags))
    IN  Drives(effect, flags) /\ (Saturates(effect) <=> lut \notin Short)

\* Where a drive of badge_eink_display() leaves a pixel.
Driven(effect) ==
  CASE effect.last = 1 -> IF effect.cycles >= Saturating THEN Black ELSE Darkened
    [] effect.last = 2 -> IF effect.cycles >= Saturating THEN White ELSE Lightened

\* What a pixel at level s becomes: it is driven to one end, or the drives (all to
\* white, in greyscale) add up.
Played(effect, fine, lines, s) ==
  CASE effect.last = 0 -> s
    [] effect.last # 0 /\ ~fine -> Driven(effect)
    [] effect.last # 0 /\ fine  -> IF s < 0 THEN Unknown ELSE s + lines * effect.cycles

\* The registers count only until the refresh they were set for is done.
RegsDone(old) ==
  [lut |-> NoEffect, ram24 |-> panel.ram24, ram26 |-> old, fine |-> FALSE, y_start |-> 0, y_len |-> 0]

\* A refresh drives the lines from y_start on, y_len of them.  The GDEH029A1 then
\* takes the new image as the old one of the next refresh.
RefreshDone ==
  /\ busy
  /\ busy' = FALSE
  /\ trigger' = TRUE
  /\ shown' = [y \in Line |->
       IF panel.y_start <= y /\ y <= panel.y_start + panel.y_len
       THEN Played(At(panel.lut, panel.ram26[y], panel.ram24[y]), panel.fine, panel.y_len, shown[y])
       ELSE shown[y]]
  /\ panel' = IF dev = "GDEH029A1" THEN RegsDone(panel.ram24) ELSE RegsDone(panel.ram26)
  /\ UNCHANGED <<driver, drawn>>

-----------------------------------------------------------------------------
(* badge_eink_dev_busy_wait(), in front of every command. *)

\* An if in place of the while: one wake-up ends the wait.
Wake_NoRetest == wait' = "clear"
\* The pin taken as active low.
BusyTest_ActiveLow == wait' = IF busy THEN "clear" ELSE "blocked"

\* Reading the pin.
BusyTest == wait' = IF busy THEN "blocked" ELSE "clear"
\* xSemaphoreTake() returned: back to the test of the pin.
Wake == wait' = "test"

TestPin ==
  /\ pc \in Commands /\ wait = "test"
  /\ BusyTest
  /\ UNCHANGED <<dev, mem, pc, conf, grey, glass, drawn>>
TakeTrigger ==
  /\ wait = "blocked" /\ trigger
  /\ trigger' = FALSE
  /\ Wake
  /\ UNCHANGED <<dev, mem, pc, conf, grey, panel, busy, shown, drawn>>
TakeTimeout ==   \* 100 ms without an edge
  /\ wait = "blocked" /\ ~trigger
  /\ Wake
  /\ UNCHANGED <<dev, mem, pc, conf, grey, glass, drawn>>

-----------------------------------------------------------------------------
(* badge_eink_update(): five groups of commands. *)

\* The command at pc goes out; the next one is at p.
Send(p) == wait = "clear" /\ wait' = "test" /\ pc' = p

\* badge_eink_lut_generate() is followed by assert(lut_len >= 0).
SendLut ==
  /\ pc = "lut"
  /\ \E lut \in {LutGenerate(dev, conf.list, conf.flags)} :
       /\ LutFits(dev, lut)
       /\ panel' = [panel EXCEPT !.lut = Effect(lut)]
  /\ Send("ram24")
  /\ UNCHANGED <<dev, mem, conf, grey, busy, trigger, shown, drawn>>

\* badge_eink_write_bitplane(); the old image follows when the DEPG0290B1 needs it.
SendNewImage ==
  /\ pc = "ram24"
  /\ panel' = [panel EXCEPT !.ram24 = mem.tmpbuf]
  /\ Send(IF dev = "DEPG0290B1" /\ mem.have_oldbuf THEN "ram26" ELSE "regs")
  /\ UNCHANGED <<dev, mem, conf, grey, busy, trigger, shown, drawn>>
SendOldImage ==
  /\ pc = "ram26"
  /\ panel' = [panel EXCEPT !.ram26 = mem.oldbuf]
  /\ Send("regs")
  /\ UNCHANGED <<dev, mem, conf, grey, busy, trigger, shown, drawn>>

\* Registers 0x3a, 0x3b, 0x01, 0x0f and 0x22.
SendRegs ==
  /\ pc = "regs"
  /\ panel' = [panel EXCEPT !.fine = conf.fine, !.y_start = conf.y_start,
                            !.y_len = conf.y_end - conf.y_start]
  /\ Send("start")
  /\ UNCHANGED <<dev, mem, conf, grey, busy, trigger, shown, drawn>>

\* An update of the DEPG0290B1 that does not copy the image.
Remember_NoCopy == [mem EXCEPT !.have_oldbuf = (grey.layers = 0)]

\* After command 0x20: the copy to badge_eink_oldbuf and badge_eink_have_oldbuf,
\* which the greyscale loop clears again after every update.
Remember == [mem EXCEPT !.have_oldbuf = (grey.layers = 0),
                        !.oldbuf = IF dev = "DEPG0290B1" THEN mem.tmpbuf ELSE @]

\* Command 0x20: the panel goes busy, which is an edge of its pin.
SendStart ==
  /\ pc = "start"
  /\ busy' = TRUE
  /\ trigger' = TRUE
  /\ mem' = Remember
  /\ conf' = NoConf
  /\ grey' = IF grey.layers = 0 THEN grey ELSE [grey EXCEPT !.j = @ + 1]
  /\ Send(IF grey.layers = 0 THEN "idle" ELSE "strip")
  /\ UNCHANGED <<dev, panel, shown, drawn>>

-----------------------------------------------------------------------------
(* badge_eink_display(). *)

\* badge_eink_create_bitplane() with bit as a power of two.
Bitplane(img, bit, rot) ==
  [y \in Line |-> (img[IF rot THEN DISP_SIZE_Y - 1 - y ELSE y] \div bit) % 2]

\* Without a known old image, or on request, the whole panel is driven; else only
\* what changes, unless the flags name the full waveform (lut - 1 = LUT_FULL).
LutFlags(lut, full) ==
  IF ~mem.have_oldbuf \/ full THEN {"FIRST"} ELSE IF lut # 1 THEN {"PARTIAL"} ELSE {}

DisplayConf(lut, full) ==
  [list |-> LutEntries(IF lut > 0 THEN lut - 1 ELSE 0), flags |-> LutFlags(lut, full),
   fine |-> FALSE, y_start |-> 0, y_end |-> DISP_SIZE_Y - 1]

Saturated(bits) == [y \in Line |-> IF bits[y] = 1 THEN White ELSE Black]

\* A call with an image, from board_flush(), display_raw() or freedomgfxDraw().
Display(img, rot, lut, full, no_update) ==
  /\ pc = "idle"
  /\ mem' = [mem EXCEPT !.tmpbuf = Bitplane(img, 128, rot)]
  /\ IF no_update
     THEN UNCHANGED <<pc, conf, drawn>>
     ELSE /\ pc' = "lut"
          /\ conf' = DisplayConf(lut, full)
          /\ asked' = Saturated(Bitplane(img, 128, rot))
          /\ faint' = (lut - 1 \in Short \/ (faint /\ LutFlags(lut, full) # {"FIRST"}))
  /\ UNCHANGED <<dev, wait, grey, glass>>

-----------------------------------------------------------------------------
(* badge_eink_display_greyscale(). *)

\* One layer more than the strips and the bits of a pixel allow.
MaxLayers_OneMore(d) == IF d = "DEPG0290B1" THEN 6 ELSE 8

MaxLayers(d) == IF d = "DEPG0290B1" THEN 5 ELSE 7
PIni(d)      == IF d = "DEPG0290B1" THEN 4 ELSE 16

\* The loop that trades cycles t for strips p; both are powers of two.
halve[t \in {1, 2, 4, 8, 16, 32, 64, 128}, p \in {1, 2, 4, 8, 16}] ==
  IF t % 2 = 0 /\ p > 1 THEN halve[t \div 2, p \div 2] ELSE [t |-> t, p |-> p]

\* The bit of each layer, the strips it is drawn in and the cycles of each: a fact
\* about the loop above, which TLC evaluates in full.
ASSUME StripAssumption ==
  /\ 2^8 = 256
  /\ \A d \in Devices : \A l \in 0..(IF d = "DEPG0290B1" THEN 4 ELSE 6) :
       /\ 2^(7 - l) \in {2, 4, 8, 16, 32, 64, 128} /\ 2^(8 - l) = 2 * 2^(7 - l)
       /\ \E t \in {1, 2, 4, 8, 16, 32}, p \in {1, 2, 4, 8} :
            /\ halve[2^(7 - l), PIni(d)] = [t |-> t, p |-> p]
            /\ t * PIni(d) = 2^(7 - l) * p
            /\ d = "DEPG0290B1" => p = 1

\* The picture that greyscale promises: whiteness in proportion to the value of
\* the pixel, cut to its upper bits.
GreyWanted(img, rot, layers) ==
  [y \in Line |->
     LET level == img[IF rot THEN DISP_SIZE_Y - 1 - y ELSE y]
     IN  ((level - (level % 2^(8 - layers))) * DISP_SIZE_Y) \div PIni(dev)]

\* The call starts with an update to black; j = -1 marks it.  No caller gives it a
\* LUT, NO_UPDATE or FULL_UPDATE flag.
Greyscale(img, rot, layers) ==
  LET n == IF layers > MaxLayers(dev) THEN MaxLayers(dev) ELSE layers IN
  /\ pc = "idle"
  /\ mem' = [mem EXCEPT !.tmpbuf = AllZero]
  /\ conf' = DisplayConf(0, TRUE)
  /\ grey' = [img |-> img, rot |-> rot, layers |-> n, layer |-> 0, j |-> -1]
  /\ pc' = "lut"
  /\ asked' = GreyWanted(img, rot, n)
  /\ faint' = FALSE
  /\ UNCHANGED <<dev, wait, glass>>

bit  == 2^(7 - grey.layer)
loop == halve[bit, PIni(dev)]

\* The last strip of a layer is done.
NextLayer ==
  /\ pc = "strip" /\ grey.layer < grey.layers /\ grey.j = loop.p
  /\ grey' = [grey EXCEPT !.layer = @ + 1, !.j = 0]
  /\ UNCHANGED <<dev, mem, pc, wait, conf, glass, drawn>>

\* On the DEPG0290B1 two layers share an update: this one goes into the old image.
Paired == /\ dev = "DEPG0290B1" /\ ~mem.have_oldbuf /\ grey.j = 0
          /\ loop.p = 1 /\ loop.t > 1 /\ grey.layer + 1 < grey.layers
KeepLayer ==
  /\ pc = "strip" /\ grey.layer < grey.layers /\ Paired
  /\ mem' = [mem EXCEPT !.oldbuf = Bitplane(grey.img, bit, grey.rot), !.have_oldbuf = TRUE]
  /\ grey' = [grey EXCEPT !.layer = @ + 1]
  /\ UNCHANGED <<dev, pc, wait, conf, glass, drawn>>

\* Whiter for t cycles for this layer's bit, and 2t for that of a kept layer.
GreyLut(t, kept) ==
  IF kept THEN << Entry(t, 128), Entry(t, 160), Entry(t, 168) >> ELSE << Entry(t, 136) >>

\* A pixel is driven to white for the cycles its bits are worth.
Whitens(effect, t, kept) ==
  \A o, n \in {0, 1} :
    At(effect, o, n) = [last   |-> IF n = 1 \/ (kept /\ o = 1) THEN 2 ELSE 0,
                        cycles |-> t * (IF kept THEN n + 2 * o ELSE n)]

\* A fact about these waveforms, which TLC evaluates in full.
ASSUME GreyLutAssumption ==
  \A d \in Devices, t \in {1, 2, 4, 8, 16, 32}, kept \in BOOLEAN :
    Whitens(Effect(LutGenerate(d, GreyLut(t, kept), {})), t, kept)

\* A strip whose neighbours are not cleared.
StripBits_NoClear(y0, y1) == Bitplane(grey.img, bit, grey.rot)

\* The bitplane of this layer with everything outside the strip cleared.
StripBits(y0, y1) ==
  [y \in Line |-> IF y \in y0..y1 THEN Bitplane(grey.img, bit, grey.rot)[y] ELSE 0]

Strip ==
  LET y0 == grey.j * (DISP_SIZE_Y \div loop.p)
      y1 == y0 + (DISP_SIZE_Y \div loop.p) - 1
  IN
  /\ pc = "strip" /\ grey.layer < grey.layers /\ grey.j < loop.p /\ ~Paired
  /\ mem' = [mem EXCEPT !.tmpbuf = StripBits(y0, y1)]
  /\ conf' = [list |-> GreyLut(loop.t, mem.have_oldbuf), flags |-> {}, fine |-> TRUE,
              y_start |-> y0, y_end |-> y1 + 1]
  /\ pc' = "lut"
  /\ UNCHANGED <<dev, wait, grey, glass, drawn>>

GreyscaleDone ==
  /\ pc = "strip" /\ grey.layer = grey.layers
  /\ pc' = "idle" /\ grey' = NoGrey
  /\ UNCHANGED <<dev, mem, wait, conf, glass, drawn>>

-----------------------------------------------------------------------------
(* badge_eink_init() after power-on or a reset of the ESP32 at any moment.    *)
(* The buffers are malloc'ed, the hardware reset stops a refresh half-way.    *)

FreshMem(g) == [tmpbuf |-> [y \in Line |-> g], oldbuf |-> [y \in Line |-> g],
                have_oldbuf |-> FALSE]
FreshPanel(g) == [lut |-> NoEffect, ram24 |-> [y \in Line |-> g], ram26 |-> [y \in Line |-> g],
                  fine |-> FALSE, y_start |-> 0, y_len |-> 0]

Init ==
  \E g \in {0, 1} :
    /\ dev \in Devices
    /\ mem = FreshMem(g) /\ panel = FreshPanel(g)
    /\ pc = "idle" /\ wait = "test" /\ conf = NoConf /\ grey = NoGrey
    /\ busy = FALSE /\ trigger = FALSE
    /\ shown = [y \in Line |-> Unknown]
    /\ asked = Nothing /\ faint = FALSE

Reboot ==
  \E g \in {0, 1} :
    /\ mem' = FreshMem(g) /\ panel' = FreshPanel(g)
    /\ pc' = "idle" /\ wait' = "test" /\ conf' = NoConf /\ grey' = NoGrey
    /\ busy' = FALSE /\ trigger' = FALSE
    /\ shown' = IF busy THEN [y \in Line |-> Unknown] ELSE shown
    /\ asked' = Nothing /\ faint' = FALSE
    /\ UNCHANGED dev

-----------------------------------------------------------------------------
DriverStep == \/ TestPin \/ TakeTrigger \/ TakeTimeout
              \/ SendLut \/ SendNewImage \/ SendOldImage \/ SendRegs \/ SendStart
              \/ NextLayer \/ KeepLayer \/ Strip \/ GreyscaleDone

DrawCall ==
  \E img \in Images, rot \in BOOLEAN :
    \/ \E lut \in Luts, full, no_update \in BOOLEAN : Display(img, rot, lut, full, no_update)
    \/ \E layers \in Layers : Greyscale(img, rot, layers)

Next == DriverStep \/ RefreshDone \/ DrawCall \/ Reboot

\* The task runs until its call returns; the panel ends every refresh.
Spec == Init /\ [][Next]_vars /\ WF_vars(DriverStep) /\ WF_vars(RefreshDone)

-----------------------------------------------------------------------------
TypeOK ==
  /\ dev \in Devices
  /\ mem \in [tmpbuf : Bits, oldbuf : Bits, have_oldbuf : BOOLEAN]
  /\ pc \in Commands \cup {"idle", "strip"}
  /\ wait \in {"test", "blocked", "clear"}
  /\ conf.flags \subseteq {"FIRST", "PARTIAL"} /\ conf.fine \in BOOLEAN
  /\ conf.y_start \in Line /\ conf.y_end \in 0..DISP_SIZE_Y
  /\ grey \in [img : Images \cup {AllZero}, rot : BOOLEAN, layers : 0..7, layer : 0..7, j : -1..8]
  /\ panel.ram24 \in Bits /\ panel.ram26 \in Bits
  /\ busy \in BOOLEAN /\ trigger \in BOOLEAN
  /\ shown \in Picture /\ asked \in Picture /\ faint \in BOOLEAN

Settled == pc = "idle" /\ ~busy

\* A line at level s passes for one at the level that was wanted: it is there, or,
\* after a faster or fastest update, it was last driven towards it.
Near(s, wanted) ==
  \/ s = wanted
  \/ faint /\ <<s, wanted>> \in {<<Darkened, Black>>, <<Lightened, White>>}
Shows(s, picture) == \A y \in Line : Near(s[y], picture[y])

\* Once a drawing call has returned and the panel is done, the panel shows the
\* picture the call asked for, whatever was shown and remembered before, exactly or,
\* since a faster or fastest update, as far as these tables get: a partial update,
\* which leaves unchanged pixels alone, never meets a panel that shows something
\* else than the old image the driver compares with; and
\* badge_eink_display_greyscale() makes every pixel exactly as white as its value,
\* cut to the layers drawn: over all layers and strips each pixel gets the cycles
\* its bits are worth, no strip is missed and none is driven twice.
ShownIsAsked == Settled /\ asked # Nothing => Shows(shown, asked)

\* badge_eink_have_oldbuf means what display() relies on ("old image is known;
\* prefer to do a partial update", badge_eink.c:243): the image the panel will
\* compare with is the one on it, exactly so unless a faster or fastest update was
\* drawn since the last full one.
OldImageKnown ==
  Settled /\ mem.have_oldbuf =>
    Shows(shown, Saturated(IF dev = "DEPG0290B1" THEN mem.oldbuf ELSE panel.ram26))

\* The busy wait lets no command out while the panel refreshes, although the
\* semaphore it waits for may still hold the edge of the refresh's start.
CommandsFindPanelReady == wait = "clear" => ~busy

\* Every drawing call returns: no wait for the panel lasts forever, whichever
\* edge the semaphore stands for.
DrawReturns == (pc # "idle") ~> (pc = "idle")
=============================================================================
