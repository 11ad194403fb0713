----------------------------- MODULE EinkProofs -----------------------------
(***************************************************************************)
(* Proofs about EinkUpdate, for every size of the panel, every set of       *)
(* images, waveforms and layers, and both panels.                           *)
(***************************************************************************)
EXTENDS EinkUpdate, TLAPS

Drawing == grey.layers = 0
DEPG == dev = "DEPG0290B1"

\* The command that is next finds the panel ready; a refresh goes on only while the
\* driver is outside an update or waits at the start of the next one.
WaitOK ==
  /\ wait \in {"test", "blocked", "clear"}
  /\ wait # "test" => pc \in Commands
  /\ wait = "clear" => ~busy
  /\ busy => pc \in {"idle", "lut", "strip"}

\* The image memories hold bits.
BitsOK ==
  /\ mem \in [tmpbuf : Bits, oldbuf : Bits, have_oldbuf : BOOLEAN]
  /\ panel = [lut |-> panel.lut, ram24 |-> panel.ram24, ram26 |-> panel.ram26,
              fine |-> panel.fine, y_start |-> panel.y_start, y_len |-> panel.y_len]
  /\ panel.ram24 \in Bits /\ panel.ram26 \in Bits

\* The bits of a pixel that layers are drawn for, and what the loop makes of them.
LayerBits   == {2, 4, 8, 16, 32, 64, 128}
CycleCounts == {1, 2, 4, 8, 16, 32}
StripCounts == {1, 2, 4, 8}

\* The value of a pixel, its first l bits, and what a value is worth in whiteness.
Lev(img, rot, y) == img[IF rot THEN DISP_SIZE_Y - 1 - y ELSE y]
Cut(l)       == 2^(8 - l)
Upper(x, l)  == x - (x % Cut(l))
Worth(d, x)  == (x * DISP_SIZE_Y) \div PIni(d)

\* The bit of layer l, and the loop for it.
BitOf(l)     == 2^(7 - l)
Splits(l, b) == Cut(l) = 2 * b /\ Cut(l + 1) = b
LoopOf(d, l) == halve[2^(7 - l), PIni(d)]

\* The loops of badge_eink_display_greyscale() over layers and strips; j = -1 is the
\* update to black in front of them.
GreyType ==
  [img : Images \cup {AllZero}, rot : BOOLEAN, layers : 0..7, layer : 0..7, j : -1..8]
GreyOK ==
  /\ dev \in Devices /\ pc \in Commands \cup {"idle", "strip"}
  /\ grey \in GreyType
  /\ grey.layer <= grey.layers /\ grey.layers <= MaxLayers(dev)
  /\ pc = "idle" => Drawing
  /\ pc = "strip" => ~Drawing /\ grey.j >= 0
  /\ pc = "strip" /\ mem.have_oldbuf => grey.layer < grey.layers /\ grey.j = 0
  /\ pc = "strip" /\ grey.layer = grey.layers => grey.j = 0
  /\ pc \in Commands /\ ~Drawing => grey.layer < grey.layers /\ grey.j < loop.p
  /\ grey.j = -1 => ~Drawing /\ grey.layer = 0

Whole == panel.fine = FALSE /\ panel.y_start = 0 /\ panel.y_len = DISP_SIZE_Y - 1
Plain == Drawing \/ grey.j = -1

\* What has been sent of an update of badge_eink_display(), or of the one to black.
SendOK ==
  Plain /\ pc \in Commands =>
    /\ \E lut \in 0..15 : conf.list = LutEntries(lut) /\ (lut \in Short => faint)
    /\ conf.flags \in {{"FIRST"}, {"PARTIAL"}, {}}
    /\ conf.fine = FALSE /\ conf.y_start = 0 /\ conf.y_end = DISP_SIZE_Y - 1
    /\ conf.flags # {"FIRST"} => Drawing /\ mem.have_oldbuf
    /\ ~Drawing => mem.tmpbuf = AllZero
    /\ pc # "lut" => Drives(panel.lut, conf.flags) /\ (faint \/ Saturates(panel.lut))
    /\ pc \in {"ram26", "regs", "start"} => panel.ram24 = mem.tmpbuf
    /\ pc = "ram26" => DEPG
    /\ pc \in {"regs", "start"} /\ DEPG /\ mem.have_oldbuf => panel.ram26 = mem.oldbuf
    /\ pc = "start" => Whole

Striping == ~Drawing /\ grey.j >= 0
Height == DISP_SIZE_Y \div loop.p
Y0     == grey.j * Height

\* What has been sent of the update of a strip.
StripOK ==
  Striping /\ pc \in Commands =>
    /\ mem.tmpbuf = StripBits(Y0, Y0 + Height - 1)
    /\ conf.list = GreyLut(loop.t, mem.have_oldbuf) /\ conf.flags = {} /\ conf.fine = TRUE
    /\ conf.y_start = Y0 /\ conf.y_end = Y0 + Height
    /\ pc # "lut" => Whitens(panel.lut, loop.t, mem.have_oldbuf)
    /\ pc \in {"ram26", "regs", "start"} => panel.ram24 = mem.tmpbuf
    /\ pc \in {"regs", "start"} /\ mem.have_oldbuf => panel.ram26 = mem.oldbuf
    /\ pc = "start" => panel.fine = TRUE /\ panel.y_start = Y0 /\ panel.y_len = Height

\* badge_eink_have_oldbuf inside the loops: the layer before this one waits in
\* badge_eink_oldbuf.
KeptOK ==
  Striping /\ mem.have_oldbuf =>
    /\ DEPG /\ grey.j = 0 /\ grey.layer >= 1 /\ grey.layer < grey.layers
    /\ mem.oldbuf = Bitplane(grey.img, 2 * bit, grey.rot)

OldImage == IF DEPG THEN mem.oldbuf ELSE panel.ram26

\* A greyscale picture starts with a full update.
FaintOK == faint \in BOOLEAN /\ (~Drawing => ~faint)

\* The effect e drives a pixel at level s to the bit n, or leaves it there.
DrivesTo(e, n, s) ==
  /\ e.last \in {0, 1 + n}
  /\ e.last = 0 => Near(s, IF n = 1 THEN White ELSE Black)
  /\ e.last # 0 => faint \/ e.cycles >= Saturating
DrivesAll ==
  \A y \in Line : DrivesTo(At(panel.lut, panel.ram26[y], panel.ram24[y]), panel.ram24[y], shown[y])

\* The image that badge_eink_have_oldbuf stands for: on the panel, or what the
\* refresh that is going on will leave there.  An update of the whole panel does not
\* rely on it.
Relied == Drawing /\ mem.have_oldbuf /\ ~(pc \in Commands /\ conf.flags = {"FIRST"})
OldOK ==
  Relied => IF busy THEN Whole /\ DrivesAll /\ (DEPG => mem.oldbuf = panel.ram24)
                    ELSE Shows(shown, Saturated(OldImage))

\* What a refresh with the registers p makes of the picture s, and what will be visible
\* once the panel is done.
Refreshed(p, s) ==
  [y \in Line |->
     IF p.y_start <= y /\ y <= p.y_start + p.y_len
     THEN Played(At(p.lut, p.ram26[y], p.ram24[y]), p.fine, p.y_len, s[y]) ELSE s[y]]
Pending == IF busy THEN Refreshed(panel, shown) ELSE shown

\* The layers that line y has had.
LayersOn(y) == IF mem.have_oldbuf THEN grey.layer - 1
               ELSE IF grey.j > 0 /\ y < Y0 THEN grey.layer + 1 ELSE grey.layer

\* Between two strips every pixel is as white as the layers so far make it.
PicOK ==
  Striping => \A y \in Line :
    Pending[y] = Worth(dev, Upper(Lev(grey.img, grey.rot, y), LayersOn(y)))

\* The picture that was asked for: being made, being sent, or on the panel.
AskedOK ==
  /\ ~Drawing => asked = GreyWanted(grey.img, grey.rot, grey.layers)
  /\ Drawing /\ pc \in Commands => asked = Saturated(mem.tmpbuf)
  /\ pc = "idle" /\ asked # Nothing => Shows(Pending, asked)

\* The registers of an update, and the busy pin.
ConfOK ==
  /\ conf.flags \subseteq {"FIRST", "PARTIAL"} /\ conf.fine \in BOOLEAN
  /\ conf.y_start \in Line /\ conf.y_end \in 0..DISP_SIZE_Y
  /\ busy \in BOOLEAN /\ trigger \in BOOLEAN

\* No pixel is whiter than white.
ShadeOK == shown \in Picture /\ Pending \in Picture /\ asked \in Picture

SentInv == WaitOK /\ BitsOK /\ GreyOK /\ FaintOK /\ SendOK /\ StripOK /\ KeptOK
EinkInv == SentInv /\ OldOK /\ PicOK /\ AskedOK /\ ConfOK /\ ShadeOK

-----------------------------------------------------------------------------
(* The steps of the driver, of the panel and of the application. *)
LEMMA EinkSteps ==
  ASSUME [Next]_vars
  PROVE  \/ TestPin \/ TakeTrigger \/ TakeTimeout
         \/ SendLut \/ SendNewImage \/ SendOldImage \/ SendRegs \/ SendStart
         \/ NextLayer \/ KeepLayer \/ Strip \/ GreyscaleDone
         \/ RefreshDone \/ Reboot \/ UNCHANGED vars
         \/ \E img \in Images, rot \in BOOLEAN, lut \in Luts, full, no_update \in BOOLEAN :
              Display(img, rot, lut, full, no_update)
         \/ \E img \in Images, rot \in BOOLEAN, layers \in Layers : Greyscale(img, rot, layers)
  BY DEF Next, DriverStep, DrawCall

(* The size of the panel (badge_eink.h). *)
LEMMA LineFacts == DISP_SIZE_Y \in Nat /\ DISP_SIZE_Y >= 8
  BY SizeAssumption

(* badge_eink_create_bitplane() makes bits of an image. *)
LEMMA BitplaneIsBits ==
  ASSUME NEW img \in Images \cup {AllZero}, NEW b \in 1..128, NEW rot \in BOOLEAN
  PROVE  Bitplane(img, b, rot) \in Bits
<1>1. img \in [Line -> 0..255]
  BY ImageAssumption DEF AllZero
<1>2. \A y \in Line : (IF rot THEN DISP_SIZE_Y - 1 - y ELSE y) \in Line
  BY LineFacts DEF Line
<1>3. \A x \in 0..255 : (x \div b) % 2 \in {0, 1}
  OBVIOUS
<1> QED
  BY <1>1, <1>2, <1>3 DEF Bitplane, Bits

(* The loop of a layer: its bit, its cycles and its strips. *)
LEMMA LoopFacts ==
  ASSUME NEW d \in Devices, NEW l \in 0..(MaxLayers(d) - 1)
  PROVE  \E b \in LayerBits, t \in CycleCounts, p \in StripCounts :
           /\ BitOf(l) = b /\ Splits(l, b)
           /\ LoopOf(d, l) = [t |-> t, p |-> p]
           /\ t * PIni(d) = b * p
           /\ d = "DEPG0290B1" => p = 1
<1>1. l \in 0..(IF d = "DEPG0290B1" THEN 4 ELSE 6)
  BY DEF MaxLayers
<1>2. 8 - (l + 1) = 7 - l
  BY <1>1
<1>3. Cut(l + 1) = BitOf(l)
  BY <1>2, Zenon DEF Cut, BitOf
<1>4. /\ BitOf(l) \in LayerBits /\ Cut(l) = 2 * BitOf(l)
      /\ \E t \in CycleCounts, p \in StripCounts :
            /\ LoopOf(d, l) = [t |-> t, p |-> p]
            /\ t * PIni(d) = BitOf(l) * p
            /\ d = "DEPG0290B1" => p = 1
  BY <1>1, StripAssumption, Zenon DEF Cut, BitOf, LoopOf, LayerBits, CycleCounts, StripCounts
<1>5. PICK t \in CycleCounts, p \in StripCounts :
            /\ LoopOf(d, l) = [t |-> t, p |-> p]
            /\ t * PIni(d) = BitOf(l) * p
            /\ d = "DEPG0290B1" => p = 1
  BY <1>4
<1>6. PICK b \in LayerBits : b = BitOf(l)
  BY <1>4
<1> QED
  BY <1>3, <1>4, <1>5, <1>6 DEF Splits

(* Cutting a pixel one bit later adds that bit. *)
LEMMA OneBitMore ==
  ASSUME NEW x \in 0..255, NEW b \in LayerBits
  PROVE  /\ x - (x % b) = (x - (x % (2 * b))) + b * ((x \div b) % 2)
         /\ (x \div b) % 2 \in {0, 1}
         /\ x - (x % b) \in 0..255 /\ x - (x % (2 * b)) \in 0..255
         /\ (x - (x % (2 * b))) % 2 = 0
<1>2. CASE b = 2
  BY <1>2
<1>3. CASE b = 4
  BY <1>3
<1>4. CASE b = 8
  BY <1>4
<1>5. CASE b = 16
  BY <1>5
<1>6. CASE b = 32
  BY <1>6
<1>7. CASE b = 64
  BY <1>7
<1>8. CASE b = 128
  BY <1>8
<1> QED
  BY <1>2, <1>3, <1>4, <1>5, <1>6, <1>7, <1>8 DEF LayerBits

(* The same, of the layers l and l + 1. *)
LEMMA CutOneLater ==
  ASSUME NEW x \in 0..255, NEW l, NEW b \in LayerBits,
         Splits(l, b)
  PROVE  /\ Upper(x, l) \in 0..255 /\ Upper(x, l + 1) \in 0..255 /\ (x \div b) % 2 \in {0, 1}
         /\ Upper(x, l + 1) = Upper(x, l) + b * ((x \div b) % 2)
         /\ Upper(x, l) % 2 = 0
<1>1. Upper(x, l) = x - (x % (2 * b)) /\ Upper(x, l + 1) = x - (x % b)
  BY Zenon DEF Upper, Splits
<1>2. /\ x - (x % b) = (x - (x % (2 * b))) + b * ((x \div b) % 2)
      /\ (x \div b) % 2 \in {0, 1}
      /\ x - (x % b) \in 0..255 /\ x - (x % (2 * b)) \in 0..255
      /\ (x - (x % (2 * b))) % 2 = 0
  BY OneBitMore, Zenon
<1>3. Upper(x, l) \in 0..255 /\ Upper(x, l + 1) \in 0..255 /\ (x \div b) % 2 \in {0, 1}
  BY <1>1, <1>2, Zenon
<1>4. Upper(x, l + 1) = Upper(x, l) + b * ((x \div b) % 2)
  BY <1>1, <1>2, Zenon
<1>5. Upper(x, l) % 2 = 0
  BY <1>1, <1>2, Zenon
<1> QED
  BY <1>3, <1>4, <1>5, Zenon

(* Whiteness is linear in the value of a pixel. *)
LEMMA WorthIs ==
  ASSUME NEW n \in Nat, DISP_SIZE_Y = 8 * n, NEW a \in Nat
  PROVE  /\ Worth("GDEH029A1", 2 * a) = a * n
         /\ Worth("DEPG0290B1", a) = 2 * (a * n)
<1>1. PICK m \in Nat : m = a * n
  OBVIOUS
<1>2. (2 * a) * (8 * n) = 16 * m /\ a * (8 * n) = 8 * m
  BY <1>1
<1>3. (16 * m) \div 16 = m /\ (8 * m) \div 4 = 2 * m
  OBVIOUS
<1>4. PIni("GDEH029A1") = 16 /\ PIni("DEPG0290B1") = 4
  BY DEF PIni
<1> QED
  BY <1>1, <1>2, <1>3, <1>4 DEF Worth
(* Products that stay below the whitest level. *)
LEMMA Small ==
  ASSUME NEW a \in 0..255, NEW n \in 1..37
  PROVE  a * n \in Nat /\ a * n <= 255 * n
<1>1. PICK c \in Nat : a + c = 255
  OBVIOUS
<1>2. 255 * n = a * n + c * n /\ c * n \in Nat /\ a * n \in Nat
  BY <1>1
<1> QED
  BY <1>2

(***************************************************************************)
(* The strips of one layer make each pixel whiter by what its bit is worth. *)
(***************************************************************************)
LEMMA LayerAdds ==
  ASSUME NEW d \in Devices, NEW l \in 0..(MaxLayers(d) - 1), NEW x \in 0..255,
         NEW t \in CycleCounts, NEW p \in StripCounts,
         NEW b \in LayerBits,
         Splits(l, b), t * PIni(d) = b * p, d = "DEPG0290B1" => p = 1
  PROVE  /\ Worth(d, Upper(x, l)) \in 0..White
         /\ Worth(d, Upper(x, l + 1)) \in 0..White
         /\ Worth(d, Upper(x, l + 1)) =
              Worth(d, Upper(x, l)) + (DISP_SIZE_Y \div p) * (t * ((x \div b) % 2))
<1>0. b \in Nat /\ t \in Nat /\ p \in Nat
  BY DEF LayerBits, CycleCounts, StripCounts
<1>1. PICK n \in 1..37 : DISP_SIZE_Y = 8 * n
  BY SizeAssumption
<1>2. PICK u \in 0..255, v \in 0..255, k \in {0, 1} :
        /\ u = Upper(x, l) /\ v = Upper(x, l + 1) /\ k = (x \div b) % 2
        /\ v = u + b * k /\ u % 2 = 0
  <2>1. /\ Upper(x, l) \in 0..255 /\ Upper(x, l + 1) \in 0..255 /\ (x \div b) % 2 \in {0, 1}
        /\ Upper(x, l + 1) = Upper(x, l) + b * ((x \div b) % 2)
        /\ Upper(x, l) % 2 = 0
    BY CutOneLater, Zenon
  <2>2. PICK k \in {0, 1} : k = (x \div b) % 2
    BY <2>1, Zenon
  <2> QED
    BY <2>1, <2>2, Zenon
<1>3. PICK a \in 0..127 : u = 2 * a
  <2>1. \A z \in 0..255 : z % 2 = 0 => z = 2 * (z \div 2) /\ z \div 2 \in 0..127
    OBVIOUS
  <2> QED
    BY <1>2, <2>1
<1>4. White = 4096 * n
  BY <1>1 DEF White
<1>5. CASE d = "DEPG0290B1"
  <2>1. b = 4 * t /\ p = 1
    BY <1>0, <1>5 DEF PIni
  <2>2. Worth(d, u) = 2 * (u * n) /\ Worth(d, v) = 2 * (v * n)
    <3>1. u \in Nat /\ v \in Nat /\ n \in Nat
      OBVIOUS
    <3>2. Worth("DEPG0290B1", u) = 2 * (u * n) /\ Worth("DEPG0290B1", v) = 2 * (v * n)
      BY <1>1, <3>1, WorthIs
    <3> QED
      BY <1>5, <3>2
  <2>3. v * n = u * n + (b * k) * n
    BY <1>0, <1>2
  <2>4. 2 * ((b * k) * n) = (DISP_SIZE_Y \div p) * (t * k)
    <3>1. (8 * n) \div 1 = 8 * n
      OBVIOUS
    <3> QED
      BY <1>0, <1>1, <2>1, <3>1
  <2>5. u * n \in Nat /\ u * n <= 255 * n /\ v * n \in Nat /\ v * n <= 255 * n
    BY Small
  <2>6. PICK e \in Nat, f \in Nat, g \in Nat : e = u * n /\ f = v * n /\ g = (b * k) * n
    BY <1>0, <2>5
  <2>7. Worth(d, u) = 2 * e /\ Worth(d, v) = 2 * f /\ f = e + g /\ e <= 255 * n /\ f <= 255 * n
    BY <2>2, <2>3, <2>5, <2>6
  <2>8. 2 * f = 2 * e + (DISP_SIZE_Y \div p) * (t * k)
    BY <1>0, <2>4, <2>6, <2>7
  <2>9. 2 * e \in 0..White /\ 2 * f \in 0..White
    BY <1>4, <2>7
  <2> QED
    BY <1>2, <2>7, <2>8, <2>9
<1>6. CASE d = "GDEH029A1"
  <2>1. PICK c \in {1, 2, 4, 8, 16, 32, 64} : b = 2 * c
    BY DEF LayerBits
  <2>2. 8 * t = c * p
    BY <1>0, <1>6, <2>1 DEF PIni
  <2>3. v = 2 * (a + c * k)
    BY <1>2, <1>3, <2>1
  <2>4. Worth(d, u) = a * n /\ Worth(d, v) = (a + c * k) * n
    <3>1. a \in Nat /\ a + c * k \in Nat /\ n \in Nat
      OBVIOUS
    <3>2. /\ Worth("GDEH029A1", 2 * a) = a * n
          /\ Worth("GDEH029A1", 2 * (a + c * k)) = (a + c * k) * n
      BY <1>1, <3>1, WorthIs
    <3> QED
      BY <1>3, <1>6, <2>3, <3>2
  <2>5. (a + c * k) * n = a * n + (c * k) * n
    OBVIOUS
  <2>6. (c * k) * n = (DISP_SIZE_Y \div p) * (t * k)
    <3>1. (8 * n) \div 1 = 8 * n /\ (8 * n) \div 2 = 4 * n /\ (8 * n) \div 4 = 2 * n /\ (8 * n) \div 8 = n
      OBVIOUS
    <3>3. CASE p = 1
      BY <1>0, <1>1, <2>2, <3>1, <3>3
    <3>4. CASE p = 2
      BY <1>0, <1>1, <2>2, <3>1, <3>4
    <3>5. CASE p = 4
      BY <1>0, <1>1, <2>2, <3>1, <3>5
    <3>6. CASE p = 8
      BY <1>0, <1>1, <2>2, <3>1, <3>6
    <3> QED
      BY <3>3, <3>4, <3>5, <3>6 DEF StripCounts
  <2>7. PICK f \in 0..255 : f = a + c * k
    BY <1>0, <1>2, <1>3, <2>3
  <2>8. a * n \in Nat /\ a * n <= 255 * n /\ f * n \in Nat /\ f * n <= 255 * n
    BY Small
  <2>9. a * n \in 0..White /\ f * n \in 0..White
    BY <1>4, <2>8
  <2> QED
    BY <1>2, <2>4, <2>5, <2>6, <2>7, <2>9
<1> QED
  BY <1>5, <1>6 DEF Devices
(* The bit and the loop of the layer that is drawn. *)
LEMMA LayerFacts ==
  ASSUME GreyOK, grey.layer < grey.layers
  PROVE  /\ grey.layer \in 0..(MaxLayers(dev) - 1)
         /\ \E b \in LayerBits, t \in CycleCounts, p \in StripCounts :
              /\ bit = b /\ Splits(grey.layer, b) /\ loop = [t |-> t, p |-> p]
              /\ t * PIni(dev) = b * p
              /\ dev = "DEPG0290B1" => p = 1
<1>1. grey.layer \in 0..(MaxLayers(dev) - 1) /\ dev \in Devices
  BY DEF GreyOK, GreyType, MaxLayers
<1>2. PICK b \in LayerBits, t \in CycleCounts, p \in StripCounts :
        /\ BitOf(grey.layer) = b /\ Splits(grey.layer, b)
        /\ LoopOf(dev, grey.layer) = [t |-> t, p |-> p]
        /\ t * PIni(dev) = b * p
        /\ dev = "DEPG0290B1" => p = 1
  BY <1>1, LoopFacts
<1>3. bit = BitOf(grey.layer) /\ loop = LoopOf(dev, grey.layer)
  BY Zenon DEF bit, loop, BitOf, LoopOf
<1> QED
  BY <1>1, <1>2, <1>3

(* The strips and the bits of a layer. *)
LEMMA LayerIsBits ==
  ASSUME GreyOK, grey.layer < grey.layers
  PROVE  /\ Bitplane(grey.img, bit, grey.rot) \in Bits
         /\ \A y0, y1 : StripBits(y0, y1) \in Bits
         /\ loop.p \in 1..8
<1>1. bit \in 1..128 /\ loop.p \in 1..8
  <2>1. PICK b \in LayerBits, t \in CycleCounts, p \in StripCounts :
          bit = b /\ loop = [t |-> t, p |-> p]
    BY LayerFacts
  <2> QED
    BY <2>1 DEF LayerBits, StripCounts
<1>2. Bitplane(grey.img, bit, grey.rot) \in Bits
  BY <1>1, BitplaneIsBits DEF GreyOK, GreyType
<1> QED
  BY <1>1, <1>2 DEF StripBits, Bits

(* The loop stays the same until the next layer. *)
LEMMA LoopSame ==
  ASSUME dev' = dev, grey'.layer = grey.layer
  PROVE  bit' = bit /\ loop' = loop
  BY Zenon DEF bit, loop

(* The busy wait of badge_eink_dev.c, in front of every command. *)
LEMMA WaitStep ==
  ASSUME WaitOK, GreyOK, [Next]_vars
  PROVE  WaitOK'
<1> USE DEF WaitOK, Commands
<1>1. CASE TestPin \/ TakeTrigger \/ TakeTimeout
  BY <1>1 DEF TestPin, TakeTrigger, TakeTimeout, BusyTest, Wake, glass
<1>2. CASE SendLut \/ SendNewImage \/ SendOldImage \/ SendRegs
  BY <1>2 DEF SendLut, SendNewImage, SendOldImage, SendRegs, Send
<1>3. CASE SendStart
  BY <1>3 DEF SendStart, Send
<1>4. CASE NextLayer \/ KeepLayer \/ Strip \/ GreyscaleDone
  BY <1>4 DEF NextLayer, KeepLayer, Strip, GreyscaleDone, glass
<1>5. CASE RefreshDone
  BY <1>5 DEF RefreshDone, driver
<1>6. CASE Reboot
  BY <1>6 DEF Reboot
<1>7. CASE UNCHANGED vars
  BY <1>7 DEF vars, driver, glass
<1>8. ASSUME NEW img, NEW rot, NEW lut, NEW full, NEW no_update,
             Display(img, rot, lut, full, no_update)
      PROVE  WaitOK'
  BY <1>8 DEF Display, glass
<1>9. ASSUME NEW img, NEW rot, NEW layers, Greyscale(img, rot, layers)
      PROVE  WaitOK'
  BY <1>9 DEF Greyscale, glass
<1> QED
  BY <1>1, <1>2, <1>3, <1>4, <1>5, <1>6, <1>7, <1>8, <1>9, EinkSteps

(* Both image memories of the driver and of the panel hold bits. *)
LEMMA BitsStep ==
  ASSUME BitsOK, GreyOK, [Next]_vars
  PROVE  BitsOK'
<1>0. AllZero \in Bits /\ \A g \in {0, 1} : [y \in Line |-> g] \in Bits
  BY DEF AllZero, Bits
<1>a. CASE UNCHANGED <<mem, panel>>
  BY <1>a DEF BitsOK
<1>1. CASE TestPin \/ TakeTrigger \/ TakeTimeout \/ NextLayer \/ GreyscaleDone \/ UNCHANGED vars
  BY <1>1, <1>a DEF TestPin, TakeTrigger, TakeTimeout, NextLayer, GreyscaleDone, glass, vars, driver
<1>2. CASE SendLut
  BY <1>2 DEF SendLut, BitsOK
<1>3. CASE SendNewImage
  BY <1>3 DEF SendNewImage, BitsOK
<1>4. CASE SendOldImage
  BY <1>4 DEF SendOldImage, BitsOK
<1>5. CASE SendRegs
  BY <1>5 DEF SendRegs, BitsOK
<1>6. CASE SendStart
  BY <1>6 DEF SendStart, Remember, BitsOK
<1>7. CASE KeepLayer
  BY <1>7, LayerIsBits DEF KeepLayer, glass, BitsOK
<1>8. CASE Strip
  BY <1>8, LayerIsBits DEF Strip, glass, BitsOK
<1>9. CASE RefreshDone
  BY <1>9 DEF RefreshDone, RegsDone, driver, BitsOK
<1>10. CASE Reboot
  BY <1>10, <1>0 DEF Reboot, FreshMem, FreshPanel, BitsOK
<1>11. ASSUME NEW img \in Images, NEW rot \in BOOLEAN, NEW lut, NEW full, NEW no_update,
              Display(img, rot, lut, full, no_update)
       PROVE  BitsOK'
  <2>1. Bitplane(img, 128, rot) \in Bits
    BY BitplaneIsBits
  <2> QED
    BY <1>11, <2>1 DEF Display, glass, BitsOK
<1>12. ASSUME NEW img, NEW rot, NEW layers, Greyscale(img, rot, layers)
       PROVE  BitsOK'
  BY <1>12, <1>0 DEF Greyscale, glass, BitsOK
<1> QED
  BY <1>1, <1>2, <1>3, <1>4, <1>5, <1>6, <1>7, <1>8, <1>9, <1>10, <1>11, <1>12, EinkSteps

(* The loops of badge_eink_display_greyscale() over layers and strips. *)
LEMMA GreyStep ==
  ASSUME BitsOK, GreyOK, [Next]_vars
  PROVE  GreyOK'
<1>a. CASE UNCHANGED <<dev, pc, grey, mem>>
  BY <1>a, LoopSame DEF GreyOK, GreyType, Drawing, Commands
<1>b. NoGrey \in GreyType /\ NoGrey.layers = 0 /\ NoGrey.layer = 0 /\ NoGrey.j = 0
  BY DEF NoGrey, GreyType
<1>c. MaxLayers(dev) \in {5, 7}
  BY DEF MaxLayers
<1>1. CASE TestPin \/ TakeTrigger \/ TakeTimeout \/ RefreshDone \/ UNCHANGED vars
  BY <1>1, <1>a DEF TestPin, TakeTrigger, TakeTimeout, RefreshDone, vars, driver
<1>2. CASE SendLut \/ SendNewImage \/ SendOldImage \/ SendRegs
  <2>1. UNCHANGED <<dev, grey, mem>> /\ pc' \in Commands /\ pc \in Commands
    BY <1>2 DEF SendLut, SendNewImage, SendOldImage, SendRegs, Send, Commands
  <2> QED
    BY <2>1, LoopSame DEF GreyOK, GreyType, Drawing, Commands
<1>3. CASE SendStart
  <2>1. /\ dev' = dev /\ pc' = (IF grey.layers = 0 THEN "idle" ELSE "strip")
        /\ mem'.have_oldbuf = (grey.layers = 0) /\ pc = "start"
    BY <1>3 DEF SendStart, Send, Remember, BitsOK
  <2>2. grey' = IF grey.layers = 0 THEN grey ELSE [grey EXCEPT !.j = grey.j + 1]
    BY <1>3 DEF SendStart
  <2>4. CASE grey.layers = 0
    BY <2>1, <2>2, <2>4 DEF GreyOK, GreyType, Drawing, Commands
  <2>5. CASE grey.layers # 0
    <3>1. grey.layer < grey.layers /\ grey.j < loop.p
      BY <2>1, <2>5 DEF GreyOK, Drawing, Commands
    <3>2. PICK n \in 0..8 : n = grey.j + 1
      BY <3>1, LayerIsBits DEF GreyOK, GreyType
    <3>3. grey' \in GreyType /\ grey'.layers = grey.layers /\ grey'.layer = grey.layer /\ grey'.j = n
      BY <2>2, <2>5, <3>2 DEF GreyOK, GreyType
    <3>4. grey.layer # grey.layers /\ n >= 0 /\ n # -1
      BY <3>1, <3>2 DEF GreyOK, GreyType
    <3> QED
      BY <2>1, <2>5, <3>1, <3>3, <3>4 DEF GreyOK, Drawing, Commands
  <2> QED
    BY <2>4, <2>5
<1>4. CASE NextLayer
  <2>1. /\ UNCHANGED <<dev, mem, pc>> /\ grey' = [grey EXCEPT !.layer = grey.layer + 1, !.j = 0]
        /\ pc = "strip" /\ grey.layer < grey.layers /\ grey.j = loop.p
    BY <1>4 DEF NextLayer
  <2>2. grey.j # 0
    <3>1. loop.p \in 1..8
      BY <2>1, LayerIsBits
    <3> QED
      BY <2>1, <3>1
  <2>3. PICK n \in 0..7 : n = grey.layer + 1 /\ n <= grey.layers
    BY <2>1 DEF GreyOK, GreyType
  <2>4. grey = [img |-> grey.img, rot |-> grey.rot, layers |-> grey.layers,
                layer |-> grey.layer, j |-> grey.j]
    BY DEF GreyOK, GreyType
  <2>5. grey' = [img |-> grey.img, rot |-> grey.rot, layers |-> grey.layers,
                 layer |-> n, j |-> 0]
    BY <2>1, <2>3, <2>4
  <2>6. grey' \in GreyType /\ grey'.layers = grey.layers /\ grey'.layer = n /\ grey'.j = 0
    BY <2>5 DEF GreyOK, GreyType
  <2> QED
    BY <2>1, <2>2, <2>3, <2>6 DEF GreyOK, Drawing, Commands
<1>5. CASE KeepLayer
  <2>1. /\ UNCHANGED <<dev, pc>> /\ grey' = [grey EXCEPT !.layer = grey.layer + 1]
        /\ pc = "strip" /\ grey.j = 0 /\ grey.layer + 1 < grey.layers
    BY <1>5 DEF KeepLayer, Paired
  <2>2. PICK n \in 0..7 : n = grey.layer + 1 /\ n < grey.layers
    BY <2>1 DEF GreyOK, GreyType
  <2>3. grey' \in GreyType /\ grey'.layers = grey.layers /\ grey'.layer = n /\ grey'.j = 0
    BY <2>1, <2>2 DEF GreyOK, GreyType
  <2> QED
    BY <2>1, <2>2, <2>3 DEF GreyOK, GreyType, Drawing, Commands
<1>6. CASE Strip
  <2>1. /\ UNCHANGED <<dev, grey>> /\ pc = "strip" /\ pc' = "lut"
        /\ grey.layer < grey.layers /\ grey.j < loop.p
    BY <1>6 DEF Strip
  <2> QED
    BY <2>1, LoopSame DEF GreyOK, GreyType, Drawing, Commands
<1>7. CASE GreyscaleDone
  BY <1>7, <1>b, <1>c DEF GreyscaleDone, GreyOK, Drawing, Commands
<1>8. CASE Reboot
  BY <1>8, <1>b, <1>c DEF Reboot, GreyOK, Drawing, Commands
<1>9. ASSUME NEW img, NEW rot, NEW lut, NEW full, NEW no_update,
             Display(img, rot, lut, full, no_update)
      PROVE  GreyOK'
  <2>1. UNCHANGED <<dev, grey>> /\ pc = "idle" /\ pc' \in {"idle", "lut"}
    BY <1>9 DEF Display
  <2> QED
    BY <2>1 DEF GreyOK, GreyType, Drawing, Commands
<1>10. ASSUME NEW img \in Images, NEW rot \in BOOLEAN, NEW layers \in Layers,
              Greyscale(img, rot, layers)
       PROVE  GreyOK'
  <2>1. PICK n \in 1..7 :
          n = (IF layers > MaxLayers(dev) THEN MaxLayers(dev) ELSE layers) /\ n <= MaxLayers(dev)
    BY <1>c, FlagAssumption
  <2>2. /\ grey' = [img |-> img, rot |-> rot, layers |-> n, layer |-> 0, j |-> -1]
        /\ dev' = dev /\ pc' = "lut"
    BY <1>10, <2>1 DEF Greyscale
  <2>3. -1 < loop'.p
    <3>1. 0 \in 0..(MaxLayers(dev) - 1) /\ dev \in Devices
      BY <1>c DEF GreyOK
    <3>2. PICK t \in CycleCounts, p \in StripCounts : LoopOf(dev, 0) = [t |-> t, p |-> p]
      BY <3>1, LoopFacts
    <3>3. grey'.layer = 0
      BY <2>2
    <3>4. loop' = LoopOf(dev, 0)
      BY <2>2, <3>3, Zenon DEF loop, bit, LoopOf
    <3> QED
      BY <3>2, <3>4 DEF StripCounts
  <2>4. grey' \in GreyType /\ grey'.layers = n /\ grey'.layer = 0 /\ grey'.j = -1
    BY <2>2 DEF GreyType
  <2> QED
    BY <2>1, <2>2, <2>3, <2>4 DEF GreyOK, Drawing, Commands
<1> QED
  BY <1>1, <1>2, <1>3, <1>4, <1>5, <1>6, <1>7, <1>8, <1>9, <1>10, EinkSteps

(* Only badge_eink_display() makes a picture that may be faint. *)
LEMMA FaintStep ==
  ASSUME GreyOK, FaintOK, [Next]_vars
  PROVE  FaintOK'
<1>a. CASE UNCHANGED <<faint, grey>>
  BY <1>a DEF FaintOK, Drawing
<1>1. CASE TestPin \/ TakeTrigger \/ TakeTimeout \/ RefreshDone \/ UNCHANGED vars
  BY <1>1, <1>a DEF TestPin, TakeTrigger, TakeTimeout, RefreshDone, vars, driver, drawn
<1>2. CASE SendLut \/ SendNewImage \/ SendOldImage \/ SendRegs
  BY <1>2, <1>a DEF SendLut, SendNewImage, SendOldImage, SendRegs, drawn
<1>3. CASE SendStart \/ NextLayer \/ KeepLayer \/ Strip
  <2>1. faint' = faint /\ grey'.layers = grey.layers
    BY <1>3 DEF SendStart, NextLayer, KeepLayer, Strip, drawn, GreyOK, GreyType
  <2> QED
    BY <2>1 DEF FaintOK, Drawing
<1>4. CASE GreyscaleDone
  <2>1. faint' = faint /\ Drawing'
    BY <1>4 DEF GreyscaleDone, drawn, NoGrey, Drawing
  <2> QED
    BY <2>1 DEF FaintOK
<1>7. CASE Reboot
  <2>1. faint' = FALSE
    BY <1>7 DEF Reboot
  <2> QED
    BY <2>1 DEF FaintOK
<1>5. ASSUME NEW img, NEW rot, NEW lut, NEW full, NEW no_update \in BOOLEAN,
             Display(img, rot, lut, full, no_update)
      PROVE  FaintOK'
  <2>1. faint' \in BOOLEAN /\ Drawing'
    BY <1>5 DEF Display, drawn, GreyOK, FaintOK, Drawing
  <2> QED
    BY <2>1 DEF FaintOK
<1>6. ASSUME NEW img, NEW rot, NEW layers, Greyscale(img, rot, layers)
      PROVE  FaintOK'
  BY <1>6 DEF Greyscale, FaintOK
<1> QED
  BY <1>1, <1>2, <1>3, <1>4, <1>5, <1>6, <1>7, EinkSteps

(* badge_eink_update() sends what badge_eink_display() decided, in its order. *)
LEMMA SendStep ==
  ASSUME SentInv, [Next]_vars
  PROVE  SendOK'
<1> USE DEF SentInv
<1>a. CASE pc' \notin Commands
  BY <1>a DEF SendOK
<1>b. CASE ~Plain'
  BY <1>b DEF SendOK
<1>1. CASE TestPin \/ TakeTrigger \/ TakeTimeout \/ UNCHANGED vars
  <2>1. UNCHANGED <<dev, mem, pc, conf, grey, panel, faint>>
    BY <1>1 DEF TestPin, TakeTrigger, TakeTimeout, glass, vars, driver, drawn
  <2> QED
    BY <2>1 DEF SendOK, Plain, Drawing, DEPG, Whole
<1>2. CASE SendLut
  <2>1. /\ UNCHANGED <<dev, mem, conf, grey, faint>> /\ pc = "lut" /\ pc' = "ram24"
        /\ panel' = [panel EXCEPT !.lut = Effect(LutGenerate(dev, conf.list, conf.flags))]
    BY <1>2 DEF SendLut, Send, drawn
  <2>2. panel'.lut = Effect(LutGenerate(dev, conf.list, conf.flags))
    BY <2>1 DEF BitsOK
  <2>3. CASE Plain
    <3>1. PICK lut \in 0..15 : conf.list = LutEntries(lut) /\ (lut \in Short => faint)
      BY <2>1, <2>3 DEF SendOK, Commands
    <3>2. conf.flags \in {{"FIRST"}, {"PARTIAL"}, {}} /\ dev \in Devices
      BY <2>1, <2>3 DEF SendOK, GreyOK, Commands
    <3>3. Drives(panel'.lut, conf.flags) /\ (Saturates(panel'.lut) <=> lut \notin Short)
      BY <2>2, <3>1, <3>2, WaveformAssumption, Zenon
    <3> QED
      BY <2>1, <2>3, <3>1, <3>3 DEF SendOK, Plain, Drawing, Commands
  <2> QED
    BY <2>1, <2>3, <1>b DEF Plain, Drawing
<1>3. CASE SendNewImage
  <2>1. /\ UNCHANGED <<dev, mem, conf, grey, faint>> /\ pc = "ram24"
        /\ pc' = (IF dev = "DEPG0290B1" /\ mem.have_oldbuf THEN "ram26" ELSE "regs")
        /\ panel' = [panel EXCEPT !.ram24 = mem.tmpbuf]
    BY <1>3 DEF SendNewImage, Send, drawn
  <2>2. panel'.ram24 = mem.tmpbuf /\ panel'.lut = panel.lut /\ panel'.ram26 = panel.ram26
    BY <2>1 DEF BitsOK
  <2> QED
    BY <2>1, <2>2 DEF SendOK, Plain, Drawing, DEPG, Commands
<1>4. CASE SendOldImage
  <2>1. /\ UNCHANGED <<dev, mem, conf, grey, faint>> /\ pc = "ram26" /\ pc' = "regs"
        /\ panel' = [panel EXCEPT !.ram26 = mem.oldbuf]
    BY <1>4 DEF SendOldImage, Send, drawn
  <2>2. panel'.ram24 = panel.ram24 /\ panel'.lut = panel.lut /\ panel'.ram26 = mem.oldbuf
    BY <2>1 DEF BitsOK
  <2> QED
    BY <2>1, <2>2 DEF SendOK, Plain, Drawing, DEPG, Commands
<1>5. CASE SendRegs
  <2>1. /\ UNCHANGED <<dev, mem, conf, grey, faint>> /\ pc = "regs" /\ pc' = "start"
        /\ panel' = [panel EXCEPT !.fine = conf.fine, !.y_start = conf.y_start,
                                  !.y_len = conf.y_end - conf.y_start]
    BY <1>5 DEF SendRegs, Send, drawn
  <2>2. /\ panel'.ram24 = panel.ram24 /\ panel'.lut = panel.lut /\ panel'.ram26 = panel.ram26
        /\ panel'.fine = conf.fine /\ panel'.y_start = conf.y_start
        /\ panel'.y_len = conf.y_end - conf.y_start
    BY <2>1 DEF BitsOK
  <2>3. Plain => conf.y_end - conf.y_start = DISP_SIZE_Y - 1
    BY <2>1, LineFacts DEF SendOK, Commands
  <2> QED
    BY <2>1, <2>2, <2>3 DEF SendOK, Plain, Drawing, DEPG, Commands, Whole
<1>6. CASE SendStart \/ GreyscaleDone \/ Reboot \/ NextLayer \/ KeepLayer
  BY <1>6, <1>a DEF SendStart, GreyscaleDone, Reboot, NextLayer, KeepLayer, Send, Commands
<1>7. CASE Strip
  BY <1>7, <1>b DEF Strip, GreyOK, Plain, Drawing
<1>8. CASE RefreshDone
  <2>1. UNCHANGED <<dev, mem, pc, conf, grey, faint>> /\ pc \in {"idle", "lut", "strip"}
    BY <1>8 DEF RefreshDone, driver, drawn, WaitOK
  <2> QED
    BY <2>1 DEF SendOK, Plain, Drawing, Commands
<1>9. ASSUME NEW img, NEW rot, NEW lut \in Luts, NEW full \in BOOLEAN, NEW no_update \in BOOLEAN,
             Display(img, rot, lut, full, no_update)
      PROVE  SendOK'
  <2>1. CASE no_update
    BY <1>9, <2>1, <1>a DEF Display, Commands
  <2>2. CASE ~no_update
    <3>1. conf' = DisplayConf(lut, full) /\ pc' = "lut" /\ mem'.have_oldbuf = mem.have_oldbuf
      BY <1>9, <2>2 DEF Display, BitsOK
    <3>6. Drawing'
      BY <1>9 DEF Display, GreyOK, Drawing
    <3>2. (IF lut > 0 THEN lut - 1 ELSE 0) \in 0..15
      BY FlagAssumption
    <3>3. /\ conf'.list = LutEntries(IF lut > 0 THEN lut - 1 ELSE 0)
          /\ conf'.flags = LutFlags(lut, full)
          /\ conf'.fine = FALSE /\ conf'.y_start = 0 /\ conf'.y_end = DISP_SIZE_Y - 1
      BY <3>1 DEF DisplayConf
    <3>4. \E l \in 0..15 : conf'.list = LutEntries(l) /\ (l \in Short => faint')
      <4>1. PICK l \in 0..15 : l = (IF lut > 0 THEN lut - 1 ELSE 0)
        BY <3>2
      <4>2. l \in Short => lut - 1 \in Short
        BY <4>1 DEF Short
      <4>3. lut - 1 \in Short => faint'
        BY <1>9, <2>2 DEF Display
      <4> QED
        BY <3>3, <4>1, <4>2, <4>3
    <3>5. /\ LutFlags(lut, full) \in {{"FIRST"}, {"PARTIAL"}, {}}
          /\ LutFlags(lut, full) # {"FIRST"} => mem.have_oldbuf
      BY DEF LutFlags
    <3> QED
      BY <3>1, <3>3, <3>4, <3>5, <3>6 DEF SendOK
  <2> QED
    BY <2>1, <2>2
<1>10. ASSUME NEW img, NEW rot, NEW layers, Greyscale(img, rot, layers)
       PROVE  SendOK'
  <2>1. conf' = DisplayConf(0, TRUE) /\ pc' = "lut" /\ mem'.tmpbuf = AllZero
    BY <1>10 DEF Greyscale, BitsOK
  <2>2. /\ conf'.list = LutEntries(0) /\ conf'.flags = {"FIRST"}
        /\ conf'.fine = FALSE /\ conf'.y_start = 0 /\ conf'.y_end = DISP_SIZE_Y - 1
    BY <2>1 DEF DisplayConf, LutFlags
  <2>3. \E l \in 0..15 : conf'.list = LutEntries(l) /\ (l \in Short => faint')
    <3>1. 0 \in 0..15 /\ 0 \notin Short
      BY DEF Short
    <3> QED
      BY <2>2, <3>1
  <2> QED
    BY <2>1, <2>2, <2>3 DEF SendOK
<1> QED
  BY <1>1, <1>2, <1>3, <1>4, <1>5, <1>6, <1>7, <1>8, <1>9, <1>10, EinkSteps

(* The lines of the strip that is drawn. *)
LEMMA StripInts ==
  ASSUME GreyOK, grey.layer < grey.layers
  PROVE  Height \in Nat /\ Y0 \in Int
<1>1. loop.p \in 1..8 /\ grey.j \in Int
  BY LayerIsBits DEF GreyOK, GreyType
<1>2. \A p \in 1..8 : DISP_SIZE_Y \div p \in Nat
  BY LineFacts
<1>3. Height \in Nat
  BY <1>1, <1>2 DEF Height
<1> QED
  BY <1>1, <1>3 DEF Y0

(* They stay the same while its update is sent. *)
LEMMA StripSame ==
  ASSUME UNCHANGED <<dev, grey>>
  PROVE  /\ bit' = bit /\ loop' = loop /\ Height' = Height /\ Y0' = Y0
         /\ StripBits(Y0, Y0 + Height - 1)' = StripBits(Y0, Y0 + Height - 1)
         /\ Striping' = Striping
<1>1. bit' = bit /\ loop' = loop
  BY LoopSame
<1>2. Height' = Height
  BY <1>1 DEF Height
<1>3. Y0' = Y0
  BY <1>2 DEF Y0
<1>4. StripBits(Y0, Y0 + Height - 1)' = StripBits(Y0, Y0 + Height - 1)
  BY <1>1, <1>2, <1>3 DEF StripBits, Bitplane
<1>5. Striping' = Striping
  BY DEF Striping, Drawing
<1> QED
  BY <1>1, <1>2, <1>3, <1>4, <1>5

(* The update of a strip, as badge_eink_display_greyscale() fills it in and    *)
(* badge_eink_update() sends it.                                               *)
LEMMA StripStep ==
  ASSUME SentInv, [Next]_vars
  PROVE  StripOK'
<1> USE DEF SentInv
<1>a. CASE pc' \notin Commands
  BY <1>a DEF StripOK
<1>b. CASE ~Striping'
  BY <1>b DEF StripOK
<1>1. CASE TestPin \/ TakeTrigger \/ TakeTimeout \/ UNCHANGED vars
  <2>1. UNCHANGED <<dev, mem, pc, conf, grey, panel>>
    BY <1>1 DEF TestPin, TakeTrigger, TakeTimeout, glass, vars, driver
  <2> QED
    BY <2>1, StripSame DEF StripOK
<1>2. CASE SendLut
  <2>1. /\ UNCHANGED <<dev, mem, conf, grey>> /\ pc = "lut" /\ pc' = "ram24"
        /\ panel' = [panel EXCEPT !.lut = Effect(LutGenerate(dev, conf.list, conf.flags))]
    BY <1>2 DEF SendLut, Send
  <2>2. panel'.lut = Effect(LutGenerate(dev, conf.list, conf.flags))
    BY <2>1 DEF BitsOK
  <2>3. CASE Striping
    <3>1. conf.list = GreyLut(loop.t, mem.have_oldbuf) /\ conf.flags = {}
      BY <2>1, <2>3 DEF StripOK, Commands
    <3>2. dev \in Devices /\ mem.have_oldbuf \in BOOLEAN
      BY DEF GreyOK, BitsOK
    <3>3. loop.t \in CycleCounts
      <4>1. grey.layer < grey.layers
        BY <2>1, <2>3 DEF GreyOK, Striping, Commands
      <4>2. PICK t \in CycleCounts, p \in StripCounts : loop = [t |-> t, p |-> p]
        BY <4>1, LayerFacts
      <4> QED
        BY <4>2
    <3>4. \A d \in Devices, t \in CycleCounts, kept \in BOOLEAN :
            Whitens(Effect(LutGenerate(d, GreyLut(t, kept), {})), t, kept)
      BY GreyLutAssumption, Zenon DEF CycleCounts
    <3>5. Whitens(Effect(LutGenerate(dev, GreyLut(loop.t, mem.have_oldbuf), {})),
                  loop.t, mem.have_oldbuf)
      BY <3>2, <3>3, <3>4, Zenon
    <3>6. Whitens(panel'.lut, loop.t, mem.have_oldbuf)
      BY <2>2, <3>1, <3>5, Zenon
    <3> QED
      BY <2>1, <2>3, <3>6, StripSame DEF StripOK, Commands
  <2> QED
    BY <2>1, <2>3, <1>b, StripSame
<1>3. CASE SendNewImage
  <2>1. /\ UNCHANGED <<dev, mem, conf, grey>> /\ pc = "ram24"
        /\ pc' = (IF dev = "DEPG0290B1" /\ mem.have_oldbuf THEN "ram26" ELSE "regs")
        /\ panel' = [panel EXCEPT !.ram24 = mem.tmpbuf]
    BY <1>3 DEF SendNewImage, Send
  <2>2. panel'.ram24 = mem.tmpbuf /\ panel'.lut = panel.lut
    BY <2>1 DEF BitsOK
  <2>3. Striping /\ mem.have_oldbuf => pc' = "ram26"
    BY <2>1 DEF KeptOK, DEPG
  <2> QED
    BY <2>1, <2>2, <2>3, StripSame DEF StripOK, Commands
<1>4. CASE SendOldImage
  <2>1. /\ UNCHANGED <<dev, mem, conf, grey>> /\ pc = "ram26" /\ pc' = "regs"
        /\ panel' = [panel EXCEPT !.ram26 = mem.oldbuf]
    BY <1>4 DEF SendOldImage, Send
  <2>2. panel'.ram24 = panel.ram24 /\ panel'.lut = panel.lut /\ panel'.ram26 = mem.oldbuf
    BY <2>1 DEF BitsOK
  <2> QED
    BY <2>1, <2>2, StripSame DEF StripOK, Commands
<1>5. CASE SendRegs
  <2>1. /\ UNCHANGED <<dev, mem, conf, grey>> /\ pc = "regs" /\ pc' = "start"
        /\ panel' = [panel EXCEPT !.fine = conf.fine, !.y_start = conf.y_start,
                                  !.y_len = conf.y_end - conf.y_start]
    BY <1>5 DEF SendRegs, Send
  <2>2. /\ panel'.ram24 = panel.ram24 /\ panel'.lut = panel.lut /\ panel'.ram26 = panel.ram26
        /\ panel'.fine = conf.fine /\ panel'.y_start = conf.y_start
        /\ panel'.y_len = conf.y_end - conf.y_start
    BY <2>1 DEF BitsOK
  <2>3. Striping => conf.y_end - conf.y_start = Height
    <3>1. Striping => grey.layer < grey.layers
      BY <2>1 DEF GreyOK, Striping, Commands
    <3>2. Striping => Height \in Nat /\ Y0 \in Int
      BY <3>1, StripInts
    <3>3. Striping => conf.y_start = Y0 /\ conf.y_end = Y0 + Height
      BY <2>1 DEF StripOK, Commands
    <3> QED
      BY <3>2, <3>3
  <2> QED
    BY <2>1, <2>2, <2>3, StripSame DEF StripOK, Commands
<1>6. CASE SendStart \/ GreyscaleDone \/ Reboot \/ NextLayer \/ KeepLayer
  BY <1>6, <1>a DEF SendStart, GreyscaleDone, Reboot, NextLayer, KeepLayer, Send, Commands
<1>7. CASE Strip
  <2>1. /\ UNCHANGED <<dev, grey>> /\ grey.layer < grey.layers /\ pc' = "lut"
        /\ mem' = [mem EXCEPT !.tmpbuf = StripBits(Y0, Y0 + Height - 1)]
        /\ conf' = [list |-> GreyLut(loop.t, mem.have_oldbuf), flags |-> {}, fine |-> TRUE,
                    y_start |-> Y0, y_end |-> Y0 + Height - 1 + 1]
    BY <1>7 DEF Strip, Y0, Height
  <2>2. Y0 + Height - 1 + 1 = Y0 + Height
    BY <2>1, StripInts
  <2>3. mem'.tmpbuf = StripBits(Y0, Y0 + Height - 1) /\ mem'.have_oldbuf = mem.have_oldbuf
    BY <2>1 DEF BitsOK
  <2>4. /\ conf'.list = GreyLut(loop.t, mem.have_oldbuf) /\ conf'.flags = {} /\ conf'.fine = TRUE
        /\ conf'.y_start = Y0 /\ conf'.y_end = Y0 + Height
    BY <2>1, <2>2
  <2> QED
    BY <2>1, <2>3, <2>4, StripSame DEF StripOK
<1>8. CASE RefreshDone
  <2>1. UNCHANGED <<dev, mem, pc, conf, grey>> /\ pc \in {"idle", "lut", "strip"}
    BY <1>8 DEF RefreshDone, driver, WaitOK
  <2> QED
    BY <2>1, StripSame DEF StripOK, Commands
<1>9. ASSUME NEW img, NEW rot, NEW lut, NEW full, NEW no_update,
             Display(img, rot, lut, full, no_update)
      PROVE  StripOK'
  BY <1>9, <1>b DEF Display, GreyOK, Striping, Drawing
<1>10. ASSUME NEW img, NEW rot, NEW layers, Greyscale(img, rot, layers)
       PROVE  StripOK'
  <2>1. grey'.j = -1
    BY <1>10 DEF Greyscale
  <2> QED
    BY <2>1, <1>b DEF Striping
<1> QED
  BY <1>1, <1>2, <1>3, <1>4, <1>5, <1>6, <1>7, <1>8, <1>9, <1>10, EinkSteps

(* The layer that badge_eink_oldbuf keeps for the next strip. *)
LEMMA KeptStep ==
  ASSUME SentInv, [Next]_vars
  PROVE  KeptOK'
<1> USE DEF SentInv
<1>a. CASE ~Striping' \/ ~mem'.have_oldbuf
  BY <1>a DEF KeptOK
<1>b. CASE /\ UNCHANGED <<dev, grey>>
           /\ mem'.have_oldbuf = mem.have_oldbuf /\ mem'.oldbuf = mem.oldbuf
  BY <1>b, StripSame DEF KeptOK, DEPG, Bitplane
<1>1. CASE TestPin \/ TakeTrigger \/ TakeTimeout \/ RefreshDone \/ UNCHANGED vars
  BY <1>1, <1>b DEF TestPin, TakeTrigger, TakeTimeout, RefreshDone, vars, driver
<1>2. CASE SendLut \/ SendNewImage \/ SendOldImage \/ SendRegs
  BY <1>2, <1>b DEF SendLut, SendNewImage, SendOldImage, SendRegs
<1>3. CASE SendStart
  <2>1. mem'.have_oldbuf = Drawing /\ (Drawing => grey' = grey)
    BY <1>3 DEF SendStart, Remember, BitsOK, Drawing
  <2> QED
    BY <2>1, <1>a DEF Striping, Drawing
<1>4. CASE NextLayer
  <2>1. mem' = mem /\ pc = "strip" /\ grey.layer < grey.layers /\ grey.j = loop.p
    BY <1>4 DEF NextLayer
  <2>2. loop.p \in 1..8
    BY <2>1, LayerIsBits
  <2>3. grey.j # 0
    BY <2>1, <2>2
  <2> QED
    BY <2>1, <2>3, <1>a DEF GreyOK
<1>5. CASE KeepLayer
  <2>1. /\ dev' = dev /\ DEPG /\ grey' = [grey EXCEPT !.layer = grey.layer + 1]
        /\ grey.j = 0 /\ grey.layer + 1 < grey.layers /\ grey.layer < grey.layers
        /\ mem' = [mem EXCEPT !.oldbuf = Bitplane(grey.img, bit, grey.rot), !.have_oldbuf = TRUE]
    BY <1>5 DEF KeepLayer, Paired, DEPG
  <2>2. PICK n \in 1..7 : n = grey.layer + 1
    BY <2>1 DEF GreyOK, GreyType
  <2>3. /\ grey'.layer = n /\ grey'.layers = grey.layers /\ grey'.j = 0
        /\ grey'.img = grey.img /\ grey'.rot = grey.rot
    BY <2>1, <2>2 DEF GreyOK, GreyType
  <2>4. mem'.oldbuf = Bitplane(grey.img, bit, grey.rot)
    BY <2>1 DEF BitsOK
  <2>5. bit = 2 * bit'
    <3>1. PICK b \in LayerBits : bit = b /\ Splits(grey.layer, b)
      BY <2>1, LayerFacts
    <3>2. n \in 0..(MaxLayers(dev) - 1) /\ dev \in Devices
      BY <2>1, <2>2 DEF GreyOK, GreyType, MaxLayers
    <3>3. PICK c \in LayerBits : BitOf(n) = c /\ Splits(n, c)
      BY <3>2, LoopFacts
    <3>4. bit' = BitOf(n)
      BY <2>3, Zenon DEF bit, BitOf
    <3>5. Cut(n) = b /\ Cut(n) = 2 * c
      BY <2>2, <3>1, <3>3 DEF Splits
    <3> QED
      BY <3>1, <3>3, <3>4, <3>5
  <2>6. Bitplane(grey.img, bit, grey.rot) = Bitplane(grey.img, 2 * bit, grey.rot)'
    BY <2>3, <2>5 DEF Bitplane
  <2> QED
    BY <2>1, <2>2, <2>3, <2>4, <2>6 DEF KeptOK, DEPG
<1>6. CASE Strip
  <2>1. UNCHANGED <<dev, grey>> /\ mem'.have_oldbuf = mem.have_oldbuf /\ mem'.oldbuf = mem.oldbuf
    BY <1>6 DEF Strip, BitsOK
  <2> QED
    BY <2>1, <1>b
<1>7. CASE GreyscaleDone \/ Reboot
  BY <1>7, <1>a DEF GreyscaleDone, Reboot, NoGrey, Striping, Drawing
<1>8. ASSUME NEW img, NEW rot, NEW lut, NEW full, NEW no_update,
             Display(img, rot, lut, full, no_update)
      PROVE  KeptOK'
  BY <1>8, <1>a DEF Display, GreyOK, Striping, Drawing
<1>9. ASSUME NEW img, NEW rot, NEW layers, Greyscale(img, rot, layers)
      PROVE  KeptOK'
  <2>1. grey'.j = -1
    BY <1>9 DEF Greyscale
  <2> QED
    BY <2>1, <1>a DEF Striping
<1> QED
  BY <1>1, <1>2, <1>3, <1>4, <1>5, <1>6, <1>7, <1>8, <1>9, EinkSteps

(* All of the driver's part of the invariant. *)
LEMMA SentStep ==
  ASSUME SentInv, [Next]_vars
  PROVE  SentInv'
  BY WaitStep, BitsStep, GreyStep, FaintStep, SendStep, StripStep, KeptStep DEF SentInv

(* Where a waveform of badge_eink_display() leaves a pixel: at the new image, or *)
(* on the way there when the picture may be faint.                               *)
LEMMA PlayedEnds ==
  ASSUME NEW e, NEW n \in {0, 1}, NEW lines, NEW level, DrivesTo(e, n, level)
  PROVE  Near(Played(e, FALSE, lines, level), IF n = 1 THEN White ELSE Black)
<1>0. 1 # 0 /\ 2 # 0 /\ 2 # 1 /\ 1 + 0 = 1 /\ 1 + 1 = 2
  OBVIOUS
<1>1. CASE e.last = 0
  <2>1. Played(e, FALSE, lines, level) = level
    BY <1>1, Zenon DEF Played
  <2> QED
    BY <1>1, <2>1, Zenon DEF DrivesTo
<1>2. CASE n = 0 /\ e.last = 1
  <2>1. Played(e, FALSE, lines, level) = Driven(e)
    BY <1>0, <1>2, Zenon DEF Played
  <2>2. Driven(e) = IF e.cycles >= Saturating THEN Black ELSE Darkened
    BY <1>0, <1>2, Zenon DEF Driven
  <2>3. faint \/ e.cycles >= Saturating
    BY <1>0, <1>2, Zenon DEF DrivesTo
  <2> QED
    BY <1>0, <1>2, <2>1, <2>2, <2>3, Zenon DEF Near
<1>3. CASE n = 1 /\ e.last = 2
  <2>1. Played(e, FALSE, lines, level) = Driven(e)
    BY <1>0, <1>3, Zenon DEF Played
  <2>2. Driven(e) = IF e.cycles >= Saturating THEN White ELSE Lightened
    BY <1>0, <1>3, Zenon DEF Driven
  <2>3. faint \/ e.cycles >= Saturating
    BY <1>0, <1>3, Zenon DEF DrivesTo
  <2> QED
    BY <1>0, <1>3, <2>1, <2>2, <2>3, Zenon DEF Near
<1>4. e.last = 0 \/ (n = 0 /\ e.last = 1) \/ (n = 1 /\ e.last = 2)
  BY DEF DrivesTo
<1> QED
  BY <1>1, <1>2, <1>3, <1>4

(* Where a waveform of a strip leaves a pixel. *)
LEMMA PlayedAdds ==
  ASSUME NEW e, NEW lines, NEW level
  PROVE  /\ e.last = 0 => Played(e, TRUE, lines, level) = level
         /\ e.last = 2 /\ ~(level < 0) =>
              Played(e, TRUE, lines, level) = level + lines * e.cycles
<1>1. 2 # 0
  OBVIOUS
<1> QED
  BY <1>1, Zenon DEF Played

(***************************************************************************)
(* A refresh of all lines with a waveform that drives every pixel to the    *)
(* new image, or leaves it where it already is, leaves the new image.       *)
(***************************************************************************)
LEMMA DrivesToImage ==
  ASSUME BitsOK, Whole, DrivesAll
  PROVE  Shows(Refreshed(panel, shown), Saturated(panel.ram24))
<1> SUFFICES ASSUME NEW y \in Line
             PROVE  Near(Refreshed(panel, shown)[y], Saturated(panel.ram24)[y])
  BY DEF Shows
<1>1. PICK e : e = At(panel.lut, panel.ram26[y], panel.ram24[y])
  OBVIOUS
<1>2. PICK n \in {0, 1} : n = panel.ram24[y]
  BY DEF BitsOK, Bits
<1>3. Refreshed(panel, shown)[y] = Played(e, FALSE, panel.y_len, shown[y])
  <2>1. panel.y_start <= y /\ y <= panel.y_start + panel.y_len
    BY LineFacts DEF Line, Whole
  <2> QED
    BY <1>1, <2>1 DEF Refreshed, Whole
<1>4. Saturated(panel.ram24)[y] = IF n = 1 THEN White ELSE Black
  BY <1>2 DEF Saturated
<1>5. DrivesTo(e, n, shown[y])
  BY <1>1, <1>2 DEF DrivesAll
<1>6. Near(Played(e, FALSE, panel.y_len, shown[y]), IF n = 1 THEN White ELSE Black)
  BY <1>5, PlayedEnds, Zenon
<1> QED
  BY <1>3, <1>4, <1>6, Zenon

(***************************************************************************)
(* Command 0x20 of badge_eink_display(): the refresh it starts leaves the   *)
(* new image on the panel.                                                  *)
(***************************************************************************)
LEMMA StartDisplays ==
  ASSUME SentInv, OldOK, SendStart, Plain
  PROVE  /\ Whole /\ panel.ram24 = mem.tmpbuf /\ DrivesAll
         /\ Shows(Refreshed(panel, shown), Saturated(mem.tmpbuf))
<1> USE DEF SentInv
<1>1. ~busy /\ pc = "start"
  BY DEF SendStart, Send, WaitOK
<1>2. /\ Drives(panel.lut, conf.flags) /\ Whole /\ panel.ram24 = mem.tmpbuf
      /\ faint \/ Saturates(panel.lut)
      /\ conf.flags # {"FIRST"} => Drawing /\ mem.have_oldbuf
      /\ DEPG /\ mem.have_oldbuf => panel.ram26 = mem.oldbuf
  BY <1>1 DEF SendOK, Commands
<1>3. conf.flags # {"FIRST"} => Shows(shown, Saturated(panel.ram26))
  BY <1>1, <1>2 DEF OldOK, Relied, OldImage
<1>4. ASSUME NEW y \in Line
      PROVE  DrivesTo(At(panel.lut, panel.ram26[y], panel.ram24[y]), panel.ram24[y], shown[y])
  <2>1. PICK o \in {0, 1}, n \in {0, 1} : o = panel.ram26[y] /\ n = panel.ram24[y]
    BY DEF BitsOK, Bits
  <2>2. PICK e : e = At(panel.lut, o, n)
    OBVIOUS
  <2>3. /\ e.last \in {0, 1 + n}
        /\ o # n \/ conf.flags = {"FIRST"} => e.last # 0
    BY <1>2, <2>1, <2>2 DEF Drives
  <2>4. e.last # 0 => faint \/ e.cycles >= Saturating
    <3>1. PICK k \in 1..4 : k = 2 * o + n + 1
      OBVIOUS
    <3>2. e = panel.lut[k]
      BY <2>2, <3>1 DEF At
    <3> QED
      BY <1>2, <3>2, Zenon DEF Saturates
  <2>5. e.last = 0 => Near(shown[y], IF n = 1 THEN White ELSE Black)
    <3>1. SUFFICES ASSUME e.last = 0
                   PROVE  Near(shown[y], IF n = 1 THEN White ELSE Black)
      OBVIOUS
    <3>2. o = n /\ Shows(shown, Saturated(panel.ram26))
      BY <1>3, <2>3, <3>1
    <3>3. Saturated(panel.ram26)[y] = IF n = 1 THEN White ELSE Black
      BY <2>1, <3>2 DEF Saturated
    <3>4. Near(shown[y], Saturated(panel.ram26)[y])
      BY <3>2, Zenon DEF Shows
    <3> QED
      BY <3>3, <3>4, Zenon
  <2>6. DrivesTo(e, n, shown[y])
    BY <2>3, <2>4, <2>5, Zenon DEF DrivesTo
  <2> QED
    BY <2>1, <2>2, <2>6, Zenon
<1>5. DrivesAll
  BY <1>4, Zenon DEF DrivesAll
<1>6. Shows(Refreshed(panel, shown), Saturated(panel.ram24))
  BY <1>2, <1>5, DrivesToImage
<1> QED
  BY <1>2, <1>5, <1>6

(* What is pending on the panel changes only with command 0x20 and with a reset. *)
LEMMA PendingKept ==
  ASSUME SentInv, [Next]_vars, ~SendStart, ~Reboot
  PROVE  Pending' = Pending
<1> USE DEF SentInv
<1>1. CASE TestPin \/ TakeTrigger \/ TakeTimeout \/ UNCHANGED vars
  BY <1>1 DEF TestPin, TakeTrigger, TakeTimeout, glass, vars, Pending, Refreshed
<1>2. CASE SendLut \/ SendNewImage \/ SendOldImage \/ SendRegs
  <2>1. UNCHANGED <<busy, shown>> /\ ~busy
    BY <1>2 DEF SendLut, SendNewImage, SendOldImage, SendRegs, Send, WaitOK
  <2> QED
    BY <2>1 DEF Pending
<1>3. CASE NextLayer \/ KeepLayer \/ Strip \/ GreyscaleDone
  BY <1>3 DEF NextLayer, KeepLayer, Strip, GreyscaleDone, glass, Pending, Refreshed
<1>4. CASE RefreshDone
  BY <1>4 DEF RefreshDone, Pending, Refreshed
<1>5. ASSUME NEW img, NEW rot, NEW lut, NEW full, NEW no_update,
             Display(img, rot, lut, full, no_update)
      PROVE  Pending' = Pending
  BY <1>5 DEF Display, glass, Pending, Refreshed
<1>6. ASSUME NEW img, NEW rot, NEW layers, Greyscale(img, rot, layers)
      PROVE  Pending' = Pending
  BY <1>6 DEF Greyscale, glass, Pending, Refreshed
<1> QED
  BY <1>1, <1>2, <1>3, <1>4, <1>5, <1>6, EinkSteps

(***************************************************************************)
(* badge_eink_have_oldbuf: set with the image that a refresh will leave     *)
(* (badge_eink.c), and kept only while nothing else is drawn.               *)
(***************************************************************************)
LEMMA OldStep ==
  ASSUME SentInv, OldOK, [Next]_vars
  PROVE  OldOK'
<1> USE DEF SentInv
<1>a. CASE ~Drawing' \/ ~mem'.have_oldbuf
  BY <1>a DEF OldOK, Relied
<1>b. CASE /\ UNCHANGED <<dev, grey, busy, shown, panel>>
           /\ mem'.have_oldbuf = mem.have_oldbuf /\ mem'.oldbuf = mem.oldbuf
           /\ faint => faint'
           /\ Relied' => Relied
  <2>1. \A level, wanted : Near(level, wanted) => Near(level, wanted)'
    BY <1>b, Zenon DEF Near
  <2>2. DrivesAll => DrivesAll'
    <3>1. \A e, n, level : DrivesTo(e, n, level) => DrivesTo(e, n, level)'
      BY <1>b, <2>1, Zenon DEF DrivesTo
    <3> QED
      BY <1>b, <3>1, Zenon DEF DrivesAll
  <2>3. \A picture : Shows(shown, picture) => Shows(shown, picture)'
    BY <1>b, <2>1, Zenon DEF Shows
  <2>4. OldImage' = OldImage /\ Whole' = Whole /\ DEPG' = DEPG
    BY <1>b DEF OldImage, Whole, DEPG
  <2>5. Saturated(OldImage)' = Saturated(OldImage)
    BY <2>4 DEF Saturated
  <2>6. Shows(shown, Saturated(OldImage)) => Shows(shown, Saturated(OldImage))'
    BY <2>3, <2>5
  <2>7. CASE Relied /\ busy
    <3>1. Whole /\ DrivesAll /\ (DEPG => mem.oldbuf = panel.ram24) /\ panel' = panel
      BY <1>b, <2>7 DEF OldOK
    <3>2. Whole' /\ DrivesAll' /\ (DEPG' => mem'.oldbuf = panel'.ram24)
      BY <1>b, <2>2, <2>4, <3>1
    <3> QED
      BY <1>b, <2>7, <3>2 DEF OldOK
  <2>8. CASE Relied /\ ~busy
    BY <1>b, <2>6, <2>8 DEF OldOK
  <2>9. CASE ~Relied
    BY <1>b, <2>9 DEF OldOK
  <2> QED
    BY <2>7, <2>8, <2>9
<1>c. CASE /\ UNCHANGED <<dev, grey, mem, busy, shown, conf, faint>> /\ ~busy
           /\ pc \in Commands /\ pc' \in Commands
           /\ DEPG \/ panel'.ram26 = panel.ram26
  <2>1. Relied' => Relied
    BY <1>c DEF Relied, Drawing
  <2>2. OldImage' = OldImage
    BY <1>c DEF OldImage, DEPG
  <2>3. Shows(shown, Saturated(OldImage))' = Shows(shown, Saturated(OldImage))
    BY <1>c, <2>2 DEF Shows, Near, Saturated
  <2> QED
    BY <1>c, <2>1, <2>3 DEF OldOK
<1>1. CASE TestPin \/ TakeTrigger \/ TakeTimeout \/ UNCHANGED vars
  BY <1>1, <1>b DEF TestPin, TakeTrigger, TakeTimeout, glass, vars, driver, drawn, Relied, Drawing
<1>2. CASE SendLut \/ SendNewImage \/ SendRegs
  <2>1. /\ UNCHANGED <<dev, grey, mem, busy, shown, conf, faint>> /\ ~busy /\ pc \in Commands
        /\ pc' \in Commands /\ panel'.ram26 = panel.ram26
    BY <1>2 DEF SendLut, SendNewImage, SendRegs, Send, drawn, Commands, WaitOK, BitsOK
  <2> QED
    BY <2>1, <1>c
<1>3. CASE SendOldImage
  <2>1. UNCHANGED <<dev, grey, mem, busy, shown, conf, faint>> /\ ~busy /\ pc = "ram26" /\ pc' = "regs"
    BY <1>3 DEF SendOldImage, Send, drawn, WaitOK
  <2> QED
    BY <2>1, <1>a, <1>c DEF SendOK, Commands, Drawing, Plain
<1>4. CASE SendStart
  <2>1. CASE ~Drawing
    <3>1. mem'.have_oldbuf = FALSE
      BY <1>4, <2>1 DEF SendStart, Remember, Drawing, BitsOK
    <3> QED
      BY <3>1, <1>a
  <2>2. CASE Drawing
    <3>1. /\ UNCHANGED <<dev, panel, shown, faint>> /\ busy' = TRUE /\ ~busy /\ pc = "start"
          /\ mem' = Remember
      BY <1>4 DEF SendStart, Send, drawn, WaitOK
    <3>2. DEPG => mem'.oldbuf = mem.tmpbuf
      BY <3>1 DEF Remember, DEPG, BitsOK
    <3>3. Whole /\ panel.ram24 = mem.tmpbuf /\ DrivesAll
      BY <1>4, <2>2, StartDisplays DEF Plain
    <3>4. DrivesAll' /\ Whole'
      <4>1. DrivesAll' = DrivesAll
        BY <3>1 DEF DrivesAll, DrivesTo, Near
      <4> QED
        BY <3>1, <3>3, <4>1 DEF Whole
    <3> QED
      BY <3>1, <3>2, <3>3, <3>4 DEF OldOK, DEPG
  <2> QED
    BY <2>1, <2>2
<1>5. CASE NextLayer \/ KeepLayer \/ Strip
  <2>1. pc = "strip" /\ grey'.layers = grey.layers
    BY <1>5 DEF NextLayer, KeepLayer, Strip, GreyOK, GreyType
  <2> QED
    BY <2>1, <1>a DEF GreyOK, Drawing
<1>6. CASE GreyscaleDone
  <2>1. ~mem'.have_oldbuf
    BY <1>6 DEF GreyscaleDone, GreyOK, GreyType
  <2> QED
    BY <2>1, <1>a
<1>7. CASE RefreshDone
  <2>1. UNCHANGED <<dev, mem, grey, pc, conf, faint>> /\ busy' = FALSE /\ busy
    BY <1>7 DEF RefreshDone, driver, drawn
  <2>2. CASE Relied
    <3>1. Shows(shown', Saturated(panel.ram24))
      <4>1. shown' = Refreshed(panel, shown)
        BY <1>7 DEF RefreshDone, Refreshed
      <4>2. Shows(Refreshed(panel, shown), Saturated(panel.ram24))
        BY <2>1, <2>2, DrivesToImage DEF OldOK
      <4> QED
        BY <4>1, <4>2
    <3>2. DEPG => mem.oldbuf = panel.ram24
      BY <2>1, <2>2 DEF OldOK
    <3>3. ~DEPG => panel'.ram26 = panel.ram24
      BY <1>7 DEF RefreshDone, RegsDone, DEPG, GreyOK, Devices
    <3>4. OldImage' = panel.ram24
      BY <2>1, <3>2, <3>3 DEF OldImage, DEPG
    <3>5. Shows(shown, Saturated(OldImage))'
      <4>1. Saturated(OldImage)' = Saturated(panel.ram24)
        BY <3>4 DEF Saturated
      <4> QED
        BY <2>1, <3>1, <4>1 DEF Shows, Near
    <3> QED
      BY <2>1, <3>5 DEF OldOK
  <2>3. CASE ~Relied
    <3>1. ~Relied'
      BY <2>1, <2>3 DEF Relied, Drawing
    <3> QED
      BY <3>1 DEF OldOK
  <2> QED
    BY <2>2, <2>3
<1>8. CASE Reboot
  <2>1. ~mem'.have_oldbuf
    BY <1>8 DEF Reboot, FreshMem
  <2> QED
    BY <2>1, <1>a
<1>9. ASSUME NEW img, NEW rot, NEW lut, NEW full, NEW no_update \in BOOLEAN,
             Display(img, rot, lut, full, no_update)
      PROVE  OldOK'
  <2>1. /\ UNCHANGED <<dev, grey, busy, shown, panel>> /\ pc = "idle"
        /\ mem'.have_oldbuf = mem.have_oldbuf /\ mem'.oldbuf = mem.oldbuf
    BY <1>9 DEF Display, glass, BitsOK
  <2>2. Relied' => Relied
    BY <2>1 DEF Relied, Drawing, Commands
  <2>3. CASE no_update
    <3>1. faint' = faint
      BY <1>9, <2>3 DEF Display, drawn
    <3> QED
      BY <2>1, <2>2, <3>1, <1>b
  <2>4. CASE ~no_update
    <3>1. /\ conf' = DisplayConf(lut, full) /\ pc' = "lut"
          /\ faint' = (lut - 1 \in Short \/ (faint /\ LutFlags(lut, full) # {"FIRST"}))
      BY <1>9, <2>4 DEF Display
    <3>2. CASE LutFlags(lut, full) = {"FIRST"}
      <4>1. ~Relied'
        BY <3>1, <3>2 DEF DisplayConf, Relied, Commands
      <4> QED
        BY <4>1 DEF OldOK
    <3>3. CASE LutFlags(lut, full) # {"FIRST"}
      <4>1. faint => faint'
        BY <3>1, <3>3
      <4> QED
        BY <2>1, <2>2, <4>1, <1>b
    <3> QED
      BY <3>2, <3>3
  <2> QED
    BY <2>3, <2>4
<1>10. ASSUME NEW img, NEW rot, NEW layers \in Layers, Greyscale(img, rot, layers)
       PROVE  OldOK'
  <2>1. (IF layers > MaxLayers(dev) THEN MaxLayers(dev) ELSE layers) \in 1..7
    BY FlagAssumption DEF MaxLayers
  <2> QED
    BY <1>10, <2>1, <1>a DEF Greyscale, Drawing
<1> QED
  BY <1>1, <1>2, <1>3, <1>4, <1>5, <1>6, <1>7, <1>8, <1>9, <1>10, EinkSteps

(* The value of a pixel, the right way up or upside down. *)
LEMMA LevelOf ==
  ASSUME NEW img \in Images \cup {AllZero}, NEW rot \in BOOLEAN, NEW y \in Line
  PROVE  Lev(img, rot, y) \in 0..255
<1>1. img \in [Line -> 0..255]
  BY ImageAssumption DEF AllZero
<1>2. (IF rot THEN DISP_SIZE_Y - 1 - y ELSE y) \in Line
  BY LineFacts DEF Line
<1> QED
  BY <1>1, <1>2 DEF Lev

(* Before the first layer a pixel is black. *)
LEMMA NoLayer ==
  ASSUME NEW d \in Devices, NEW x \in 0..255
  PROVE  Worth(d, Upper(x, 0)) = 0
<1>1. Cut(0) = 256
  <2>1. 8 - 0 = 8
    OBVIOUS
  <2> QED
    BY <2>1, StripAssumption, Zenon DEF Cut
<1>2. Upper(x, 0) = 0
  <2>1. x - (x % 256) = 0
    OBVIOUS
  <2> QED
    BY <1>1, <2>1 DEF Upper
<1>3. PIni(d) \in {4, 16}
  BY DEF PIni
<1>4. 0 * DISP_SIZE_Y = 0 /\ 0 \div 4 = 0 /\ 0 \div 16 = 0
  BY LineFacts
<1> QED
  BY <1>2, <1>3, <1>4 DEF Worth

(* The heights of the strips add up to the panel. *)
LEMMA StripsFill ==
  ASSUME NEW p \in StripCounts
  PROVE  DISP_SIZE_Y \div p \in Nat /\ p * (DISP_SIZE_Y \div p) = DISP_SIZE_Y
<1>1. PICK n \in 1..37 : DISP_SIZE_Y = 8 * n
  BY SizeAssumption
<1>2. /\ (8 * n) \div 1 = 8 * n /\ (8 * n) \div 2 = 4 * n
      /\ (8 * n) \div 4 = 2 * n /\ (8 * n) \div 8 = n
  OBVIOUS
<1>3. CASE p = 1
  BY <1>1, <1>2, <1>3
<1>4. CASE p = 2
  BY <1>1, <1>2, <1>4
<1>5. CASE p = 4
  BY <1>1, <1>2, <1>5
<1>6. CASE p = 8
  BY <1>1, <1>2, <1>6
<1> QED
  BY <1>3, <1>4, <1>5, <1>6 DEF StripCounts

(* One update for two layers gives a pixel the cycles of both its bits. *)
LEMMA TwoLayersAdd ==
  ASSUME NEW l \in 1..(MaxLayers("DEPG0290B1") - 1), NEW x \in 0..255,
         NEW b \in LayerBits, NEW t \in CycleCounts,
         Splits(l, b), t * PIni("DEPG0290B1") = b * 1
  PROVE  /\ Worth("DEPG0290B1", Upper(x, l - 1)) \in 0..White
         /\ Worth("DEPG0290B1", Upper(x, l + 1)) =
              Worth("DEPG0290B1", Upper(x, l - 1))
                + DISP_SIZE_Y * (t * (((x \div b) % 2) + 2 * ((x \div (2 * b)) % 2)))
         /\ (x \div b) % 2 \in {0, 1} /\ (x \div (2 * b)) % 2 \in {0, 1}
<1> DEFINE d == "DEPG0290B1"
<1>1. d \in Devices /\ l \in 0..(MaxLayers(d) - 1) /\ PIni(d) = 4
  BY DEF Devices, MaxLayers, PIni
<1>2. PICK k \in 0..(MaxLayers(d) - 1) : k = l - 1 /\ k + 1 = l
  BY DEF MaxLayers
<1>3. PICK c \in LayerBits, s \in CycleCounts, q \in StripCounts :
        Splits(k, c) /\ s * PIni(d) = c * q /\ q = 1
  BY <1>1, <1>2, LoopFacts
<1>4. c = 2 * b /\ s = 2 * t
  <2>1. Cut(l) = 2 * b /\ Cut(l) = c
    BY <1>2, <1>3 DEF Splits
  <2>2. 4 * t = b /\ 4 * s = c
    BY <1>1, <1>3 DEF LayerBits, CycleCounts
  <2> QED
    BY <2>1, <2>2 DEF CycleCounts
<1>5. /\ Worth(d, Upper(x, k)) \in 0..White
      /\ Worth(d, Upper(x, l)) = Worth(d, Upper(x, k)) + (DISP_SIZE_Y \div 1) * (s * ((x \div c) % 2))
  <2>1. 1 \in StripCounts
    BY DEF StripCounts
  <2>2. /\ Worth(d, Upper(x, k)) \in 0..White
        /\ Worth(d, Upper(x, k + 1)) =
             Worth(d, Upper(x, k)) + (DISP_SIZE_Y \div q) * (s * ((x \div c) % 2))
    BY <1>1, <1>2, <1>3, LayerAdds, Zenon
  <2> QED
    BY <1>2, <1>3, <2>2, Zenon
<1>6. Worth(d, Upper(x, l + 1)) = Worth(d, Upper(x, l)) + (DISP_SIZE_Y \div 1) * (t * ((x \div b) % 2))
  <2>1. 1 \in StripCounts
    BY DEF StripCounts
  <2> QED
    BY <1>1, <2>1, LayerAdds, Zenon
<1>7. PICK m \in {0, 1} : m = (x \div b) % 2
  BY CutOneLater, Zenon
<1>8. PICK o \in {0, 1} : o = (x \div c) % 2
  BY <1>3, CutOneLater, Zenon
<1>9. DISP_SIZE_Y \div 1 = DISP_SIZE_Y /\ DISP_SIZE_Y \in Nat
  BY LineFacts
<1>10. PICK w \in 0..White : w = Worth(d, Upper(x, k))
  BY <1>5, Zenon
<1>11. Worth(d, Upper(x, l + 1)) = (w + DISP_SIZE_Y * (s * o)) + DISP_SIZE_Y * (t * m)
  BY <1>5, <1>6, <1>7, <1>8, <1>9, <1>10, Zenon
<1>12. (w + DISP_SIZE_Y * (s * o)) + DISP_SIZE_Y * (t * m) = w + DISP_SIZE_Y * (t * (m + 2 * o))
  <2>1. t \in Nat /\ s = 2 * t /\ w \in Int /\ DISP_SIZE_Y \in Nat
    BY <1>4, <1>9, <1>10, LineFacts DEF CycleCounts, White
  <2>2. CASE o = 0
    BY <2>1, <2>2
  <2>3. CASE o = 1
    BY <2>1, <2>3
  <2> QED
    BY <2>2, <2>3
<1> QED
  BY <1>2, <1>4, <1>7, <1>8, <1>10, <1>11, <1>12, Zenon

(***************************************************************************)
(* Command 0x20 of a strip: the refresh it starts makes the pixels of the   *)
(* strip whiter by what their bits are worth, and leaves all others.        *)
(***************************************************************************)
LEMMA StripDrives ==
  ASSUME SentInv, PicOK, SendStart, Striping, NEW y \in Line
  PROVE  Refreshed(panel, shown)[y] =
           Worth(dev, Upper(Lev(grey.img, grey.rot, y),
                            IF y < (grey.j + 1) * Height THEN grey.layer + 1 ELSE grey.layer))
<1> USE DEF SentInv
<1>1. pc = "start" /\ ~busy /\ grey.layer < grey.layers /\ grey.j \in 0..8 /\ grey.j < loop.p
  BY DEF SendStart, Send, WaitOK, GreyOK, GreyType, Striping, Commands
<1>2. PICK x \in 0..255 : x = Lev(grey.img, grey.rot, y)
  BY LevelOf DEF GreyOK, GreyType
<1>3. PICK l \in 0..(MaxLayers(dev) - 1) : l = grey.layer
  BY <1>1, LayerFacts
<1>4. PICK b \in LayerBits, t \in CycleCounts, p \in StripCounts :
        /\ bit = b /\ Splits(l, b) /\ loop = [t |-> t, p |-> p]
        /\ t * PIni(dev) = b * p
        /\ dev = "DEPG0290B1" => p = 1
  BY <1>1, <1>3, LayerFacts
<1>5. PICK h \in Nat : h = Height /\ h = DISP_SIZE_Y \div p /\ p * h = DISP_SIZE_Y
  BY <1>4, StripsFill DEF Height
<1>6. PICK y0 \in Nat : y0 = Y0 /\ y0 = grey.j * h /\ (grey.j + 1) * h = y0 + h
  BY <1>1, <1>5 DEF Y0
<1>7. y \in Nat /\ y < DISP_SIZE_Y
  BY LineFacts DEF Line
<1>8. /\ panel.ram24 = mem.tmpbuf /\ mem.tmpbuf = StripBits(Y0, Y0 + Height - 1)
      /\ Whitens(panel.lut, t, mem.have_oldbuf)
      /\ mem.have_oldbuf => panel.ram26 = mem.oldbuf
      /\ panel.fine = TRUE /\ panel.y_start = y0 /\ panel.y_len = h
  BY <1>1, <1>4, <1>5, <1>6 DEF StripOK, Commands
<1>9. PICK k \in {0, 1} : k = (x \div b) % 2
  BY <1>4, CutOneLater, Zenon
<1>10. PICK m \in {0, 1}, o \in {0, 1} : m = panel.ram24[y] /\ o = panel.ram26[y]
  BY DEF BitsOK, Bits
<1>11. m = IF y0 <= y /\ y <= y0 + h - 1 THEN k ELSE 0
  <2>1. Bitplane(grey.img, bit, grey.rot)[y] = (x \div b) % 2
    BY <1>2, <1>4, Zenon DEF Bitplane, Lev
  <2>2. m = IF y \in Y0..(Y0 + Height - 1) THEN Bitplane(grey.img, bit, grey.rot)[y] ELSE 0
    BY <1>8, <1>10 DEF StripBits
  <2>3. y \in Y0..(Y0 + Height - 1) <=> y0 <= y /\ y <= y0 + h - 1
    BY <1>5, <1>6, <1>7
  <2> QED
    BY <1>9, <2>1, <2>2, <2>3, Zenon
<1>12. PICK e : /\ e = At(panel.lut, panel.ram26[y], panel.ram24[y])
                /\ e.last = (IF m = 1 \/ (mem.have_oldbuf /\ o = 1) THEN 2 ELSE 0)
                /\ e.cycles = t * (IF mem.have_oldbuf THEN m + 2 * o ELSE m)
  <2>1. At(panel.lut, o, m) = [last   |-> IF m = 1 \/ (mem.have_oldbuf /\ o = 1) THEN 2 ELSE 0,
                               cycles |-> t * (IF mem.have_oldbuf THEN m + 2 * o ELSE m)]
    BY <1>8, Zenon DEF Whitens
  <2> QED
    BY <1>10, <2>1
<1>13. PICK g : g = shown[y] /\ g = Worth(dev, Upper(x, LayersOn(y)))
  BY <1>1, <1>2 DEF PicOK, Pending
<1>14. Refreshed(panel, shown)[y] = IF y0 <= y /\ y <= y0 + h THEN Played(e, TRUE, h, g) ELSE g
  BY <1>8, <1>12, <1>13 DEF Refreshed
<1>15. SUFFICES Refreshed(panel, shown)[y] = Worth(dev, Upper(x, IF y < y0 + h THEN l + 1 ELSE l))
  BY <1>2, <1>3, <1>5, <1>6, Zenon
<1>16. -1 \notin 0..White
  OBVIOUS
<1>17. CASE mem.have_oldbuf
  <2>1. dev = "DEPG0290B1" /\ grey.j = 0 /\ grey.layer >= 1
        /\ mem.oldbuf = Bitplane(grey.img, 2 * bit, grey.rot)
    BY <1>17 DEF KeptOK, DEPG
  <2>2. p = 1 /\ h = DISP_SIZE_Y /\ y0 = 0
    BY <1>4, <1>5, <1>6, <2>1, LineFacts
  <2>3. o = (x \div (2 * b)) % 2
    <3>1. panel.ram26 = Bitplane(grey.img, 2 * b, grey.rot)
      BY <1>4, <1>8, <1>17, <2>1
    <3>2. Bitplane(grey.img, 2 * b, grey.rot)[y] = (x \div (2 * b)) % 2
      BY <1>2, Zenon DEF Bitplane, Lev
    <3> QED
      BY <1>10, <3>1, <3>2, Zenon
  <2>4. m = k
    BY <1>7, <1>11, <2>2, LineFacts
  <2>5. g = Worth(dev, Upper(x, l - 1))
    BY <1>3, <1>13, <1>17 DEF LayersOn
  <2>6. g \in 0..White /\ Worth(dev, Upper(x, l + 1)) = g + DISP_SIZE_Y * (t * (k + 2 * o))
    <3>1. l \in 1..(MaxLayers("DEPG0290B1") - 1) /\ t * PIni("DEPG0290B1") = b * 1
      BY <1>3, <1>4, <2>1, <2>2 DEF MaxLayers
    <3>2. /\ Worth("DEPG0290B1", Upper(x, l - 1)) \in 0..White
          /\ Worth("DEPG0290B1", Upper(x, l + 1)) =
               Worth("DEPG0290B1", Upper(x, l - 1))
                 + DISP_SIZE_Y * (t * (((x \div b) % 2) + 2 * ((x \div (2 * b)) % 2)))
      BY <1>4, <3>1, TwoLayersAdd, Zenon
    <3> QED
      BY <1>9, <2>1, <2>3, <2>5, <3>2, Zenon
  <2>7. Refreshed(panel, shown)[y] = Played(e, TRUE, h, g) /\ y < y0 + h
    <3>1. y0 <= y /\ y <= y0 + h /\ y < y0 + h
      BY <1>7, <2>2, LineFacts
    <3> QED
      BY <1>14, <3>1, Zenon
  <2>8. CASE m = 0 /\ o = 0
    <3>1. Played(e, TRUE, h, g) = g
      BY <1>12, <2>8, PlayedAdds
    <3>2. g = g + DISP_SIZE_Y * (t * (k + 2 * o))
      BY <2>4, <2>6, <2>8, LineFacts DEF CycleCounts, White
    <3> QED
      BY <2>6, <2>7, <3>1, <3>2
  <2>9. CASE m = 1 \/ o = 1
    <3>1. e.last = 2 /\ e.cycles = t * (m + 2 * o) /\ ~(g < 0)
      BY <1>12, <1>16, <1>17, <2>6, <2>9
    <3>2. Played(e, TRUE, h, g) = g + h * (t * (m + 2 * o))
      BY <3>1, PlayedAdds
    <3> QED
      BY <2>2, <2>4, <2>6, <2>7, <3>2
  <2> QED
    BY <2>8, <2>9
<1>18. CASE ~mem.have_oldbuf
  <2>1. /\ Worth(dev, Upper(x, l)) \in 0..White
        /\ Worth(dev, Upper(x, l + 1)) = Worth(dev, Upper(x, l)) + h * (t * k)
    <3>1. dev \in Devices
      BY DEF GreyOK
    <3>2. /\ Worth(dev, Upper(x, l)) \in 0..White
          /\ Worth(dev, Upper(x, l + 1)) =
               Worth(dev, Upper(x, l)) + (DISP_SIZE_Y \div p) * (t * ((x \div b) % 2))
      BY <1>4, <3>1, LayerAdds, Zenon
    <3> QED
      BY <1>5, <1>9, <3>2, Zenon
  <2>2. g = Worth(dev, Upper(x, IF grey.j > 0 /\ y < y0 THEN l + 1 ELSE l))
    BY <1>3, <1>6, <1>13, <1>18, Zenon DEF LayersOn
  <2>3. CASE y < y0
    <3>1. grey.j > 0
      BY <1>1, <1>5, <1>6, <1>7, <2>3
    <3>2. ~(y0 <= y) /\ y < y0 + h
      BY <1>7, <2>3
    <3> QED
      BY <1>14, <2>2, <2>3, <3>1, <3>2
  <2>4. CASE y0 <= y /\ y < y0 + h
    <3>1. m = k /\ ~(y < y0) /\ y <= y0 + h
      BY <1>7, <1>11, <2>4
    <3>2. g = Worth(dev, Upper(x, l)) /\ Refreshed(panel, shown)[y] = Played(e, TRUE, h, g)
      BY <1>14, <2>2, <2>4, <3>1
    <3>3. CASE k = 0
      <4>1. Played(e, TRUE, h, g) = g
        BY <1>12, <1>18, <3>1, <3>3, PlayedAdds
      <4>2. Worth(dev, Upper(x, l + 1)) = g
        BY <2>1, <3>2, <3>3 DEF CycleCounts, White
      <4> QED
        BY <2>4, <3>2, <4>1, <4>2
    <3>4. CASE k = 1
      <4>1. e.last = 2 /\ e.cycles = t * k /\ ~(g < 0)
        BY <1>12, <1>16, <1>18, <2>1, <3>1, <3>2, <3>4
      <4>2. Played(e, TRUE, h, g) = g + h * (t * k)
        BY <4>1, PlayedAdds
      <4> QED
        BY <2>1, <2>4, <3>2, <4>2
    <3> QED
      BY <3>3, <3>4
  <2>5. CASE y0 + h <= y
    <3>1. m = 0 /\ ~(y < y0) /\ ~(y < y0 + h)
      BY <1>7, <1>11, <2>5
    <3>2. Played(e, TRUE, h, g) = g
      BY <1>12, <1>18, <3>1, PlayedAdds
    <3> QED
      BY <1>14, <2>2, <3>1, <3>2
  <2> QED
    BY <1>7, <2>3, <2>4, <2>5
<1> QED
  BY <1>17, <1>18

(* badge_eink_display_greyscale(): after every strip the pixels are as white as *)
(* the layers drawn so far make them.                                           *)
LEMMA PicStep ==
  ASSUME SentInv, OldOK, PicOK, [Next]_vars
  PROVE  PicOK'
<1> USE DEF SentInv
<1>a. CASE ~Striping'
  BY <1>a DEF PicOK
<1>b. CASE /\ UNCHANGED <<dev, grey>> /\ mem'.have_oldbuf = mem.have_oldbuf
           /\ Pending' = Pending
  <2>1. \A y : LayersOn(y)' = LayersOn(y)
    BY <1>b, StripSame DEF LayersOn
  <2>2. Striping' = Striping
    BY <1>b, StripSame
  <2> QED
    BY <1>b, <2>1, <2>2 DEF PicOK
<1>1. CASE SendStart
  <2>1. /\ UNCHANGED <<dev, panel, shown>> /\ busy' = TRUE
        /\ mem'.have_oldbuf = (grey.layers = 0)
        /\ grey' = IF grey.layers = 0 THEN grey ELSE [grey EXCEPT !.j = grey.j + 1]
    BY <1>1 DEF SendStart, Remember, BitsOK
  <2>2. Pending' = Refreshed(panel, shown)
    BY <2>1 DEF Pending, Refreshed
  <2>3. CASE Drawing
    BY <2>1, <2>3, <1>a DEF Striping, Drawing
  <2>4. CASE ~Drawing
    <3>1. PICK n \in 0..9 : n = grey.j + 1
      BY DEF GreyOK, GreyType
    <3>2. /\ grey'.j = n /\ grey'.layer = grey.layer /\ grey'.layers = grey.layers
          /\ grey'.img = grey.img /\ grey'.rot = grey.rot /\ ~mem'.have_oldbuf
      BY <2>1, <2>4, <3>1 DEF GreyOK, GreyType, Drawing
    <3>3. loop' = loop /\ Height' = Height
      BY <2>1, <3>2, LoopSame DEF Height
    <3>4. CASE grey.j = -1
      <4>1. Refreshed(panel, shown) = Saturated(mem.tmpbuf) /\ mem.tmpbuf = AllZero
        <5>1. pc = "start"
          BY <1>1 DEF SendStart
        <5>2. mem.tmpbuf = AllZero /\ ~faint
          BY <2>4, <3>4, <5>1 DEF Plain, SendOK, FaintOK, Commands
        <5>3. Shows(Refreshed(panel, shown), Saturated(mem.tmpbuf))
          BY <1>1, <3>4, StartDisplays DEF Plain
        <5>4. Refreshed(panel, shown) = [y \in Line |-> Refreshed(panel, shown)[y]]
          BY DEF Refreshed
        <5>5. \A y \in Line : Refreshed(panel, shown)[y] = Saturated(mem.tmpbuf)[y]
          BY <5>2, <5>3, Zenon DEF Shows, Near
        <5> QED
          BY <5>2, <5>4, <5>5 DEF Saturated
      <4>2. n = 0 /\ grey.layer = 0
        BY <3>1, <3>4 DEF GreyOK
      <4>3. ASSUME NEW y \in Line
            PROVE  Pending'[y] = Worth(dev, Upper(Lev(grey.img, grey.rot, y), 0))
        <5>1. Pending'[y] = 0
          BY <2>2, <4>1 DEF Saturated, AllZero, Black
        <5>2. Worth(dev, Upper(Lev(grey.img, grey.rot, y), 0)) = 0
          BY LevelOf, NoLayer DEF GreyOK, GreyType
        <5> QED
          BY <5>1, <5>2
      <4>4. \A y : LayersOn(y)' = 0
        BY <3>2, <4>2 DEF LayersOn
      <4> QED
        BY <2>1, <3>2, <4>3, <4>4 DEF PicOK
    <3>5. CASE grey.j # -1
      <4>1. Striping
        BY <2>4, <3>5 DEF Striping, GreyOK, GreyType
      <4>2. ASSUME NEW y \in Line
            PROVE  Pending'[y] =
                     Worth(dev, Upper(Lev(grey.img, grey.rot, y),
                                      IF y < n * Height THEN grey.layer + 1 ELSE grey.layer))
        BY <1>1, <2>2, <3>1, <4>1, StripDrives
      <4>3. n > 0
        BY <3>1, <3>5, <4>1 DEF Striping, GreyOK, GreyType
      <4>4. \A y : LayersOn(y)' = IF y < n * Height THEN grey.layer + 1 ELSE grey.layer
        BY <3>2, <3>3, <4>3 DEF LayersOn, Y0
      <4> QED
        BY <2>1, <3>2, <4>2, <4>4 DEF PicOK
    <3> QED
      BY <3>4, <3>5
  <2> QED
    BY <2>3, <2>4
<1>2. CASE Reboot
  BY <1>2, <1>a DEF Reboot, NoGrey, Striping, Drawing
<1>c. CASE ~SendStart /\ ~Reboot
  <2>0. Pending' = Pending
    BY <1>c, PendingKept
  <2>1. CASE TestPin \/ TakeTrigger \/ TakeTimeout \/ RefreshDone \/ UNCHANGED vars
    BY <2>0, <2>1, <1>b DEF TestPin, TakeTrigger, TakeTimeout, RefreshDone, vars, driver
  <2>2. CASE SendLut \/ SendNewImage \/ SendOldImage \/ SendRegs
    BY <2>0, <2>2, <1>b DEF SendLut, SendNewImage, SendOldImage, SendRegs
  <2>3. CASE NextLayer
    <3>1. /\ UNCHANGED <<dev, mem>> /\ grey' = [grey EXCEPT !.layer = grey.layer + 1, !.j = 0]
          /\ pc = "strip" /\ grey.layer < grey.layers /\ grey.j = loop.p
      BY <2>3 DEF NextLayer
    <3>2. PICK p \in StripCounts : loop.p = p /\ p * Height = DISP_SIZE_Y
      BY <3>1, LayerFacts, StripsFill DEF Height
    <3>3. grey.j > 0 /\ Y0 = DISP_SIZE_Y
      BY <3>1, <3>2 DEF StripCounts, Y0
    <3>4. ~mem.have_oldbuf /\ Striping
      BY <3>1, <3>3 DEF GreyOK, GreyType, Striping
    <3>5. \A y \in Line : LayersOn(y) = grey.layer + 1
      BY <3>3, <3>4, LineFacts DEF LayersOn, Line
    <3>6. PICK n \in 0..7 : n = grey.layer + 1
      BY <3>1 DEF GreyOK, GreyType
    <3>7. grey = [img |-> grey.img, rot |-> grey.rot, layers |-> grey.layers,
                  layer |-> grey.layer, j |-> grey.j]
      BY DEF GreyOK, GreyType
    <3>8. grey' = [img |-> grey.img, rot |-> grey.rot, layers |-> grey.layers,
                   layer |-> n, j |-> 0]
      BY <3>1, <3>6, <3>7
    <3>9. \A y : LayersOn(y)' = n
      <4>1. grey'.j = 0 /\ grey'.layer = n
        BY <3>8
      <4>2. ~mem'.have_oldbuf
        BY <3>1, <3>4
      <4>3. ~(0 > 0)
        OBVIOUS
      <4> QED
        BY <4>1, <4>2, <4>3, Zenon DEF LayersOn
    <3> QED
      BY <2>0, <3>1, <3>4, <3>5, <3>6, <3>8, <3>9 DEF PicOK
  <2>4. CASE KeepLayer
    <3>1. /\ dev' = dev /\ grey' = [grey EXCEPT !.layer = grey.layer + 1]
          /\ pc = "strip" /\ grey.j = 0 /\ grey.layer + 1 < grey.layers /\ ~mem.have_oldbuf
          /\ mem'.have_oldbuf
      BY <2>4 DEF KeepLayer, Paired, BitsOK
    <3>2. Striping /\ \A y : LayersOn(y) = grey.layer
      BY <3>1 DEF LayersOn, GreyOK, Striping
    <3>3. PICK n \in 0..7 : n = grey.layer + 1 /\ n - 1 = grey.layer
      BY <3>1 DEF GreyOK, GreyType
    <3>4. grey'.layer = n /\ grey'.img = grey.img /\ grey'.rot = grey.rot
      BY <3>1, <3>3 DEF GreyOK, GreyType
    <3>5. \A y : LayersOn(y)' = grey.layer
      BY <3>1, <3>3, <3>4 DEF LayersOn
    <3> QED
      BY <2>0, <3>1, <3>2, <3>4, <3>5 DEF PicOK
  <2>5. CASE Strip
    <3>1. UNCHANGED <<dev, grey>> /\ mem'.have_oldbuf = mem.have_oldbuf
      BY <2>5 DEF Strip, BitsOK
    <3> QED
      BY <2>0, <3>1, <1>b
  <2>6. CASE GreyscaleDone
    BY <2>6, <1>a DEF GreyscaleDone, NoGrey, Striping, Drawing
  <2>7. ASSUME NEW img, NEW rot, NEW lut, NEW full, NEW no_update,
               Display(img, rot, lut, full, no_update)
        PROVE  PicOK'
    BY <2>7, <1>a DEF Display, GreyOK, Striping, Drawing
  <2>8. ASSUME NEW img, NEW rot, NEW layers, Greyscale(img, rot, layers)
        PROVE  PicOK'
    <3>1. grey'.j = -1
      BY <2>8 DEF Greyscale
    <3> QED
      BY <3>1, <1>a DEF Striping
  <2> QED
    BY <1>c, <2>1, <2>2, <2>3, <2>4, <2>5, <2>6, <2>7, <2>8, EinkSteps
<1> QED
  BY <1>1, <1>2, <1>c

(* The picture that greyscale was asked for: the picture after its last layer. *)
LEMMA GreyWantedIs ==
  ASSUME NEW img, NEW rot, NEW n
  PROVE  GreyWanted(img, rot, n) = [y \in Line |-> Worth(dev, Upper(Lev(img, rot, y), n))]
  BY Zenon DEF GreyWanted, Worth, Upper, Lev, Cut

(* It stays the same through the loops. *)
LEMMA WantedSame ==
  ASSUME dev' = dev, grey'.img = grey.img, grey'.rot = grey.rot, grey'.layers = grey.layers
  PROVE  GreyWanted(grey.img, grey.rot, grey.layers)' = GreyWanted(grey.img, grey.rot, grey.layers)
  BY Zenon DEF GreyWanted

(* What the layers up to n are worth. *)
LEMMA WorthRange ==
  ASSUME NEW d \in Devices, NEW x \in 0..255, NEW n \in 0..MaxLayers(d)
  PROVE  Worth(d, Upper(x, n)) \in 0..White
<1>1. \A l \in 0..(MaxLayers(d) - 1) :
        Worth(d, Upper(x, l)) \in 0..White /\ Worth(d, Upper(x, l + 1)) \in 0..White
  <2> TAKE l \in 0..(MaxLayers(d) - 1)
  <2>1. PICK b \in LayerBits, t \in CycleCounts, p \in StripCounts :
          Splits(l, b) /\ t * PIni(d) = b * p /\ (d = "DEPG0290B1" => p = 1)
    BY LoopFacts
  <2> QED
    BY <2>1, LayerAdds, Zenon
<1>2. CASE n = 0
  <2>1. 0 \in 0..(MaxLayers(d) - 1)
    BY DEF MaxLayers
  <2> QED
    BY <1>1, <1>2, <2>1, Zenon
<1>3. CASE n # 0
  <2>1. PICK l \in 0..(MaxLayers(d) - 1) : n = l + 1
    <3>1. n - 1 \in 0..(MaxLayers(d) - 1) /\ n = (n - 1) + 1
      BY <1>3 DEF MaxLayers
    <3> QED
      BY <3>1
  <2> QED
    BY <1>1, <2>1, Zenon
<1> QED
  BY <1>2, <1>3

(* The pictures the calls ask for are pictures. *)
LEMMA Pictures ==
  /\ Nothing \in Picture
  /\ \A bits : Saturated(bits) \in Picture
  /\ \A g \in [Line -> 0..White] : g \in Picture
<1>1. White \in Nat
  BY LineFacts DEF White
<1>2. 0..White \subseteq Lightened..White /\ Unknown \in Lightened..White
      /\ Black \in Lightened..White /\ White \in Lightened..White
  BY <1>1 DEF Unknown, Lightened, Black
<1> QED
  BY <1>2 DEF Picture, Nothing, Saturated

(* So is what shows such a picture. *)
LEMMA Showing ==
  ASSUME NEW s, s = [y \in Line |-> s[y]], NEW bits, Shows(s, Saturated(bits))
  PROVE  s \in Picture
<1>1. White \in Nat
  BY LineFacts DEF White
<1> SUFFICES ASSUME NEW y \in Line
             PROVE  s[y] \in Lightened..White
  BY DEF Picture
<1>2. Near(s[y], Saturated(bits)[y])
  BY Zenon DEF Shows
<1>3. s[y] \in {Black, White, Darkened, Lightened}
  BY <1>2 DEF Near, Saturated
<1> QED
  BY <1>1, <1>3 DEF Lightened, Darkened, Black

(* What was asked for is pending or shown when the call has returned. *)
LEMMA AskedStep ==
  ASSUME EinkInv, [Next]_vars
  PROVE  AskedOK'
<1> USE DEF EinkInv, SentInv
<1>1. CASE SendStart
  <2>1. /\ UNCHANGED <<dev, panel, shown, asked, faint>> /\ busy' = TRUE /\ pc = "start"
        /\ pc' = (IF grey.layers = 0 THEN "idle" ELSE "strip")
        /\ grey' = IF grey.layers = 0 THEN grey ELSE [grey EXCEPT !.j = grey.j + 1]
    BY <1>1 DEF SendStart, Send, drawn
  <2>2. Pending' = Refreshed(panel, shown)
    BY <2>1 DEF Pending, Refreshed
  <2>3. CASE Drawing
    <3>1. Shows(Refreshed(panel, shown), Saturated(mem.tmpbuf)) /\ asked = Saturated(mem.tmpbuf)
      BY <1>1, <2>1, <2>3, StartDisplays DEF Plain, AskedOK, Commands
    <3>2. Shows(Pending, asked)'
      BY <2>1, <2>2, <3>1 DEF Shows, Near
    <3> QED
      BY <2>1, <2>3, <3>2 DEF AskedOK, Drawing, Commands
  <2>4. CASE ~Drawing
    <3>1. /\ grey'.layers = grey.layers /\ grey'.img = grey.img /\ grey'.rot = grey.rot
      BY <2>1, <2>4 DEF GreyOK, GreyType, Drawing
    <3>2. GreyWanted(grey.img, grey.rot, grey.layers)' = GreyWanted(grey.img, grey.rot, grey.layers)
      BY <2>1, <3>1, WantedSame
    <3> QED
      BY <2>1, <2>4, <3>1, <3>2 DEF AskedOK, Drawing, Commands
  <2> QED
    BY <2>3, <2>4
<1>2. CASE Reboot
  BY <1>2 DEF Reboot, AskedOK, NoGrey, Drawing, Commands
<1>c. CASE ~SendStart /\ ~Reboot
  <2>0. Pending' = Pending
    BY <1>c, PendingKept
  <2>s. ASSUME faint' = faint, asked' = asked
        PROVE  Shows(Pending, asked)' = Shows(Pending, asked)
    BY <2>0, <2>s DEF Shows, Near
  <2>b. CASE /\ UNCHANGED <<dev, grey, mem, asked, faint>>
             /\ pc' \in Commands => pc \in Commands
             /\ pc' = "idle" => pc = "idle"
    <3>1. GreyWanted(grey.img, grey.rot, grey.layers)' = GreyWanted(grey.img, grey.rot, grey.layers)
      BY <2>b, WantedSame
    <3> QED
      BY <2>b, <2>s, <3>1 DEF AskedOK, Drawing
  <2>1. CASE TestPin \/ TakeTrigger \/ TakeTimeout \/ RefreshDone \/ UNCHANGED vars
    BY <2>1, <2>b DEF TestPin, TakeTrigger, TakeTimeout, RefreshDone, vars, driver, glass, drawn
  <2>2. CASE SendLut \/ SendNewImage \/ SendOldImage \/ SendRegs
    BY <2>2, <2>b DEF SendLut, SendNewImage, SendOldImage, SendRegs, Send, Commands, drawn
  <2>3. CASE NextLayer \/ KeepLayer \/ Strip
    <3>1. /\ UNCHANGED <<dev, asked>> /\ pc = "strip" /\ pc' # "idle"
          /\ grey'.img = grey.img /\ grey'.rot = grey.rot /\ grey'.layers = grey.layers
      BY <2>3 DEF NextLayer, KeepLayer, Strip, GreyOK, GreyType, drawn
    <3> QED
      BY <3>1, WantedSame DEF AskedOK, Drawing, GreyOK, Commands
  <2>4. CASE GreyscaleDone
    <3>1. /\ UNCHANGED <<dev, mem, asked, faint>> /\ pc = "strip" /\ grey.layer = grey.layers
          /\ pc' = "idle" /\ grey' = NoGrey
      BY <2>4 DEF GreyscaleDone, drawn
    <3>2. Striping /\ ~mem.have_oldbuf /\ grey.j = 0 /\ ~Drawing
      BY <3>1 DEF GreyOK, GreyType, Striping
    <3>3. \A y : LayersOn(y) = grey.layers
      <4>1. ~(0 > 0)
        OBVIOUS
      <4> QED
        BY <3>1, <3>2, <4>1, Zenon DEF LayersOn
    <3>4. \A y \in Line : Pending[y] = Worth(dev, Upper(Lev(grey.img, grey.rot, y), grey.layers))
      BY <3>2, <3>3 DEF PicOK
    <3>5. asked = [y \in Line |-> Worth(dev, Upper(Lev(grey.img, grey.rot, y), grey.layers))]
      BY <3>2, GreyWantedIs DEF AskedOK
    <3>6. Shows(Pending, asked)
      BY <3>4, <3>5 DEF Shows, Near
    <3> QED
      BY <2>s, <3>1, <3>6 DEF AskedOK, Drawing, NoGrey, Commands
  <2>5. ASSUME NEW img, NEW rot, NEW lut, NEW full, NEW no_update \in BOOLEAN,
               Display(img, rot, lut, full, no_update)
        PROVE  AskedOK'
    <3>1. grey' = grey /\ pc = "idle" /\ mem'.tmpbuf = Bitplane(img, 128, rot) /\ Drawing /\ Drawing'
      BY <2>5 DEF Display, BitsOK, GreyOK, Drawing
    <3>2. CASE no_update
      BY <2>s, <2>5, <3>1, <3>2 DEF Display, AskedOK, Commands, drawn
    <3>3. CASE ~no_update
      BY <2>5, <3>1, <3>3 DEF Display, AskedOK
    <3> QED
      BY <3>2, <3>3
  <2>6. ASSUME NEW img, NEW rot, NEW layers \in Layers, Greyscale(img, rot, layers)
        PROVE  AskedOK'
    <3>1. PICK n \in 1..7 : n = IF layers > MaxLayers(dev) THEN MaxLayers(dev) ELSE layers
      BY FlagAssumption DEF MaxLayers
    <3>2. /\ grey' = [img |-> img, rot |-> rot, layers |-> n, layer |-> 0, j |-> -1]
          /\ dev' = dev /\ pc' = "lut" /\ asked' = GreyWanted(img, rot, n)
      BY <2>6, <3>1 DEF Greyscale
    <3>3. grey'.img = img /\ grey'.rot = rot /\ grey'.layers = n /\ n # 0
      BY <3>2
    <3>4. GreyWanted(grey.img, grey.rot, grey.layers)' = GreyWanted(img, rot, n)
      BY <3>2, <3>3, Zenon DEF GreyWanted
    <3> QED
      BY <3>2, <3>3, <3>4 DEF AskedOK, Drawing
  <2> QED
    BY <1>c, <2>1, <2>2, <2>3, <2>4, <2>5, <2>6, EinkSteps
<1> QED
  BY <1>1, <1>2, <1>c

(* The lines of an update are lines of the panel. *)
LEMMA ConfStep ==
  ASSUME EinkInv, [Next]_vars
  PROVE  ConfOK'
<1> USE DEF EinkInv, SentInv
<1>a. CASE UNCHANGED conf /\ busy' \in BOOLEAN /\ trigger' \in BOOLEAN
  BY <1>a DEF ConfOK
<1>b. 0 \in Line /\ 0 \in 0..DISP_SIZE_Y /\ DISP_SIZE_Y - 1 \in 0..DISP_SIZE_Y
  BY LineFacts DEF Line
<1>1. CASE TestPin \/ TakeTrigger \/ TakeTimeout \/ RefreshDone \/ UNCHANGED vars
  BY <1>1, <1>a DEF TestPin, TakeTrigger, TakeTimeout, RefreshDone, vars, driver, glass, ConfOK
<1>2. CASE SendLut \/ SendNewImage \/ SendOldImage \/ SendRegs
  BY <1>2, <1>a DEF SendLut, SendNewImage, SendOldImage, SendRegs, ConfOK
<1>3. CASE SendStart \/ Reboot
  <2>1. conf' = NoConf /\ busy' \in BOOLEAN /\ trigger' \in BOOLEAN
    BY <1>3 DEF SendStart, Reboot
  <2> QED
    BY <2>1, <1>b DEF NoConf, ConfOK
<1>4. CASE NextLayer \/ KeepLayer \/ GreyscaleDone
  BY <1>4, <1>a DEF NextLayer, KeepLayer, GreyscaleDone, glass, ConfOK
<1>5. CASE Strip
  <2>1. /\ UNCHANGED <<dev, grey, busy, trigger>> /\ pc = "strip" /\ pc' = "lut"
        /\ grey.layer < grey.layers /\ grey.j < loop.p
    BY <1>5 DEF Strip, glass
  <2>2. Striping' /\ StripOK'
    <3>1. StripOK'
      BY StripStep
    <3>2. Striping
      BY <2>1 DEF GreyOK, Striping
    <3> QED
      BY <2>1, <3>1, <3>2, StripSame
  <2>3. conf'.flags = {} /\ conf'.fine = TRUE /\ conf'.y_start = Y0 /\ conf'.y_end = Y0 + Height
    BY <2>1, <2>2, StripSame DEF StripOK, Commands
  <2>4. PICK p \in StripCounts, h \in Nat, i \in 0..8 :
          loop.p = p /\ Height = h /\ p * h = DISP_SIZE_Y /\ grey.j = i /\ i < p /\ h > 0
    <3>1. PICK p \in StripCounts : loop.p = p
      BY <2>1, LayerFacts
    <3>2. PICK h \in Nat : Height = h /\ p * h = DISP_SIZE_Y
      BY <3>1, StripsFill DEF Height
    <3>3. h > 0
      BY <3>2, LineFacts DEF StripCounts
    <3>4. grey.j \in 0..8
      BY <2>1 DEF GreyOK, GreyType
    <3> QED
      BY <2>1, <3>1, <3>2, <3>3, <3>4
  <2>5. PICK c \in Nat : p = i + 1 + c
    <3>1. p - (i + 1) \in Nat /\ p = i + 1 + (p - (i + 1))
      BY <2>4 DEF StripCounts
    <3> QED
      BY <3>1
  <2>6. PICK y0 \in Nat, r \in Nat : y0 = i * h /\ r = c * h
    OBVIOUS
  <2>7. y0 + h + r = DISP_SIZE_Y
    BY <2>4, <2>5, <2>6
  <2>8. y0 \in Line /\ y0 + h \in 0..DISP_SIZE_Y /\ Y0 = y0
    BY <2>4, <2>6, <2>7, LineFacts DEF Line, Y0
  <2> QED
    BY <2>1, <2>3, <2>4, <2>8 DEF ConfOK
<1>6. ASSUME NEW img, NEW rot, NEW lut, NEW full, NEW no_update \in BOOLEAN,
             Display(img, rot, lut, full, no_update)
      PROVE  ConfOK'
  <2>1. CASE no_update
    BY <1>6, <2>1, <1>a DEF Display, glass, ConfOK
  <2>2. CASE ~no_update
    <3>1. conf' = DisplayConf(lut, full) /\ UNCHANGED <<busy, trigger>>
      BY <1>6, <2>2 DEF Display, glass
    <3>2. LutFlags(lut, full) \subseteq {"FIRST", "PARTIAL"}
      BY DEF LutFlags
    <3> QED
      BY <3>1, <3>2, <1>b DEF DisplayConf, ConfOK
  <2> QED
    BY <2>1, <2>2
<1>7. ASSUME NEW img, NEW rot, NEW layers, Greyscale(img, rot, layers)
      PROVE  ConfOK'
  <2>1. conf' = DisplayConf(0, TRUE) /\ UNCHANGED <<busy, trigger>>
    BY <1>7 DEF Greyscale, glass
  <2>2. LutFlags(0, TRUE) \subseteq {"FIRST", "PARTIAL"}
    BY DEF LutFlags
  <2> QED
    BY <2>1, <2>2, <1>b DEF DisplayConf, ConfOK
<1> QED
  BY <1>1, <1>2, <1>3, <1>4, <1>5, <1>6, <1>7, EinkSteps

(* No drive makes a pixel whiter than white. *)
LEMMA ShadeStep ==
  ASSUME EinkInv, [Next]_vars
  PROVE  ShadeOK'
<1> USE DEF EinkInv, SentInv
<1>1. asked' \in Picture
  <2>1. CASE UNCHANGED asked
    BY <2>1 DEF ShadeOK
  <2>2. CASE Reboot
    BY <2>2, Pictures DEF Reboot
  <2>3. ASSUME NEW img, NEW rot, NEW lut, NEW full, NEW no_update \in BOOLEAN,
               Display(img, rot, lut, full, no_update)
        PROVE  asked' \in Picture
    BY <2>3, Pictures DEF Display, drawn, ShadeOK
  <2>4. ASSUME NEW img \in Images, NEW rot \in BOOLEAN, NEW layers \in Layers,
               Greyscale(img, rot, layers)
        PROVE  asked' \in Picture
    <3>1. PICK n \in 0..MaxLayers(dev) :
            n = IF layers > MaxLayers(dev) THEN MaxLayers(dev) ELSE layers
      BY FlagAssumption DEF MaxLayers
    <3>2. asked' = [y \in Line |-> Worth(dev, Upper(Lev(img, rot, y), n))]
      BY <2>4, <3>1, GreyWantedIs DEF Greyscale
    <3>3. \A y \in Line : Worth(dev, Upper(Lev(img, rot, y), n)) \in 0..White
      BY LevelOf, WorthRange DEF GreyOK
    <3>4. asked' \in [Line -> 0..White]
      BY <3>2, <3>3
    <3> QED
      BY <3>4, Pictures
  <2> QED
    BY <2>1, <2>2, <2>3, <2>4, EinkSteps
       DEF TestPin, TakeTrigger, TakeTimeout, SendLut, SendNewImage, SendOldImage, SendRegs,
           SendStart, NextLayer, KeepLayer, Strip, GreyscaleDone, RefreshDone, vars, drawn
<1>2. shown' \in Picture
  <2>1. CASE UNCHANGED shown
    BY <2>1 DEF ShadeOK
  <2>2. CASE Reboot
    BY <2>2, Pictures DEF Reboot, Nothing, ShadeOK
  <2>3. CASE RefreshDone
    <3>1. shown' = Pending
      BY <2>3 DEF RefreshDone, Pending, Refreshed
    <3> QED
      BY <3>1 DEF ShadeOK
  <2> QED
    BY <2>1, <2>2, <2>3, EinkSteps
       DEF TestPin, TakeTrigger, TakeTimeout, SendLut, SendNewImage, SendOldImage, SendRegs,
           SendStart, NextLayer, KeepLayer, Strip, GreyscaleDone, Display, Greyscale, vars, glass
<1>3. Pending' \in Picture
  <2>1. CASE ~SendStart /\ ~Reboot
    BY <2>1, PendingKept DEF ShadeOK
  <2>2. CASE Reboot
    BY <2>2, <1>2 DEF Reboot, Pending
  <2>3. CASE SendStart
    <3>1. Pending' = Refreshed(panel, shown)
      BY <2>3 DEF SendStart, Pending, Refreshed
    <3>2. CASE Plain
      <4>1. Shows(Refreshed(panel, shown), Saturated(mem.tmpbuf))
        BY <2>3, <3>2, StartDisplays
      <4>2. Refreshed(panel, shown) = [y \in Line |-> Refreshed(panel, shown)[y]]
        BY DEF Refreshed
      <4> QED
        BY <3>1, <4>1, <4>2, Showing
    <3>3. CASE ~Plain
      <4>1. Striping /\ pc = "start"
        BY <2>3, <3>3 DEF SendStart, Plain, Striping, GreyOK, GreyType
      <4>2. grey.layer \in 0..MaxLayers(dev) /\ grey.layer + 1 \in 0..MaxLayers(dev)
        BY <4>1 DEF GreyOK, GreyType, MaxLayers, Striping, Commands
      <4>3. ASSUME NEW y \in Line
            PROVE  Refreshed(panel, shown)[y] \in 0..White
        <5>1. PICK x \in 0..255 : x = Lev(grey.img, grey.rot, y)
          BY LevelOf DEF GreyOK, GreyType
        <5>2. /\ Worth(dev, Upper(x, grey.layer)) \in 0..White
              /\ Worth(dev, Upper(x, grey.layer + 1)) \in 0..White
          BY <4>2, WorthRange DEF GreyOK
        <5>3. \/ Refreshed(panel, shown)[y] = Worth(dev, Upper(x, grey.layer + 1))
              \/ Refreshed(panel, shown)[y] = Worth(dev, Upper(x, grey.layer))
          BY <2>3, <4>1, <5>1, StripDrives
        <5> QED
          BY <5>2, <5>3
      <4>4. Refreshed(panel, shown) \in [Line -> 0..White]
        BY <4>3 DEF Refreshed
      <4> QED
        BY <3>1, <4>4, Pictures
    <3> QED
      BY <3>2, <3>3
  <2> QED
    BY <2>1, <2>2, <2>3
<1> QED
  BY <1>1, <1>2, <1>3 DEF ShadeOK

(* The driver after a reset: nothing drawn, nothing known. *)
LEMMA EinkInit == Init => EinkInv
<1> SUFFICES ASSUME Init
             PROVE  EinkInv
  OBVIOUS
<1>1. PICK g \in {0, 1} :
        /\ dev \in Devices /\ mem = FreshMem(g) /\ panel = FreshPanel(g)
        /\ pc = "idle" /\ wait = "test" /\ grey = NoGrey /\ conf = NoConf
        /\ busy = FALSE /\ trigger = FALSE /\ asked = Nothing /\ faint = FALSE /\ shown = Nothing
  BY DEF Init, Nothing
<1>2. ~mem.have_oldbuf /\ grey.layers = 0 /\ grey.layer = 0 /\ grey.j = 0
  BY <1>1 DEF FreshMem, NoGrey
<1>3. WaitOK
  BY <1>1 DEF WaitOK
<1>4. BitsOK
  BY <1>1 DEF BitsOK, FreshMem, FreshPanel, Bits
<1>5. GreyOK
  <2>1. NoGrey \in GreyType /\ MaxLayers(dev) \in {5, 7}
    BY DEF NoGrey, GreyType, MaxLayers
  <2> QED
    BY <1>1, <1>2, <2>1 DEF GreyOK, Drawing, Commands
<1>6. FaintOK /\ SendOK /\ StripOK /\ KeptOK /\ OldOK /\ PicOK
  BY <1>1, <1>2 DEF FaintOK, SendOK, StripOK, KeptOK, OldOK, Relied, PicOK, Commands, Drawing, Striping
<1>7. AskedOK
  BY <1>1, <1>2 DEF AskedOK, Drawing, Commands
<1>8. ConfOK
  <2>1. 0 \in Line /\ 0 \in 0..DISP_SIZE_Y
    BY LineFacts DEF Line
  <2> QED
    BY <1>1, <2>1 DEF ConfOK, NoConf
<1>9. ShadeOK
  BY <1>1, Pictures DEF ShadeOK, Pending
<1> QED
  BY <1>3, <1>4, <1>5, <1>6, <1>7, <1>8, <1>9 DEF EinkInv, SentInv

(* Every step of the driver, the panel and the application keeps the invariant. *)
LEMMA EinkStep ==
  ASSUME EinkInv, [Next]_vars
  PROVE  EinkInv'
  BY SentStep, OldStep, PicStep, AskedStep, ConfStep, ShadeStep DEF EinkInv

-----------------------------------------------------------------------------
(***************************************************************************)
(* The inductive invariant of the driver and the panel.                     *)
(***************************************************************************)
THEOREM EinkInvariance == Spec => []EinkInv
  BY EinkInit, EinkStep, PTL DEF Spec

(***************************************************************************)
(* Type correctness: image memories of bits, the lines of every update on   *)
(* the panel, and no pixel driven beyond white.                             *)
(***************************************************************************)
THEOREM EinkTypes == Spec => []TypeOK
<1>1. EinkInv => TypeOK
  <2> SUFFICES ASSUME EinkInv
               PROVE  TypeOK
    OBVIOUS
  <2>1. dev \in Devices /\ pc \in Commands \cup {"idle", "strip"} /\ grey \in GreyType
    BY DEF EinkInv, SentInv, GreyOK
  <2>2. mem \in [tmpbuf : Bits, oldbuf : Bits, have_oldbuf : BOOLEAN]
        /\ panel.ram24 \in Bits /\ panel.ram26 \in Bits /\ wait \in {"test", "blocked", "clear"}
    BY DEF EinkInv, SentInv, BitsOK, WaitOK
  <2>3. ConfOK /\ shown \in Picture /\ asked \in Picture /\ faint \in BOOLEAN
    BY DEF EinkInv, SentInv, ShadeOK, FaintOK
  <2> QED
    BY <2>1, <2>2, <2>3, Zenon DEF TypeOK, GreyType, ConfOK
<1> QED
  BY <1>1, EinkInvariance, PTL

(***************************************************************************)
(* badge_eink_dev_busy_wait() lets no command out during a refresh,         *)
(* whatever edge its semaphore stands for, for every image and every call.  *)
(***************************************************************************)
THEOREM PanelIsReady == Spec => []CommandsFindPanelReady
<1>1. EinkInv => CommandsFindPanelReady
  BY DEF EinkInv, SentInv, WaitOK, CommandsFindPanelReady
<1> QED
  BY <1>1, EinkInvariance, PTL

(***************************************************************************)
(* badge_eink_have_oldbuf is set only while the image a partial update      *)
(* compares with is the one on the panel, through any sequence of drawing   *)
(* calls, greyscale pictures and resets in the middle of a refresh: exactly *)
(* so after full and normal updates, and pixel for pixel driven that way    *)
(* since a faster or fastest one.                                           *)
(***************************************************************************)
THEOREM OldImageIsShown == Spec => []OldImageKnown
<1>1. EinkInv => OldImageKnown
  BY DEF EinkInv, SentInv, GreyOK, OldOK, Relied, Commands, OldImage, DEPG, OldImageKnown, Settled
<1> QED
  BY <1>1, EinkInvariance, PTL

(***************************************************************************)
(* What badge_eink_display() or badge_eink_display_greyscale() was called   *)
(* for is what the panel shows, in every history of calls: partial updates  *)
(* leave the new image, and the layers and strips of a greyscale picture    *)
(* add up to the value of every pixel.  Since a faster or fastest update a  *)
(* 1-bit picture is only shown as far as these tables get.                  *)
(***************************************************************************)
THEOREM PicturesAreShown == Spec => []ShownIsAsked
<1>1. EinkInv => ShownIsAsked
  BY DEF EinkInv, AskedOK, Pending, ShownIsAsked, Settled
<1> QED
  BY <1>1, EinkInvariance, PTL
=============================================================================
