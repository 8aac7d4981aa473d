------------------------------- MODULE VideoDrivers -------------------------------
(***************************************************************************)
(* The drivers of the two video devices of lab 2                           *)
(* (altera_up_avalon_video_pixel_buffer_dma.c and                          *)
(* altera_up_avalon_video_character_buffer_with_dma.c): an application     *)
(* that draws pixels into the buffer shown or into the back buffer, swaps  *)
(* the two, and writes text.                                               *)
(*                                                                         *)
(* The pixel device shows one of two buffers and swaps them at the end of  *)
(* a refresh after it was asked to; the driver keeps copies of the two     *)
(* addresses.  A call is known by the bytes of memory it writes.  The      *)
(* application waits for a swap to be done before it draws or swaps again, *)
(* as the driver's comments tell it.                                       *)
(***************************************************************************)
EXTENDS VgaDrawing, FiniteSets

CONSTANTS
  XRes, YRes,         \* of the picture                          (640 x 480)
  WiderX,             \* pixels from row to row in X-Y addressing     (1024)
  ColorModes,         \* bytes of a pixel: 1, 2 or 4
  Buffers,            \* addresses buffers may have
  CharXRes, CharYRes, CharRow,   \* text: resolution, bytes from row to row
  Xs, Ys,             \* coordinates the application draws at
  MaxText             \* longest text it writes

Unsigned == 2^8       \* bound: an unsigned int holds 0 .. Unsigned - 1 (2^32)
NoCall   == [op |-> "none"]

ASSUME VideoDriversAssumption ==
  /\ XRes \in Nat \ {0} /\ YRes \in Nat \ {0} /\ XRes <= WiderX
  /\ ColorModes \subseteq {1, 2, 4} /\ Buffers \subseteq Nat
  /\ CharXRes <= CharRow

VARIABLES
  color_mode, xy_mode,     \* as the hardware was built
  shown, back, swapping,   \* Buffer and BackBuffer registers, status bit
  buffer_start_address, back_buffer_start_address,   \* the driver's copies
  settled,                 \* the application has seen the swap done
  clearing,                \* the character device clears its memory
  call, wrote              \* drawing call; bytes it wrote

mode   == << color_mode, xy_mode >>
device == << shown, back, swapping >>
copies == << buffer_start_address, back_buffer_start_address >>
drawn  == << call, wrote >>
videoVars == << mode, device, copies, settled, clearing, drawn >>

----------------------------------------------------------------------------
(* Bytes of memory.                                                        *)

\* Pixels from one row of a buffer to the next.
LineSize == IF xy_mode THEN WiderX ELSE XRes

PixelBytes(buffer, x, y) ==
  LET first == buffer + (y * LineSize + x) * color_mode
  IN  first .. first + color_mode - 1

Bytes(buffer, points) == UNION {PixelBytes(buffer, p[1], p[2]) : p \in points}

Target(backbuffer) ==
  IF backbuffer THEN back_buffer_start_address ELSE buffer_start_address

----------------------------------------------------------------------------
(* The pixels each call draws.  Coordinates are turned into unsigned ones, *)
(* put in order and clipped at the right and at the bottom; a negative one *)
(* is a large one.                                                         *)

U(n) == n % Unsigned
Lower(a, b)  == IF U(a) > U(b) THEN U(b) ELSE U(a)
Higher(a, b) == IF U(a) > U(b) THEN U(a) ELSE U(b)

Clip(high, limit) == IF high >= limit THEN limit - 1 ELSE high

\* alt_up_pixel_buffer_dma_draw
Dot(x, y) == IF U(x) >= XRes \/ U(y) >= YRes THEN {} ELSE { << x, y >> }

\* alt_up_pixel_buffer_dma_draw_box
DrawBox(x0, y0, x1, y1) ==
  IF Lower(x0, x1) >= XRes \/ Lower(y0, y1) >= YRes THEN {}
  ELSE (Lower(x0, x1) .. Clip(Higher(x0, x1), XRes))
         \X (Lower(y0, y1) .. Clip(Higher(y0, y1), YRes))

\* alt_up_pixel_buffer_dma_draw_hline
HLine(x0, x1, y) ==
  IF Lower(x0, x1) >= XRes \/ U(y) >= YRes THEN {}
  ELSE (Lower(x0, x1) .. Clip(Higher(x0, x1), XRes)) \X {y}

\* alt_up_pixel_buffer_dma_draw_vline
VLine(x, y0, y1) ==
  IF U(x) >= XRes \/ Lower(y0, y1) >= YRes THEN {}
  ELSE {x} \X (Lower(y0, y1) .. Clip(Higher(y0, y1), YRes))

\* alt_up_pixel_buffer_dma_draw_rectangle
Rectangle(x0, y0, x1, y1) ==
  HLine(x0, x1, y0) \union HLine(x0, x1, y1)
    \union VLine(x0, y0, y1) \union VLine(x1, y0, y1)

\* alt_up_pixel_buffer_dma_draw_line: along the longer axis from its lower end,
\* one pixel a step; not clipped.
DrawLine(x0, y0, x1, y1) ==
  LET steep == Abs(y1 - y0) > Abs(x1 - x0)
      swap(p) == IF steep THEN << p[2], p[1] >> ELSE p
      ends  == << swap(<< x0, y0 >>), swap(<< x1, y1 >>) >>
      from  == IF ends[1][1] > ends[2][1] THEN ends[2] ELSE ends[1]
      to    == IF ends[1][1] > ends[2][1] THEN ends[1] ELSE ends[2]
      deltax == to[1] - from[1]
      deltay == Abs(to[2] - from[2])
      step   == IF from[2] < to[2] THEN 1 ELSE -1
      path[k \in 0 .. deltax] ==
        IF k = 0 THEN [y |-> from[2], error |-> -(deltax \div 2)]
        ELSE LET p     == path[k - 1]
                 error == p.error + deltay
             IN IF error > 0 THEN [y |-> p.y + step, error |-> error - deltax]
                ELSE [y |-> p.y, error |-> error]
  IN  {swap(<< from[1] + k, path[k].y >>) : k \in 0 .. deltax}

\* alt_up_pixel_buffer_dma_clear_screen writes words of four bytes, over twice
\* the bytes of a row of one-byte pixels for two-byte ones, and over four times
\* for all others.
ClearBytes(buffer) ==
  LET width == XRes * (IF color_mode = 2 THEN 2 ELSE 4)
      rows  == IF xy_mode THEN {y * WiderX * color_mode : y \in 0 .. YRes - 1} ELSE {0}
      size  == IF xy_mode THEN width ELSE width * YRes
  IN  {buffer + r + k + i : r \in rows, k \in {j \in 0 .. size - 1 : j % 4 = 0}, i \in 0 .. 3}

----------------------------------------------------------------------------
(* What the application calls: the driver, and the routines of             *)
(* count_binary.c, which write words at a fixed address.                   *)

Calls ==
  LET pts == Xs \X Ys IN
    [op : {"dot"}, at : pts, backbuffer : {TRUE}]
    \union [op : {"box", "rectangle", "line"}, from : pts, to : pts, backbuffer : BOOLEAN]
    \union [op : {"hline"}, from : pts, toX : Xs, backbuffer : BOOLEAN]
    \union [op : {"vline"}, from : pts, toY : Ys, backbuffer : BOOLEAN]
    \union [op : {"clear"}, backbuffer : BOOLEAN]

VgaCalls ==
  LET pts == (Xs \X Ys) \intersect (Nat \X Nat) IN
    [op : {"VGA_box", "VGA_line"}, from : pts, to : pts]
    \union [op : {"VGA_circle"}, at : pts, r : Ys \intersect Nat]

OnScreen(p) == p[1] \in 0 .. XRes - 1 /\ p[2] \in 0 .. YRes - 1

\* A line has to be on the screen.
MayCall(c) == c.op = "line" => OnScreen(c.from) /\ OnScreen(c.to)

Points(c) ==
  CASE c.op = "dot"       -> Dot(c.at[1], c.at[2])
    [] c.op = "box"       -> DrawBox(c.from[1], c.from[2], c.to[1], c.to[2])
    [] c.op = "rectangle" -> Rectangle(c.from[1], c.from[2], c.to[1], c.to[2])
    [] c.op = "line"      -> DrawLine(c.from[1], c.from[2], c.to[1], c.to[2])
    [] c.op = "hline"     -> HLine(c.from[1], c.toX, c.from[2])
    [] c.op = "vline"     -> VLine(c.from[1], c.from[2], c.toY)

DrawCall(c) ==
  /\ settled /\ MayCall(c)
  /\ call' = c
  /\ wrote' = IF c.op = "clear" THEN ClearBytes(Target(c.backbuffer))
              ELSE Bytes(Target(c.backbuffer), Points(c))
  /\ UNCHANGED << mode, device, copies, settled, clearing >>

VgaPoints(c) ==
  CASE c.op = "VGA_box"    -> VGA_box(c.from[1], c.from[2], c.to[1], c.to[2])
    [] c.op = "VGA_line"   -> VGA_line(c.from[1], c.from[2], c.to[1], c.to[2])
    [] c.op = "VGA_circle" -> VGA_circle(c.at[1], c.at[2], c.r)

\* A circle has to be inside the memory.
VgaCall(c) ==
  /\ c.op = "VGA_circle" => c.r <= c.at[1] /\ c.r <= c.at[2]
  /\ call' = c /\ wrote' = Offsets(VgaPoints(c))
  /\ UNCHANGED << mode, device, copies, settled, clearing >>

----------------------------------------------------------------------------
(* Swapping the buffers.                                                   *)

\* Faulty form: the driver forgets that the buffers change places.
SwapBuffersForget ==
  /\ settled
  /\ swapping' = TRUE /\ settled' = FALSE
  /\ UNCHANGED << mode, shown, back, copies, clearing, drawn >>

SwapBuffers ==
  /\ settled
  /\ swapping' = TRUE /\ settled' = FALSE
  /\ back_buffer_start_address' = buffer_start_address
  /\ buffer_start_address' = back_buffer_start_address
  /\ UNCHANGED << mode, shown, back, clearing, drawn >>

\* The end of a refresh.
Refresh ==
  /\ swapping
  /\ shown' = back /\ back' = shown /\ swapping' = FALSE
  /\ UNCHANGED << mode, copies, settled, clearing, drawn >>

\* alt_up_pixel_buffer_dma_check_swap_buffers_status has returned 0.
CheckSwap ==
  /\ ~settled /\ ~swapping
  /\ settled' = TRUE
  /\ UNCHANGED << mode, device, copies, clearing, drawn >>

ChangeBackBuffer(address) ==
  /\ settled
  /\ back' = address /\ back_buffer_start_address' = back'
  /\ UNCHANGED << mode, shown, swapping, buffer_start_address, settled, clearing, drawn >>

----------------------------------------------------------------------------
(* Text.                                                                   *)

CharByte(x, y) == y * CharRow + x

CharDraw(x, y) ==
  /\ call' = [op |-> "char", at |-> << x, y >>]
  /\ wrote' = IF U(x) >= CharXRes \/ U(y) >= CharYRes THEN {} ELSE {CharByte(x, y)}
  /\ UNCHANGED << mode, device, copies, settled, clearing >>

\* A text ends at the right edge.
CharString(x, y, length) ==
  /\ call' = [op |-> "text", at |-> << x, y >>, length |-> length]
  /\ wrote' = IF U(x) >= CharXRes \/ U(y) >= CharYRes THEN {}
              ELSE {CharByte(x + k, y) : k \in 0 .. Min({length, CharXRes - x}) - 1}
  /\ UNCHANGED << mode, device, copies, settled, clearing >>

\* The call polls until the device has cleared its memory.
CharClear ==
  /\ clearing' = TRUE
  /\ UNCHANGED << mode, device, copies, settled, drawn >>

Return ==
  /\ call # NoCall
  /\ call' = NoCall /\ wrote' = {}
  /\ UNCHANGED << mode, device, copies, settled, clearing >>

CharCleared ==
  /\ clearing /\ clearing' = FALSE
  /\ UNCHANGED << mode, device, copies, settled, drawn >>

----------------------------------------------------------------------------
\* The driver reads both addresses and the modes off the device when it starts.
VideoInit ==
  /\ color_mode \in ColorModes /\ xy_mode \in BOOLEAN
  /\ shown \in Buffers /\ back \in Buffers /\ swapping = FALSE
  /\ buffer_start_address = shown /\ back_buffer_start_address = back
  /\ settled = TRUE /\ clearing = FALSE
  /\ call = NoCall /\ wrote = {}

\* One call at a time; clearing the text is one, too.
Idle == call = NoCall /\ ~clearing

Call ==
  \/ \E c \in Calls : DrawCall(c)
  \/ \E c \in VgaCalls : VgaCall(c)
  \/ SwapBuffers \/ \E b \in Buffers : ChangeBackBuffer(b)
  \/ \E x \in Xs, y \in Ys : CharDraw(x, y) \/ \E n \in 0 .. MaxText : CharString(x, y, n)
  \/ CharClear

VideoNext == (Idle /\ Call) \/ Return \/ CharCleared \/ Refresh \/ CheckSwap

----------------------------------------------------------------------------
(* What each call should draw.                                             *)

Frame == (0 .. XRes - 1) \X (0 .. YRes - 1)
Between(a, b) == Min({a, b}) .. Max({a, b})

InBox(c, p) == p[1] \in Between(c.from[1], c.to[1]) /\ p[2] \in Between(c.from[2], c.to[2])

Asked(c) ==
  {p \in Frame :
     CASE c.op = "dot"       -> p = c.at
       [] c.op = "box"       -> InBox(c, p)
       [] c.op = "rectangle" -> InBox(c, p) /\ (\/ p[1] \in {c.from[1], c.to[1]}
                                               \/ p[2] \in {c.from[2], c.to[2]})
       [] c.op = "hline"     -> p[2] = c.from[2] /\ p[1] \in Between(c.from[1], c.toX)
       [] c.op = "vline"     -> p[1] = c.from[1] /\ p[2] \in Between(c.from[2], c.toY)
       [] c.op = "clear"     -> TRUE}

Negative(c) ==
  \/ c.op \in {"box", "rectangle"} /\ (c.from \notin Nat \X Nat \/ c.to \notin Nat \X Nat)
  \/ c.op = "hline" /\ (c.from \notin Nat \X Nat \/ c.toX \notin Nat)
  \/ c.op = "vline" /\ (c.from \notin Nat \X Nat \/ c.toY \notin Nat)

\* No pixel of a line is further than half a pixel from it.
Near(c, p) ==
  LET dx == c.to[1] - c.from[1]
      dy == c.to[2] - c.from[2]
  IN  2 * Abs((p[2] - c.from[2]) * dx - (p[1] - c.from[1]) * dy) <= Max({Abs(dx), Abs(dy)})

\* The pixels are the ends, and one for every step along the longer axis.
IsLine(c, pixels) ==
  /\ {c.from, c.to} \subseteq pixels /\ \A p \in pixels : Near(c, p)
  /\ Cardinality(pixels) =
       1 + Max({Abs(c.to[1] - c.from[1]), Abs(c.to[2] - c.from[2])})

\* The pixels of a word of the frame memory.
WordPixels(o) == {2 * (o % RowWords), 2 * (o % RowWords) + 1} \X {o \div RowWords}

OnCircle(c, p) ==
  Abs((p[1] - c.at[1]) ^ 2 + (p[2] - c.at[2]) ^ 2 - c.r ^ 2) <= c.r

DriverDrew(c, written, buffer) ==
  CASE c.op = "clear" -> color_mode # 1 => written = Bytes(buffer, Frame)
    [] c.op = "line"  -> LET pixels == {p \in Frame : PixelBytes(buffer, p[1], p[2]) \subseteq written}
                         IN  IsLine(c, pixels) /\ written = Bytes(buffer, pixels)
    [] OTHER -> IF Negative(c) THEN written \subseteq Bytes(buffer, Frame)
                               ELSE written = Bytes(buffer, Asked(c))

ProgramDrew(c, words) ==
  CASE c.op = "VGA_box"    -> words = Offsets({p \in Xs \X Ys :
                                p[1] \in c.from[1] .. c.to[1] /\ p[2] \in c.from[2] .. c.to[2]})
    [] c.op = "VGA_line"   -> /\ Offsets({c.from, c.to}) \subseteq words
                              /\ \A o \in words : \E p \in WordPixels(o) : Near(c, p)
    [] c.op = "VGA_circle" -> \A o \in words : \E p \in WordPixels(o) : OnCircle(c, p)

\* A text is in its row of characters, from where it starts to the right edge
\* at most.
TextWritten(c, written) ==
  LET length == IF c.op = "char" THEN 1 ELSE c.length
      here   == c.at[1] >= 0 /\ c.at[2] \in 0 .. CharYRes - 1
  IN  written = {CharByte(k, c.at[2]) :
                   k \in {j \in 0 .. CharXRes - 1 : here /\ j \in c.at[1] .. c.at[1] + length - 1}}

AsAsked(c, written) ==
  IF "backbuffer" \in DOMAIN c
    THEN DriverDrew(c, written, IF c.backbuffer THEN back ELSE shown)
    ELSE IF c.op \in {"char", "text"} THEN TextWritten(c, written)
                                    ELSE ProgramDrew(c, written)

\* Every call draws what it was asked for and nothing else, in the buffer that
\* is meant by the time it draws: the one shown or the hidden one, after any
\* number of swaps, in every colour depth and addressing mode, up to the last
\* pixel of the picture.  Known exceptions: between asking for a swap and seeing
\* it done (settled) the driver's addresses and the device's differ, and a call
\* may draw into the other buffer; clearing in one-byte colours writes too much;
\* and of calls with negative coordinates it says only that they stay in the
\* picture.
DrawnAsAsked == call # NoCall => AsAsked(call, wrote)
=============================================================================
