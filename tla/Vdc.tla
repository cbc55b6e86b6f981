-------------------------------- MODULE Vdc --------------------------------
(***************************************************************************)
(* The video chip (emu/src/vdc/mod.rs): its registers and video memory,    *)
(* the geometry it computes from them, and the raster that paints the      *)
(* framebuffer line by line.  An operator takes the chip before, a record, *)
(* and returns the chip after.                                             *)
(*                                                                         *)
(* A colour is one of the 16 numbers of color_lookup().  A pixel that was  *)
(* never painted, and a byte of memory that was never written, are not in  *)
(* the domain of `pixels' and `vram' (both are 0 in the code).  The blink  *)
(* timer is kept modulo 16, all that is looked at of it.                   *)
(***************************************************************************)
EXTENDS Integers, Functions, TLC

CONSTANT
  OverflowChecks        \* whether the build panics when arithmetic overflows

ASSUME OverflowAssumption == OverflowChecks \in BOOLEAN

VRAM_SIZE == 16384

-----------------------------------------------------------------------------
\* The registers of one byte by number, as they are written; those of two
\* bytes by the number of the high one, which the low one follows.
ByteRegister ==
  [n \in {0, 1, 2, 3, 4, 5, 6, 7, 8, 9, 10, 11, 22, 23, 24, 25, 26, 27, 29, 30, 34, 35} |->
     CASE n = 0 -> "horiz_total" [] n = 1 -> "horiz_displayed"
       [] n = 2 -> "horiz_sync" [] n = 3 -> "sync_widths"
       [] n = 4 -> "vert_total" [] n = 5 -> "vert_adjust"
       [] n = 6 -> "vert_displayed" [] n = 7 -> "vert_sync"
       [] n = 8 -> "interlace_mode" [] n = 9 -> "char_total_vert"
       [] n = 10 -> "cursor_mode_start_scan" [] n = 11 -> "cursor_end_scan_line"
       [] n = 22 -> "char_total_disp_horiz" [] n = 23 -> "char_disp_vert"
       [] n = 24 -> "vert_scroll_ctrl" [] n = 25 -> "horiz_scroll_ctrl"
       [] n = 26 -> "fg_bg_color" [] n = 27 -> "addr_inc"
       [] n = 29 -> "underline_ctrl" [] n = 30 -> "word_count"
       [] n = 34 -> "disp_enable_end" [] n = 35 -> "disp_enable_begin"]
WordRegister ==
  [n \in {12, 14, 18, 20, 32} |->
     CASE n = 12 -> "disp_start_addr" [] n = 14 -> "cursor_pos"
       [] n = 18 -> "update_addr" [] n = 20 -> "attr_addr"
       [] n = 32 -> "block_start_addr"]

\* The number of values of a register that has fewer than eight bits.
ValuesOf(name) ==
  CASE name \in {"vert_adjust", "char_total_vert", "cursor_end_scan_line",
                 "char_disp_vert", "underline_ctrl"} -> 32
    [] name = "interlace_mode" -> 4
    [] name = "cursor_mode_start_scan" -> 128
    [] OTHER -> 256

NoGeometry ==
  [signal_width |-> 0, signal_height |-> 0, top_border_height |-> 0,
   left_border_width |-> 0, visible_width |-> 0, visible_height |-> 0,
   hsync_start |-> 0, vsync_start |-> 0, hsync_width |-> 0,
   cell_width |-> 0, cell_height |-> 0, width |-> 0, height |-> 0]

\* Vdc::new()
NewVdc ==
  [reg |-> [name \in Range(ByteRegister) \cup Range(WordRegister)
              \cup {"char_base_addr"} |-> 0],
   register_select |-> 0, vram |-> <<>>, vblank |-> FALSE,
   parameters_dirty |-> TRUE, geometry |-> NoGeometry,
   raster_x |-> 0, raster_y |-> 0, blink_timer |-> 0,
   pixels |-> <<>>, framebuffer_ready |-> FALSE, panicked |-> FALSE]

At(v, address) ==
  LET a == address % VRAM_SIZE IN IF a \in DOMAIN v.vram THEN v.vram[a] ELSE 0

\* Register 31 is the byte at the update address, which goes on to the next.
Advanced(v) ==
  [v EXCEPT !.reg.update_addr = (@ + 1) % VRAM_SIZE,
            !.panicked = OverflowChecks /\ v.reg.update_addr = 65535]

WrittenThrough(v, data) ==
  Advanced([v EXCEPT !.vram = (v.reg.update_addr % VRAM_SIZE :> data) @@ @])

\* Vdc::write() at an odd port, and at any port.
RegisterWritten(v, data) ==
  LET n == v.register_select
  IN  CASE n \in DOMAIN ByteRegister ->
             [v EXCEPT !.reg[ByteRegister[n]] = data % ValuesOf(ByteRegister[n])]
        [] n \in DOMAIN WordRegister ->
             [v EXCEPT !.reg[WordRegister[n]] = 256 * data + (@ % 256)]
        [] n - 1 \in DOMAIN WordRegister ->
             [v EXCEPT !.reg[WordRegister[n - 1]] = @ - (@ % 256) + data]
        [] n = 28 -> [v EXCEPT !.reg.char_base_addr = 256 * (data - (data % 32))]
        [] n = 31 -> WrittenThrough(v, data)
        [] OTHER -> v

Written(v, port, data) ==
  IF port % 2 = 0
  THEN [v EXCEPT !.register_select = data % 64, !.parameters_dirty = TRUE]
  ELSE [RegisterWritten(v, data) EXCEPT !.parameters_dirty = TRUE]

\* Vdc::read(): the byte and the chip after.  Unused bits read as 1, four used
\* ones of register 29 too; 34 and 35 are read the other way round.
RegisterRead(v) ==
  LET n == v.register_select
      name == ByteRegister[n]
  IN  CASE n = 29 -> IF (v.reg.underline_ctrl \div 16) = 1 THEN 255 ELSE 239
        [] n = 34 -> v.reg.disp_enable_begin
        [] n = 35 -> v.reg.disp_enable_end
        [] n \in DOMAIN ByteRegister \ {29, 34, 35} ->
             v.reg[name] + (256 - ValuesOf(name))
        [] n \in DOMAIN WordRegister -> v.reg[WordRegister[n]] \div 256
        [] n - 1 \in DOMAIN WordRegister -> v.reg[WordRegister[n - 1]] % 256
        [] n = 28 -> v.reg.char_base_addr \div 256
        [] n = 31 -> At(v, v.reg.update_addr)
        [] OTHER -> 255

\* The status register: VBLANK is bit 5; STATUS, bit 7, is always set.
ReadByte(v, port) ==
  IF port % 2 = 1 THEN RegisterRead(v) ELSE 128 + (IF v.vblank THEN 32 ELSE 0)
ReadBy(v, port) ==
  IF port % 2 = 1 /\ v.register_select = 31 THEN Advanced(v) ELSE v

-----------------------------------------------------------------------------
\* recompute_parameters()
Geometry(r) ==
  LET cell_width == ((r.char_total_disp_horiz \div 16) + 1) % 16
      cell_height == (r.char_total_vert + 1) % 32
      signal_width == ((r.horiz_total + 1) % 256) * cell_width
      signal_height == ((r.vert_total + 1) % 256) * cell_height
      hsync_width == (((r.sync_widths % 16) - 1) % 16) * cell_width
      vsync_height == r.sync_widths \div 16
      h_disable == ((r.disp_enable_end - r.disp_enable_begin) % 256) * cell_width
      hsync_start == (signal_width - hsync_width - h_disable) % 1024
      vsync_start == (signal_height - vsync_height) % 1024
  IN  [signal_width |-> signal_width, signal_height |-> signal_height,
       top_border_height |->
         (signal_height - r.vert_sync * cell_height - vsync_height) % 256,
       left_border_width |->
         (signal_width - (r.horiz_sync - 2) * cell_width - hsync_width
            - (h_disable \div 2)) % 256,
       visible_width |-> r.horiz_displayed * cell_width,
       visible_height |-> r.vert_displayed * cell_height,
       hsync_start |-> hsync_start, vsync_start |-> vsync_start,
       hsync_width |-> hsync_width,
       cell_width |-> cell_width, cell_height |-> cell_height,
       width |-> hsync_start, height |-> vsync_start]

\* The subtraction of the columns and the product of the position of the
\* horizontal sync can overflow.
Overflows(r) ==
  OverflowChecks /\ \/ r.disp_enable_end < r.disp_enable_begin
                    \/ r.horiz_sync < 2 /\ r.char_total_disp_horiz \div 16 \in 1 .. 14

\* The pixels keep their places in the array when the size changes.
Recomputed(v) ==
  LET g == Geometry(v.reg)
      kept == {i \in DOMAIN v.pixels : i < g.width * g.height}
  IN  [v EXCEPT !.parameters_dirty = FALSE, !.geometry = g,
                !.framebuffer_ready = FALSE,
                !.pixels = Restrict(@, kept), !.panicked = Overflows(v.reg)]

-----------------------------------------------------------------------------
\* One line of the picture.  Bits of bytes, and the phase of what blinks.
IsSet(byte, k) == (byte \div 2 ^ k) % 2 = 1
Blink(v) == v.blink_timer < 7

\* RVS exchanges the colours of the whole line.
Foreground(v) ==
  IF IsSet(v.reg.vert_scroll_ctrl, 6) THEN v.reg.fg_bg_color % 16
                                      ELSE v.reg.fg_bg_color \div 16
Background(v) ==
  IF IsSet(v.reg.vert_scroll_ctrl, 6) THEN v.reg.fg_bg_color \div 16
                                      ELSE v.reg.fg_bg_color % 16

\* The row of cells and the line in it that the raster is at.
ScrolledY(v) ==
  v.raster_y - v.geometry.top_border_height + (v.reg.vert_scroll_ctrl % 32)
CellY(v) == ScrolledY(v) \div v.geometry.cell_height
CellLine(v) == ScrolledY(v) % v.geometry.cell_height

\* The character of cell k of the row; its attribute is found by its number.
Character(v, k) ==
  At(v, v.reg.disp_start_addr + CellY(v) * v.reg.horiz_displayed + k)
WithAttributes(v) == IsSet(v.reg.horiz_scroll_ctrl, 6)
AttributeOf(v, k) == At(v, v.reg.attr_addr + Character(v, k))

\* Reverse, blink and underline each exchange the colour of the attribute with
\* the background of the line, which remains so for the cells that follow.
Exchanged(v, k) ==
  LET attribute == AttributeOf(v, k)
      swaps == {s \in {4, 5, 6} :
                  /\ IsSet(attribute, s)
                  /\ s = 4 => Blink(v)
                  /\ s = 5 => CellLine(v) = v.reg.underline_ctrl % 16}
  IN  swaps # {} /\ swaps \notin {{4, 5}, {4, 6}, {5, 6}}

CellBackgrounds(v) ==
  LET background[k \in 0 .. v.reg.horiz_displayed] ==
        IF k = 0 THEN Background(v)
        ELSE IF WithAttributes(v) /\ Exchanged(v, k - 1)
             THEN AttributeOf(v, k - 1) % 16
             ELSE background[k - 1]
  IN  background

\* The colours of a cell, with which the cursor is drawn the other way round, where
\* the background is `before'.
CellColours(v, k, before) ==
  IF ~WithAttributes(v) THEN [ink |-> Foreground(v), paper |-> before]
  ELSE LET own == AttributeOf(v, k) % 16
       IN  IF Exchanged(v, k) THEN [ink |-> before, paper |-> own]
                              ELSE [ink |-> own, paper |-> before]

InCursor(v, k) ==
  /\ k + CellY(v) * v.reg.horiz_displayed = v.reg.cursor_pos
  /\ Blink(v)
  /\ CellLine(v) >= v.reg.cursor_mode_start_scan % 16
  /\ CellLine(v) <= (v.reg.cursor_end_scan_line - 1) % 32

\* The byte of the character set with the eight pixels of a cell.
Glyph(v, k) ==
  LET set == IF WithAttributes(v) /\ ~IsSet(AttributeOf(v, k), 7) THEN 256 ELSE 0
  IN  At(v, v.reg.char_base_addr + (set + Character(v, k)) * 16 + CellLine(v))

\* Whether pixel j of cell k is set.
Dot(v, k, j) ==
  j < v.reg.char_total_disp_horiz % 16 /\ j < 8 /\ IsSet(Glyph(v, k), 7 - j)

\* Fault: the cursor is not drawn.
InkPlain(v, k, j) == Dot(v, k, j)

\* Whether it has the colour of the ink.
Ink(v, k, j) == Dot(v, k, j) # InCursor(v, k)

\* The columns of the line that are painted.  The right border reaches past the
\* framebuffer into the next line; a scrolled cell may have no pixels here.
BorderColumns(v) ==
  LET g == v.geometry
  IN  0 .. g.left_border_width - 1
        \cup g.left_border_width + g.visible_width .. g.signal_width - g.hsync_width - 1
CellColumns(v) ==
  LET g == v.geometry
  IN  IF CellLine(v) > v.reg.char_disp_vert THEN {}
      ELSE g.left_border_width .. g.left_border_width + g.visible_width - 1

VisibleLine(v) ==
  LET g == v.geometry
      background == CellBackgrounds(v)
      Pixel(k, j) ==
        LET colours == CellColours(v, k, background[k])
        IN  IF Ink(v, k, j) THEN colours.ink ELSE colours.paper
  IN  [x \in BorderColumns(v) \cup CellColumns(v) |->
         IF x \in CellColumns(v)
         THEN Pixel((x - g.left_border_width) \div g.cell_width,
                    (x - g.left_border_width) % g.cell_width)
         ELSE Background(v)]
BorderLine(v) == [x \in 0 .. v.geometry.width - 1 |-> Background(v)]

\* A subtraction below zero makes the loop run out of the framebuffer, in every
\* build; so does a column past its end.
Paint(v, line) ==
  LET g == v.geometry
      first == v.raster_y * g.width
      painted == [i \in {first + x : x \in DOMAIN line} |-> line[i - first]]
  IN  [v EXCEPT !.pixels = painted @@ @,
                !.panicked = \E x \in DOMAIN line : first + x >= g.width * g.height]

InTopBorder(v) == v.raster_y < v.geometry.top_border_height
InVisible(v) ==
  /\ ~InTopBorder(v)
  /\ v.raster_y < v.geometry.top_border_height + v.geometry.visible_height
LineUnderflows(v) ==
  \/ v.geometry.signal_width < v.geometry.hsync_width
  \/ /\ v.reg.char_total_disp_horiz % 16 > v.geometry.cell_width
     /\ CellLine(v) <= v.reg.char_disp_vert /\ v.reg.horiz_displayed > 0

AtHblank(v) ==
  IF InVisible(v)
  THEN IF LineUnderflows(v) THEN [v EXCEPT !.panicked = TRUE]
                            ELSE Paint(v, VisibleLine(v))
  ELSE IF InTopBorder(v) \/ v.raster_y < v.geometry.vsync_start
       THEN Paint(v, BorderLine(v))
       ELSE [v EXCEPT !.vblank = TRUE]

\* Fault: the line ends one column late.
NextColumnLate(v) ==
  IF v.raster_x # v.geometry.signal_width THEN [v EXCEPT !.raster_x = @ + 1]
  ELSE LET y == v.raster_y + 1
           last == y = v.geometry.signal_height
       IN  [v EXCEPT !.raster_x = 0, !.raster_y = IF last THEN 0 ELSE y,
                     !.framebuffer_ready = (y = v.geometry.vsync_start),
                     !.blink_timer = IF last THEN (@ + 1) % 16 ELSE @]

\* Fault: whether the picture is done is asked after the raster has gone back.
NextColumnAsksLate(v) ==
  IF v.raster_x + 1 # v.geometry.signal_width THEN [v EXCEPT !.raster_x = @ + 1]
  ELSE LET y == (v.raster_y + 1) % v.geometry.signal_height
       IN  [v EXCEPT !.raster_x = 0, !.raster_y = y,
                     !.framebuffer_ready = (y = v.geometry.signal_height),
                     !.blink_timer = IF y = 0 THEN (@ + 1) % 16 ELSE @]

\* The line and the picture end where the raster meets their end exactly.
NextColumn(v) ==
  IF v.raster_x + 1 # v.geometry.signal_width THEN [v EXCEPT !.raster_x = @ + 1]
  ELSE LET y == v.raster_y + 1
           last == y = v.geometry.signal_height
       IN  [v EXCEPT !.raster_x = 0, !.raster_y = IF last THEN 0 ELSE y,
                     !.framebuffer_ready = (y = v.geometry.vsync_start),
                     !.blink_timer = IF last THEN (@ + 1) % 16 ELSE @]

\* Vdc::tick(), which goes no further where it panics.
Refreshed(v) ==
  LET cleared == [v EXCEPT !.vblank = FALSE]
  IN  IF v.parameters_dirty THEN Recomputed(cleared) ELSE cleared
Drawn(v) ==
  IF ~v.panicked /\ v.raster_x = v.geometry.hsync_start THEN AtHblank(v) ELSE v
Advancing(v) == IF v.panicked THEN v ELSE NextColumn(v)
Ticked(v) == IF v.panicked THEN v ELSE Advancing(Drawn(Refreshed(v)))
=============================================================================
