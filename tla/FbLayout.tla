------------------------------ MODULE FbLayout ------------------------------
(* The geometry flanterm_fb_init (flanterm_backends/fb.c) gives the terminal *)
(* and the pixels plot_char and full_refresh then write, and the memory it   *)
(* takes from the static pool.  Pixels are indices into the framebuffer, as  *)
(* pointer arithmetic on it; f.pitch is in pixels.                           *)
EXTENDS Integers

WIDTH_LIMIT == 1920
HEIGHT_LIMIT == 1200
POOL_SIZE == 873000

(* A terminal as large as the screen.                                         *)
LimitedNever(n, limit) == n

Limited(n, limit) == IF n > limit THEN limit ELSE n

(* The scale of the font when the caller leaves it to the terminal.           *)
AutoScale(width, height) ==
  IF width >= 3840 + 3840 \div 3 /\ height >= 2160 + 2160 \div 3 THEN 4
  ELSE IF width >= 1920 + 1920 \div 3 /\ height >= 1080 + 1080 \div 3 THEN 2 ELSE 1

(* The layout of a framebuffer f = [width, height, pitch, rotation, margin,   *)
(* scale, font_width, font_height] under a size limit [width, height], with   *)
(* the rest centred.                                                          *)
Layout(f, limit) ==
  LET turned == f.rotation \in {90, 270}
      width == IF turned THEN f.height ELSE f.width
      height == IF turned THEN f.width ELSE f.height
      w == Limited(width, limit.width)
      h == Limited(height, limit.height)
      gw == f.font_width * f.scale
      gh == f.font_height * f.scale
  IN [framebuffer |-> ((height \div 2) - (h \div 2)) * f.pitch + ((width \div 2) - (w \div 2)),
      width |-> w, height |-> h, pitch |-> f.pitch, rotation |-> f.rotation,
      glyph_width |-> gw, glyph_height |-> gh, scale |-> f.scale,
      cols |-> (w - f.margin * 2) \div gw,
      rows |-> (h - f.margin * 2) \div gh,
      offset_x |-> f.margin + ((w - f.margin * 2) % gw) \div 2,
      offset_y |-> f.margin + ((h - f.margin * 2) % gh) \div 2]

(* The first pixel of a glyph and the strides along its lines and columns.    *)
Dest(l, x, y) ==
  CASE l.rotation = 90 -> (l.height - 1 - y) + x * l.pitch
    [] l.rotation = 180 -> (l.width - 1 - x) + (l.height - 1 - y) * l.pitch
    [] l.rotation = 270 -> y + (l.width - 1 - x) * l.pitch
    [] OTHER -> x + y * l.pitch

(* Strides that forget that a picture turned by 270 degrees goes up.          *)
StridesMirrored(l) ==
  CASE l.rotation = 90 -> [outer |-> -1, inner |-> l.pitch]
    [] l.rotation = 180 -> [outer |-> -l.pitch, inner |-> -1]
    [] l.rotation = 270 -> [outer |-> 1, inner |-> l.pitch]
    [] OTHER -> [outer |-> l.pitch, inner |-> 1]

Strides(l) ==
  CASE l.rotation = 90 -> [outer |-> -1, inner |-> l.pitch]
    [] l.rotation = 180 -> [outer |-> -l.pitch, inner |-> -1]
    [] l.rotation = 270 -> [outer |-> 1, inner |-> -l.pitch]
    [] OTHER -> [outer |-> l.pitch, inner |-> 1]

(* The four plot_char functions: the pixel written for dot (gx, gy) of the    *)
(* glyph in cell (x, y), and the bit of the font it shows.                    *)
plot_char(l, x, y, gx, gy) ==
  [pixel |-> l.framebuffer
             + Dest(l, l.offset_x + x * l.glyph_width, l.offset_y + y * l.glyph_height)
             + gy * Strides(l).outer + gx * Strides(l).inner,
   dot |-> <<gx \div l.scale, gy \div l.scale>>]

(* full_refresh: the pixel of (x, y) of the picture.                          *)
full_refresh(l, x, y) ==
  LET p == CASE l.rotation = 90 -> <<l.height - 1 - y, x>>
             [] l.rotation = 180 -> <<l.width - 1 - x, l.height - 1 - y>>
             [] l.rotation = 270 -> <<y, l.width - 1 - x>>
             [] OTHER -> <<x, y>>
  IN l.framebuffer + p[2] * l.pitch + p[1]
-----------------------------------------------------------------------------
(* bump_alloc rounds to 16 bytes and moves the pointer; ptr is where the       *)
(* aligned pool begins.  NoMemory is the pointer after a refused request.      *)
NoMemory == POOL_SIZE + 1
Rounded(s) == IF s % 16 # 0 THEN ((s + 16) \div 16) * 16 ELSE s
bump_alloc(ptr, s) ==
  IF ptr = NoMemory \/ ptr + Rounded(s) > POOL_SIZE THEN NoMemory ELSE ptr + Rounded(s)

(* The context, the font's bits, the font's dots, the grid, the queue and the  *)
(* map, with the sizes of the x86-64 build: 816 bytes, a font of 8 by 16 with  *)
(* a column of spacing, and 12, 32 and 8 bytes per cell.                       *)
fb_alloc(ptr, cells) ==
  LET font == bump_alloc(bump_alloc(bump_alloc(ptr, 816), (8 * 16 * 256) \div 8), 256 * 16 * 9)
  IN bump_alloc(bump_alloc(bump_alloc(font, cells * 12), cells * 32), cells * 8)

(* The terminal of kernel_main: no margin, no rotation, the built-in font.     *)
KernelLayout(width, height) ==
  Layout([width |-> width, height |-> height, pitch |-> width, rotation |-> 0, margin |-> 0,
          scale |-> AutoScale(width, height), font_width |-> 9, font_height |-> 16],
         [width |-> WIDTH_LIMIT, height |-> HEIGHT_LIMIT])

CellsOf(width, height) == KernelLayout(width, height).cols * KernelLayout(width, height).rows

(* flanterm_fb_init finds its memory in the pool, wherever the pool lies.      *)
PoolSuffices(width, height) ==
  \A misaligned \in 0 .. 15 :
    fb_alloc(IF misaligned = 0 THEN 0 ELSE 16 - misaligned, CellsOf(width, height)) # NoMemory
=============================================================================
