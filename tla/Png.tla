--------------------------------- MODULE Png ---------------------------------
(***************************************************************************)
(* The PNG decoder of the kernel (png.c): 8-bit colour, uncompressed.      *)
(*                                                                         *)
(* A file is its chunks, a zlib stream its bytes, with one record in the   *)
(* place of the five bytes of a block header.  What the decoder asks       *)
(* kmalloc for, in order, is part of its result: KernelHeap has the heap.  *)
(* Abstractions: pictures are small enough for 32-bit products, and the    *)
(* length of a chunk is below 2^31, as the standard demands: the sum with  *)
(* which png.c 183 asks whether a chunk fits in the file wraps around for  *)
(* one near 2^32, and the chunk passes.  Checksums (the CRC of a chunk,    *)
(* the Adler sum of the stream) are not in a file, because png.c looks at  *)
(* none.                                                                   *)
(***************************************************************************)
EXTENDS Integers, Sequences, SequencesExt, FiniteSetsExt

CONSTANT FirstCap      \* bytes of the first buffer (4096)

Rgb  == 2      \* colour types
Rgba == 6

NoHeader == [type |-> "IHDR", w |-> 0, h |-> 0, depth |-> 0, color |-> 0, interlace |-> 0]

-----------------------------------------------------------------------------
(* Buffers that grow: a larger one is taken and the bytes are copied; the  *)
(* smaller one is not given back.                                          *)

\* The capacity is doubled until there is room.
Doubled(cap, need) ==
  LET to[c \in cap .. 2 * need] == IF c >= need THEN c ELSE to[2 * c]
  IN IF cap >= need THEN cap ELSE to[cap]

Grow(buf, len) ==
  LET need == buf.used + len
      cap  == IF need <= buf.cap THEN buf.cap
              ELSE Doubled(IF buf.cap = 0 THEN FirstCap ELSE buf.cap, need)
  IN [used |-> need, cap |-> cap,
      asks |-> IF cap = buf.cap THEN buf.asks ELSE Append(buf.asks, cap)]

\* What is asked for when pieces of these lengths arrive.
AsksFor(lens) == FoldLeft(Grow, [used |-> 0, cap |-> 0, asks |-> <<>>], lens).asks

-----------------------------------------------------------------------------
(* zlib_inflate_uncompressed: stored blocks behind two bytes of header.    *)

Corrupt == [ok |-> FALSE, lens |-> <<>>, bytes |-> <<>>]

Inflated(z) ==
  LET from[p \in 1 .. Len(z) + 1] ==
        IF p > Len(z) THEN Corrupt
        ELSE IF ~z[p].stored \/ ~z[p].sound \/ p + z[p].len > Len(z) THEN Corrupt
        ELSE LET data == SubSeq(z, p + 1, p + z[p].len)
                 rest == IF z[p].final THEN [ok |-> TRUE, lens |-> <<>>, bytes |-> <<>>]
                                       ELSE from[p + z[p].len + 1]
             IN [ok    |-> rest.ok,
                 lens  |-> <<z[p].len>> \o rest.lens,
                 bytes |-> data \o rest.bytes]
  IN IF Len(z) < 2 THEN Corrupt ELSE from[3]

-----------------------------------------------------------------------------
(* unfilter_scanline *)

Distance(x, y) == IF x > y THEN x - y ELSE y - x

Paeth(a, b, c) ==
  LET p == a + b - c
  IN IF Distance(p, a) <= Distance(p, b) /\ Distance(p, a) <= Distance(p, c) THEN a
     ELSE IF Distance(p, b) <= Distance(p, c) THEN b ELSE c

\* a is the byte to the left, b the one above, c the one above that.
Predictor(filter, a, b, c) ==
  CASE filter = 1 -> a
    [] filter = 2 -> b
    [] filter = 3 -> (a + b) \div 2
    [] filter = 4 -> Paeth(a, b, c)
    [] OTHER -> 0

\* Seeded fault: the byte above the left one is taken from the row itself.
UnfilterCorner(src, bpp, prev, filter) ==
  LET dst[i \in DOMAIN src] ==
        LET left(s) == IF i > bpp THEN s[i - bpp] ELSE 0
        IN (src[i] + Predictor(filter, left(dst), prev[i], left(dst))) % 256
  IN dst

Unfilter(src, bpp, prev, filter) ==
  LET dst[i \in DOMAIN src] ==
        LET left(s) == IF i > bpp THEN s[i - bpp] ELSE 0
        IN (src[i] + Predictor(filter, left(dst), prev[i], left(prev))) % 256
  IN dst

-----------------------------------------------------------------------------
(* png_decode_rgba *)

\* The chunks up to IEND, or up to one that reaches beyond the end of the file.
Stops(file) == {i \in DOMAIN file.chunks : file.chunks[i].type \in {"IEND", "cut"}}
Chunks(file) ==
  IF Stops(file) = {} THEN file.chunks ELSE SubSeq(file.chunks, 1, Min(Stops(file)) - 1)
IsCut(file) == Stops(file) # {} /\ file.chunks[Min(Stops(file))].type = "cut"

OfType(file, t) == SelectSeq(Chunks(file), LAMBDA c : c.type = t)
HeaderOf(file) == IF OfType(file, "IHDR") = <<>> THEN NoHeader ELSE Last(OfType(file, "IHDR"))
IdatLens(file) == LET d == OfType(file, "IDAT") IN [i \in DOMAIN d |-> Len(d[i].bytes)]
Stream(file) == FoldLeft(LAMBDA z, c : z \o c.bytes, <<>>, OfType(file, "IDAT"))

Readable(hd) ==
  hd.w > 0 /\ hd.h > 0 /\ hd.depth = 8 /\ hd.color \in {Rgb, Rgba} /\ hd.interlace = 0

Bpp(hd) == IF hd.color = Rgba THEN 4 ELSE 3

\* The rows, each with the one above it at hand.
Rows(raw, hd) ==
  LET stride == hd.w * Bpp(hd)
      row[y \in 0 .. hd.h] ==
        IF y = 0 THEN [i \in 1 .. stride |-> 0]
        ELSE LET at == (y - 1) * (1 + stride) + 1
             IN Unfilter(SubSeq(raw, at + 1, at + stride), Bpp(hd), row[y - 1], raw[at])
  IN [y \in 1 .. hd.h |-> row[y]]

Pixel(row, x, bpp) ==
  <<row[(x - 1) * bpp + 1], row[(x - 1) * bpp + 2], row[(x - 1) * bpp + 3],
    IF bpp = 4 THEN row[x * bpp] ELSE 255>>

Picture(raw, hd) ==
  LET rows == Rows(raw, hd)
  IN [y \in 1 .. hd.h |-> [x \in 1 .. hd.w |-> Pixel(rows[y], x, Bpp(hd))]]

NoPicture == <<>>

\* Of a file: what is asked of kmalloc up to the picture, the buffers for two
\* rows, and the picture there is when all of them are granted.
Decode(file) ==
  LET hd     == HeaderOf(file)
      stride == hd.w * Bpp(hd)
      idat   == AsksFor(IdatLens(file))
      raw    == Inflated(Stream(file))
      enough == raw.ok /\ Len(raw.bytes) >= hd.h * (1 + stride)
  IN IF ~file.signed THEN [asks |-> <<>>, rows |-> <<>>, picture |-> NoPicture]
     ELSE IF IsCut(file) \/ ~Readable(hd) \/ Stream(file) = <<>>
     THEN [asks |-> idat, rows |-> <<>>, picture |-> NoPicture]
     ELSE IF ~enough
     THEN [asks |-> idat \o AsksFor(raw.lens), rows |-> <<>>, picture |-> NoPicture]
     ELSE [asks |-> idat \o AsksFor(raw.lens) \o <<hd.w * hd.h * 4>>,
           rows |-> <<stride, stride>>, picture |-> Picture(raw.bytes, hd)]
-----------------------------------------------------------------------------
(* What the PNG standard says a file holds; no part of the decoder.        *)

\* The predictor of the standard: of left, up and corner the nearest to
\* left + up - corner, in this order.
Nearest(l, u, c) ==
  LET p    == l + u - c
      d(x) == IF p > x THEN p - x ELSE x - p
  IN IF d(u) < d(l) THEN IF d(c) < d(u) THEN c ELSE u
                    ELSE IF d(c) < d(l) THEN c ELSE l

Guess(filter, l, u, c) == <<0, l, u, (l + u) \div 2, Nearest(l, u, c)>>[filter + 1]

Byte   == 0 .. 255
Colour == Byte \X Byte \X Byte \X Byte

\* Byte i of row y; around the picture there are zeros.
ByteOf(picture, bpp, y, i) ==
  IF y = 0 \/ i < 1 THEN 0 ELSE picture[y][((i - 1) \div bpp) + 1][((i - 1) % bpp) + 1]

\* These bytes are the picture: of each row a filter, and how far each byte is
\* from what the filter guesses.
Holds(raw, hd, picture) ==
  LET bpp    == Bpp(hd)
      stride == hd.w * bpp
      byte(y, i) == ByteOf(picture, bpp, y, i)
  IN /\ hd.w \in Nat /\ hd.h \in Nat
     /\ picture \in [1 .. hd.h -> [1 .. hd.w -> Colour]]
     /\ bpp = 3 => \A y \in 1 .. hd.h : \A x \in 1 .. hd.w : picture[y][x][4] = 255
     /\ \A y \in 1 .. hd.h :
          LET at == (y - 1) * (1 + stride) + 1
          IN /\ raw[at] \in 0 .. 4
             /\ \A i \in 1 .. stride :
                  raw[at + i] = (byte(y, i) + 256 - Guess(raw[at], byte(y, i - bpp),
                                             byte(y - 1, i), byte(y - 1, i - bpp))) % 256
=============================================================================
