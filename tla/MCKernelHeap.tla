---------------------------- MODULE MCKernelHeap ----------------------------
(***************************************************************************)
(* Instances of KernelHeap: files for new.png, made from pictures by a PNG *)
(* encoder that follows the standard, not png.c.                           *)
(***************************************************************************)
EXTENDS KernelHeap

\* The bytes of the pixels of a row.
RowBytes(pixels, bpp) == FoldLeft(LAMBDA s, p : s \o SubSeq(p, 1, bpp), <<>>, pixels)

Filtered(row, up, bpp, filter) ==
  LET l(i) == IF i > bpp THEN row[i - bpp] ELSE 0
      c(i) == IF i > bpp THEN up[i - bpp] ELSE 0
  IN [i \in DOMAIN row |-> (row[i] + 256 - Guess(filter, l(i), up[i], c(i))) % 256]

\* The rows of a picture, each behind the byte that names its filter.
RawOf(picture, bpp, filters) ==
  LET bytes(y) == RowBytes(picture[y], bpp)
      above(y) == IF y = 1 THEN [i \in DOMAIN bytes(1) |-> 0] ELSE bytes(y - 1)
  IN FlattenSeq([y \in DOMAIN picture |->
                   <<filters[y]>> \o Filtered(bytes(y), above(y), bpp, filters[y])])

BlockOf(bytes, final, sound) ==
  <<[final |-> final, stored |-> TRUE, sound |-> sound, len |-> Len(bytes)]>> \o bytes

\* Two stored blocks, cut at k, and the checksum.
ZlibOf(raw, k, sound) ==
  <<120, 1>> \o BlockOf(SubSeq(raw, 1, k), FALSE, TRUE)
             \o BlockOf(SubSeq(raw, k + 1, Len(raw)), TRUE, sound) \o <<0, 0, 0, 0>>

Ihdr(w, h, color) == [NoHeader EXCEPT !.w = w, !.h = h, !.depth = 8, !.color = color]
IdatOf(bytes) == [type |-> "IDAT", bytes |-> bytes]
Other == [type |-> "other"]
End0  == [type |-> "IEND"]
Cut0  == [type |-> "cut"]

FileFrom(n, hd, z, k, end, holds) ==
  [size |-> n, signed |-> TRUE, holds |-> holds,
   chunks |-> <<hd, Other, IdatOf(SubSeq(z, 1, k)), IdatOf(SubSeq(z, k + 1, Len(z))), end>>]

\* Two rows of two pixels, opaque; all bytes that wrap around are among them.
Square == <<<< <<250, 10, 128, 255>>, <<4, 200, 127, 255>> >>,
            << <<255, 0, 1, 255>>, <<130, 190, 60, 255>> >> >>
\* Three rows of one pixel.
Column == <<<< <<9, 8, 7, 6>> >>, << <<200, 100, 50, 0>> >>, << <<0, 255, 0, 255>> >> >>

RawSquare == RawOf(Square, 3, <<3, 4>>)
RawColumn == RawOf(Column, 4, <<1, 2, 4>>)

\* The bytes of the square with one of them damaged, and what they stand for: the
\* byte is wrong, and so are two that the filters refer to it.
RawBlot == [RawSquare EXCEPT ![2] = (@ + 1) % 256]
Blot == <<<< <<251, 10, 128, 255>>, <<4, 200, 127, 255>> >>,
          << <<0, 0, 1, 255>>, <<126, 190, 60, 255>> >> >>

MCFiles == <<
  FileFrom(40, Ihdr(2, 2, Rgb), ZlibOf(RawSquare, 4, TRUE), 5, End0, Square),
  FileFrom(40, Ihdr(1, 3, Rgba), ZlibOf(RawColumn, 15, TRUE), 20, End0, Column),
  FileFrom(40, Ihdr(2, 2, Rgb), ZlibOf(RawBlot, 4, TRUE), 5, End0, Blot),
  \* A damaged block, a file that ends too early, a header for a larger picture.
  FileFrom(40, Ihdr(2, 2, Rgb), ZlibOf(RawSquare, 9, FALSE), 12, End0, NoPicture),
  FileFrom(40, Ihdr(2, 2, Rgb), ZlibOf(RawSquare, 4, TRUE), 5, Cut0, NoPicture),
  FileFrom(40, Ihdr(2, 3, Rgb), ZlibOf(RawSquare, 4, TRUE), 5, End0, NoPicture)>>

\* The hypothesis of the theorem about WallShows holds of these files.
ASSUME HoldAssumption == FilesHold
=============================================================================
