-------------------------- MODULE StageExtent_proofs --------------------------
(***************************************************************************)
(* Whatever the shape of the convolution, staging never publishes a byte   *)
(* it has not written, publishes what every fill asks for, and no fill     *)
(* overruns the buffer.                                                    *)
(***************************************************************************)
EXTENDS StageExtent, TLAPS

Fits == {c \in Shapes : Takes(c)}

\* A product keeps the order of its first factor.
LEMMA TimesMonotone ==
  ASSUME NEW x \in Nat, NEW y \in Nat, NEW n \in Nat, x <= y
  PROVE  x * n \in Nat /\ y * n \in Nat /\ x * n <= y * n
<1>1. PICK d \in Nat : y = x + d
  <2>1. y - x \in Nat /\ y = x + (y - x)
    OBVIOUS
  <2> QED BY <2>1
<1>2. y * n = x * n + d * n /\ d * n \in Nat /\ x * n \in Nat
  BY <1>1
<1> QED BY <1>2

\* The quotient of a number by one no larger is at least one.
LEMMA DivPositive ==
  ASSUME NEW x \in Nat, NEW n \in Nat \ {0}, x >= n
  PROVE  x \div n \in Nat \ {0}
OBVIOUS

\* The lengths both harts derive are numbers: the pixel step is a whole number
\* of words and not zero, so a tile has a length.
LEMMA GeometryTypes ==
  ASSUME NEW c \in Fits
  PROVE  /\ c.IC \in Nat \ {0} /\ c.IW \in Nat \ {0} /\ c.SW \in Nat \ {0}
         /\ Step(c) \in Nat \ {0} /\ Step(c) \div 8 \in Nat \ {0}
         /\ K(c) \in Int /\ OW(c) \in Nat \ {0}
<1>1. /\ c.IC \in Nat \ {0} /\ c.IW \in Nat \ {0} /\ c.SW \in Nat \ {0}
      /\ c.KW \in Nat \ {0} /\ c.IW >= c.KW /\ Takes(c)
  BY ExtentAssumption DEF Fits
<1>2. Step(c) \in Nat \ {0}
  BY <1>1 DEF Step
<1>3. Step(c) % 8 = 0
  BY <1>1 DEF Takes
<1>4. Step(c) \div 8 \in Nat \ {0}
  BY <1>2, <1>3
<1>5. K(c) \in Int
  <2>1. c.IC * c.KW \in Int
    BY <1>1
  <2> QED BY <2>1 DEF K, Up
<1>6. OW(c) \in Nat \ {0}
  <2>1. c.IW - c.KW \in Nat
    BY <1>1
  <2>2. (c.IW - c.KW) \div c.SW \in Nat
    BY <1>1, <2>1
  <2> QED BY <2>2 DEF OW
<1> QED BY <1>1, <1>2, <1>4, <1>5, <1>6

\* A tile has at least one pixel, and a convolution at least one tile.
LEMMA TileTypes ==
  ASSUME NEW c \in Fits
  PROVE  P(c) \in Nat \ {0} /\ Tiles(c) \in Nat \ {0}
<1>1. Step(c) \div 8 \in Nat \ {0} /\ K(c) \in Int /\ OW(c) \in Nat \ {0}
  BY GeometryTypes
<1>2. BufWords - 7 - K(c) \div 8 \in Nat
  BY <1>1, ExtentAssumption DEF Fits, Takes
<1>3. (BufWords - 7 - K(c) \div 8) \div (Step(c) \div 8) \in Nat
  BY <1>1, <1>2
<1>4. P(c) \in Nat \ {0}
  BY <1>1, <1>3 DEF P, MinOf
<1>5. OW(c) + P(c) - 1 \in Nat /\ OW(c) + P(c) - 1 >= P(c)
  BY <1>1, <1>4
<1>6. (OW(c) + P(c) - 1) \div P(c) \in Nat \ {0}
  BY <1>4, <1>5, DivPositive
<1> QED BY <1>4, <1>6 DEF Tiles

\* Rounding up to blocks keeps the order.
LEMMA UpMonotone ==
  ASSUME NEW x \in Int, NEW y \in Int, x <= y
  PROVE  /\ Up(x, 64) \in Int /\ Up(y, 64) \in Int
         /\ x <= Up(x, 64) /\ Up(x, 64) <= Up(y, 64)
BY SMT DEF Up

\* The blocks of a tile end no earlier than those of the tiles before it.
LEMMA SrcEndMonotone ==
  ASSUME NEW c \in Fits, NEW b \in Nat, NEW d \in Nat, b <= d
  PROVE  SrcEnd(c, b) \in Int /\ SrcEnd(c, d) \in Int /\ SrcEnd(c, b) <= SrcEnd(c, d)
<1> DEFINE Rest == (P(c) - 1) * Step(c) + K(c)
<1>1. P(c) \in Nat /\ Step(c) \in Nat /\ K(c) \in Int
  BY GeometryTypes, TileTypes
<1>2. Rest \in Int
  BY <1>1
<1>3. b * P(c) \in Nat /\ d * P(c) \in Nat /\ b * P(c) <= d * P(c)
  BY <1>1, TimesMonotone
<1>4. /\ b * P(c) * Step(c) \in Nat /\ d * P(c) * Step(c) \in Nat
      /\ b * P(c) * Step(c) <= d * P(c) * Step(c)
  BY <1>1, <1>3, TimesMonotone
<1> HIDE DEF Rest
<1>5. /\ b * P(c) * Step(c) + Rest \in Int /\ d * P(c) * Step(c) + Rest \in Int
      /\ b * P(c) * Step(c) + Rest <= d * P(c) * Step(c) + Rest
  BY <1>2, <1>4
<1>6. /\ SrcEnd(c, b) = Up(b * P(c) * Step(c) + Rest, 64)
      /\ SrcEnd(c, d) = Up(d * P(c) * Step(c) + Rest, 64)
  <2>1. \A x \in Nat : x + (P(c) - 1) * Step(c) + K(c) = x + Rest
    BY <1>1 DEF Rest
  <2> QED BY <1>4, <2>1 DEF SrcEnd
<1> QED BY <1>5, <1>6, UpMonotone


\* Chunk b covers the blocks of tile b, and none past the arena.
LEMMA ChunkCovers ==
  ASSUME NEW c \in Fits, NEW b \in 0 .. Tiles(c) - 1
  PROVE  /\ SrcEnd(c, b) \in Int /\ Arena(c) \in Int /\ ChunkEnd(c, b) \in Int
         /\ SrcEnd(c, b) <= ChunkEnd(c, b) /\ ChunkEnd(c, b) <= Arena(c)
<1>1. /\ P(c) \in Nat \ {0} /\ Step(c) \in Nat \ {0} /\ K(c) \in Int
      /\ OW(c) \in Nat \ {0} /\ Tiles(c) \in Nat \ {0}
  BY GeometryTypes, TileTypes
<1>2. SrcEnd(c, b) \in Int /\ Arena(c) \in Int /\ SrcEnd(c, b) <= Arena(c)
  <2>1. b \in Nat /\ Tiles(c) - 1 \in Nat /\ b <= Tiles(c) - 1
    BY <1>1
  <2> QED BY <2>1, SrcEndMonotone DEF Arena
<1>3. CASE (b + 1) * P(c) >= OW(c)
  BY <1>2, <1>3 DEF ChunkEnd
<1>4. CASE ~((b + 1) * P(c) >= OW(c))
  <2>1. (b + 1) * P(c) \in Nat
    BY <1>1
  <2>2. MinOf((b + 1) * P(c), OW(c)) = (b + 1) * P(c)
    BY <1>1, <1>4, <2>1 DEF MinOf
  <2>3. PixelEnd(c, b) = b * P(c) * Step(c) + (P(c) - 1) * Step(c) + K(c)
    <3>1. \A p, s \in Nat : ((b + 1) * p - 1) * s = b * p * s + (p - 1) * s
      OBVIOUS
    <3> QED BY <1>1, <2>2, <3>1 DEF PixelEnd
  <2>4. Rounded(c, b) = SrcEnd(c, b)
    BY <2>3 DEF Rounded, SrcEnd
  <2> QED BY <1>2, <1>4, <2>4 DEF ChunkEnd
<1> QED BY <1>3, <1>4

\* The columns staged for a chunk cover it, as far as the image goes.
LEMMA ColumnsCover ==
  ASSUME NEW c \in Fits, NEW b \in 0 .. Tiles(c) - 1
  PROVE  /\ Columns(c, b) \in Int /\ Columns(c, b) <= c.IW
         /\ Columns(c, b) * c.IC \in Int
         /\ Columns(c, b) < c.IW => ChunkEnd(c, b) <= Columns(c, b) * c.IC
<1>1. /\ c.IC \in Nat \ {0} /\ c.IW \in Nat \ {0} /\ ChunkEnd(c, b) \in Int
  BY GeometryTypes, ChunkCovers
<1> DEFINE whole == (ChunkEnd(c, b) + c.IC - 1) \div c.IC
<1>2. whole \in Int /\ ChunkEnd(c, b) <= whole * c.IC
  <2>1. \A x \in Int, n \in Nat \ {0} :
          (x + n - 1) \div n \in Int /\ x <= ((x + n - 1) \div n) * n
    OBVIOUS
  <2> QED BY <1>1, <2>1
<1>3. Columns(c, b) = MinOf(whole, c.IW)
  BY DEF Columns
<1> HIDE DEF whole
<1> QED BY <1>1, <1>2, <1>3 DEF MinOf

\* A length in whole words ends at most seven words into a block.
LEMMA IntoBlock ==
  ASSUME NEW x \in Nat, x % 8 = 0
  PROVE  /\ (x \div 64) * 64 \in Nat /\ (x \div 64) * 64 <= x /\ x <= (x \div 64) * 64 + 56
         /\ ((x - (x \div 64) * 64) \div 8) * 8 = x - (x \div 64) * 64
BY SMT

\* The P of the kernel: its pixels and a pixel's window fit beside the seven
\* words the first may start into its block.
LEMMA TileFits ==
  ASSUME NEW c \in Fits
  PROVE  (P(c) - 1) * Step(c) + K(c) <= 8 * BufWords - 56
<1>1. /\ P(c) \in Nat \ {0} /\ Step(c) \in Nat \ {0} /\ Step(c) \div 8 \in Nat \ {0}
      /\ K(c) \in Int /\ OW(c) \in Nat \ {0} /\ BufWords \in Nat
  BY GeometryTypes, TileTypes, ExtentAssumption
<1> DEFINE w == Step(c) \div 8
           room == BufWords - 7 - K(c) \div 8
<1>2. Step(c) = 8 * w /\ K(c) = 8 * (K(c) \div 8) /\ room \in Nat
  <2>1. Step(c) % 8 = 0 /\ room \in Nat
    BY <1>1 DEF Fits, Takes
  <2>2. K(c) % 8 = 0
    <3>1. c.IC * c.KW \in Int
      BY ExtentAssumption DEF Fits
    <3> QED BY <3>1 DEF K, Up
  <2> QED BY <1>1, <2>1, <2>2
<1>3. P(c) - 1 \in Nat /\ P(c) - 1 <= room \div w
  <2> HIDE DEF room
  <2>1. room \div w \in Nat
    BY <1>1, <1>2
  <2>2. P(c) = MinOf(OW(c), room \div w + 1)
    BY DEF P, room
  <2> QED BY <1>1, <2>1, <2>2 DEF MinOf
<1> HIDE DEF w, room
<1>4. w \in Nat \ {0}
  BY <1>1 DEF w
<1>5. (room \div w) * w <= room /\ room \div w \in Nat
  BY <1>2, <1>4
<1>6. (P(c) - 1) * w <= room /\ (P(c) - 1) * w \in Nat
  BY <1>3, <1>4, <1>5, TimesMonotone, <1>2
<1>7. (P(c) - 1) * Step(c) = 8 * ((P(c) - 1) * w)
  BY <1>1, <1>2, <1>3, <1>4
<1>8. room = BufWords - 7 - K(c) \div 8
  BY DEF room
<1> QED BY <1>1, <1>2, <1>6, <1>7, <1>8

\* Where a tile starts, and how far it is into its first block.
LEMMA TileStart ==
  ASSUME NEW c \in Fits, NEW b \in Nat
  PROVE  /\ b * P(c) * Step(c) \in Nat /\ Src(c, b) \in Nat /\ Src(c, b) % 64 = 0
         /\ Src(c, b) <= b * P(c) * Step(c) /\ b * P(c) * Step(c) <= Src(c, b) + 56
         /\ Aoff(c, b) \in Int /\ 8 * Aoff(c, b) = b * P(c) * Step(c) - Src(c, b)
<1>1. P(c) \in Nat /\ Step(c) \in Nat /\ Step(c) % 8 = 0
  BY GeometryTypes, TileTypes DEF Fits, Takes
<1>2. b * P(c) \in Nat
  BY <1>1
<1> DEFINE x == b * P(c) * Step(c)
<1>3. x \in Nat /\ x % 8 = 0
  <2>1. \A n, s \in Nat : s % 8 = 0 => (n * s) \in Nat /\ (n * s) % 8 = 0
    <3> SUFFICES ASSUME NEW n \in Nat, NEW s \in Nat, s % 8 = 0
                 PROVE  n * s \in Nat /\ (n * s) % 8 = 0
      OBVIOUS
    <3>1. s = 8 * (s \div 8) /\ s \div 8 \in Nat
      OBVIOUS
    <3> DEFINE m == n * (s \div 8)
               ns == n * s
    <3>2. m \in Nat /\ ns = 8 * m
      BY <3>1
    <3> HIDE DEF m, ns
    <3>3. ns \in Nat /\ ns % 8 = 0
      BY <3>2
    <3> QED BY <3>3 DEF ns
  <2> QED BY <1>1, <1>2, <2>1
<1>4. Src(c, b) = (x \div 64) * 64 /\ Aoff(c, b) = (x - Src(c, b)) \div 8
  BY DEF Src, Aoff
<1> HIDE DEF x
<1>5. Src(c, b) \in Nat /\ Src(c, b) <= x /\ x <= Src(c, b) + 56 /\ Src(c, b) % 64 = 0
  BY <1>3, <1>4, IntoBlock
<1>6. Aoff(c, b) \in Int /\ 8 * Aoff(c, b) = x - Src(c, b)
  BY <1>3, <1>4, <1>5, IntoBlock
<1> QED BY <1>3, <1>5, <1>6 DEF x

\* Rounding up to blocks does not pass a whole number of them.
LEMMA UpStays ==
  ASSUME NEW x \in Int, NEW y \in Int, x <= y, y % 64 = 0
  PROVE  Up(x, 64) \in Int /\ x <= Up(x, 64) /\ Up(x, 64) <= y
BY SMT DEF Up

\* A tile's blocks fit in the buffer, and what its pixels read is in them.
LEMMA TileInBuffer ==
  ASSUME NEW c \in Fits, NEW b \in Nat
  PROVE  /\ SrcEnd(c, b) - Src(c, b) <= 8 * BufWords
         /\ \A p \in b * P(c) .. MinOf((b + 1) * P(c), OW(c)) - 1 :
              LET w == Aoff(c, b) + (p - b * P(c)) * (Step(c) \div 8) IN
                /\ Src(c, b) + 8 * w = p * Step(c)
                /\ 8 * w + K(c) <= SrcEnd(c, b) - Src(c, b)
<1>1. /\ P(c) \in Nat \ {0} /\ Step(c) \in Nat \ {0} /\ Step(c) \div 8 \in Nat \ {0}
      /\ K(c) \in Int /\ OW(c) \in Nat \ {0} /\ BufWords \in Nat /\ BufWords % 8 = 0
      /\ Step(c) % 8 = 0
  BY GeometryTypes, TileTypes, ExtentAssumption DEF Fits, Takes
<1> DEFINE base == b * P(c) * Step(c)
           last == (P(c) - 1) * Step(c)
<1>2. /\ base \in Nat /\ Src(c, b) \in Nat /\ Src(c, b) % 64 = 0
      /\ base <= Src(c, b) + 56 /\ Aoff(c, b) \in Int /\ 8 * Aoff(c, b) = base - Src(c, b)
  BY TileStart
<1>3. last \in Nat /\ last + K(c) <= 8 * BufWords - 56
  BY <1>1, TileFits
<1>4. SrcEnd(c, b) = Up(base + last + K(c), 64)
  BY DEF SrcEnd
<1> HIDE DEF base, last
<1>5. /\ base + last + K(c) \in Int /\ Src(c, b) + 8 * BufWords \in Int
      /\ base + last + K(c) <= Src(c, b) + 8 * BufWords
      /\ (Src(c, b) + 8 * BufWords) % 64 = 0
  BY <1>1, <1>2, <1>3
<1>6. /\ SrcEnd(c, b) \in Int /\ base + last + K(c) <= SrcEnd(c, b)
      /\ SrcEnd(c, b) <= Src(c, b) + 8 * BufWords
  BY <1>4, <1>5, UpStays
<1>7. ASSUME NEW p \in b * P(c) .. MinOf((b + 1) * P(c), OW(c)) - 1,
             NEW w, w = Aoff(c, b) + (p - b * P(c)) * (Step(c) \div 8)
      PROVE  /\ Src(c, b) + 8 * w = p * Step(c)
             /\ 8 * w + K(c) <= SrcEnd(c, b) - Src(c, b)
  <2> DEFINE i == p - b * P(c)
  <2>1. b * P(c) \in Nat /\ (b + 1) * P(c) = b * P(c) + P(c)
    BY <1>1
  <2>2. p \in Nat /\ i \in Nat /\ i <= P(c) - 1 /\ P(c) - 1 \in Nat
    BY <1>1, <2>1 DEF MinOf
  <2>3. p * Step(c) = base + i * Step(c)
    <3>1. p = b * P(c) + i
      BY <2>1, <2>2
    <3>2. \A x, y, z \in Nat : (x + y) * z = x * z + y * z
      OBVIOUS
    <3> HIDE DEF i
    <3> QED BY <1>1, <2>1, <2>2, <3>1, <3>2 DEF base
  <2> HIDE DEF i
  <2>4. i * Step(c) \in Nat /\ i * Step(c) <= last
    BY <1>1, <2>2, TimesMonotone DEF last
  <2>5. 8 * (i * (Step(c) \div 8)) = i * Step(c) /\ i * (Step(c) \div 8) \in Nat
    <3>1. Step(c) = 8 * (Step(c) \div 8)
      BY <1>1
    <3>2. \A x, y \in Nat : x * y \in Nat /\ 8 * (x * y) = x * (8 * y)
      OBVIOUS
    <3> QED BY <1>1, <2>2, <3>1, <3>2
  <2>6. w = Aoff(c, b) + i * (Step(c) \div 8)
    BY <1>7 DEF i
  <2>7. w \in Int /\ 8 * w = base - Src(c, b) + i * Step(c)
    BY <1>2, <2>4, <2>5, <2>6
  <2> QED BY <1>1, <1>2, <1>3, <1>6, <2>3, <2>4, <2>7
<1>8. SrcEnd(c, b) - Src(c, b) <= 8 * BufWords
  BY <1>1, <1>2, <1>6
<1> QED BY <1>7, <1>8

\* Both halves of the contract, with the types their arithmetic needs.
Inv ==
  /\ shape \in Fits
  /\ a \in 0 .. Tiles(shape)
  /\ wlo \in Int /\ zeroed \in Int /\ stage_wm \in Int
  /\ PublishesTruth /\ CoversFill

\* Staging keeps both halves of the contract, whatever the shape: a chunk
\* publishes what it wrote, and that covers its tile and the tiles before.
LEMMA StepInv == Inv /\ [Next]_vars => Inv'
<1> SUFFICES ASSUME Inv, [Next]_vars PROVE Inv'
  OBVIOUS
<1>1. CASE UNCHANGED vars
  BY <1>1 DEF Inv, vars, PublishesTruth, CoversFill, Written
<1>2. CASE Staged
  BY <1>2, <1>1 DEF Staged
<1>3. CASE StageChunk
  <2> DEFINE whi == Columns(shape, a)
  <2>1. /\ shape \in Fits /\ a \in 0 .. Tiles(shape) - 1 /\ a \in Nat
        /\ Tiles(shape) \in Nat /\ shape' = shape /\ a' = a + 1
        /\ wlo' = whi /\ zeroed' = ZeroTail(shape, whi) /\ stage_wm' = Claim(shape, whi)
    BY <1>3, TileTypes DEF StageChunk, Inv
  <2>2. /\ SrcEnd(shape, a) \in Int /\ Arena(shape) \in Int /\ ChunkEnd(shape, a) \in Int
        /\ SrcEnd(shape, a) <= ChunkEnd(shape, a) /\ ChunkEnd(shape, a) <= Arena(shape)
    BY <2>1, ChunkCovers
  <2>3. /\ whi \in Int /\ whi <= shape.IW /\ whi * shape.IC \in Int
        /\ whi < shape.IW => ChunkEnd(shape, a) <= whi * shape.IC
        /\ shape.IW \in Int /\ Plane(shape) \in Int
    <3>1. shape.IW \in Nat /\ shape.IC \in Nat
      BY <2>1, GeometryTypes
    <3> QED BY <2>1, <3>1, ColumnsCover DEF Plane
  <2> HIDE DEF whi
  <2>4. wlo' \in Int /\ zeroed' \in Int /\ stage_wm' \in Int
    BY <2>1, <2>2, <2>3 DEF Inv, ZeroTail, Claim, MaxOf
  <2>5. PublishesTruth'
    <3>1. CASE whi >= shape.IW
      <4>1. stage_wm' = Arena(shape) /\ zeroed' = MaxOf(Arena(shape), Plane(shape))
        BY <2>1, <3>1 DEF Claim, ZeroTail
      <4>2. Written' >= zeroed'
        BY <2>1, <2>3, <2>4 DEF Written, MaxOf
      <4> QED BY <2>1, <2>2, <2>3, <2>4, <4>1, <4>2 DEF PublishesTruth, Written, MaxOf
    <3>2. CASE ~(whi >= shape.IW)
      <4>1. stage_wm' = whi * shape.IC
        BY <2>1, <3>2 DEF Claim
      <4> QED BY <2>1, <2>3, <2>4, <4>1 DEF PublishesTruth, Written, MaxOf
    <3> QED BY <3>1, <3>2
  <2>6. SrcEnd(shape, a) <= stage_wm'
    BY <2>1, <2>2, <2>3 DEF Claim
  <2>7. CoversFill'
    <3> SUFFICES ASSUME NEW b \in 0 .. a PROVE SrcEnd(shape, b) <= stage_wm'
      BY <2>1 DEF CoversFill
    <3>1. SrcEnd(shape, b) \in Int /\ SrcEnd(shape, b) <= SrcEnd(shape, a)
      BY <2>1, SrcEndMonotone
    <3> QED BY <2>2, <2>4, <2>6, <3>1
  <2> QED BY <2>1, <2>4, <2>5, <2>7 DEF Inv
<1> QED BY <1>1, <1>2, <1>3 DEF Next

\* Nothing is published before the first chunk.
LEMMA InitInv == Init => Inv
<1> SUFFICES ASSUME Init PROVE Inv
  OBVIOUS
<1>1. shape \in Fits /\ a = 0 /\ wlo = 0 /\ zeroed = 0 /\ stage_wm = 0
  BY DEF Init, Fits
<1>2. Tiles(shape) \in Nat /\ shape.IC \in Nat
  BY <1>1, TileTypes, GeometryTypes
<1>3. wlo * shape.IC = 0
  BY <1>1, <1>2
<1> QED BY <1>1, <1>2, <1>3 DEF Inv, PublishesTruth, CoversFill, Written, MaxOf

\* The invariant holds throughout staging.
THEOREM ExtentInv == Spec => []Inv
BY InitInv, StepInv, PTL DEF Spec

\* Hart 0 never publishes a byte it has not written for this convolution: the
\* fill the watermark lets go reads nothing older.
THEOREM PublishedIsWritten == Spec => []PublishesTruth
<1>1. Inv => PublishesTruth
  BY DEF Inv
<1> QED BY ExtentInv, <1>1, PTL

\* Once chunk b is staged the fill of tile b has all it asks for: hart 1 never
\* waits on the watermark for bytes that are never published.
THEOREM FillIsCovered == Spec => []CoversFill
<1>1. Inv => CoversFill
  BY DEF Inv
<1> QED BY ExtentInv, <1>1, PTL

\* The blocks a fill reads fit in the activation buffer and hold what every
\* pixel of the tile reads, whatever the shape the kernel takes: the first
\* pixel may start seven words into its block, and no more.
THEOREM FillFitsHolds == Spec => []FillFits
<1>1. Inv => FillFits
  <2> SUFFICES ASSUME Inv, NEW b \in 0 .. Tiles(shape) - 1
               PROVE  /\ SrcEnd(shape, b) - Src(shape, b) <= 8 * BufWords
                      /\ \A p \in b * P(shape) .. MinOf((b + 1) * P(shape), OW(shape)) - 1 :
                           LET w == Aoff(shape, b) + (p - b * P(shape)) * (Step(shape) \div 8) IN
                             /\ Src(shape, b) + 8 * w = p * Step(shape)
                             /\ 8 * w + K(shape) <= SrcEnd(shape, b) - Src(shape, b)
    BY DEF FillFits
  <2>1. shape \in Fits /\ b \in Nat
    BY DEF Inv
  <2> QED BY <2>1, TileInBuffer
<1> QED BY ExtentInv, <1>1, PTL
=============================================================================
