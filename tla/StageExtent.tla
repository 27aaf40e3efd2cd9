------------------------------ MODULE StageExtent ------------------------------
(***************************************************************************)
(* The staging pipeline in bytes: what hart 0 writes and publishes for     *)
(* each activation tile (mbxr_b102_stage_chunk in                          *)
(* fpga/pynq-z2/modelblaster/kernels/roccmoon/mbxr_stage.inc) against what *)
(* hart 1's fill of that tile asks for (act_extent in                      *)
(* fpga/pynq-z2/sw/roccmoon/mbxr.c).  The fill counts 64-byte blocks and   *)
(* spans a whole tile of pixels even where the image ends; the staging     *)
(* counts columns of the image.  StagePipe is the same protocol with every *)
(* extent rounded to a tile.                                               *)
(***************************************************************************)
EXTENDS Integers

CONSTANTS
  Shapes,    \* convolutions: channels IC, width IW, stride SW, kernel width KW
  BufWords,  \* MBXR_BUF_WORDS, words in an activation buffer
  StageBytes \* bytes from MBXR_RT_IN_STAGE to the next area

ASSUME ExtentAssumption ==
  /\ \A c \in Shapes : {c.IC, c.IW, c.SW, c.KW} \subseteq Nat \ {0} /\ c.IW >= c.KW
  /\ BufWords \in Nat /\ BufWords % 8 = 0 /\ StageBytes \in Nat

VARIABLES
  shape,   \* the convolution's shape
  a,       \* chunks staged
  wlo,     \* columns of the image staged
  zeroed,  \* end of the bytes zeroed after the plane
  stage_wm \* bytes published to hart 1

vars == <<shape, a, wlo, zeroed, stage_wm>>

MinOf(x, y) == IF x < y THEN x ELSE y
MaxOf(x, y) == IF x < y THEN y ELSE x
Up(x, n)    == ((x + n - 1) \div n) * n
-----------------------------------------------------------------------------
(* THE GEOMETRY BOTH HARTS DERIVE *)

OW(c)  == (c.IW - c.KW) \div c.SW + 1
K(c)   == Up(c.IC * c.KW, 8)
Step(c) == c.SW * c.IC                         \* bytes from pixel to pixel
Plane(c) == c.IW * c.IC

\* pixels per activation tile; the first may start 7 words into a block
NoSlack(c) == MinOf(OW(c), (BufWords - K(c) \div 8) \div (Step(c) \div 8) + 1)  \* mutant of P
P(c)       == MinOf(OW(c), (BufWords - 7 - K(c) \div 8) \div (Step(c) \div 8) + 1)
Tiles(c)   == (OW(c) + P(c) - 1) \div P(c)

\* the shapes the kernel takes to the engine
Takes(c) ==
  /\ Step(c) % 8 = 0 /\ K(c) \div 8 + 7 <= BufWords
  /\ Plane(c) + 64 <= StageBytes

\* act_extent: the blocks the fill of tile b reads, from src to srcEnd
Src(c, b)    == ((b * P(c) * Step(c)) \div 64) * 64
SrcEnd(c, b) == Up(b * P(c) * Step(c) + (P(c) - 1) * Step(c) + K(c), 64)
Aoff(c, b)   == (b * P(c) * Step(c) - Src(c, b)) \div 8

\* mbxr_b102_arena: the end of the last tile's blocks, not of the plane
Arena(c) == SrcEnd(c, Tiles(c) - 1)
-----------------------------------------------------------------------------
Init == /\ shape \in {c \in Shapes : Takes(c)}
        /\ a = 0 /\ wlo = 0 /\ zeroed = 0 /\ stage_wm = 0

\* the end of the bytes chunk b's tile needs, in whole blocks
PixelEnd(c, b) == (MinOf((b + 1) * P(c), OW(c)) - 1) * Step(c) + K(c)
Unrounded(c, b) == PixelEnd(c, b)              \* mutant of Rounded
Rounded(c, b)   == Up(PixelEnd(c, b), 64)

ChunkEnd(c, b) ==
  IF (b + 1) * P(c) >= OW(c) \/ Rounded(c, b) > Arena(c) THEN Arena(c) ELSE Rounded(c, b)

\* whi: the columns that cover it, as far as the image goes
Columns(c, b) == MinOf((ChunkEnd(c, b) + c.IC - 1) \div c.IC, c.IW)

\* what is published when the image ends in this chunk, and when it does not
Claim(c, whi) == IF whi >= c.IW THEN Arena(c) ELSE whi * c.IC

\* the zero tail
NoTail(c, whi)   == zeroed                     \* mutant of ZeroTail
ZeroTail(c, whi) == IF whi >= c.IW THEN MaxOf(Arena(c), Plane(c)) ELSE zeroed

StageChunk ==
  /\ a < Tiles(shape)
  /\ a' = a + 1 /\ wlo' = Columns(shape, a)
  /\ zeroed' = ZeroTail(shape, Columns(shape, a))
  /\ stage_wm' = Claim(shape, Columns(shape, a))
  /\ UNCHANGED shape

Staged == a = Tiles(shape) /\ UNCHANGED vars

Next == StageChunk \/ Staged
Spec == Init /\ [][Next]_vars
-----------------------------------------------------------------------------
(* PROPERTIES *)

Written == MaxOf(wlo * shape.IC, zeroed)

\* "Publish the TRUTH, never more": every published byte has been written for
\* this convolution, the zeroes after the plane included.
PublishesTruth == stage_wm <= Written

\* A chunk publishes all that the fill of its tile asks for, so hart 1 never
\* waits for bytes nobody will publish.
CoversFill == \A b \in 0 .. a - 1 : SrcEnd(shape, b) <= stage_wm

\* What a tile's pixels read is in the blocks its fill brought, and those fit
\* in the buffer.
FillFits ==
  \A b \in 0 .. Tiles(shape) - 1 :
    /\ SrcEnd(shape, b) - Src(shape, b) <= 8 * BufWords
    /\ \A p \in b * P(shape) .. MinOf((b + 1) * P(shape), OW(shape)) - 1 :
         LET w == Aoff(shape, b) + (p - b * P(shape)) * (Step(shape) \div 8) IN
           /\ Src(shape, b) + 8 * w = p * Step(shape)
           /\ 8 * w + K(shape) <= SrcEnd(shape, b) - Src(shape, b)
=============================================================================
