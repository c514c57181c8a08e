--------------------------- MODULE MCGuestMemory ---------------------------
(***************************************************************************)
(* Small instances of GuestMemory.  The sizes are the code's own, except   *)
(* that the arguments area begins at 16 MB: TLC's integers have 32 bits.   *)
(***************************************************************************)
EXTENDS GuestMemory

\* 0x3FFF..0x4000 across a power of two, 0x9000 and 0xA000 that take lower
\* memory past the beginning of upper memory, 0xF800 the stack page, 0x1F000
\* in the second page, 0x1FFFC at the end of two pages.
LegalAccesses ==
  {<<16380, 8>>, <<36864, 4>>, <<40960, 4>>, <<63488, 4>>, <<126976, 4>>,
   <<131068, 4>>}
LegalAddr == {16383, 16384, 36864, 40960, 63488, 126976, 131071}

\* Lower memory grows to 0x8000 while upper memory is 0xF000 .. 0xFFFF; then
\* the first word of the second page is used.
BoundaryAccesses == {<<16368, 16>>, <<16384, 4>>, <<63488, 4>>, <<65536, 4>>}
BoundaryAddr == {16384, 63488, 65536}

\* Also beyond the memory, across ArgsBase, above it, and nothing at all.
WildAccesses ==
  {<<256, 4>>, <<40000, 4>>, <<63488, 4>>, <<131070, 4>>, <<1048576, 4>>,
   <<16777214, 4>>, <<16777216, 4>>, <<16777240, 4>>, <<196608, 0>>}
WildAddr == {40000, 63488, 16777216, 16777240}

\* The first data segment in lower memory, or in the second page: then lower
\* memory begins empty, and its first array may end below, at or beyond the
\* beginning of upper memory.
LowSegment == {<<1020, 4>>}
AnySegment == {<<1020, 4>>, <<65536, 4>>}
=============================================================================
