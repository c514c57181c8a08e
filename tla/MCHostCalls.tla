---------------------------- MODULE MCHostCalls ----------------------------
(***************************************************************************)
(* A small instance of HostCalls: two pages, a data segment that ends at   *)
(* 1024 and thereby lower memory of that capacity, and calls whose ranges  *)
(* lie in lower memory, across its end, on the stack page where upper      *)
(* memory begins, and in the second page where it must grow.               *)
(***************************************************************************)
EXTENDS HostCalls, TLC

MCFirstSegments == {<<1020, 4>>}
MCAddr == {1016, 1024, 40960, 63488, 126976}

\* The word at 36864 makes lower memory so large that the next growth merges.
MCAccesses == {<<1016, 4>>, <<1024, 4>>, <<36864, 4>>, <<63488, 4>>}

MCCopies == {<<63488, 40960, 4>>, <<40960, 126976, 4>>, <<126976, 63488, 4>>}

\* Two buffers, the entry of the second beyond lower memory; and one whose
\* entry is on the stack page.
MCVectors == {<<1016, 2, 63488>>, <<63488, 1, 126976>>}

MCBuffers == 0 :> <<40960, 4>> @@ 1 :> <<126976, 4>>

MCArgv == <<[len |-> 3, letter |-> 0], [len |-> 4, letter |-> 1]>>

MCArgvAreas == {<<63488, 126972>>}

MCSizeWords == {<<63488, 126976>>}

MCSystemCalls ==
  {Quiet(Readlink(1016, 63488, 8), 8), Quiet(Open(1016, 63488), -1),
   Failing(Stat64(1024, 63488), 126976), Short(Quiet(Ioctl(63488, 4), 0)),
   AssertFail(512, 512, 512), Quiet(LogStr(1020), 0)}

MCCoded(n) == n % 2

=============================================================================
