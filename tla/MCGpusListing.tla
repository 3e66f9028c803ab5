---------------------------- MODULE MCGpusListing ----------------------------
(* Instances of GpusListing for TLC: "." and "..", and a few GPUs.           *)
EXTENDS GpusListing

CONSTANTS t1, t2

TwoThreads == {t1, t2}
OneThread  == {t1}

(* Buffers of one to three entries; a buffer of one has room for little more *)
(* than the header of getdents64.                                            *)
SmallRooms == {1, 2, 3}
WideRooms  == {2, 3}
=============================================================================
