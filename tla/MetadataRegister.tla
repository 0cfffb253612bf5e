-------------------------- MODULE MetadataRegister --------------------------
(***************************************************************************)
(* What the metadata exchange of a magnet promises, without its sessions:  *)
(* a register that is written once, with the metadata of the info hash,    *)
(* after all its chunks were gathered.  A set of chunks that turned out    *)
(* wrong is dropped as a whole; a single chunk is never lost.              *)
(***************************************************************************)
EXTENDS Integers

CONSTANTS Sizes, NChunks(_)

VARIABLES size,    \* the claimed size, 0 for none
          got,     \* the chunks gathered
          value    \* the metadata

vars == <<size, got, value>>

All == 0 .. NChunks(size) - 1

Init == size = 0 /\ got = {} /\ value = "none"

Learn ==
  /\ size = 0
  /\ size' \in Sizes
  /\ UNCHANGED <<got, value>>

Gather ==
  /\ size # 0 /\ value = "none"
  /\ \E i \in All \ got : got' = got \union {i}
  /\ UNCHANGED <<size, value>>

Discard ==
  /\ size # 0 /\ value = "none" /\ got = All
  /\ got' = {}
  /\ UNCHANGED <<size, value>>

Write ==
  /\ size # 0 /\ value = "none" /\ got = All
  /\ value' = "right"
  /\ UNCHANGED <<size, got>>

Next == Learn \/ Gather \/ Discard \/ Write

Spec == Init /\ [][Next]_vars
=============================================================================
