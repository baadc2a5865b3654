--------------------------- MODULE MCPlatformLib ---------------------------
(***************************************************************************)
(* The Sky1 layout (Sky1Common.dsc.inc and O6.fdf) in pages of 4 KB, with  *)
(* memory that ends 4, 16 or almost 30 GB above its base, and boards with  *)
(* 16 to 64 GB; of the core register, every value with up to two bits set  *)
(* among the twelve, all of them, and one with bits above them.            *)
(***************************************************************************)
EXTENDS PlatformLib

MCMemoryEnds == {1572864, 4718592, 8388607}
MCAvailableSizes == {16384, 30720, 30721, 32768, 65536}
MCRegisters == {{a, b} : a, b \in 0 .. 11} \cup {{}, 0 .. 11, {4, 12, 31}}
=============================================================================
