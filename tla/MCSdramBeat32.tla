--------------------------- MODULE MCSdramBeat32 ----------------------------
(* TLC instance: two words that power up as zeroes, a write of ones to one   *)
(* lane of each half.                                                        *)
EXTENDS SdramBeat32

CONSTANTS b0, b1

MCByte == {b0, b1}

MCZeroWord == [l \in 0..3 |-> b0]

MCPowerUp == {MCZeroWord}

MCWriteData == {[l \in 0..3 |-> b1]}

MCWriteBE == {{0, 3}}

=============================================================================
