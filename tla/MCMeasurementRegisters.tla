----------------------- MODULE MCMeasurementRegisters -----------------------
(* Small instances of MeasurementRegisters for TLC. A register holds the     *)
(* sequence of digests it was extended with, the freest possible Hash.       *)
EXTENDS RegistersRefinement, Sequences, TLC

MCHash(h, d) == IF Len(h) < LogMax THEN Append(h, d) ELSE h
MCZero == <<>>
MCHashValues == UNION {[1 .. n -> Digests] : n \in 0 .. LogMax}
=============================================================================
