--------------------------- MODULE MCDecodeLedger ---------------------------
(***************************************************************************)
(* Instances of DecodeLedger for TLC.                                      *)
(***************************************************************************)
EXTENDS DecodeLedger

CONSTANTS c1, c2, i1, i2

\* Request IDs that are unique per request.
OwnIDs == [c \in Charges |-> IF c = c1 THEN i1 ELSE i2]

\* Two requests of one trace.
SharedIDs == [c \in Charges |-> i1]

=============================================================================
