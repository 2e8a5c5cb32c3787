--------------------------- MODULE MCExportRequest ---------------------------
(* Small instance of ExportRequest: two clients, one csv and one arrow      *)
(* export of the first, one csv export of the second.                       *)
EXTENDS ExportRequest

CONSTANTS c1, c2, e1, e2, e3

MCClientOf == [e \in Exports |-> IF e = e3 THEN c2 ELSE c1]

=============================================================================
