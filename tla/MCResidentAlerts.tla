--------------------------- MODULE MCResidentAlerts ---------------------------
(* Values for model-checking ResidentAlerts: a browser, a request, two fixes *)
(* being evaluated.                                                          *)
EXTENDS ResidentAlerts

CONSTANTS p1, h1, e1, e2
=============================================================================
