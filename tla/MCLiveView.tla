------------------------------ MODULE MCLiveView ------------------------------
(* Values for model-checking LiveView.                                        *)
EXTENDS LiveView
=============================================================================
