----------------------------- MODULE MCUiServer ----------------------------
(* A ui process for TLC: three requests, on routes with no, one and two *)
(* upstream calls and with different answers.                           *)
EXTENDS UiServer, TLC

CONSTANTS q1, q2, q3

Routes == q1 :> "show" @@ q2 :> "vote" @@ q3 :> "missing"
=============================================================================
