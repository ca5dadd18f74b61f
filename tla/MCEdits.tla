------------------------------- MODULE MCEdits -------------------------------
(* An instance of Edits for TLC: two editors, a group of two assets.        *)
EXTENDS Edits

CONSTANTS e1, e2, summary, r1, r2, r3, b1, b2, other
=============================================================================
