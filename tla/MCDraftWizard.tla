---------------------------- MODULE MCDraftWizard ----------------------------
(* An instance of DraftWizard for TLC: a page of two assets, one of a       *)
(* season, in an export of one row, of two, of a row twice, of three rows,  *)
(* and of none.                                                             *)
EXTENDS DraftWizard, TLC

CONSTANTS h1, h2, a1, a2, t1

Seasons == a1 :> {t1} @@ a2 :> {}
PageExports == {<<>>, <<a1>>, <<a1, a2>>, <<a1, a1>>, <<a1, a2, a1>>}
=============================================================================
