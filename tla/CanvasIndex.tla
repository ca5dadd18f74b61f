----------------------------- MODULE CanvasIndex -----------------------------
(***************************************************************************)
(* What the confirmation wizard uses of the index canvas of a channel      *)
(* (canvas.py, CanvasService): the check made before an import, and the    *)
(* canvas made or renamed when the user agrees.                            *)
(***************************************************************************)
(* A channel has no canvas, one with another title, or the index.           *)
CanvasStates == {"missing", "misnamed", "index"}

(* preflight: a channel or a file that Slack refuses to show blocks.        *)
PreflightOf(canvas, answered) ==
  CASE ~answered           -> "blocked"
    [] canvas = "missing"  -> "create"
    [] canvas = "misnamed" -> "rename"
    [] OTHER               -> "ready"

(* ensure_canvas: what the user agreed to must be what is needed.           *)
Agreed(preflight, create, rename) ==
  \/ preflight = "ready"
  \/ preflight = "create" /\ create
  \/ preflight = "rename" /\ rename
=============================================================================
