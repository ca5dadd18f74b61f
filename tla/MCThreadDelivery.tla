--------------------------- MODULE MCThreadDelivery ---------------------------
(* Instances of ThreadDelivery for TLC. *)
EXTENDS ThreadDelivery, TLC

CONSTANTS w1, w2, j1, j2, j3, j4, j5, c1, c2, c3, c4, c5

(* Two jobs with the same content, and two with different contents.          *)
TwinContent == j1 :> c1 @@ j2 :> c1
TwinKinds == j1 :> "image" @@ j2 :> "image"
PairContent == j1 :> c1 @@ j2 :> c2
PairKinds == j1 :> "image" @@ j2 :> "text"

(* One job of every kind.                                                   *)
EachContent == j1 :> c1 @@ j2 :> c2 @@ j3 :> c3 @@ j4 :> c4 @@ j5 :> c5
EachKind == j1 :> "text" @@ j2 :> "image" @@ j3 :> "empty" @@ j4 :> "no_thread" @@ j5 :> "unsupported"

WorkerSymmetry == Permutations(Workers)
=============================================================================
