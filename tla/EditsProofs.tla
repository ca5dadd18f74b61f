----------------------------- MODULE EditsProofs -----------------------------
(***************************************************************************)
(* Proofs about Edits, for any editors, roots and number of edits.         *)
(***************************************************************************)
EXTENDS Edits, SequenceTheorems, TLAPS

(* The types are inductive.                                                 *)
LEMMA TypeInit == Init => TypeOK
<1> SUFFICES ASSUME Init PROVE TypeOK
  OBVIOUS
<1> USE EditsAssumption DEF Init
<1>1. shown \in [Messages -> Shown]
  BY DEF Messages, Values, Shown, Stored
<1>2. sections \in Seq(Values \cup {Other}) /\ neighbour \in BOOLEAN
  <2>1. OldBatch \in Values \cup {Other} /\ Other \in Values \cup {Other}
    BY DEF Values
  <2>2. \A v, w \in Values \cup {Other} :
          {<<>>, <<v>>, <<v, w>>} \subseteq Seq(Values \cup {Other})
    OBVIOUS
  <2> QED BY <2>1, <2>2
<1>3. at \in [Editors -> EditorStates]
  BY DEF EditorStates, Idle, Places, Messages
<1>4. latest \in SUBSET Messages /\ primary \in Values
  BY DEF Messages, Values
<1>5. edits \in 0..MaxEdits
  <2>1. edits = 0 /\ MaxEdits \in Nat
    OBVIOUS
  <2> QED BY ONLY <2>1, SMT
<1>6. overlapped \in BOOLEAN
  OBVIOUS
<1>7. lock \in {"free", "worker", "dropped"} \cup Editors
  OBVIOUS
<1>8. batch \in {"none", "posted", "retired", "committed", "failed"}
  OBVIOUS
<1> HIDE DEF Init
<1> QED BY <1>1, <1>2, <1>3, <1>4, <1>5, <1>6, <1>7, <1>8 DEF TypeOK

LEMMA RenderedType ==
  ASSUME TypeOK, NEW e \in Editors, NEW m \in Messages
  PROVE  Rendered(e, m) \in Shown
BY DEF TypeOK, Rendered, Shown, Stored, Values

LEMMA GotoType ==
  ASSUME TypeOK, NEW e \in Editors, NEW pc \in Places, Goto(e, pc)
  PROVE  at' \in [Editors -> EditorStates]
BY DEF TypeOK, Goto, EditorStates

LEMMA UpdatedType ==
  ASSUME TypeOK, NEW m \in Messages, NEW view \in Shown
  PROVE  [shown EXCEPT ![m] = view] \in [Messages -> Shown]
BY DEF TypeOK

LEMMA IndexedType ==
  ASSUME NEW S, NEW s \in Seq(S), NEW i \in Nat, NEW v \in S
  PROVE  [s EXCEPT ![i] = v] \in Seq(S) /\ Append(s, v) \in Seq(S)
<1>1. CASE i \in 1..Len(s)
  BY <1>1, ExceptSeq, AppendProperties
<1>2. CASE i \notin 1..Len(s)
  <2>1. [s EXCEPT ![i] = v] = s
    BY <1>2
  <2> QED BY <2>1, AppendProperties
<1>3. Append(s, v) \in Seq(S)
  BY AppendProperties
<1> QED BY <1>1, <1>2, <1>3

(* The state of an editor after each form of assignment to it.             *)
LEMMA EditorType ==
  ASSUME TypeOK, NEW e \in Editors, NEW state \in EditorStates
  PROVE  [at EXCEPT ![e] = state] \in [Editors -> EditorStates]
BY DEF TypeOK

LEMMA EditorAt ==
  ASSUME TypeOK, NEW e \in Editors
  PROVE  at[e] \in EditorStates
BY DEF TypeOK

LEMMA AtType ==
  ASSUME TypeOK
  PROVE  at \in [Editors -> EditorStates]
BY DEF TypeOK

LEMMA IdleType == Idle \in EditorStates
BY EditsAssumption DEF Idle, EditorStates, Places, Messages

LEMMA TypeStep == TypeOK /\ [Next]_vars => TypeOK'
<1> SUFFICES ASSUME TypeOK, [Next]_vars PROVE TypeOK'
  OBVIOUS
<1> USE EditsAssumption
<1>1. ASSUME NEW e \in Editors, NEW m \in Messages, Open(e, m) PROVE TypeOK'
  <2>1. [at EXCEPT ![e].pc = "form", ![e].msg = m] \in [Editors -> EditorStates]
    <3>1. "form" \in Places
      BY DEF Places
    <3> QED BY <3>1, AtType DEF EditorStates
  <2>2. at' \in [Editors -> EditorStates]
    BY <1>1, <2>1 DEF Open, TypeOK
  <2>3. edits' \in 0..MaxEdits
    BY <1>1 DEF Open, TypeOK
  <2> QED BY <1>1, <2>2, <2>3 DEF Open, TypeOK
<1>2. ASSUME NEW e \in Editors, Cancel(e) PROVE TypeOK'
  <2>1. at' \in [Editors -> EditorStates]
    BY <1>2, IdleType, EditorType DEF Cancel
  <2> QED BY <1>2, <2>1 DEF Cancel, TypeOK
<1>3. ASSUME NEW e \in Editors, Submit(e) PROVE TypeOK'
  <2>1. latest \in SUBSET Messages /\ "check" \in Places
    BY DEF TypeOK, Places
  <2>2. at' = [at EXCEPT ![e].pc = "check", ![e].since = latest]
    BY <1>3 DEF Submit
  <2>3. at' \in [Editors -> EditorStates]
    BY <2>1, <2>2, AtType DEF EditorStates
  <2>4. overlapped' \in BOOLEAN
    BY <1>3 DEF Submit
  <2> QED BY <1>3, <2>3, <2>4 DEF Submit, TypeOK
<1>4. ASSUME NEW e \in Editors, Check(e) PROVE TypeOK'
  <2>1. \E pc \in Places : Goto(e, pc)
    BY <1>4 DEF Check, Places
  <2>2. at' \in [Editors -> EditorStates]
    BY <2>1, GotoType
  <2> QED BY <1>4, <2>2 DEF Check, TypeOK
<1>5. ASSUME NEW e \in Editors, UpdateMessage(e) PROVE TypeOK'
  <2>1. shown' \in [Messages -> Shown]
    <3>1. at[e].msg \in Messages
      BY EditorAt DEF EditorStates
    <3>2. [shown EXCEPT ![at[e].msg] = Rendered(e, at[e].msg)] \in [Messages -> Shown]
      BY <3>1, RenderedType, UpdatedType
    <3> QED BY <1>5, <3>2 DEF UpdateMessage, TypeOK
  <2>2. \E pc \in Places : Goto(e, pc)
    BY <1>5 DEF UpdateMessage, Places
  <2>3. at' \in [Editors -> EditorStates]
    BY <2>2, GotoType
  <2> QED BY <1>5, <2>1, <2>3 DEF UpdateMessage, TypeOK
<1>6. ASSUME NEW e \in Editors, ListRoots(e) PROVE TypeOK'
  <2>1. CASE lock = "free"
    <3>1. at' = [at EXCEPT ![e].pc = "roots", ![e].todo = latest \cap Roots] /\ lock' = e
      BY <1>6, <2>1 DEF ListRoots
    <3>2. "roots" \in Places /\ latest \cap Roots \in SUBSET Roots
      BY DEF Places
    <3>3. at' \in [Editors -> EditorStates]
      BY <3>1, <3>2, AtType DEF EditorStates
    <3> QED BY <1>6, <3>1, <3>3 DEF ListRoots, TypeOK
  <2>2. CASE lock # "free"
    <3>1. \E pc \in Places : Goto(e, pc)
      BY <1>6, <2>2 DEF ListRoots, Places
    <3>2. at' \in [Editors -> EditorStates]
      BY <3>1, GotoType
    <3> QED BY <1>6, <2>2, <3>2 DEF ListRoots, TypeOK
  <2> QED BY <2>1, <2>2
<1>7. ASSUME NEW e \in Editors, UpdateRoots(e) PROVE TypeOK'
  <2>1. at[e].todo \in SUBSET Roots
    BY EditorAt DEF EditorStates
  <2>2. \A r \in Roots : [shown EXCEPT ![r] = Rendered(e, r)] \in [Messages -> Shown]
    BY RenderedType, UpdatedType DEF Messages
  <2>3. shown' \in [Messages -> Shown]
    BY <1>7, <2>1, <2>2 DEF UpdateRoots, TypeOK
  <2>4. (\E pc \in Places : Goto(e, pc)) \/ \E r \in Roots : at' = [at EXCEPT ![e].todo = @ \ {r}]
    BY <1>7, <2>1 DEF UpdateRoots, Places
  <2>5. at' \in [Editors -> EditorStates]
    <3>1. CASE \E pc \in Places : Goto(e, pc)
      BY <3>1, GotoType
    <3>2. CASE \E r \in Roots : at' = [at EXCEPT ![e].todo = @ \ {r}]
      <4>1. PICK r \in Roots : at' = [at EXCEPT ![e].todo = @ \ {r}]
        BY <3>2
      <4> QED BY <2>1, <4>1, AtType DEF EditorStates
    <3> QED BY <2>4, <3>1, <3>2
  <2> QED BY <1>7, <2>3, <2>5 DEF UpdateRoots, TypeOK
<1>8. ASSUME NEW e \in Editors, Lookup(e) PROVE TypeOK'
  <2>1. Goto(e, "failed") \/ \E i \in Nat : at' = [at EXCEPT ![e].pc = "canvas", ![e].found = i]
    <3>1. sections \in Seq(Values \cup {Other})
      BY DEF TypeOK
    <3>2. DOMAIN sections \subseteq Nat /\ 0 \in Nat
      BY <3>1, LenProperties
    <3> QED BY <1>8, <3>2, Zenon DEF Lookup
  <2>2. at' \in [Editors -> EditorStates]
    <3>1. CASE Goto(e, "failed")
      BY <3>1, GotoType DEF Places
    <3>2. CASE \E i \in Nat : at' = [at EXCEPT ![e].pc = "canvas", ![e].found = i]
      <4>1. PICK i \in Nat : at' = [at EXCEPT ![e].pc = "canvas", ![e].found = i]
        BY <3>2
      <4>2. "canvas" \in Places
        BY DEF Places
      <4> QED BY <4>1, <4>2, AtType DEF EditorStates
    <3> QED BY <2>1, <3>1, <3>2
  <2> QED BY <1>8, <2>2 DEF Lookup, TypeOK
<1>9. ASSUME NEW e \in Editors, IndexCanvas(e) PROVE TypeOK'
  <2>1. e \in Values \cup {Other} /\ at[e].found \in Nat
    BY EditorAt DEF Values, EditorStates
  <2>2. sections' \in Seq(Values \cup {Other})
    <3>1. sections \in Seq(Values \cup {Other})
      BY DEF TypeOK
    <3>2. /\ [sections EXCEPT ![at[e].found] = e] \in Seq(Values \cup {Other})
          /\ Append(sections, e) \in Seq(Values \cup {Other})
      BY <2>1, <3>1, IndexedType
    <3> QED BY <1>9, <3>1, <3>2 DEF IndexCanvas
  <2>3. \E pc \in Places : Goto(e, pc)
    BY <1>9 DEF IndexCanvas, Places
  <2>4. at' \in [Editors -> EditorStates]
    BY <2>3, GotoType
  <2> QED BY <1>9, <2>2, <2>4 DEF IndexCanvas, TypeOK
<1>10. ASSUME NEW e \in Editors, IndexPrimary(e) PROVE TypeOK'
  <2>1. \E pc \in Places : Goto(e, pc)
    BY <1>10 DEF IndexPrimary, Places
  <2>2. at' \in [Editors -> EditorStates]
    BY <2>1, GotoType
  <2>3. primary' \in Values
    BY <1>10 DEF IndexPrimary, Values, TypeOK
  <2> QED BY <1>10, <2>2, <2>3 DEF IndexPrimary, TypeOK
<1>11. ASSUME NEW e \in Editors, Return(e) PROVE TypeOK'
  <2>1. at' \in [Editors -> EditorStates]
    BY <1>11, IdleType, EditorType DEF Return
  <2> QED BY <1>11, <2>1 DEF Return, TypeOK
<1>12. CASE Collect
  BY <1>12 DEF Collect, TypeOK
<1>13. CASE Post
  BY <1>13 DEF Post, Shown, Running, Messages, TypeOK
<1>14. CASE Retire
  <2>1. Renewed \in Messages
    BY DEF Messages
  <2>2. [posted |-> TRUE, latest |-> FALSE, group |-> NewBatch, own |-> NewBatch] \in Shown
    BY DEF Shown, Values
  <2>3. shown \in [Messages -> Shown]
    BY DEF TypeOK
  <2>4. shown' \in [Messages -> Shown]
    BY <1>14, <2>1, <2>2, <2>3 DEF Retire
  <2> QED BY <1>14, <2>4 DEF Retire, TypeOK
<1>15. CASE Finish
  BY <1>15 DEF Finish, Messages, TypeOK
<1>16. CASE UNCHANGED vars
  BY <1>16 DEF vars, TypeOK
<1> QED BY <1>1, <1>2, <1>3, <1>4, <1>5, <1>6, <1>7, <1>8, <1>9, <1>10, <1>11, <1>12, <1>13, <1>14, <1>15, <1>16
        DEF Next, Step

(* TypeOK holds of every state, for any editors and roots.                  *)
THEOREM EditsTypeCorrect == Spec => []TypeOK
BY TypeInit, TypeStep, PTL DEF Spec

-----------------------------------------------------------------------------

(* Why historical roots stay as they are.  A row never becomes latest again,*)
(* except the new root, once: so what is latest when an edit looks was      *)
(* latest when it was submitted.                                            *)
Fresh(e) ==
  /\ ~Running(e) => at[e].todo = {}
  /\ at[e].pc = "form" /\ at[e].msg = NewRoot => NewRoot \in latest
  /\ Running(e) => latest \ {NewRoot} \subseteq at[e].since
  /\ Running(e) /\ at[e].msg = NewRoot => NewRoot \in at[e].since
  /\ at[e].pc = "update" => at[e].msg \in at[e].since
  /\ at[e].todo \subseteq at[e].since

FreshInv == \A e \in Editors : Fresh(e)

LEMMA FreshInit == Init => FreshInv
<1> SUFFICES ASSUME Init, NEW e \in Editors PROVE Fresh(e)
  BY DEF FreshInv
<1>1. at[e] = Idle
  BY DEF Init
<1> QED BY <1>1 DEF Fresh, Running, Idle

(* A step of one editor leaves what the others know.                        *)
LEMMA FreshOthers ==
  ASSUME TypeOK, FreshInv, NEW e \in Editors, Fresh(e)', latest' = latest,
         \A g \in Editors \ {e} : at'[g] = at[g]
  PROVE  FreshInv'
BY DEF FreshInv, Fresh, Running

(* A handler goes on, to a message only if it is the latest.                *)
LEMMA FreshGoto ==
  ASSUME TypeOK, FreshInv, NEW e \in Editors, NEW pc \in Places \ {"idle", "form"},
         Running(e), Goto(e, pc), latest' = latest,
         pc = "update" => at[e].msg \in latest
  PROVE  FreshInv'
<1>1. /\ at'[e].pc = pc /\ at'[e].msg = at[e].msg
      /\ at'[e].todo = at[e].todo /\ at'[e].since = at[e].since
  BY DEF Goto, TypeOK, EditorStates
<1>2. Fresh(e)'
  BY <1>1 DEF FreshInv, Fresh, Running
<1> QED BY <1>2, FreshOthers DEF Goto, TypeOK

LEMMA FreshStep == TypeOK /\ FreshInv /\ [Next]_vars => FreshInv'
<1> SUFFICES ASSUME TypeOK, FreshInv, [Next]_vars PROVE FreshInv'
  OBVIOUS
<1> USE EditsAssumption
<1>1. ASSUME NEW e \in Editors, NEW m \in Messages, Open(e, m) PROVE FreshInv'
  <2>1. /\ at[e].pc = "idle" /\ latest' = latest
        /\ at' = at \/ (m \in latest /\ at' = [at EXCEPT ![e].pc = "form", ![e].msg = m])
    BY <1>1 DEF Open
  <2>2. Fresh(e)'
    <3>1. CASE at' = at
      BY <2>1, <3>1 DEF FreshInv, Fresh, Running
    <3>2. CASE m \in latest /\ at' = [at EXCEPT ![e].pc = "form", ![e].msg = m]
      <4>1. at'[e].pc = "form" /\ at'[e].msg = m /\ at'[e].todo = at[e].todo /\ at'[e].since = at[e].since
        BY <3>2 DEF TypeOK, EditorStates
      <4> QED BY <2>1, <3>2, <4>1 DEF FreshInv, Fresh, Running
    <3> QED BY <2>1, <3>1, <3>2
  <2> QED BY <2>1, <2>2, FreshOthers DEF TypeOK
<1>2. ASSUME NEW e \in Editors, Cancel(e) PROVE FreshInv'
  <2>1. Fresh(e)'
    BY <1>2 DEF Cancel, Fresh, Running, Idle, TypeOK
  <2> QED BY <1>2, <2>1, FreshOthers DEF Cancel, TypeOK
<1>3. ASSUME NEW e \in Editors, Submit(e) PROVE FreshInv'
  <2>1. Fresh(e)'
    BY <1>3 DEF Submit, FreshInv, Fresh, Running, TypeOK, EditorStates
  <2> QED BY <1>3, <2>1, FreshOthers DEF Submit, TypeOK
<1>4. ASSUME NEW e \in Editors, Check(e) PROVE FreshInv'
  <2>1. \E pc \in Places \ {"idle", "form"} : Goto(e, pc) /\ (pc = "update" => at[e].msg \in latest)
    BY <1>4 DEF Check, Places
  <2>2. Running(e) /\ latest' = latest
    BY <1>4 DEF Check, Running
  <2> QED BY <2>1, <2>2, FreshGoto
<1>5. ASSUME NEW e \in Editors, UpdateMessage(e) PROVE FreshInv'
  <2>1. \E pc \in Places \ {"idle", "form"} : Goto(e, pc) /\ (pc = "update" => at[e].msg \in latest)
    BY <1>5 DEF UpdateMessage, Places
  <2>2. Running(e) /\ latest' = latest
    BY <1>5 DEF UpdateMessage, Running
  <2> QED BY <2>1, <2>2, FreshGoto
<1>6. ASSUME NEW e \in Editors, ListRoots(e) PROVE FreshInv'
  <2>1. Fresh(e)'
    BY <1>6 DEF ListRoots, Goto, FreshInv, Fresh, Running, TypeOK, EditorStates
  <2> QED BY <1>6, <2>1, FreshOthers DEF ListRoots, Goto, TypeOK
<1>7. ASSUME NEW e \in Editors, UpdateRoots(e) PROVE FreshInv'
  <2>1. Running(e) /\ at[e].pc = "roots" /\ latest' = latest
    BY <1>7 DEF UpdateRoots, Running
  <2>2. \/ \E pc \in {"lookup", "failed"} : Goto(e, pc)
        \/ \E r \in at[e].todo : at' = [at EXCEPT ![e].todo = @ \ {r}]
    BY <1>7 DEF UpdateRoots
  <2>3. CASE \E pc \in {"lookup", "failed"} : Goto(e, pc)
    BY <2>1, <2>3, FreshGoto DEF Places
  <2>4. CASE \E r \in at[e].todo : at' = [at EXCEPT ![e].todo = @ \ {r}]
    <3>1. PICK r \in at[e].todo : at' = [at EXCEPT ![e].todo = @ \ {r}]
      BY <2>4
    <3>2. /\ at'[e].pc = at[e].pc /\ at'[e].msg = at[e].msg
          /\ at'[e].todo = at[e].todo \ {r} /\ at'[e].since = at[e].since
      BY <3>1 DEF TypeOK, EditorStates
    <3>3. Fresh(e)'
      BY <2>1, <3>2 DEF FreshInv, Fresh, Running
    <3> QED BY <2>1, <3>1, <3>3, FreshOthers DEF TypeOK
  <2> QED BY <2>2, <2>3, <2>4
<1>8. ASSUME NEW e \in Editors, Lookup(e) PROVE FreshInv'
  <2>1. Running(e) /\ latest' = latest
    BY <1>8 DEF Lookup, Running
  <2>2. \/ Goto(e, "failed")
        \/ \E i \in DOMAIN sections \cup {0} :
              at' = [at EXCEPT ![e].pc = "canvas", ![e].found = i]
    BY <1>8 DEF Lookup
  <2>3. CASE Goto(e, "failed")
    BY <2>1, <2>3, FreshGoto DEF Places
  <2>4. CASE \E i \in DOMAIN sections \cup {0} :
               at' = [at EXCEPT ![e].pc = "canvas", ![e].found = i]
    <3>1. PICK i \in DOMAIN sections \cup {0} :
                 at' = [at EXCEPT ![e].pc = "canvas", ![e].found = i]
      BY <2>4
    <3>2. /\ at'[e].pc = "canvas" /\ at'[e].msg = at[e].msg
          /\ at'[e].todo = at[e].todo /\ at'[e].since = at[e].since
      BY <3>1 DEF TypeOK, EditorStates
    <3>3. Fresh(e)'
      BY <2>1, <3>2 DEF FreshInv, Fresh, Running
    <3> QED BY <2>1, <3>1, <3>3, FreshOthers DEF TypeOK
  <2> QED BY <2>2, <2>3, <2>4
<1>9. ASSUME NEW e \in Editors, IndexCanvas(e) PROVE FreshInv'
  <2>1. \E pc \in Places \ {"idle", "form"} : Goto(e, pc) /\ (pc = "update" => at[e].msg \in latest)
    BY <1>9 DEF IndexCanvas, Places
  <2>2. Running(e) /\ latest' = latest
    BY <1>9 DEF IndexCanvas, Running
  <2> QED BY <2>1, <2>2, FreshGoto
<1>10. ASSUME NEW e \in Editors, IndexPrimary(e) PROVE FreshInv'
  <2>1. \E pc \in Places \ {"idle", "form"} : Goto(e, pc) /\ (pc = "update" => at[e].msg \in latest)
    BY <1>10 DEF IndexPrimary, Places
  <2>2. Running(e) /\ latest' = latest
    BY <1>10 DEF IndexPrimary, Running
  <2> QED BY <2>1, <2>2, FreshGoto
<1>11. ASSUME NEW e \in Editors, Return(e) PROVE FreshInv'
  <2>1. Fresh(e)'
    BY <1>11 DEF Return, Fresh, Running, Idle, TypeOK
  <2> QED BY <1>11, <2>1, FreshOthers DEF Return, TypeOK
<1>12. CASE Collect \/ Post \/ Retire \/ UNCHANGED vars
  BY <1>12 DEF Collect, Post, Retire, vars, FreshInv, Fresh, Running
<1>13. CASE Finish
  <2>1. latest' \ {NewRoot} \subseteq latest \ {NewRoot} /\ (NewRoot \in latest => NewRoot \in latest')
    BY <1>13 DEF Finish
  <2> QED BY <1>13, <2>1 DEF Finish, FreshInv, Fresh, Running
<1> QED BY <1>1, <1>2, <1>3, <1>4, <1>5, <1>6, <1>7, <1>8, <1>9, <1>10, <1>11, <1>12, <1>13
        DEF Next, Step

(* RetiredStaysRetired: a form submitted when a newer root is recorded      *)
(* never renders the old one again.                                         *)
THEOREM HistoricalRootsStay == Spec => RetiredStaysRetired
<1> DEFINE Kept(m) ==
      shown'[m] # shown[m] /\ batch = "committed" =>
        \E e \in Editors : at'[e] # at[e] /\ m \in at[e].since
<1>1. TypeOK /\ FreshInv /\ [Next]_vars => \A m \in Messages \ latest : Kept(m)
  <2> SUFFICES ASSUME TypeOK, FreshInv, [Next]_vars, NEW m \in Messages,
                      shown'[m] # shown[m], batch = "committed"
               PROVE  \E e \in Editors : at'[e] # at[e] /\ m \in at[e].since
    OBVIOUS
  <2>1. ASSUME NEW e \in Editors, UpdateMessage(e) PROVE at'[e] # at[e] /\ m \in at[e].since
    <3>1. m = at[e].msg
      BY <2>1 DEF UpdateMessage, TypeOK
    <3>2. at'[e].pc # at[e].pc
      BY <2>1 DEF UpdateMessage, Goto, TypeOK, EditorStates
    <3> QED BY <2>1, <3>1, <3>2 DEF UpdateMessage, FreshInv, Fresh
  <2>2. ASSUME NEW e \in Editors, UpdateRoots(e) PROVE at'[e] # at[e] /\ m \in at[e].since
    <3>1. m \in at[e].todo
      BY <2>2 DEF UpdateRoots, TypeOK
    <3>2. at'[e].pc # at[e].pc \/ at'[e].todo # at[e].todo
      BY <2>2 DEF UpdateRoots, Goto, TypeOK, EditorStates
    <3> QED BY <3>1, <3>2 DEF FreshInv, Fresh
  <2>3. ASSUME NEW e \in Editors, NEW n \in Messages,
               \/ Open(e, n) \/ Cancel(e) \/ Submit(e) \/ Check(e) \/ ListRoots(e) \/ Lookup(e)
               \/ IndexCanvas(e) \/ IndexPrimary(e) \/ Return(e)
        PROVE  FALSE
    BY <2>3 DEF Open, Cancel, Submit, Check, ListRoots, Lookup, IndexCanvas, IndexPrimary, Return
  <2>4. ~(Collect \/ Post \/ Retire \/ Finish \/ UNCHANGED vars)
    BY DEF Collect, Post, Retire, Finish, vars
  <2> QED BY <2>1, <2>2, <2>3, <2>4 DEF Next, Step, Messages
<1> QED BY <1>1, TypeInit, TypeStep, FreshInit, FreshStep, PTL DEF Spec, RetiredStaysRetired

-----------------------------------------------------------------------------

(* Why an edit that ends without an error is complete.  While nothing       *)
(* overlapped, one edit runs at a time, and none during the later batch: what the edit  *)
(* has written so far still shows.                                          *)
Shows(e, m) == shown[m].group = e /\ shown[m].latest

RootsShow(e) == \A r \in latest \cap Roots : Shows(e, r)

AfterSummary == {"flush", "roots", "lookup", "canvas", "primary"}
AfterRoots == {"lookup", "canvas", "primary"}

DoneSoFar(e) ==
  /\ at[e].pc \in AfterSummary => at[e].msg = Summary
  /\ at[e].msg = Summary /\ at[e].pc \in AfterSummary \cup {"done"} => Shows(e, Summary)
  /\ at[e].pc = "roots" => \A r \in (latest \cap Roots) \ at[e].todo : Shows(e, r)
  /\ at[e].msg = Summary /\ at[e].pc \in AfterRoots \cup {"done"} => RootsShow(e)
  /\ at[e].pc = "canvas" => at[e].found \in DOMAIN sections \/ (at[e].found = 0 /\ sections = <<>>)
  /\ at[e].msg = Summary /\ at[e].pc \in {"primary", "done"} => \E i \in DOMAIN sections : sections[i] = e
  /\ at[e].msg # Summary /\ at[e].pc = "done" => shown[at[e].msg].own = e /\ shown[at[e].msg].latest

Alone == \A e, g \in Editors : Running(e) /\ Running(g) => e = g

SoloInv ==
  ~overlapped =>
    /\ Alone
    /\ BatchRunning => \A e \in Editors : ~Running(e)
    /\ ~neighbour => Len(sections) <= 1
    /\ \A e \in Editors : DoneSoFar(e)

LEMMA SoloInit == Init => SoloInv
<1> SUFFICES ASSUME Init PROVE SoloInv
  OBVIOUS
<1>1. \A e \in Editors : at[e].pc = "idle"
  BY DEF Init, Idle
<1>2. \A e \in Editors : ~Running(e) /\ DoneSoFar(e)
  BY <1>1 DEF Running, DoneSoFar, AfterSummary, AfterRoots
<1>3. ASSUME ~neighbour PROVE Len(sections) <= 1
  <2>1. sections = <<>> \/ sections = <<OldBatch>>
    BY <1>3 DEF Init
  <2>2. CASE sections = <<>>
    BY <2>2
  <2>3. CASE sections = <<OldBatch>>
    BY <2>3
  <2> QED BY <2>1, <2>2, <2>3
<1> QED BY <1>2, <1>3 DEF SoloInv, Alone

(* While one editor runs alone, the others have nothing that could be       *)
(* disturbed.                                                               *)
LEMMA SoloOthers ==
  ASSUME TypeOK, SoloInv, NEW e \in Editors, Running(e), batch' = batch,
         ~overlapped => DoneSoFar(e)' /\ (~neighbour => Len(sections') <= 1),
         overlapped' = overlapped, neighbour' = neighbour,
         \A g \in Editors \ {e} : at'[g] = at[g]
  PROVE  SoloInv'
<1> SUFFICES ASSUME ~overlapped PROVE SoloInv'
  BY DEF SoloInv
<1>1. \A g \in Editors \ {e} : ~Running(g) /\ ~Running(g)'
  BY DEF SoloInv, Alone, Running
<1>2. \A g \in Editors \ {e} : DoneSoFar(g)'
  BY <1>1 DEF DoneSoFar, Running, AfterSummary, AfterRoots
<1>3. ~BatchRunning /\ ~BatchRunning'
  BY DEF SoloInv, BatchRunning
<1> QED BY <1>1, <1>2, <1>3 DEF SoloInv, Alone

LEMMA GoesOn ==
  ASSUME TypeOK, NEW e \in Editors, NEW pc, Goto(e, pc)
  PROVE  /\ at'[e].pc = pc /\ at'[e].msg = at[e].msg
         /\ at'[e].todo = at[e].todo /\ at'[e].found = at[e].found
         /\ \A g \in Editors \ {e} : at'[g] = at[g]
BY DEF Goto, TypeOK, EditorStates

(* Telling the user promises nothing.                                       *)
LEMMA ToldSoFar ==
  ASSUME TypeOK, NEW e \in Editors, Goto(e, "failed")
  PROVE  DoneSoFar(e)'
BY GoesOn DEF DoneSoFar, AfterSummary, AfterRoots

(* An edit writes one section: the one it found, or the first if there was  *)
(* none.                                                                    *)
Indexed(e) == IF at[e].found = 0 THEN Append(sections, e) ELSE [sections EXCEPT ![at[e].found] = e]

LEMMA IndexOnce ==
  ASSUME TypeOK, SoloInv, ~overlapped, NEW e \in Editors, IndexCanvas(e)
  PROVE  /\ \E i \in DOMAIN Indexed(e) : Indexed(e)[i] = e
         /\ ~neighbour => Len(Indexed(e)) <= 1
         /\ \A i \in DOMAIN Indexed(e) : i \notin DOMAIN sections \/ Indexed(e)[i] # sections[i] => Indexed(e)[i] = e
<1>1. /\ at[e].found \in DOMAIN sections \/ (at[e].found = 0 /\ sections = <<>>)
      /\ ~neighbour => Len(sections) <= 1
      /\ sections \in Seq(Values \cup {Other}) /\ e \in Values \cup {Other}
  BY DEF IndexCanvas, SoloInv, DoneSoFar, TypeOK, Values
<1>2. CASE at[e].found = 0 /\ sections = <<>>
  <2>1. Indexed(e) = <<e>>
    BY <1>2 DEF Indexed
  <2> QED BY <2>1
<1>3. CASE at[e].found \in DOMAIN sections
  <2>1. at[e].found # 0 /\ at[e].found \in 1..Len(sections)
    BY <1>1, <1>3, LenProperties
  <2>2. /\ Len(Indexed(e)) = Len(sections) /\ DOMAIN Indexed(e) = DOMAIN sections
        /\ Indexed(e)[at[e].found] = e
        /\ \A i \in DOMAIN sections \ {at[e].found} : Indexed(e)[i] = sections[i]
    BY <1>1, <2>1, ExceptSeq DEF Indexed
  <2> QED BY <1>1, <1>3, <2>2
<1> QED BY <1>1, <1>2, <1>3

LEMMA SoloStep == TypeOK /\ SoloInv /\ [Next]_vars => SoloInv'
<1> SUFFICES ASSUME TypeOK, SoloInv, [Next]_vars PROVE SoloInv'
  OBVIOUS
<1> USE EditsAssumption
<1>1. ASSUME NEW e \in Editors, \/ \E m \in Messages : Open(e, m)
                               \/ Cancel(e) \/ Return(e)
      PROVE  SoloInv'
  <2>1. ~Running(e)' /\ DoneSoFar(e)'
    BY <1>1 DEF Open, Cancel, Return, Idle, TypeOK, EditorStates, Running, DoneSoFar, AfterSummary, AfterRoots
  <2>2. \A g \in Editors \ {e} : at'[g] = at[g]
    BY <1>1 DEF Open, Cancel, Return, TypeOK
  <2>3. UNCHANGED <<shown, latest, batch, sections, neighbour, overlapped>>
    BY <1>1 DEF Open, Cancel, Return
  <2> QED BY <2>1, <2>2, <2>3 DEF SoloInv, Alone, Running, BatchRunning, DoneSoFar, Shows, RootsShow
<1>2. ASSUME NEW e \in Editors, Submit(e) PROVE SoloInv'
  <2> SUFFICES ASSUME ~overlapped' PROVE SoloInv'
    BY DEF SoloInv
  <2>1. ~overlapped /\ ~BatchRunning /\ \A g \in Editors : ~Running(g)
    BY <1>2 DEF Submit
  <2>2. at'[e].pc = "check" /\ \A g \in Editors \ {e} : at'[g] = at[g]
    BY <1>2 DEF Submit, TypeOK, EditorStates
  <2>3. UNCHANGED <<shown, latest, batch, sections, neighbour>>
    BY <1>2 DEF Submit
  <2>4. DoneSoFar(e)'
    BY <2>2 DEF DoneSoFar, AfterSummary, AfterRoots
  <2> QED BY <2>1, <2>2, <2>3, <2>4 DEF SoloInv, Alone, Running, BatchRunning, DoneSoFar, Shows, RootsShow
<1>3. ASSUME NEW e \in Editors, Check(e) PROVE SoloInv'
  <2>1. PICK pc \in {"update", "failed"} : Goto(e, pc)
    BY <1>3 DEF Check
  <2>2. DoneSoFar(e)'
    BY <2>1, GoesOn DEF DoneSoFar, AfterSummary, AfterRoots
  <2> QED BY <1>3, <2>1, <2>2, GoesOn, SoloOthers DEF Check, Running, SoloInv
<1>4. ASSUME NEW e \in Editors, UpdateMessage(e) PROVE SoloInv'
  <2>1. CASE Goto(e, "failed")
    BY <1>4, <2>1, ToldSoFar, GoesOn, SoloOthers DEF UpdateMessage, Running, SoloInv
  <2>2. CASE ~Goto(e, "failed")
    <3> DEFINE m == at[e].msg
               pc == IF m = Summary THEN "flush" ELSE "done"
    <3>1. shown' = [shown EXCEPT ![m] = Rendered(e, m)] /\ Goto(e, pc) /\ m \in Messages
      BY <1>4, <2>2 DEF UpdateMessage, TypeOK, EditorStates
    <3>2. shown'[m] = Rendered(e, m)
      BY <3>1 DEF TypeOK
    <3>3. IF m = Summary THEN Shows(e, Summary)' ELSE shown'[m].own = e /\ shown'[m].latest
      <4>1. CASE m = Summary
        BY <3>2, <4>1 DEF Rendered, Shows
      <4>2. CASE m # Summary
        BY <3>2, <4>2 DEF Rendered
      <4> QED BY <4>1, <4>2
    <3>4. DoneSoFar(e)'
      BY <3>1, <3>3, GoesOn DEF DoneSoFar, AfterSummary, AfterRoots
    <3> QED BY <1>4, <3>1, <3>4, GoesOn, SoloOthers DEF UpdateMessage, Running, SoloInv
  <2> QED BY <2>1, <2>2
<1>5. ASSUME NEW e \in Editors, ListRoots(e) PROVE SoloInv'
  <2>1. CASE Goto(e, "failed")
    BY <1>5, <2>1, ToldSoFar, GoesOn, SoloOthers DEF ListRoots, Running, SoloInv
  <2>2. CASE ~Goto(e, "failed")
    <3>1. /\ at'[e].pc = "roots" /\ at'[e].todo = latest \cap Roots /\ at'[e].msg = at[e].msg
          /\ \A g \in Editors \ {e} : at'[g] = at[g]
      BY <1>5, <2>2 DEF ListRoots, TypeOK, EditorStates
    <3>2. ~overlapped => DoneSoFar(e)'
      BY <1>5, <3>1 DEF ListRoots, SoloInv, DoneSoFar, Shows, AfterSummary, AfterRoots
    <3> QED BY <1>5, <3>1, <3>2, SoloOthers DEF ListRoots, Running, SoloInv
  <2> QED BY <2>1, <2>2
<1>6. ASSUME NEW e \in Editors, UpdateRoots(e) PROVE SoloInv'
  <2>1. CASE Goto(e, "failed")
    BY <1>6, <2>1, ToldSoFar, GoesOn, SoloOthers DEF UpdateRoots, Running, SoloInv
  <2>2. CASE at[e].todo = {} /\ Goto(e, "lookup") /\ UNCHANGED shown
    <3>1. ~overlapped => DoneSoFar(e)'
      BY <1>6, <2>2, GoesOn DEF UpdateRoots, SoloInv, DoneSoFar, Shows, RootsShow, AfterSummary, AfterRoots
    <3> QED BY <1>6, <2>2, <3>1, GoesOn, SoloOthers DEF UpdateRoots, Running, SoloInv
  <2>3. ASSUME NEW r \in at[e].todo, shown' = [shown EXCEPT ![r] = Rendered(e, r)],
               at' = [at EXCEPT ![e].todo = @ \ {r}]
        PROVE  SoloInv'
    <3>1. /\ at'[e].pc = at[e].pc /\ at'[e].msg = at[e].msg /\ at'[e].todo = at[e].todo \ {r}
          /\ \A g \in Editors \ {e} : at'[g] = at[g]
      BY <2>3 DEF TypeOK, EditorStates
    <3>2. r \in Roots /\ r \in Messages /\ Roots \subseteq Messages
      BY DEF TypeOK, EditorStates, Messages
    <3>3. /\ shown'[r] = Rendered(e, r)
          /\ \A m \in Messages \ {r} : shown'[m] = shown[m]
      BY <2>3, <3>2 DEF TypeOK
    <3>4. ~overlapped => DoneSoFar(e)'
      <4> SUFFICES ASSUME ~overlapped PROVE DoneSoFar(e)'
        OBVIOUS
      <4>1. at[e].pc = "roots" /\ DoneSoFar(e) /\ latest' = latest
        BY <1>6 DEF UpdateRoots, SoloInv
      <4>2. at[e].msg = Summary /\ Shows(e, Summary)
        BY <4>1 DEF DoneSoFar, AfterSummary
      <4>3. Shows(e, r)'
        BY <3>3, <4>2 DEF Shows, Rendered
      <4>4. Shows(e, Summary)'
        BY <3>2, <3>3, <4>2 DEF Shows, Messages
      <4>5. \A s \in (latest \cap Roots) \ at'[e].todo : Shows(e, s)'
        BY <3>1, <3>2, <3>3, <4>1, <4>3 DEF DoneSoFar, Shows
      <4> QED BY <3>1, <4>1, <4>2, <4>4, <4>5 DEF DoneSoFar, AfterSummary, AfterRoots
    <3> QED BY <1>6, <3>1, <3>4, SoloOthers DEF UpdateRoots, Running, SoloInv
  <2> QED BY <1>6, <2>1, <2>2, <2>3 DEF UpdateRoots
<1>7. ASSUME NEW e \in Editors, Lookup(e) PROVE SoloInv'
  <2>1. CASE Goto(e, "failed")
    BY <1>7, <2>1, ToldSoFar, GoesOn, SoloOthers DEF Lookup, Running, SoloInv
  <2>2. CASE ~Goto(e, "failed")
    <3>1. /\ at'[e].pc = "canvas" /\ at'[e].msg = at[e].msg
          /\ at'[e].found \in DOMAIN sections \/ (at'[e].found = 0 /\ sections = <<>>)
          /\ \A g \in Editors \ {e} : at'[g] = at[g]
      BY <1>7, <2>2 DEF Lookup, TypeOK, EditorStates
    <3>2. ~overlapped => DoneSoFar(e)'
      BY <1>7, <3>1 DEF Lookup, SoloInv, DoneSoFar, Shows, RootsShow, AfterSummary, AfterRoots
    <3> QED BY <1>7, <3>1, <3>2, SoloOthers DEF Lookup, Running, SoloInv
  <2> QED BY <2>1, <2>2
<1>8. ASSUME NEW e \in Editors, IndexCanvas(e) PROVE SoloInv'
  <2>1. UNCHANGED <<shown, latest, batch, neighbour, overlapped>> /\ Running(e) /\ at[e].pc = "canvas"
    BY <1>8 DEF IndexCanvas, Running
  <2>2. ~overlapped => (~neighbour => Len(Indexed(e)) <= 1 /\ Len(sections) <= 1)
    BY <1>8, IndexOnce DEF SoloInv
  <2>3. CASE Goto(e, "failed")
    <3>1. sections' \in {sections, Indexed(e)}
      BY <1>8 DEF IndexCanvas, Indexed
    <3>2. ~overlapped => (~neighbour => Len(sections') <= 1)
      BY <2>2, <3>1
    <3> QED BY <2>1, <2>3, <3>2, ToldSoFar, GoesOn, SoloOthers
  <2>4. CASE ~Goto(e, "failed")
    <3>1. sections' = Indexed(e) /\ Goto(e, "primary")
      BY <1>8, <2>4 DEF IndexCanvas, Indexed
    <3>2. at'[e].pc = "primary" /\ at'[e].msg = at[e].msg /\ \A g \in Editors \ {e} : at'[g] = at[g]
      BY <3>1, GoesOn
    <3>3. ~overlapped => \E i \in DOMAIN sections' : sections'[i] = e
      BY <1>8, <3>1, IndexOnce
    <3>4. ~overlapped => DoneSoFar(e)'
      BY <2>1, <3>2, <3>3 DEF SoloInv, DoneSoFar, Shows, RootsShow, AfterSummary, AfterRoots
    <3>5. ~overlapped => (~neighbour => Len(sections') <= 1)
      BY <2>2, <3>1
    <3> QED BY <2>1, <3>2, <3>4, <3>5, SoloOthers
  <2> QED BY <2>3, <2>4
<1>9. ASSUME NEW e \in Editors, IndexPrimary(e) PROVE SoloInv'
  <2>1. ~overlapped => DoneSoFar(e)'
    BY <1>9, GoesOn DEF IndexPrimary, SoloInv, DoneSoFar, Shows, RootsShow, AfterSummary, AfterRoots
  <2> QED BY <1>9, <2>1, GoesOn, SoloOthers DEF IndexPrimary, Running, SoloInv
<1>10. CASE Collect \/ UNCHANGED vars
  BY <1>10 DEF Collect, vars, SoloInv, Alone, Running, BatchRunning, DoneSoFar, Shows, RootsShow
<1>11. CASE Post \/ Retire \/ Finish
  <2> SUFFICES ASSUME ~overlapped' PROVE SoloInv'
    BY DEF SoloInv
  <2>1. ~overlapped /\ \A e \in Editors : ~Running(e)
    <3>1. CASE Post
      BY <3>1 DEF Post, TypeOK
    <3>2. CASE Retire \/ Finish
      BY <3>2 DEF Retire, Finish, SoloInv, BatchRunning
    <3> QED BY <1>11, <3>1, <3>2
  <2>2. at' = at /\ sections' = sections /\ neighbour' = neighbour
    BY <1>11 DEF Post, Retire, Finish
  <2>3. \A e \in Editors : ~Running(e)' /\ DoneSoFar(e)'
    BY <2>1, <2>2 DEF Running, DoneSoFar, AfterSummary, AfterRoots
  <2> QED BY <2>1, <2>2, <2>3 DEF SoloInv, Alone
<1> QED BY <1>1, <1>2, <1>3, <1>4, <1>5, <1>6, <1>7, <1>8, <1>9, <1>10, <1>11 DEF Next, Step

(* FinishedEditIsComplete: an edit that runs alone and ends without an      *)
(* error has updated everything it is about.                                *)
THEOREM FinishedMeansComplete == Spec => []FinishedEditIsComplete
<1>1. TypeOK /\ SoloInv => FinishedEditIsComplete
  BY DEF SoloInv, DoneSoFar, FinishedEditIsComplete, Shows, RootsShow, AfterSummary, AfterRoots
<1> QED BY <1>1, TypeInit, TypeStep, SoloInit, SoloStep, PTL DEF Spec

(* OneSection: an edit that runs alone finds the group's section whenever   *)
(* there is one and no other heading contains the title, also when the edit *)
(* before it failed after its effect.                                       *)
THEOREM GroupHasOneSection == Spec => []OneSection
<1>1. SoloInv => OneSection
  BY DEF SoloInv, OneSection
<1> QED BY <1>1, TypeInit, TypeStep, SoloInit, SoloStep, PTL DEF Spec

(* CanvasAfterRoots: a section is written only after every root.            *)
THEOREM CanvasFollowsRoots == Spec => CanvasAfterRoots
<1> DEFINE Follows(i) ==
      ~overlapped /\ (i \notin DOMAIN sections \/ sections'[i] # sections[i]) =>
        \A m \in latest \cap ({Summary} \cup Roots) : shown[m].group = sections'[i]
<1>1. TypeOK /\ SoloInv /\ [Next]_vars => \A i \in DOMAIN sections' : Follows(i)
  <2> SUFFICES ASSUME TypeOK, SoloInv, [Next]_vars, ~overlapped, NEW i \in DOMAIN sections',
                      i \notin DOMAIN sections \/ sections'[i] # sections[i]
               PROVE  \A m \in latest \cap ({Summary} \cup Roots) : shown[m].group = sections'[i]
    OBVIOUS
  <2>1. PICK e \in Editors : IndexCanvas(e)
    BY DEF Next, Step, vars, Open, Cancel, Submit, Check, UpdateMessage, ListRoots, UpdateRoots,
           Lookup, IndexPrimary, Return, Collect, Post, Retire, Finish
  <2>2. sections' = Indexed(e)
    BY <2>1 DEF IndexCanvas, Indexed
  <2>3. sections'[i] = e
    BY <2>1, <2>2, IndexOnce
  <2>4. Shows(e, Summary) /\ RootsShow(e)
    BY <2>1 DEF IndexCanvas, SoloInv, DoneSoFar, AfterSummary, AfterRoots
  <2> QED BY <2>3, <2>4 DEF Shows, RootsShow
<1> QED BY <1>1, TypeInit, TypeStep, SoloInit, SoloStep, PTL DEF Spec, CanvasAfterRoots
=============================================================================
