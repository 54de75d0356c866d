--------------------------- MODULE LambdaEnvProofs ---------------------------
(***************************************************************************)
(* What LambdaEnv guarantees for any number of scripts, variables, aliases *)
(* and retries.  The inductive invariant follows an edit through its       *)
(* steps: what its reading is worth, what its write has done to $LATEST,   *)
(* and what the version it published holds.                                *)
(***************************************************************************)
EXTENDS LambdaEnv, TLAPS

Env == [Keys -> {"absent", "old", "new"}]
Places == {"read", "check", "list", "update", "settle", "publish", "promote", "ok", "refused", "failed"}

TypeOK ==
  /\ latest \in Env /\ busy \in BOOLEAN /\ versions \in Seq(Env) /\ alias \in [Aliases -> Nat]
  /\ edit \in [Editors -> Edits] /\ pc \in [Editors -> Places] /\ tries \in [Editors -> Nat]
  /\ base \in [Editors -> Env] /\ todo \in [Editors -> SUBSET Aliases] /\ version \in [Editors -> Nat]
  /\ wrote \subseteq Editors /\ outdated \subseteq Editors /\ overrun \subseteq Editors

(* A try that has not come to its write has not written.                   *)
NotYet == \A e \in Editors : pc[e] \in {"read", "check", "list", "update", "refused"} => e \notin wrote

(* An editor's copy of the environment is $LATEST, unless another wrote.   *)
ReadingIsCurrent ==
  \A e \in Editors : pc[e] \in {"check", "list", "update"} /\ e \notin outdated => base[e] = latest

(* A removal that claims nothing goes on only where no alias is pinned.    *)
PlainIsUnpinned ==
  \A e \in Editors :
    Removes(e) /\ edit[e].mode = "plain" /\ e \notin overrun /\ pc[e] \in {"update", "settle"} => Pinned = {}

(* What a removal has written, $LATEST lacks until another writes.         *)
WriteHolds ==
  \A e \in Editors :
    Removes(e) /\ e \notin outdated /\ pc[e] \in {"settle", "publish"} =>
      \A k \in edit[e].keys : latest[k] = "absent"

(* The version an editor moves its aliases to lacks what it removed, and   *)
(* the aliases it is done with serve that version.                         *)
PublishedHolds ==
  \A e \in Editors : pc[e] = "promote" =>
    /\ version[e] \in 1..Len(versions) /\ todo[e] \subseteq edit[e].wanted
    /\ Removes(e) /\ e \notin outdated => \A k \in edit[e].keys : versions[version[e]][k] = "absent"
    /\ e \notin overrun => \A a \in edit[e].wanted \ todo[e] : alias[a] = version[e]

IInv ==
  /\ TypeOK
  /\ NotYet
  /\ ReadingIsCurrent
  /\ PlainIsUnpinned
  /\ WriteHolds
  /\ PublishedHolds

-----------------------------------------------------------------------------
(* What the claims of an edit allow.                                       *)
LEMMA EditFacts ==
  ASSUME edit \in [Editors -> Edits], NEW e \in Editors
  PROVE  /\ edit[e].kind \in {"merge", "remove"}
         /\ edit[e].keys \subseteq Keys
         /\ edit[e].mode \in Modes
         /\ edit[e].wanted \subseteq Aliases
         /\ edit[e].wanted # {} => edit[e].mode = "promote"
  BY EditsAssumption DEF EditIsValid

(* Where the steps of an edit lead.                                        *)
LEMMA AfterFacts ==
  ASSUME NEW e \in Editors
  PROVE  /\ Lists(e) => After("check", e) = "list"
         /\ ~ Lists(e) => After("check", e) = "update"
         /\ After("list", e) = "update"
         /\ After("update", e) = "settle"
  BY DEF After

(* An edit writes well-typed environments, and a removal writes its keys   *)
(* out.                                                                    *)
LEMMA EditedFacts ==
  ASSUME TypeOK, NEW e \in Editors
  PROVE  /\ Edited(e) \in Env
         /\ Removes(e) => \A k \in edit[e].keys : Edited(e)[k] = "absent"
         /\ \A k \in Keys \ edit[e].keys : Edited(e)[k] = base[e][k]
  BY EditFacts DEF TypeOK, Edited, Env

-----------------------------------------------------------------------------
LEMMA InitIInv == Init => IInv
<1> SUFFICES ASSUME Init PROVE IInv
  OBVIOUS
<1> USE DEF Init
<1>1. TypeOK
  <2>1. [k \in Keys |-> "old"] \in Env
    BY DEF Env
  <2>2. versions \in Seq(Env)
    BY <2>1
  <2>3. latest \in Env /\ base \in [Editors -> Env]
    BY DEF Env
  <2>4. pc \in [Editors -> Places] /\ alias \in [Aliases -> Nat]
    BY DEF Places
  <2>5. todo \in [Editors -> SUBSET Aliases] /\ tries \in [Editors -> Nat] /\ version \in [Editors -> Nat]
    OBVIOUS
  <2> QED
    BY <2>2, <2>3, <2>4, <2>5 DEF TypeOK
<1>2. NotYet /\ ReadingIsCurrent
  BY DEF NotYet, ReadingIsCurrent
<1>3. PlainIsUnpinned /\ WriteHolds /\ PublishedHolds
  BY DEF PlainIsUnpinned, WriteHolds, PublishedHolds
<1> QED
  BY <1>1, <1>2, <1>3 DEF IInv

-----------------------------------------------------------------------------
(* One lemma per action.                                                   *)

LEMMA ReadPreserves ==
  ASSUME IInv, NEW e \in Editors, Read(e)
  PROVE  IInv'
<1> USE DEF IInv, Read, Goto, function, Local
<1>1. TypeOK'
  BY DEF TypeOK, Places
<1>2. NotYet'
  BY DEF NotYet, TypeOK
<1>3. ReadingIsCurrent'
  BY DEF ReadingIsCurrent, TypeOK
<1>4. PlainIsUnpinned'
  BY DEF PlainIsUnpinned, TypeOK, Removes, Pinned
<1>5. WriteHolds'
  BY DEF WriteHolds, TypeOK, Removes
<1>6. PublishedHolds'
  BY DEF PublishedHolds, TypeOK, Removes
<1> QED
  BY <1>1, <1>2, <1>3, <1>4, <1>5, <1>6

LEMMA CheckPreserves ==
  ASSUME IInv, NEW e \in Editors, Check(e)
  PROVE  IInv'
<1> USE DEF IInv, Check, Goto, function, Local
<1>1. pc' \in {[pc EXCEPT ![e] = "list"], [pc EXCEPT ![e] = "update"], [pc EXCEPT ![e] = "refused"]}
  BY AfterFacts
<1>2. TypeOK'
  BY <1>1 DEF TypeOK, Places
<1>3. NotYet'
  BY <1>1 DEF NotYet, TypeOK
<1>4. ReadingIsCurrent'
  BY <1>1 DEF ReadingIsCurrent, TypeOK
<1>5. PlainIsUnpinned'
  <2>1. Removes(e) /\ edit[e].mode = "plain" => pc'[e] # "update"
    BY AfterFacts DEF Lists, TypeOK
  <2> QED
    BY <1>1, <2>1 DEF PlainIsUnpinned, TypeOK, Removes, Pinned
<1>6. WriteHolds'
  BY <1>1 DEF WriteHolds, TypeOK, Removes
<1>7. PublishedHolds'
  BY <1>1 DEF PublishedHolds, TypeOK, Removes
<1> QED
  BY <1>2, <1>3, <1>4, <1>5, <1>6, <1>7

LEMMA ListAliasesPreserves ==
  ASSUME IInv, NEW e \in Editors, ListAliases(e)
  PROVE  IInv'
<1> USE DEF IInv, ListAliases, Goto, function, Local
<1>1. pc' \in {[pc EXCEPT ![e] = "update"], [pc EXCEPT ![e] = "refused"]}
  BY AfterFacts
<1>2. TypeOK'
  BY <1>1 DEF TypeOK, Places
<1>3. NotYet'
  BY <1>1 DEF NotYet, TypeOK
<1>4. ReadingIsCurrent'
  BY <1>1 DEF ReadingIsCurrent, TypeOK
<1>5. PlainIsUnpinned'
  <2>1. edit[e].mode = "plain" /\ pc'[e] = "update" => Pinned = {}
    BY DEF TypeOK
  <2> QED
    BY <1>1, <2>1 DEF PlainIsUnpinned, TypeOK, Removes, Pinned
<1>6. WriteHolds'
  BY <1>1 DEF WriteHolds, TypeOK, Removes
<1>7. PublishedHolds'
  BY <1>1 DEF PublishedHolds, TypeOK, Removes
<1> QED
  BY <1>2, <1>3, <1>4, <1>5, <1>6, <1>7

LEMMA UpdatePreserves ==
  ASSUME IInv, NEW e \in Editors, Update(e)
  PROVE  IInv'
<1> USE DEF IInv, Update, Goto, function, Local
<1>1. pc' \in {[pc EXCEPT ![e] = "settle"], [pc EXCEPT ![e] = "failed"]}
  BY AfterFacts
<1>2. \A o \in Editors \ {e} : pc[o] \in Started => o \in outdated'
  BY DEF Crossed
<1>3. TypeOK'
  BY <1>1, EditedFacts DEF TypeOK, Places, Crossed
<1>4. NotYet'
  BY <1>1 DEF NotYet, TypeOK
<1>5. ReadingIsCurrent'
  BY <1>1, <1>2 DEF ReadingIsCurrent, TypeOK, Started
<1>6. PlainIsUnpinned'
  BY <1>1 DEF PlainIsUnpinned, TypeOK, Removes, Pinned
<1>7. WriteHolds'
  BY <1>1, <1>2, EditedFacts DEF WriteHolds, TypeOK, Removes, Started
<1>8. PublishedHolds'
  BY <1>1 DEF PublishedHolds, TypeOK, Removes
<1> QED
  BY <1>3, <1>4, <1>5, <1>6, <1>7, <1>8

LEMMA SettlePreserves ==
  ASSUME IInv, NEW e \in Editors, Settle(e)
  PROVE  IInv'
<1> USE DEF IInv, Settle, Goto, function, Local
<1>1. TypeOK'
  BY DEF TypeOK, Places
<1>2. NotYet'
  BY DEF NotYet, TypeOK
<1>3. ReadingIsCurrent'
  BY DEF ReadingIsCurrent, TypeOK
<1>4. PlainIsUnpinned'
  BY DEF PlainIsUnpinned, TypeOK, Removes, Pinned
<1>5. WriteHolds'
  BY DEF WriteHolds, TypeOK, Removes
<1>6. PublishedHolds'
  BY DEF PublishedHolds, TypeOK, Removes
<1> QED
  BY <1>1, <1>2, <1>3, <1>4, <1>5, <1>6

LEMMA PublishPreserves ==
  ASSUME IInv, NEW e \in Editors, Publish(e)
  PROVE  IInv'
<1> USE DEF IInv, Publish, Goto, Local, Snapshot
<1>1. TypeOK'
  BY EditFacts DEF TypeOK, Places
<1>2. NotYet'
  BY DEF NotYet, TypeOK
<1>3. ReadingIsCurrent'
  BY DEF ReadingIsCurrent, TypeOK
<1>4. PlainIsUnpinned'
  BY DEF PlainIsUnpinned, TypeOK, Removes, Pinned
<1>5. WriteHolds'
  BY DEF WriteHolds, TypeOK, Removes
<1>6. PublishedHolds'
  <2> SUFFICES ASSUME NEW o \in Editors, pc'[o] = "promote"
               PROVE  /\ version'[o] \in 1..Len(versions') /\ todo'[o] \subseteq edit[o].wanted
                      /\ Removes(o) /\ o \notin outdated =>
                           \A k \in edit[o].keys : versions'[version'[o]][k] = "absent"
                      /\ o \notin overrun => \A a \in edit[o].wanted \ todo'[o] : alias[a] = version'[o]
    BY DEF PublishedHolds, Removes
  <2>1. /\ Len(versions') = Len(versions) + 1
        /\ versions'[Len(versions) + 1] = latest
        /\ \A i \in 1..Len(versions) : versions'[i] = versions[i]
    BY DEF TypeOK
  <2>2. CASE o = e
    BY <2>1, <2>2 DEF TypeOK, WriteHolds
  <2>3. CASE o # e
    BY <2>1, <2>3 DEF TypeOK, PublishedHolds
  <2> QED
    BY <2>2, <2>3
<1> QED
  BY <1>1, <1>2, <1>3, <1>4, <1>5, <1>6

LEMMA MoveAliasPreserves ==
  ASSUME IInv, NEW e \in Editors, MoveAlias(e)
  PROVE  IInv'
<1> USE DEF IInv, MoveAlias, Goto, Local, PromotedVersion
<1>0. PICK a \in todo[e] :
        /\ alias' = [alias EXCEPT ![a] = version[e]] /\ todo' = [todo EXCEPT ![e] = @ \ {a}]
        /\ pc' \in {[pc EXCEPT ![e] = "promote"], [pc EXCEPT ![e] = "ok"]}
  OBVIOUS
<1>1. \A o \in Editors \ {e} : pc[o] \in Started => o \in overrun'
  BY DEF Crossed
<1>2. TypeOK'
  BY <1>0 DEF TypeOK, Places, Crossed
<1>3. NotYet'
  BY <1>0 DEF NotYet, TypeOK
<1>4. ReadingIsCurrent'
  BY <1>0 DEF ReadingIsCurrent, TypeOK
<1>5. PlainIsUnpinned'
  BY <1>0, <1>1 DEF PlainIsUnpinned, TypeOK, Removes, Started
<1>6. WriteHolds'
  BY <1>0 DEF WriteHolds, TypeOK, Removes
<1>7. PublishedHolds'
  <2> SUFFICES ASSUME NEW o \in Editors, pc'[o] = "promote"
               PROVE  /\ version[o] \in 1..Len(versions) /\ todo'[o] \subseteq edit[o].wanted
                      /\ Removes(o) /\ o \notin outdated =>
                           \A k \in edit[o].keys : versions[version[o]][k] = "absent"
                      /\ o \notin overrun' => \A b \in edit[o].wanted \ todo'[o] : alias'[b] = version[o]
    BY DEF PublishedHolds, Removes
  <2>1. pc[o] = "promote"
    BY <1>0 DEF TypeOK
  <2>2. o \notin overrun' => o = e /\ o \notin overrun
    BY <1>1, <2>1 DEF Started
  <2>3. \A b \in edit[e].wanted \ todo'[e] : b = a \/ b \in edit[e].wanted \ todo[e]
    BY <1>0 DEF TypeOK
  <2>4. a \in Aliases /\ edit[e].wanted \subseteq Aliases
    BY EditFacts DEF TypeOK
  <2>5. o \notin overrun' => \A b \in edit[o].wanted \ todo'[o] : alias'[b] = version[o]
    BY <1>0, <2>1, <2>2, <2>3, <2>4 DEF PublishedHolds, TypeOK
  <2>6. todo'[o] \subseteq todo[o]
    BY <1>0 DEF TypeOK
  <2> QED
    BY <2>1, <2>5, <2>6 DEF PublishedHolds
<1> QED
  BY <1>2, <1>3, <1>4, <1>5, <1>6, <1>7

LEMMA CallFailsPreserves ==
  ASSUME IInv, NEW e \in Editors, CallFails(e)
  PROVE  IInv'
<1> USE DEF IInv, CallFails, Goto, function, Local
<1>1. TypeOK'
  BY DEF TypeOK, Places
<1>2. NotYet'
  BY DEF NotYet, TypeOK
<1>3. ReadingIsCurrent'
  BY DEF ReadingIsCurrent, TypeOK
<1>4. PlainIsUnpinned'
  BY DEF PlainIsUnpinned, TypeOK, Removes, Pinned
<1>5. WriteHolds'
  BY DEF WriteHolds, TypeOK, Removes
<1>6. PublishedHolds'
  BY DEF PublishedHolds, TypeOK, Removes
<1> QED
  BY <1>1, <1>2, <1>3, <1>4, <1>5, <1>6

LEMMA AgainPreserves ==
  ASSUME IInv, NEW e \in Editors, Again(e)
  PROVE  IInv'
<1> USE DEF IInv, Again, Goto, function
<1>1. TypeOK'
  BY DEF TypeOK, Places
<1>2. NotYet'
  BY DEF NotYet, TypeOK
<1>3. ReadingIsCurrent'
  BY DEF ReadingIsCurrent, TypeOK
<1>4. PlainIsUnpinned'
  BY DEF PlainIsUnpinned, TypeOK, Removes, Pinned
<1>5. WriteHolds'
  BY DEF WriteHolds, TypeOK, Removes
<1>6. PublishedHolds'
  BY DEF PublishedHolds, TypeOK, Removes
<1> QED
  BY <1>1, <1>2, <1>3, <1>4, <1>5, <1>6

(* No part of the invariant reads busy.                                    *)
LEMMA IdlePreserves ==
  ASSUME IInv, FunctionUpdated \/ UNCHANGED vars
  PROVE  IInv'
<1> USE DEF IInv, FunctionUpdated, vars, function
<1>1. TypeOK'
  BY DEF TypeOK
<1>2. NotYet' /\ ReadingIsCurrent'
  BY DEF NotYet, ReadingIsCurrent
<1>3. PlainIsUnpinned'
  BY DEF PlainIsUnpinned, Removes, Pinned
<1>4. WriteHolds' /\ PublishedHolds'
  BY DEF WriteHolds, PublishedHolds, Removes
<1> QED
  BY <1>1, <1>2, <1>3, <1>4

LEMMA StepPreserves == IInv /\ [Next]_vars => IInv'
<1> SUFFICES ASSUME IInv, [Next]_vars PROVE IInv'
  OBVIOUS
<1>1. CASE \E e \in Editors : Read(e)
  BY <1>1, ReadPreserves
<1>2. CASE \E e \in Editors : Check(e)
  BY <1>2, CheckPreserves
<1>3. CASE \E e \in Editors : ListAliases(e)
  BY <1>3, ListAliasesPreserves
<1>4. CASE \E e \in Editors : Update(e)
  BY <1>4, UpdatePreserves
<1>5. CASE \E e \in Editors : Settle(e)
  BY <1>5, SettlePreserves
<1>6. CASE \E e \in Editors : Publish(e)
  BY <1>6, PublishPreserves
<1>7. CASE \E e \in Editors : MoveAlias(e)
  BY <1>7, MoveAliasPreserves
<1>8. CASE \E e \in Editors : CallFails(e)
  BY <1>8, CallFailsPreserves
<1>9. CASE \E e \in Editors : Again(e)
  BY <1>9, AgainPreserves
<1>10. CASE FunctionUpdated \/ UNCHANGED vars
  BY <1>10, IdlePreserves
<1> QED
  BY <1>1, <1>2, <1>3, <1>4, <1>5, <1>6, <1>7, <1>8, <1>9, <1>10 DEF Next

-----------------------------------------------------------------------------
(* The inductive invariant holds in every behaviour of the scripts.        *)
THEOREM EnvInvariant == Spec => []IInv
  BY InitIInv, StepPreserves, PTL DEF Spec

(* A removal that remove_lambda_environment_keys refuses has not written.  *)
THEOREM RefusalsAreFree == Spec => []RefusalIsFree
<1>1. IInv => RefusalIsFree
  BY DEF IInv, NotYet, RefusalIsFree
<1> QED
  BY <1>1, EnvInvariant, PTL

(* A write is one script's own update, made from its own reading.          *)
LEMMA WriteStep ==
  ASSUME IInv, [Next]_vars, NEW e \in Editors, Writer(e)
  PROVE  Update(e)
  BY DEF Next, vars, function, Writer, Read, Check, ListAliases, Update, Settle, Publish, MoveAlias, CallFails,
         Again, FunctionUpdated, Local

(* An edit leaves the variables it does not name as they are, unless       *)
(* another script wrote since its reading (merge_lambda_environment,       *)
(* remove_lambda_environment_keys).                                        *)
THEOREM OtherVariablesSurvive == Spec => OthersSurvive
<1>1. IInv /\ [Next]_vars =>
        [\A e \in Editors : Writer(e) /\ e \notin outdated =>
           \A k \in Keys \ edit[e].keys : latest'[k] = latest[k]]_vars
  <2> SUFFICES ASSUME IInv, [Next]_vars, NEW e \in Editors, Writer(e), e \notin outdated,
                      NEW k \in Keys \ edit[e].keys
               PROVE  latest'[k] = latest[k]
    OBVIOUS
  <2>1. Update(e)
    BY WriteStep
  <2>2. base[e] = latest
    BY <2>1 DEF IInv, ReadingIsCurrent, Update
  <2>3. latest' = Edited(e)
    BY <2>1 DEF Update
  <2> QED
    BY <2>2, <2>3, EditedFacts DEF IInv
<1> QED
  BY <1>1, EnvInvariant, PTL DEF Spec, OthersSurvive

(* A try ends well when it has settled without aliases to move, or when it *)
(* moves the last of them.                                                 *)
LEMMA SuccessStep ==
  ASSUME IInv, [Next]_vars, NEW e \in Editors, pc[e] # "ok", pc'[e] = "ok"
  PROVE  \/ Settle(e) /\ edit[e].wanted = {}
         \/ MoveAlias(e) /\ \E a \in todo[e] : todo[e] = {a} /\ alias' = [alias EXCEPT ![a] = version[e]]
<1> USE DEF IInv, TypeOK, Goto
<1>1. ASSUME NEW o \in Editors, Read(o) \/ CallFails(o) \/ Again(o) \/ Publish(o) PROVE FALSE
  BY <1>1 DEF Read, CallFails, Again, Publish
<1>2. ASSUME NEW o \in Editors, Check(o) \/ ListAliases(o) \/ Update(o) PROVE FALSE
  BY <1>2, AfterFacts DEF Check, ListAliases, Update
<1>3. ASSUME NEW o \in Editors, Settle(o) PROVE o = e /\ edit[e].wanted = {}
  BY <1>3 DEF Settle
<1>4. ASSUME NEW o \in Editors, MoveAlias(o)
      PROVE  o = e /\ \E a \in todo[e] : todo[e] = {a} /\ alias' = [alias EXCEPT ![a] = version[e]]
  BY <1>4 DEF MoveAlias, PromotedVersion
<1>5. ~ (FunctionUpdated \/ UNCHANGED vars)
  BY DEF FunctionUpdated, vars
<1> QED
  BY <1>1, <1>2, <1>3, <1>4, <1>5 DEF Next

(* A removal that succeeds has reached the traffic of the aliases it       *)
(* answers for, those of the first page where it names none, whatever      *)
(* failed before it, unless another script wrote or moved an alias         *)
(* meanwhile, or promote_aliases was given empty                           *)
(* (remove_lambda_environment_keys).                                       *)
THEOREM RemovalsReachTraffic == Spec => SuccessReachesTraffic
<1>1. IInv /\ [Next]_vars =>
        [\A e \in Editors :
           /\ Removes(e) /\ pc[e] # "ok" /\ pc'[e] = "ok"
           /\ e \notin outdated \cup overrun /\ ~ PromotesNone(e)
           => Gone(e)']_vars
  <2> SUFFICES ASSUME IInv, [Next]_vars, NEW e \in Editors, Removes(e), pc[e] # "ok", pc'[e] = "ok",
                      e \notin outdated, e \notin overrun, ~ PromotesNone(e)
               PROVE  Gone(e)'
    OBVIOUS
  <2> USE EditFacts DEF IInv, TypeOK
  <2>1. CASE Settle(e) /\ edit[e].wanted = {}
    <3>1. edit' = edit /\ latest' = latest /\ alias' = alias
      BY <2>1 DEF Settle, Local, function
    <3>2. \A k \in edit[e].keys : latest[k] = "absent"
      BY <2>1 DEF Settle, WriteHolds
    <3>3. edit[e].mode = "plain" => \A a \in FirstPage : alias[a] = 0
      BY <2>1 DEF Settle, PlainIsUnpinned, Pinned
    <3>4. edit[e].mode = "plain" \/ Claims(e)
      BY <2>1 DEF Claims, PromotesNone, Modes
    <3>5. Claims(e)' = Claims(e) /\ (edit[e].mode = "plain" => ~ Claims(e))
      BY <3>1 DEF Claims
    <3> QED
      BY <2>1, <3>1, <3>2, <3>3, <3>4, <3>5 DEF Gone, Reached, Serves
  <2>2. CASE MoveAlias(e) /\ \E a \in todo[e] : todo[e] = {a} /\ alias' = [alias EXCEPT ![a] = version[e]]
    <3>1. edit' = edit /\ versions' = versions /\ pc[e] = "promote"
      BY <2>2 DEF MoveAlias, Local
    <3>2. PICK a \in todo[e] : todo[e] = {a} /\ alias' = [alias EXCEPT ![a] = version[e]]
      BY <2>2
    <3>3. /\ version[e] # 0
          /\ \A k \in edit[e].keys : versions[version[e]][k] = "absent"
          /\ \A b \in edit[e].wanted \ todo[e] : alias[b] = version[e]
          /\ todo[e] \subseteq edit[e].wanted
      BY <3>1 DEF PublishedHolds
    <3>5. edit[e].wanted # {}
      BY <3>2, <3>3
    <3>4. \A b \in edit[e].wanted : alias'[b] = version[e]
      BY <3>2, <3>3
    <3> QED
      BY <3>1, <3>3, <3>4, <3>5 DEF Gone, Reached, Serves
  <2> QED
    BY <2>1, <2>2, SuccessStep
<1> QED
  BY <1>1, EnvInvariant, PTL DEF Spec, SuccessReachesTraffic
=============================================================================
