-------------------------- MODULE CloseGate_proofs --------------------------
(* Proofs about module CloseGate, for every set of criteria, authors, commits, *)
(* worktrees and definitions, and all bounds.                                 *)
EXTENDS CloseGate, FiniteSetTheorems, SequenceTheorems, WellFoundedInduction, TLAPS

-----------------------------------------------------------------------------
(* A non-empty set of positions of a sequence has a last one, so the row that *)
(* _latest picks exists.                                                      *)
LEMMA LastExists ==
  ASSUME NEW N \in Nat, NEW S \in SUBSET (1 .. N), S # {}
  PROVE  \E n \in S : \A m \in S : m <= n
<1> DEFINE R == {ss \in Nat \X Nat : ss[1] < ss[2]}
           T == {N - n : n \in S}
<1>1. IsWellFoundedOn(R, Nat)
  BY NatLessThanWellFounded DEF OpToRel
<1>2. \A n \in S : n \in Nat /\ N - n \in Nat
  OBVIOUS
<1>3. T \subseteq Nat
  BY <1>2
<1>4. T # {}
  OBVIOUS
<1>5. PICK x \in T : \A y \in T : <<y, x>> \notin R
  <2> HIDE DEF R, T
  <2> QED
    BY <1>1, <1>3, <1>4, WFMin
<1>6. PICK n \in S : x = N - n
  OBVIOUS
<1>7. ASSUME NEW m \in S PROVE m <= n
  <2>1. <<N - m, N - n>> \notin R
    BY <1>5, <1>6
  <2>2. <<N - m, N - n>> \in Nat \X Nat
    BY <1>2
  <2>3. ~(N - m < N - n)
    BY <2>1, <2>2
  <2> QED
    BY <1>2, <2>3
<1> QED
  BY <1>7

LEMMA LatestIsLast ==
  ASSUME NEW ev, NEW N \in Nat, NEW S \in SUBSET (1 .. N), S # {}
  PROVE  /\ Latest(ev, S) \in S
         /\ \A m \in S : m <= Latest(ev, S)
BY LastExists DEF Latest

-----------------------------------------------------------------------------
(* An action that leaves rows and revisions alone, or lets revisions only     *)
(* grow, keeps the evidence in order.                                         *)
LEMMA EvidenceStays ==
  ASSUME Types, Types', EvidenceFits, UNCHANGED evidence,
         \A c \in Crits : rev[c] <= rev'[c]
  PROVE  EvidenceFits'
<1>1. \A n \in DOMAIN evidence : /\ evidence[n].crit \in Crits
                                 /\ evidence[n].rev \in Nat
  <2>1. evidence \in Seq(Row)
    BY DEF Types
  <2>2. \A n \in DOMAIN evidence : evidence[n] \in Row
    BY <2>1
  <2> QED
    BY <2>2, GateBounds DEF Row
<1>2. \A c \in Crits : rev[c] \in Nat /\ rev'[c] \in Nat
  BY GateBounds DEF Types
<1> QED
  BY <1>1, <1>2 DEF EvidenceFits

(* The rows of the contract, and what a criterion's row may become.           *)
LEMMA UpdateRowTypes ==
  ASSUME Types, NEW c \in Crits, crit[c].life = "open"
  PROVE  /\ crit[c].def \in Definitions
         /\ crit[c].def.inv \in Invs
         /\ [crit EXCEPT ![c].life = "deleted"]
              \in [Crits -> {NoRow} \cup [life : {"open", "deleted"}, def : Definitions]]
         /\ \A def \in Definitions : [crit EXCEPT ![c].def = def]
              \in [Crits -> {NoRow} \cup [life : {"open", "deleted"}, def : Definitions]]
<1>1. crit[c] \in [life : {"open", "deleted"}, def : Definitions]
  BY DEF Types, NoRow
<1> QED
  BY <1>1, DefinitionAssumption DEF Types

LEMMA UpdateInvariantTypes ==
  ASSUME Types, NEW i \in Invs
  PROVE  /\ \A risk \in {"low", "high"} : [inv EXCEPT ![i] = [life |-> "open", risk |-> risk]]
              \in [Invs -> {NoRow} \cup [life : {"open", "deleted"}, risk : {"low", "high"}]]
         /\ inv[i].life = "open" =>
              /\ [inv EXCEPT ![i].life = "deleted"]
                   \in [Invs -> {NoRow} \cup [life : {"open", "deleted"}, risk : {"low", "high"}]]
              /\ \A risk \in {"low", "high"} : [inv EXCEPT ![i].risk = risk]
                   \in [Invs -> {NoRow} \cup [life : {"open", "deleted"}, risk : {"low", "high"}]]
<1>1. inv[i].life = "open" => inv[i] \in [life : {"open", "deleted"}, risk : {"low", "high"}]
  BY DEF Types, NoRow
<1> QED
  BY <1>1 DEF Types

LEMMA TypesStep ==
  ASSUME GateTypeOK, [Next]_vars
  PROVE  Types'
<1> USE GateBounds DEF Free, Idle, NoRow, contract
<1>1. ASSUME NEW i \in Invs, NEW risk \in {"low", "high"},
             CreateInvariant(i, risk) \/ UpdateInvariant(i, risk)
      PROVE  Types'
  <2>1. inv' \in [Invs -> {NoRow} \cup [life : {"open", "deleted"}, risk : {"low", "high"}]]
    <3>1. CASE CreateInvariant(i, risk)
      BY <3>1, UpdateInvariantTypes DEF CreateInvariant, GateTypeOK
    <3>2. CASE UpdateInvariant(i, risk)
      BY <3>2, UpdateInvariantTypes DEF UpdateInvariant, GateTypeOK
    <3> QED
      BY <1>1, <3>1, <3>2
  <2> QED
    BY <1>1, <2>1 DEF CreateInvariant, UpdateInvariant, GateTypeOK, Types
<1>2. ASSUME NEW i \in Invs, DeleteInvariant(i)
      PROVE  Types'
  <2>1. inv' \in [Invs -> {NoRow} \cup [life : {"open", "deleted"}, risk : {"low", "high"}]]
    BY <1>2, UpdateInvariantTypes DEF DeleteInvariant, GateTypeOK
  <2>2. crit' \in [Crits -> {NoRow} \cup [life : {"open", "deleted"}, def : Definitions]]
    BY <1>2, UpdateRowTypes DEF DeleteInvariant, GateTypeOK, Types
  <2>3. rev' \in [Crits -> 0 .. MaxRev]
    BY <1>2 DEF DeleteInvariant, GateTypeOK, Types
  <2> QED
    BY <1>2, <2>1, <2>2, <2>3 DEF DeleteInvariant, GateTypeOK, Types
<1>3. ASSUME NEW c \in Crits, NEW def \in Definitions, CreateCriterion(c, def)
      PROVE  Types'
  <2>1. crit' \in [Crits -> {NoRow} \cup [life : {"open", "deleted"}, def : Definitions]]
    BY <1>3 DEF CreateCriterion, GateTypeOK, Types
  <2> QED
    BY <1>3, <2>1 DEF CreateCriterion, GateTypeOK, Types
<1>4. ASSUME NEW c \in Crits, NEW def \in Definitions, NEW waited \in BOOLEAN,
             UpdateCriterion(c, def, waited)
      PROVE  Types'
  <2>1. crit' \in [Crits -> {NoRow} \cup [life : {"open", "deleted"}, def : Definitions]]
    BY <1>4, UpdateRowTypes DEF UpdateCriterion, GateTypeOK
  <2>2. RevAfter(c, waited) \in 0 .. MaxRev
    BY <1>4 DEF UpdateCriterion, RevAfter, GateTypeOK, Types
  <2>3. rev' \in [Crits -> 0 .. MaxRev] /\ begun' \in [Crits -> 0 .. MaxRev]
    BY <1>4, <2>2 DEF UpdateCriterion, GateTypeOK, Types
  <2> QED
    BY <1>4, <2>1, <2>3 DEF UpdateCriterion, GateTypeOK, Types
<1>5. ASSUME NEW c \in Crits, BeginUpdate(c)
      PROVE  Types'
  BY <1>5 DEF BeginUpdate, GateTypeOK, Types
<1>6. ASSUME NEW c \in Crits, DeleteCriterion(c)
      PROVE  Types'
  <2>1. crit' \in [Crits -> {NoRow} \cup [life : {"open", "deleted"}, def : Definitions]]
    BY <1>6, UpdateRowTypes DEF DeleteCriterion, GateTypeOK
  <2>2. rev' \in [Crits -> 0 .. MaxRev]
    BY <1>6 DEF DeleteCriterion, GateTypeOK, Types
  <2> QED
    BY <1>6, <2>1, <2>2 DEF DeleteCriterion, GateTypeOK, Types
<1>7. ASSUME NEW c \in Crits, NEW kind \in Kinds, RecordRead(c, kind)
      PROVE  Types'
  BY <1>7 DEF RecordRead, GateTypeOK, Types
<1>8. ASSUME RecordLock
      PROVE  Types'
  BY <1>8 DEF RecordLock, Heads, GateTypeOK, Types
<1>9. ASSUME NEW a \in Authors, NEW passed \in BOOLEAN, NEW commit \in Commits,
             NEW fp \in Trees, NEW scoped \in BOOLEAN,
             RecordEvidence(a, passed, commit, fp, scoped)
      PROVE  Types'
  <2>1. tx.crit \in Crits /\ tx.kind \in Kinds
    BY <1>9 DEF RecordEvidence, GateTypeOK, Types
  <2>2. rev[tx.crit] \in 1 .. MaxRev /\ crit[tx.crit] # NoRow
    BY <1>9, <2>1 DEF RecordEvidence, GateTypeOK, Types, RowsFit, RequestsFit
  <2>3. crit[tx.crit].def \in Definitions
    BY <2>1, <2>2 DEF GateTypeOK, Types
  <2>4. PICK dirty \in BOOLEAN : evidence' = Append(evidence,
                 [crit |-> tx.crit, rev |-> rev[tx.crit], kind |-> tx.kind, passed |-> passed,
                  commit |-> commit, fp |-> fp, verified |-> dirty,
                  by |-> a, scoped |-> scoped, of |-> crit[tx.crit].def])
    BY <1>9 DEF RecordEvidence
  <2>5. evidence' \in Seq(Row)
    BY <2>1, <2>2, <2>3, <2>4 DEF Row, GateTypeOK, Types
  <2> QED
    BY <1>9, <2>5 DEF RecordEvidence, GateTypeOK, Types
<1>10. ASSUME NEW i \in Invs, FlagRead(i)
      PROVE  Types'
  BY <1>10 DEF FlagRead, GateTypeOK, Types
<1>11. ASSUME Flag
      PROVE  Types'
  BY <1>10, <1>11 DEF Flag, AddViolation, ResolveViolation, GateTypeOK, Types
<1>12. ASSUME BeginClose
      PROVE  Types'
  BY <1>12 DEF BeginClose, Heads, GateTypeOK, Types
<1>13. ASSUME EvaluateGate
      PROVE  Types'
  BY <1>13 DEF EvaluateGate, GateTypeOK, Types
<1>14. ASSUME CommitDone \/ Reopen \/ PatchEntry
      PROVE  Types'
  BY <1>14 DEF CommitDone, Reopen, PatchEntry, GateTypeOK, Types
<1>15. ASSUME Abort
      PROVE  Types'
  BY <1>15 DEF Abort, GateTypeOK, Types
<1>16. ASSUME MoveRepo
      PROVE  Types'
  BY <1>16 DEF MoveRepo, GateTypeOK, Types
<1>17. CASE UNCHANGED vars
  BY <1>17 DEF vars, GateTypeOK, Types
<1> QED
  BY <1>1, <1>2, <1>3, <1>4, <1>5, <1>6, <1>7, <1>8, <1>9, <1>11, <1>12, <1>13, <1>14,
     <1>15, <1>16, <1>17 DEF Next, EditContract, Record, Close

(* A criterion's latest revision never gets smaller.                          *)
LEMMA RevisionsGrow ==
  ASSUME GateTypeOK, [Next]_vars
  PROVE  \A c \in Crits : rev[c] <= rev'[c]
<1> USE GateBounds DEF contract
<1>1. rev \in [Crits -> Nat]
  BY DEF GateTypeOK, Types
<1>2. ASSUME NEW i \in Invs, DeleteInvariant(i)
      PROVE  \A c \in Crits : rev[c] <= rev'[c]
  BY <1>1, <1>2 DEF DeleteInvariant
<1>3. ASSUME NEW d \in Crits, NEW def \in Definitions, CreateCriterion(d, def)
      PROVE  \A c \in Crits : rev[c] <= rev'[c]
  <2>1. rev[d] = 0
    BY <1>3 DEF CreateCriterion, GateTypeOK, Types, RowsFit
  <2> QED
    BY <1>1, <1>3, <2>1 DEF CreateCriterion
<1>4. ASSUME NEW d \in Crits, NEW def \in Definitions, NEW waited \in BOOLEAN,
             UpdateCriterion(d, def, waited)
      PROVE  \A c \in Crits : rev[c] <= rev'[c]
  BY <1>1, <1>4 DEF UpdateCriterion, RevAfter
<1>5. ASSUME NEW d \in Crits, DeleteCriterion(d)
      PROVE  \A c \in Crits : rev[c] <= rev'[c]
  BY <1>1, <1>5 DEF DeleteCriterion
<1>6. ASSUME UNCHANGED rev
      PROVE  \A c \in Crits : rev[c] <= rev'[c]
  BY <1>1, <1>6
<1>7. ASSUME NEW i \in Invs, NEW risk \in {"low", "high"},
             CreateInvariant(i, risk) \/ UpdateInvariant(i, risk)
      PROVE  UNCHANGED rev
  BY <1>7 DEF CreateInvariant, UpdateInvariant
<1>8. ASSUME NEW d \in Crits, BeginUpdate(d)
      PROVE  UNCHANGED rev
  BY <1>8 DEF BeginUpdate
<1>9. Record \/ Flag \/ Close \/ Abort \/ MoveRepo \/ UNCHANGED vars => UNCHANGED rev
  BY DEF Record, RecordRead, RecordLock, RecordEvidence, Flag, FlagRead, AddViolation,
         ResolveViolation, Close, BeginClose, EvaluateGate, CommitDone, Reopen, PatchEntry,
         Abort, MoveRepo, vars
<1> QED
  BY <1>2, <1>3, <1>4, <1>5, <1>6, <1>7, <1>8, <1>9 DEF Next, EditContract

LEMMA RowsFitStep ==
  ASSUME GateTypeOK, [Next]_vars
  PROVE  RowsFit'
<1> USE GateBounds, DefinitionAssumption DEF contract
<1>0. /\ rev \in [Crits -> Nat] /\ begun \in [Crits -> Nat]
      /\ \A c \in Crits : crit[c].life = "open" => crit[c].def.inv \in Invs
  <2>1. \A c \in Crits : crit[c].life = "open" => crit[c].def.inv \in Invs
    BY UpdateRowTypes DEF GateTypeOK
  <2> QED
    BY <2>1 DEF GateTypeOK, Types
<1>1. ASSUME NEW i \in Invs, NEW risk \in {"low", "high"},
             CreateInvariant(i, risk) \/ UpdateInvariant(i, risk)
      PROVE  RowsFit'
  <2>1. \A j \in Invs : inv[j].life = "open" => inv'[j].life = "open"
    <3>1. inv[i].life = "open" => inv[i] \in [life : {"open", "deleted"}, risk : {"low", "high"}]
      BY DEF GateTypeOK, Types, NoRow
    <3>2. CASE CreateInvariant(i, risk)
      BY <3>2 DEF CreateInvariant, GateTypeOK, Types
    <3>3. CASE UpdateInvariant(i, risk)
      BY <3>1, <3>3 DEF UpdateInvariant, GateTypeOK, Types
    <3> QED
      BY <1>1, <3>2, <3>3
  <2> QED
    BY <1>0, <1>1, <2>1 DEF CreateInvariant, UpdateInvariant, GateTypeOK, RowsFit
<1>2. ASSUME NEW i \in Invs, DeleteInvariant(i)
      PROVE  RowsFit'
  BY <1>0, <1>2 DEF DeleteInvariant, GateTypeOK, Types, RowsFit, NoRow
<1>3. ASSUME NEW d \in Crits, NEW def \in Definitions, CreateCriterion(d, def)
      PROVE  RowsFit'
  BY <1>0, <1>3 DEF CreateCriterion, GateTypeOK, Types, RowsFit, NoRow
<1>4. ASSUME NEW d \in Crits, NEW def \in Definitions, NEW waited \in BOOLEAN,
             UpdateCriterion(d, def, waited)
      PROVE  RowsFit'
  BY <1>0, <1>4 DEF UpdateCriterion, RevAfter, GateTypeOK, Types, RowsFit, NoRow
<1>5. ASSUME NEW d \in Crits, DeleteCriterion(d)
      PROVE  RowsFit'
  BY <1>0, <1>5 DEF DeleteCriterion, GateTypeOK, Types, RowsFit, NoRow
<1>6. ASSUME NEW d \in Crits, BeginUpdate(d)
      PROVE  RowsFit'
  BY <1>0, <1>6 DEF BeginUpdate, GateTypeOK, RowsFit
<1>7. ASSUME Abort
      PROVE  RowsFit'
  BY <1>0, <1>7 DEF Abort, GateTypeOK, RowsFit
<1>8. Record \/ Flag \/ Close \/ MoveRepo \/ UNCHANGED vars => UNCHANGED <<inv, crit, rev, begun>>
  BY DEF Record, RecordRead, RecordLock, RecordEvidence, Flag, FlagRead, AddViolation,
         ResolveViolation, Close, BeginClose, EvaluateGate, CommitDone, Reopen, PatchEntry,
         MoveRepo, vars
<1>9. UNCHANGED <<inv, crit, rev, begun>> => RowsFit'
  BY DEF GateTypeOK, RowsFit
<1> QED
  BY <1>1, <1>2, <1>3, <1>4, <1>5, <1>6, <1>7, <1>8, <1>9 DEF Next, EditContract

LEMMA RequestsFitStep ==
  ASSUME GateTypeOK, [Next]_vars
  PROVE  RequestsFit'
<1>1. rev \in [Crits -> Nat] /\ rev' \in [Crits -> Nat]
  BY TypesStep, GateBounds DEF GateTypeOK, Types
<1>2. \A c \in Crits : rev[c] > 0 => rev'[c] > 0
  BY <1>1, RevisionsGrow
<1>3. ASSUME NEW c \in Crits, NEW kind \in Kinds, RecordRead(c, kind)
      PROVE  RequestsFit'
  BY <1>1, <1>2, <1>3 DEF RecordRead, GateTypeOK, Types, RowsFit, RequestsFit, contract, NoRow
<1>4. ASSUME RecordLock
      PROVE  RequestsFit'
  BY <1>4, <1>1, <1>2 DEF RecordLock, GateTypeOK, Types, RequestsFit, contract, Idle
<1>5. reading' \in {reading, Idle} /\ tx' \in {tx, Idle} => RequestsFit'
  BY <1>2 DEF GateTypeOK, Types, RequestsFit, Idle
<1>6. ASSUME NEW i \in Invs, FlagRead(i)
      PROVE  RequestsFit'
  BY <1>2, <1>6 DEF FlagRead, GateTypeOK, Types, RequestsFit, Idle
<1>7. ASSUME BeginClose \/ EvaluateGate
      PROVE  RequestsFit'
  BY <1>2, <1>7 DEF BeginClose, EvaluateGate, GateTypeOK, Types, RequestsFit, Idle
<1>8. EditContract => UNCHANGED <<reading, tx>>
  BY DEF EditContract, CreateInvariant, UpdateInvariant, DeleteInvariant, CreateCriterion,
         UpdateCriterion, BeginUpdate, DeleteCriterion
<1>9. \/ \E a \in Authors, passed \in BOOLEAN, commit \in Commits, fp \in Trees,
           scoped \in BOOLEAN : RecordEvidence(a, passed, commit, fp, scoped)
      \/ \E blocking \in BOOLEAN : AddViolation(blocking)
      \/ \E n \in DOMAIN violations : ResolveViolation(n)
      \/ CommitDone \/ Reopen \/ PatchEntry \/ Abort \/ MoveRepo \/ UNCHANGED vars
      => reading' \in {reading, Idle} /\ tx' \in {tx, Idle}
  BY DEF RecordEvidence, AddViolation, ResolveViolation, CommitDone, Reopen, PatchEntry,
         Abort, MoveRepo, vars
<1> QED
  BY <1>3, <1>4, <1>5, <1>6, <1>7, <1>8, <1>9 DEF Next, Record, Flag, Close

LEMMA EvidenceFitsStep ==
  ASSUME GateTypeOK, [Next]_vars
  PROVE  EvidenceFits'
<1>1. Types /\ Types' /\ EvidenceFits /\ \A c \in Crits : rev[c] <= rev'[c]
  BY TypesStep, RevisionsGrow DEF GateTypeOK
<1>2. ASSUME NEW a \in Authors, NEW passed \in BOOLEAN, NEW commit \in Commits,
             NEW fp \in Trees, NEW scoped \in BOOLEAN,
             RecordEvidence(a, passed, commit, fp, scoped)
      PROVE  EvidenceFits'
  <2>1. UNCHANGED rev
    BY <1>2 DEF RecordEvidence, contract
  <2>2. evidence \in Seq(Row) /\ rev \in [Crits -> Nat] /\ tx.crit \in Crits
    <3>1. tx.op = "record"
      BY <1>2 DEF RecordEvidence
    <3>2. tx.crit \in Crits
      BY <1>1, <3>1 DEF Types, Idle
    <3> QED
      BY <1>1, <3>2, GateBounds DEF Types
  <2>3. \A n \in DOMAIN evidence : evidence[n].crit \in Crits /\ evidence[n].rev \in Nat
    <3>1. \A n \in DOMAIN evidence : evidence[n] \in Row
      BY <2>2
    <3> QED
      BY <3>1, GateBounds DEF Row
  <2>4. PICK e : /\ evidence' = Append(evidence, e)
                 /\ e.crit = tx.crit /\ e.rev = rev[tx.crit]
    BY <1>2 DEF RecordEvidence
  <2>5. /\ DOMAIN evidence = 1 .. Len(evidence) /\ Len(evidence) \in Nat
        /\ DOMAIN evidence' = 1 .. Len(evidence) + 1
        /\ evidence'[Len(evidence) + 1] = e
        /\ \A n \in DOMAIN evidence : evidence'[n] = evidence[n]
    BY <2>2, <2>4
  <2>6. ASSUME NEW n \in DOMAIN evidence'
        PROVE  evidence'[n].rev <= rev[evidence'[n].crit]
    BY <1>1, <2>2, <2>4, <2>5 DEF EvidenceFits
  <2>7. ASSUME NEW n \in DOMAIN evidence', NEW m \in DOMAIN evidence', m < n,
               evidence'[m].crit = evidence'[n].crit
        PROVE  evidence'[m].rev <= evidence'[n].rev
    <3>1. m \in DOMAIN evidence
      BY <2>5, <2>7
    <3>2. CASE n \in DOMAIN evidence
      BY <1>1, <2>5, <2>7, <3>1, <3>2 DEF EvidenceFits
    <3>3. CASE n = Len(evidence) + 1
      BY <1>1, <2>4, <2>5, <2>7, <3>1, <3>3 DEF EvidenceFits
    <3> QED
      BY <2>5, <3>2, <3>3
  <2> QED
    BY <2>1, <2>6, <2>7 DEF EvidenceFits
<1>3. ASSUME UNCHANGED evidence
      PROVE  EvidenceFits'
  BY <1>1, <1>3, EvidenceStays
<1>4. EditContract \/ RecordLock \/ Flag \/ Close \/ Abort \/ MoveRepo \/ UNCHANGED vars
      => UNCHANGED evidence
  BY DEF EditContract, CreateInvariant, UpdateInvariant, DeleteInvariant, CreateCriterion,
         UpdateCriterion, BeginUpdate, DeleteCriterion, RecordLock, Flag, FlagRead,
         AddViolation, ResolveViolation, Close, BeginClose, EvaluateGate, CommitDone, Reopen,
         PatchEntry, Abort, MoveRepo, vars
<1>5. ASSUME NEW c \in Crits, NEW kind \in Kinds, RecordRead(c, kind)
      PROVE  UNCHANGED evidence
  BY <1>5 DEF RecordRead
<1> QED
  BY <1>2, <1>3, <1>4, <1>5 DEF Next, Record

LEMMA GateTypeInit == Init => GateTypeOK
<1> SUFFICES ASSUME Init PROVE GateTypeOK
  OBVIOUS
<1>1. Types
  <2>1. /\ evidence = <<>> /\ rev = [c \in Crits |-> 0] /\ begun = [c \in Crits |-> 0]
        /\ repo \in [head : Commits, tree : {Clean}]
    BY DEF Init
  <2>2. evidence \in Seq(Row) /\ rev \in [Crits -> 0 .. MaxRev] /\ begun \in [Crits -> 0 .. MaxRev]
        /\ repo \in [head : Commits, tree : Trees]
    BY <2>1, GateBounds, KindAssumption
  <2> QED
    BY <2>2 DEF Init, Types
<1>2. RowsFit /\ RequestsFit /\ EvidenceFits
  BY DEF Init, RowsFit, RequestsFit, EvidenceFits, NoRow, Idle
<1> QED
  BY <1>1, <1>2 DEF GateTypeOK

LEMMA GateTypeStep == GateTypeOK /\ [Next]_vars => GateTypeOK'
BY TypesStep, RowsFitStep, RequestsFitStep, EvidenceFitsStep DEF GateTypeOK

(* Rows, revisions, requests and evidence keep their types and fit together   *)
(* through every step of every request (pcs.requirements).                    *)
THEOREM GateTypeCorrect == Spec => []GateTypeOK
BY GateTypeInit, GateTypeStep, PTL DEF Spec

-----------------------------------------------------------------------------
(* What list_evidence shows is what the gate decides.                         *)

LEMMA EvidenceTypes ==
  ASSUME GateTypeOK
  PROVE  /\ Len(evidence) \in Nat
         /\ DOMAIN evidence = 1 .. Len(evidence)
         /\ \A n \in DOMAIN evidence : /\ evidence[n].crit \in Crits
                                       /\ evidence[n].rev \in 1 .. MaxRev
<1>1. evidence \in Seq(Row)
  BY DEF GateTypeOK, Types
<1>2. \A n \in DOMAIN evidence : evidence[n] \in Row
  BY <1>1
<1> QED
  BY <1>1, <1>2 DEF Row

(* A row that counts as verified is the last of its kind for the present      *)
(* revision.                                                                  *)
LEMMA VerifiedIsLatest ==
  ASSUME GateTypeOK, NEW c, NEW kind, NEW head, NEW tree,
         NEW n \in RowsOf(evidence, c, kind, rev),
         Lifecycle(evidence, n, rev, head, tree) = "verified"
  PROVE  Latest(evidence, RowsOf(evidence, c, kind, rev)) = n
<1> DEFINE S == RowsOf(evidence, c, kind, rev)
<1>1. Len(evidence) \in Nat /\ S \subseteq 1 .. Len(evidence)
  BY EvidenceTypes DEF RowsOf
<1>2. \A m \in S : m <= n
  <2>1. ~Superseded(evidence, n, rev)
    BY DEF Lifecycle
  <2> QED
    BY <1>1, <2>1 DEF Superseded, RowsOf
<1>3. Latest(evidence, S) \in S /\ \A m \in S : m <= Latest(evidence, S)
  BY <1>1, LatestIsLast
<1> QED
  BY <1>1, <1>2, <1>3

(* The row that makes a kind stand.                                           *)
LEMMA StandingRow ==
  ASSUME GateTypeOK, NEW c, NEW kind, NEW head, NEW tree,
         Stands(evidence, RowsOf(evidence, c, kind, rev), rev, head, tree)
  PROVE  LET n == Latest(evidence, RowsOf(evidence, c, kind, rev))
         IN  /\ n \in DOMAIN evidence
             /\ evidence[n].crit = c /\ evidence[n].kind = kind /\ evidence[n].rev = rev[c]
             /\ evidence[n].passed
             /\ Lifecycle(evidence, n, rev, head, tree) = "verified"
             /\ evidence[n].verified /\ evidence[n].commit = head
             /\ \A m \in n + 1 .. Len(evidence) :
                   <<evidence[m].crit, evidence[m].kind>> # <<c, kind>>
<1> DEFINE S == RowsOf(evidence, c, kind, rev)
           n == Latest(evidence, S)
<1>1. Len(evidence) \in Nat /\ DOMAIN evidence = 1 .. Len(evidence)
      /\ S \subseteq 1 .. Len(evidence)
  BY EvidenceTypes DEF RowsOf
<1>2. S # {} /\ evidence[n].passed /\ Lifecycle(evidence, n, rev, head, tree) = "verified"
  BY DEF Stands
<1>3. n \in S /\ \A m \in S : m <= n
  BY <1>1, <1>2, LatestIsLast
<1>4. n \in DOMAIN evidence /\ evidence[n].crit = c /\ evidence[n].kind = kind
      /\ evidence[n].rev = rev[c]
  BY <1>3 DEF RowsOf
<1>5. evidence[n].verified /\ evidence[n].commit = head
  BY <1>2 DEF Lifecycle, Stale
<1>6. ASSUME NEW m \in n + 1 .. Len(evidence), evidence[m].crit = c, evidence[m].kind = kind
      PROVE  FALSE
  <2>1. m \in DOMAIN evidence /\ n < m
    BY <1>1, <1>4
  <2>2. evidence[m].rev <= rev[c] /\ evidence[n].rev <= evidence[m].rev
    BY <1>4, <1>6, <2>1 DEF GateTypeOK, EvidenceFits
  <2>3. evidence[m].rev = rev[c]
    BY <1>4, <2>1, <2>2, EvidenceTypes
  <2> QED
    <3>1. m \in S
      BY <1>6, <2>1, <2>3 DEF RowsOf
    <3>2. m <= n /\ m \in Nat /\ n \in Nat
      BY <1>1, <1>3, <3>1
    <3> HIDE DEF n
    <3> QED
      BY <2>1, <3>2
<1> HIDE DEF n
<1>7. \A m \in n + 1 .. Len(evidence) : <<evidence[m].crit, evidence[m].kind>> # <<c, kind>>
  BY <1>6
<1> QED
  BY <1>2, <1>4, <1>5, <1>7 DEF n

(* What list_evidence shows and what the gate decides agree, for every ledger *)
(* the service can write, and every HEAD and worktree.                        *)
LEMMA AgreementHolds == GateTypeOK => LedgerAgreesWithGate
<1> SUFFICES ASSUME GateTypeOK, NEW head \in Commits, NEW tree \in Trees,
                    NEW c \in Required(crit, inv), ~ReviewRequired(c, crit, inv)
             PROVE  CriterionMet(c, crit, inv, rev, evidence, head, tree) <=>
                      \E n \in DOMAIN evidence :
                          /\ evidence[n].crit = c /\ evidence[n].kind = crit[c].def.kind
                          /\ evidence[n].passed
                          /\ Lifecycle(evidence, n, rev, head, tree) = "verified"
  BY DEF LedgerAgreesWithGate
<1> DEFINE S == RowsOf(evidence, c, crit[c].def.kind, rev)
<1>1. CriterionMet(c, crit, inv, rev, evidence, head, tree) <=> Stands(evidence, S, rev, head, tree)
  BY DEF CriterionMet
<1>2. ASSUME Stands(evidence, S, rev, head, tree)
      PROVE  \E n \in DOMAIN evidence :
                 /\ evidence[n].crit = c /\ evidence[n].kind = crit[c].def.kind
                 /\ evidence[n].passed
                 /\ Lifecycle(evidence, n, rev, head, tree) = "verified"
  BY <1>2, StandingRow
<1>3. ASSUME NEW n \in DOMAIN evidence,
             evidence[n].crit = c, evidence[n].kind = crit[c].def.kind, evidence[n].passed,
             Lifecycle(evidence, n, rev, head, tree) = "verified"
      PROVE  Stands(evidence, S, rev, head, tree)
  <2>1. n \in S
    BY <1>3 DEF RowsOf, Lifecycle
  <2>2. Latest(evidence, S) = n
    BY <1>3, <2>1, VerifiedIsLatest
  <2> QED
    BY <1>3, <2>1, <2>2 DEF Stands
<1> QED
  BY <1>1, <1>2, <1>3

(* What list_evidence shows and what the gate decides agree: a criterion      *)
(* shown with a passed, verified row never blocks, one without always does.   *)
THEOREM LedgerAgreement == Spec => []LedgerAgreesWithGate
BY GateTypeCorrect, AgreementHolds, PTL

-----------------------------------------------------------------------------
(* An update that is not overtaken appends the largest revision there is, so   *)
(* every row of a revision that is the latest because of it is for the        *)
(* present definition.                                                        *)

Fresh == GateTypeOK /\ StaleUnlessOvertaken

LEMMA FreshInit == Init => Fresh
BY GateTypeInit DEF Init, Fresh, StaleUnlessOvertaken

LEMMA StaleStep ==
  ASSUME Fresh, [Next]_vars
  PROVE  StaleUnlessOvertaken'
<1> USE DEF contract
<1>0. /\ rev \in [Crits -> 0 .. MaxRev] /\ MaxRev \in Nat
      /\ \A c \in Crits : crit[c].life = "none" => rev[c] = 0
      /\ DOMAIN crit = Crits
      /\ \A n \in DOMAIN evidence : /\ evidence[n].crit \in Crits
                                    /\ evidence[n].rev \in 1 .. MaxRev
                                    /\ evidence[n].rev <= rev[evidence[n].crit]
  BY GateBounds, EvidenceTypes DEF Fresh, GateTypeOK, Types, RowsFit, EvidenceFits, NoRow
(* A criterion is overtaken, keeps its definition, or gets a revision that no  *)
(* evidence names.                                                            *)
<1>1. ASSUME UNCHANGED evidence,
             \A c \in Crits : crit'[c].life = "open" /\ c \notin overtaken' =>
                 \/ /\ crit[c].life = "open" /\ crit'[c].def = crit[c].def /\ rev'[c] = rev[c]
                    /\ c \notin overtaken
                 \/ rev'[c] = rev[c] + 1
      PROVE  StaleUnlessOvertaken'
  <2> SUFFICES ASSUME NEW n \in DOMAIN evidence,
                      crit'[evidence[n].crit].life = "open",
                      evidence[n].rev = rev'[evidence[n].crit],
                      evidence[n].crit \notin overtaken'
               PROVE  evidence[n].of = crit'[evidence[n].crit].def
    BY <1>1 DEF StaleUnlessOvertaken
  <2>1. rev'[evidence[n].crit] # rev[evidence[n].crit] + 1
    BY <1>0
  <2> QED
    BY <1>0, <1>1, <2>1 DEF Fresh, StaleUnlessOvertaken
<1>2. ASSUME NEW i \in Invs, DeleteInvariant(i)
      PROVE  StaleUnlessOvertaken'
  <2>1. ASSUME NEW c \in Crits, crit'[c].life = "open"
        PROVE  crit[c].life = "open" /\ crit'[c].def = crit[c].def /\ rev'[c] = rev[c]
    <3>1. CASE crit[c].life = "open" /\ crit[c].def.inv = i
      <4>1. crit[c] \in [life : {"open", "deleted"}, def : Definitions]
        BY <3>1 DEF Fresh, GateTypeOK, Types, NoRow
      <4> QED
        BY <1>2, <2>1, <3>1, <4>1 DEF DeleteInvariant
    <3>2. CASE ~(crit[c].life = "open" /\ crit[c].def.inv = i)
      BY <1>0, <1>2, <2>1, <3>2 DEF DeleteInvariant
    <3> QED
      BY <3>1, <3>2
  <2>2. UNCHANGED <<evidence, overtaken>>
    BY <1>2 DEF DeleteInvariant
  <2> QED
    BY <1>1, <2>1, <2>2
<1>3. ASSUME NEW d \in Crits, NEW def \in Definitions, CreateCriterion(d, def)
      PROVE  StaleUnlessOvertaken'
  <2>1. rev'[d] = rev[d] + 1
    BY <1>0, <1>3 DEF CreateCriterion
  <2>2. \A c \in Crits \ {d} : crit'[c] = crit[c] /\ rev'[c] = rev[c]
    BY <1>0, <1>3 DEF CreateCriterion
  <2>3. UNCHANGED <<evidence, overtaken>>
    BY <1>3 DEF CreateCriterion
  <2> QED
    BY <1>1, <2>1, <2>2, <2>3
<1>4. ASSUME NEW d \in Crits, NEW def \in Definitions, NEW waited \in BOOLEAN,
             UpdateCriterion(d, def, waited)
      PROVE  StaleUnlessOvertaken'
  <2>1. CASE Overtaken(d, waited)
    <3>1. overtaken' = overtaken \cup {d}
      BY <1>4, <2>1 DEF UpdateCriterion
    <3>2. \A c \in Crits \ {d} : crit'[c] = crit[c] /\ rev'[c] = rev[c]
      BY <1>0, <1>4 DEF UpdateCriterion
    <3>3. UNCHANGED evidence
      BY <1>4 DEF UpdateCriterion
    <3>4. ASSUME NEW c \in Crits, c \notin overtaken'
          PROVE  c \in Crits \ {d} /\ c \notin overtaken
      BY <3>1, <3>4
    <3>5. \A c \in Crits : crit'[c].life = "open" /\ c \notin overtaken' =>
             /\ crit[c].life = "open" /\ crit'[c].def = crit[c].def /\ rev'[c] = rev[c]
             /\ c \notin overtaken
      BY <3>2, <3>4
    <3> QED
      BY <1>1, <3>3, <3>5
  <2>2. CASE ~Overtaken(d, waited)
    <3>1. rev'[d] = rev[d] + 1
      BY <1>0, <1>4, <2>2 DEF UpdateCriterion, RevAfter
    <3>2. \A c \in Crits \ {d} : /\ crit'[c] = crit[c] /\ rev'[c] = rev[c]
                                /\ (c \notin overtaken' => c \notin overtaken)
      BY <1>0, <1>4, <2>2 DEF UpdateCriterion
    <3>3. UNCHANGED evidence
      BY <1>4 DEF UpdateCriterion
    <3>4. \A c \in Crits : crit'[c].life = "open" /\ c \notin overtaken' =>
             \/ /\ crit[c].life = "open" /\ crit'[c].def = crit[c].def /\ rev'[c] = rev[c]
                /\ c \notin overtaken
             \/ rev'[c] = rev[c] + 1
      BY <3>1, <3>2
    <3> QED
      BY <1>1, <3>3, <3>4
  <2> QED
    BY <2>1, <2>2
<1>5. ASSUME NEW d \in Crits, DeleteCriterion(d)
      PROVE  StaleUnlessOvertaken'
  <2>1. rev'[d] = rev[d] + 1
    BY <1>0, <1>5 DEF DeleteCriterion
  <2>2. \A c \in Crits \ {d} : crit'[c] = crit[c] /\ rev'[c] = rev[c]
    BY <1>0, <1>5 DEF DeleteCriterion
  <2>3. UNCHANGED <<evidence, overtaken>>
    BY <1>5 DEF DeleteCriterion
  <2> QED
    BY <1>1, <2>1, <2>2, <2>3
<1>6. ASSUME NEW a \in Authors, NEW passed \in BOOLEAN, NEW commit \in Commits,
             NEW fp \in Trees, NEW scoped \in BOOLEAN,
             RecordEvidence(a, passed, commit, fp, scoped)
      PROVE  StaleUnlessOvertaken'
  <2>1. PICK e : /\ evidence' = Append(evidence, e)
                 /\ e.crit = tx.crit /\ e.of = crit[tx.crit].def
    BY <1>6 DEF RecordEvidence
  <2>2. UNCHANGED <<crit, rev, overtaken>>
    BY <1>6 DEF RecordEvidence
  <2>3. evidence \in Seq(Row)
    BY DEF Fresh, GateTypeOK, Types
  <2>4. /\ DOMAIN evidence' = 1 .. Len(evidence) + 1 /\ Len(evidence) \in Nat
        /\ DOMAIN evidence = 1 .. Len(evidence)
        /\ evidence'[Len(evidence) + 1] = e
        /\ \A n \in DOMAIN evidence : evidence'[n] = evidence[n]
    BY <2>1, <2>3
  <2> SUFFICES ASSUME NEW n \in DOMAIN evidence',
                      crit[evidence'[n].crit].life = "open",
                      evidence'[n].rev = rev[evidence'[n].crit],
                      evidence'[n].crit \notin overtaken
               PROVE  evidence'[n].of = crit[evidence'[n].crit].def
    BY <2>2 DEF StaleUnlessOvertaken
  <2>5. CASE n = Len(evidence) + 1
    BY <2>1, <2>4, <2>5
  <2>6. CASE n \in DOMAIN evidence
    BY <2>4, <2>6 DEF Fresh, StaleUnlessOvertaken
  <2> QED
    BY <2>4, <2>5, <2>6
<1>7. ASSUME NEW i \in Invs, NEW risk \in {"low", "high"},
             CreateInvariant(i, risk) \/ UpdateInvariant(i, risk)
      PROVE  UNCHANGED <<crit, rev, evidence, overtaken>>
  BY <1>7 DEF CreateInvariant, UpdateInvariant
<1>8. ASSUME NEW d \in Crits, BeginUpdate(d)
      PROVE  UNCHANGED <<crit, rev, evidence, overtaken>>
  BY <1>8 DEF BeginUpdate
<1>9. ASSUME NEW c \in Crits, NEW kind \in Kinds, RecordRead(c, kind)
      PROVE  UNCHANGED <<crit, rev, evidence, overtaken>>
  BY <1>9 DEF RecordRead
<1>10. RecordLock \/ Flag \/ Close \/ Abort \/ MoveRepo \/ UNCHANGED vars
       => UNCHANGED <<crit, rev, evidence, overtaken>>
  BY DEF RecordLock, Flag, FlagRead, AddViolation, ResolveViolation, Close, BeginClose,
         EvaluateGate, CommitDone, Reopen, PatchEntry, Abort, MoveRepo, vars
<1>11. UNCHANGED <<crit, rev, evidence, overtaken>> => StaleUnlessOvertaken'
  BY DEF Fresh, StaleUnlessOvertaken
<1> QED
  BY <1>2, <1>3, <1>4, <1>5, <1>6, <1>7, <1>8, <1>9, <1>10, <1>11
     DEF Next, EditContract, Record

(* However long an update waits for the lock, what counts for a criterion     *)
(* afterwards was recorded for its present definition, unless the update was  *)
(* overtaken (update_criterion, _current_revision_ids).                       *)
THEOREM UpdateStales == Spec => []StaleUnlessOvertaken
<1>1. Init => Fresh
  BY FreshInit
<1>2. Fresh /\ [Next]_vars => Fresh'
  BY GateTypeStep, StaleStep DEF Fresh
<1>3. Fresh => StaleUnlessOvertaken
  BY DEF Fresh
<1> QED
  BY <1>1, <1>2, <1>3, PTL DEF Spec

-----------------------------------------------------------------------------
(* The change to done holds the lock from the gate to the commit, so what the *)
(* gate saw is still there.  Only the repository may have moved: the worktree *)
(* the gate was evaluated for is some worktree.                               *)

PassedGateHolds ==
    tx.op = "close" /\ tx.passed =>
        \E tree \in Trees : GatePasses(crit, inv, rev, evidence, violations, tx.head, tree)

LEMMA PassedStep ==
  ASSUME GateTypeOK, PassedGateHolds, [Next]_vars
  PROVE  PassedGateHolds'
<1> USE DEF Free, Idle, contract
<1>1. UNCHANGED <<crit, inv, rev, evidence, violations, tx>> => PassedGateHolds'
  BY DEF PassedGateHolds
<1>2. tx' \in {Idle} \cup [op : {"record"}, crit : Crits, kind : Kinds, head : Heads]
      => PassedGateHolds'
  BY DEF PassedGateHolds
<1>3. ASSUME EvaluateGate
      PROVE  PassedGateHolds'
  <2>1. /\ UNCHANGED <<crit, inv, rev, evidence, violations>> /\ tx'.head = tx.head
        /\ GatePasses(crit, inv, rev, evidence, violations, tx.head, repo.tree)
    BY <1>3 DEF EvaluateGate, GateTypeOK, Types
  <2>2. repo.tree \in Trees
    BY DEF GateTypeOK, Types
  <2> QED
    BY <2>1, <2>2 DEF PassedGateHolds
<1>4. ASSUME BeginClose
      PROVE  PassedGateHolds'
  BY <1>4 DEF BeginClose, PassedGateHolds
<1>5. ASSUME RecordLock
      PROVE  PassedGateHolds'
  BY <1>5 DEF RecordLock, PassedGateHolds
<1>6. ASSUME NEW a \in Authors, NEW passed \in BOOLEAN, NEW commit \in Commits,
             NEW fp \in Trees, NEW scoped \in BOOLEAN,
             RecordEvidence(a, passed, commit, fp, scoped)
      PROVE  PassedGateHolds'
  BY <1>2, <1>6 DEF RecordEvidence
<1>7. ASSUME Abort
      PROVE  PassedGateHolds'
  BY <1>1, <1>2, <1>7 DEF Abort
<1>8. ASSUME CommitDone
      PROVE  PassedGateHolds'
  BY <1>2, <1>8 DEF CommitDone
<1>9. ASSUME NEW c \in Crits, NEW kind \in Kinds, RecordRead(c, kind)
      PROVE  PassedGateHolds'
  BY <1>1, <1>9 DEF RecordRead
<1>10. ASSUME NEW i \in Invs, FlagRead(i)
       PROVE  PassedGateHolds'
  BY <1>1, <1>10 DEF FlagRead
<1>11. ASSUME NEW c \in Crits, BeginUpdate(c)
       PROVE  PassedGateHolds'
  BY <1>1, <1>11 DEF BeginUpdate
(* Everything else waits for the lock and leaves it free.                      *)
<1>12. Free /\ UNCHANGED tx => PassedGateHolds'
  BY DEF PassedGateHolds
<1>13. ASSUME NEW i \in Invs, NEW risk \in {"low", "high"},
              CreateInvariant(i, risk) \/ UpdateInvariant(i, risk)
       PROVE  Free /\ UNCHANGED tx
  BY <1>13 DEF CreateInvariant, UpdateInvariant
<1>14. ASSUME NEW i \in Invs, DeleteInvariant(i)
       PROVE  Free /\ UNCHANGED tx
  BY <1>14 DEF DeleteInvariant
<1>15. ASSUME NEW c \in Crits, NEW def \in Definitions, NEW waited \in BOOLEAN,
              CreateCriterion(c, def) \/ UpdateCriterion(c, def, waited)
       PROVE  Free /\ UNCHANGED tx
  BY <1>15 DEF CreateCriterion, UpdateCriterion
<1>16. ASSUME NEW c \in Crits, DeleteCriterion(c)
       PROVE  Free /\ UNCHANGED tx
  BY <1>16 DEF DeleteCriterion
<1>17. (\E blocking \in BOOLEAN : AddViolation(blocking))
       \/ (\E n \in DOMAIN violations : ResolveViolation(n)) \/ Reopen \/ PatchEntry
       => Free /\ UNCHANGED tx
  BY DEF AddViolation, ResolveViolation, Reopen, PatchEntry
<1>18. MoveRepo \/ UNCHANGED vars => UNCHANGED <<crit, inv, rev, evidence, violations, tx>>
  BY DEF MoveRepo, vars
<1> QED
  BY <1>1, <1>3, <1>4, <1>5, <1>6, <1>7, <1>8, <1>9, <1>10, <1>11, <1>12, <1>13, <1>14,
     <1>15, <1>16, <1>17, <1>18 DEF Next, EditContract, Record, Flag, Close

(* A kind that stands for an open criterion has a good row, its latest.       *)
LEMMA StandingIsGood ==
  ASSUME Fresh, NEW c, NEW kind, NEW tree, crit[c].life = "open",
         Stands(evidence, RowsOf(evidence, c, kind, rev), rev, tx.head, tree)
  PROVE  Latest(evidence, RowsOf(evidence, c, kind, rev)) \in GoodRows(c, kind)
<1> DEFINE n == Latest(evidence, RowsOf(evidence, c, kind, rev))
<1>1. /\ n \in DOMAIN evidence
      /\ evidence[n].crit = c /\ evidence[n].kind = kind /\ evidence[n].rev = rev[c]
      /\ evidence[n].passed /\ evidence[n].verified /\ evidence[n].commit = tx.head
      /\ \A m \in n + 1 .. Len(evidence) :
            <<evidence[m].crit, evidence[m].kind>> # <<c, kind>>
  BY StandingRow DEF Fresh
<1> HIDE DEF n
<1>2. evidence[n].of = crit[c].def \/ c \in overtaken
  BY <1>1 DEF Fresh, StaleUnlessOvertaken
<1> QED
  BY <1>1, <1>2 DEF GoodRows, n

LEMMA PassedMeansVerified ==
  ASSUME Fresh, PassedGateHolds, tx.op = "close", tx.passed
  PROVE  VerifiedAtHead
<1>1. PICK tree \in Trees : GatePasses(crit, inv, rev, evidence, violations, tx.head, tree)
  BY DEF PassedGateHolds
<1>2. ASSUME NEW c \in Required(crit, inv)
      PROVE  \E n \in GoodRows(c, crit[c].def.kind) :
                ReviewRequired(c, crit, inv) =>
                   \E m \in GoodRows(c, Review) :
                      evidence[m].scoped /\ evidence[m].by # evidence[n].by
  <2> DEFINE n == Latest(evidence, RowsOf(evidence, c, crit[c].def.kind, rev))
             m == Latest(evidence, RowsOf(evidence, c, Review, rev))
  <2>1. CriterionMet(c, crit, inv, rev, evidence, tx.head, tree) /\ crit[c].life = "open"
    BY <1>1, <1>2 DEF GatePasses, Required
  <2>2. n \in GoodRows(c, crit[c].def.kind)
    BY <2>1, StandingIsGood DEF CriterionMet
  <2>3. ASSUME ReviewRequired(c, crit, inv)
        PROVE  m \in GoodRows(c, Review) /\ evidence[m].scoped /\ evidence[m].by # evidence[n].by
    <3>1. Stands(evidence, RowsOf(evidence, c, Review, rev), rev, tx.head, tree)
      BY <2>1, <2>3 DEF CriterionMet
    <3>2. m \in GoodRows(c, Review)
      BY <2>1, <3>1, StandingIsGood
    <3> QED
      BY <2>1, <2>3, <3>2 DEF CriterionMet
  <2> HIDE DEF n, m
  <2> QED
    BY <2>2, <2>3
<1> QED
  BY <1>1, <1>2 DEF GatePasses, VerifiedAtHead

(* Whatever is edited, recorded, flagged, aborted or moved meanwhile, the gate *)
(* sets a requirement to done only on evidence that is verified at the commit *)
(* asked about, for the present definitions except of overtaken criteria, and *)
(* reviewed where it must be.                                                 *)
THEOREM DoneVerified == Spec => DoneWasVerified
<1>1. Init => Fresh /\ PassedGateHolds
  BY FreshInit DEF Init, PassedGateHolds, Idle
<1>2. Fresh /\ PassedGateHolds /\ [Next]_vars => (Fresh /\ PassedGateHolds)'
  BY GateTypeStep, StaleStep, PassedStep DEF Fresh
<1>3. Fresh /\ PassedGateHolds =>
        [tx.op = "close" /\ tx.passed /\ tx' = Idle /\ done' => VerifiedAtHead]_vars
  BY PassedMeansVerified
<1> QED
  BY <1>1, <1>2, <1>3, PTL DEF Spec, DoneWasVerified

-----------------------------------------------------------------------------
(* No history wedges the gate.  The supplied ledger is a sequence because      *)
(* only finitely many criteria were ever created.                             *)

Existing == {c \in Crits : crit[c].life # "none"}

AddsOne == \E d : Existing' \subseteq Existing \cup {d}

LEMMA OneCriterionAtATime ==
  ASSUME Types, Types', [Next]_vars
  PROVE  AddsOne
<1> USE DEF contract, Existing, AddsOne
<1>1. ASSUME NEW i \in Invs, DeleteInvariant(i)
      PROVE  AddsOne
  <2>1. \A c \in Crits : crit'[c].life # "none" => crit[c].life # "none"
    BY <1>1 DEF DeleteInvariant
  <2> QED
    BY <2>1
<1>2. ASSUME NEW d \in Crits, NEW def \in Definitions, CreateCriterion(d, def)
      PROVE  AddsOne
  <2>1. \A c \in Crits \ {d} : crit'[c] = crit[c]
    BY <1>2 DEF CreateCriterion, Types
  <2> QED
    BY <2>1
<1>3. ASSUME NEW d \in Crits, NEW def \in Definitions, NEW waited \in BOOLEAN,
             UpdateCriterion(d, def, waited)
      PROVE  AddsOne
  <2>1. \A c \in Crits \ {d} : crit'[c] = crit[c]
    BY <1>3 DEF UpdateCriterion, Types
  <2> QED
    BY <2>1
<1>4. ASSUME UNCHANGED crit PROVE AddsOne
  BY <1>4
<1>5. ASSUME NEW i \in Invs, NEW risk \in {"low", "high"},
             CreateInvariant(i, risk) \/ UpdateInvariant(i, risk)
      PROVE  UNCHANGED crit
  BY <1>5 DEF CreateInvariant, UpdateInvariant
<1>6. ASSUME NEW d \in Crits, BeginUpdate(d) PROVE UNCHANGED crit
  BY <1>6 DEF BeginUpdate
<1>7. Record \/ Flag \/ Close \/ Abort \/ MoveRepo \/ UNCHANGED vars => UNCHANGED crit
  BY DEF Record, RecordRead, RecordLock, RecordEvidence, Flag, FlagRead, AddViolation,
         ResolveViolation, Close, BeginClose, EvaluateGate, CommitDone, Reopen, PatchEntry,
         Abort, MoveRepo, vars
<1>8. ASSUME NEW d \in Crits, DeleteCriterion(d)
      PROVE  AddsOne
  <2>1. \A c \in Crits \ {d} : crit'[c] = crit[c]
    BY <1>8 DEF DeleteCriterion, Types
  <2> QED
    BY <2>1
<1> HIDE DEF Existing, AddsOne
<1> QED
  BY <1>1, <1>2, <1>3, <1>4, <1>5, <1>6, <1>7, <1>8 DEF Next, EditContract

LEMMA FinitelyManyExist ==
  Spec => [](GateTypeOK /\ IsFiniteSet(Existing))
<1>1. Init => GateTypeOK /\ IsFiniteSet(Existing)
  <2> SUFFICES ASSUME Init PROVE IsFiniteSet(Existing)
    BY GateTypeInit
  <2>1. Existing = {}
    BY DEF Init, Existing, NoRow
  <2> QED
    BY <2>1, FS_EmptySet
<1>2. GateTypeOK /\ IsFiniteSet(Existing) /\ [Next]_vars => (GateTypeOK /\ IsFiniteSet(Existing))'
  <2> SUFFICES ASSUME GateTypeOK, IsFiniteSet(Existing), [Next]_vars
               PROVE  GateTypeOK' /\ IsFiniteSet(Existing')
    OBVIOUS
  <2>1. GateTypeOK'
    BY GateTypeStep
  <2>2. PICK d : Existing' \subseteq Existing \cup {d}
    BY <2>1, OneCriterionAtATime DEF GateTypeOK, AddsOne
  <2>3. IsFiniteSet(Existing \cup {d})
    BY FS_AddElement
  <2> QED
    BY <2>1, <2>2, <2>3, FS_Subset
<1> QED
  BY <1>1, <1>2, PTL DEF Spec

\* Every element of a finite set stands somewhere in its order, once.
LEMMA OrderIsComplete ==
  ASSUME NEW S, IsFiniteSet(S)
  PROVE  /\ Cardinality(S) \in Nat
         /\ InSomeOrder(S) \in [1 .. Cardinality(S) -> S]
         /\ \A x \in S : \E i \in 1 .. Cardinality(S) :
              /\ InSomeOrder(S)[i] = x
              /\ \A j \in 1 .. Cardinality(S) : InSomeOrder(S)[j] = x => j = i
<1> DEFINE n == Cardinality(S)
           s == InSomeOrder(S)
<1>1. n \in Nat /\ ExistsBijection(1 .. n, S)
  BY FS_CardinalityType
<1>2. PICK f : f \in Bijection(1 .. n, S)
  BY <1>1 DEF ExistsBijection
<1>3. f \in [1 .. n -> S] /\ \A i, j \in DOMAIN f : f[i] = f[j] => i = j
  BY <1>2 DEF Bijection, Injection, IsInjective
<1>4. s \in [1 .. n -> S] /\ \A i, j \in DOMAIN s : s[i] = s[j] => i = j
  BY <1>3 DEF InSomeOrder
<1> HIDE DEF s
<1>5. s \in Injection(1 .. n, S)
  BY <1>4 DEF Injection, IsInjective
<1>6. IsFiniteSet(1 .. n) /\ Cardinality(1 .. n) = n
  BY <1>1, FS_Interval
<1>7. s \in Surjection(1 .. n, S)
  BY <1>5, <1>6, FS_Injection
<1>8. \A x \in S : \E i \in 1 .. n : s[i] = x
  BY <1>7 DEF Surjection
<1> HIDE DEF n
<1>9. \A x \in S : \E i \in 1 .. n : s[i] = x /\ \A j \in 1 .. n : s[j] = x => j = i
  BY <1>4, <1>8
<1> QED
  BY <1>1, <1>4, <1>9 DEF n, s

\* Two sequences one after the other.
LEMMA Joined ==
  ASSUME NEW V, NEW e \in Seq(V), NEW p \in Seq(V), NEW r, r = e \o p
  PROVE  /\ r \in Seq(V) /\ Len(e) \in Nat /\ Len(p) \in Nat /\ Len(r) = Len(e) + Len(p)
         /\ \A i \in 1 .. Len(e) : r[i] = e[i]
         /\ \A i \in 1 .. Len(p) : r[Len(e) + i] = p[i]
<1>1. r \in Seq(V) /\ Len(e) \in Nat /\ Len(p) \in Nat /\ Len(r) = Len(e) + Len(p)
  BY ConcatProperties
<1>2. \A i \in 1 .. Len(e) + Len(p) : r[i] = IF i <= Len(e) THEN e[i] ELSE p[i - Len(e)]
  BY ConcatProperties
<1>3. \A i \in 1 .. Len(p) : /\ Len(e) + i \in 1 .. Len(e) + Len(p)
                             /\ ~(Len(e) + i <= Len(e)) /\ Len(e) + i - Len(e) = i
  BY <1>1
<1> QED
  BY <1>1, <1>2, <1>3

\* A row of the two blocks that are supplied, and where it comes from.
SuppliedAt(ev, s, N, k, i, a, b, head) ==
    /\ ev[N + i] = SuppliedRow(s[i], crit[s[i]].def.kind, a, head)
    /\ ev[N + k + i] = SuppliedRow(s[i], Review, b, head)

LEMMA SuppliedShape ==
  ASSUME GateTypeOK, IsFiniteSet(Existing), NEW a, NEW b, NEW head,
         NEW s, s = InSomeOrder(Required(crit, inv)),
         NEW N, N = Len(evidence), NEW k, k = Cardinality(Required(crit, inv)),
         NEW ev, ev = Supplied(a, b, head)
  PROVE  /\ N \in Nat /\ k \in Nat
         /\ s \in [1 .. k -> Required(crit, inv)]
         /\ \A x \in Required(crit, inv) : \E i \in 1 .. k :
              s[i] = x /\ \A j \in 1 .. k : s[j] = x => j = i
         /\ Len(ev) = N + k + k /\ DOMAIN ev = 1 .. N + k + k
         /\ \A i \in 1 .. k : SuppliedAt(ev, s, N, k, i, a, b, head)
<1> DEFINE R == Required(crit, inv)
<1>1. R \subseteq Existing
  BY DEF Required, Existing
<1>2. IsFiniteSet(R)
  BY <1>1, FS_Subset
<1> HIDE DEF R
<1>3. k \in Nat /\ s \in [1 .. k -> R]
      /\ \A x \in R : \E i \in 1 .. k : s[i] = x /\ \A j \in 1 .. k : s[j] = x => j = i
  BY <1>2, OrderIsComplete DEF R
<1>4. N \in Nat
  BY EvidenceTypes
<1> DEFINE V == Row \cup {SuppliedRow(s[i], crit[s[i]].def.kind, a, head) : i \in 1 .. k}
                   \cup {SuppliedRow(s[i], Review, b, head) : i \in 1 .. k}
           p == [i \in 1 .. k |-> SuppliedRow(s[i], crit[s[i]].def.kind, a, head)]
           q == [i \in 1 .. k |-> SuppliedRow(s[i], Review, b, head)]
<1>5. p \in Seq(V) /\ Len(p) = k /\ \A i \in 1 .. k : p[i] = SuppliedRow(s[i], crit[s[i]].def.kind, a, head)
  BY <1>3
<1>6. q \in Seq(V) /\ Len(q) = k /\ \A i \in 1 .. k : q[i] = SuppliedRow(s[i], Review, b, head)
  BY <1>3
<1>7. evidence \in Seq(V)
  BY DEF GateTypeOK, Types
<1>8. ev = evidence \o p \o q
  BY <1>3 DEF Supplied
<1> HIDE DEF V, p, q
<1>9. Len(ev) = N + k + k /\ DOMAIN ev = 1 .. N + k + k
      /\ \A i \in 1 .. k : ev[N + i] = p[i] /\ ev[N + k + i] = q[i]
  <2>1. PICK r : r = evidence \o p
    OBVIOUS
  <2>2. r \in Seq(V) /\ Len(r) = N + k /\ \A i \in 1 .. k : r[N + i] = p[i]
    BY <1>5, <1>7, <2>1, Joined
  <2>3. ev = r \o q
    BY <1>8, <2>1
  <2>4. /\ ev \in Seq(V) /\ Len(ev) = Len(r) + Len(q)
        /\ \A i \in 1 .. Len(r) : ev[i] = r[i]
        /\ \A i \in 1 .. Len(q) : ev[Len(r) + i] = q[i]
    <3>1. r \in Seq(V) /\ q \in Seq(V)
      BY <1>6, <2>2
    <3> QED
      BY <2>3, <3>1, Joined
  <2>5. DOMAIN ev = 1 .. Len(ev)
    BY <2>4
  <2>6. \A i \in 1 .. k : N + i \in 1 .. N + k
    BY <1>3, <1>4
  <2> QED
    BY <1>6, <2>2, <2>4, <2>5, <2>6
<1> QED
  BY <1>3, <1>4, <1>5, <1>6, <1>9 DEF R, SuppliedAt

\* The last row of a criterion and kind for its present revision, if it passed
\* in the clean worktree of the commit, makes the kind stand.
LEMMA LastPassedStands ==
  ASSUME NEW ev, NEW M \in Nat, Len(ev) = M, DOMAIN ev = 1 .. M, NEW n \in 1 .. M, NEW c, NEW kind,
         NEW who, NEW head \in Commits,
         ev[n] = SuppliedRow(c, kind, who, head),
         \A m \in n + 1 .. M : ev[m].crit = c => ev[m].kind # kind
  PROVE  /\ Latest(ev, RowsOf(ev, c, kind, rev)) = n
         /\ Stands(ev, RowsOf(ev, c, kind, rev), rev, head, Clean)
<1> DEFINE S == RowsOf(ev, c, kind, rev)
<1>1. n \in S
  BY DEF RowsOf, SuppliedRow
<1>2. S \subseteq 1 .. M /\ \A m \in S : m <= n
  BY DEF RowsOf
<1>3. Latest(ev, S) = n
  <2>1. \A x : (x \in S /\ \A m \in S : m <= x) <=> x = n
    BY <1>1, <1>2
  <2> HIDE DEF S
  <2> QED
    BY <2>1 DEF Latest
<1>4. ~Stale(ev[n], head, Clean)
  BY CommitAssumption DEF Stale, SuppliedRow
<1>5. ~Superseded(ev, n, rev)
  BY DEF Superseded, SuppliedRow
<1>6. Lifecycle(ev, n, rev, head, Clean) = "verified"
  BY <1>4, <1>5 DEF Lifecycle, SuppliedRow
<1>7. ev[n].passed
  BY DEF SuppliedRow
<1> HIDE DEF S
<1>8. Stands(ev, S, rev, head, Clean)
  BY <1>1, <1>3, <1>6, <1>7 DEF Stands
<1> QED
  BY <1>3, <1>8 DEF S

LEMMA GateOpens ==
  ASSUME GateTypeOK, IsFiniteSet(Existing)
  PROVE  GateCanPass
<1> SUFFICES ASSUME NEW a \in Authors, NEW b \in Authors, NEW head \in Commits, a # b,
                    NEW c \in Required(crit, inv), crit[c].def.kind # Review
             PROVE  CriterionMet(c, crit, inv, rev, Supplied(a, b, head), head, Clean)
  BY DEF GateCanPass, GateOpensFor
<1> DEFINE kind == crit[c].def.kind
<1>0. PICK s, N, k, ev : s = InSomeOrder(Required(crit, inv)) /\ N = Len(evidence)
                  /\ k = Cardinality(Required(crit, inv)) /\ ev = Supplied(a, b, head)
  OBVIOUS
<1>1. /\ N \in Nat /\ k \in Nat
      /\ s \in [1 .. k -> Required(crit, inv)]
      /\ Len(ev) = N + k + k /\ DOMAIN ev = 1 .. N + k + k
      /\ \A i \in 1 .. k : /\ ev[N + i] = SuppliedRow(s[i], crit[s[i]].def.kind, a, head)
                          /\ ev[N + k + i] = SuppliedRow(s[i], Review, b, head)
      /\ \E i \in 1 .. k : s[i] = c /\ \A j \in 1 .. k : s[j] = c => j = i
  <2>1. /\ N \in Nat /\ k \in Nat
        /\ s \in [1 .. k -> Required(crit, inv)]
        /\ Len(ev) = N + k + k /\ DOMAIN ev = 1 .. N + k + k
    BY <1>0, SuppliedShape
  <2>2. \A i \in 1 .. k : SuppliedAt(ev, s, N, k, i, a, b, head)
    BY <1>0, SuppliedShape
  <2>3. \A x \in Required(crit, inv) : \E i \in 1 .. k :
           s[i] = x /\ \A j \in 1 .. k : s[j] = x => j = i
    BY <1>0, SuppliedShape
  <2>4. \E i \in 1 .. k : s[i] = c /\ \A j \in 1 .. k : s[j] = c => j = i
    BY <2>3
  <2> QED
    BY <2>1, <2>2, <2>4 DEF SuppliedAt
<1>2. PICK i \in 1 .. k : s[i] = c /\ \A j \in 1 .. k : s[j] = c => j = i
  BY <1>1
<1>3. \A m \in N + 1 .. N + k + k :
         \/ \E j \in 1 .. k : m = N + j
         \/ \E j \in 1 .. k : m = N + k + j
  <2> SUFFICES ASSUME NEW m \in N + 1 .. N + k + k
               PROVE  m - N \in 1 .. k \/ m - N - k \in 1 .. k
    BY <1>1
  <2> QED
    BY <1>1
<1>4. \A m \in N + i + 1 .. N + k + k : ev[m].crit = c => ev[m].kind # kind
  <2> SUFFICES ASSUME NEW m \in N + i + 1 .. N + k + k, ev[m].crit = c PROVE ev[m].kind # kind
    OBVIOUS
  <2>1. CASE \E j \in 1 .. k : m = N + j
    <3>1. PICK j \in 1 .. k : m = N + j
      BY <2>1
    <3>2. ev[m] = SuppliedRow(s[j], crit[s[j]].def.kind, a, head)
      BY <1>1, <3>1
    <3>3. s[j] = c
      BY <3>2 DEF SuppliedRow
    <3> QED
      BY <1>1, <1>2, <3>1, <3>3
  <2>2. CASE \E j \in 1 .. k : m = N + k + j
    <3>1. PICK j \in 1 .. k : m = N + k + j
      BY <2>2
    <3>2. ev[m] = SuppliedRow(s[j], Review, b, head)
      BY <1>1, <3>1
    <3> QED
      BY <3>2 DEF SuppliedRow
  <2> QED
    BY <1>1, <1>3, <2>1, <2>2
<1>5. \A m \in N + k + i + 1 .. N + k + k : ev[m].crit = c => ev[m].kind # Review
  <2> SUFFICES ASSUME NEW m \in N + k + i + 1 .. N + k + k, ev[m].crit = c PROVE FALSE
    OBVIOUS
  <2>1. m - N - k \in 1 .. k /\ m = N + k + (m - N - k) /\ m - N - k # i
    BY <1>1
  <2>3. ev[m] = SuppliedRow(s[m - N - k], Review, b, head)
    BY <1>1, <2>1
  <2>2. s[m - N - k] = c
    BY <2>3 DEF SuppliedRow
  <2> QED
    BY <1>2, <2>1, <2>2
<1>6. ev[N + i] = SuppliedRow(c, kind, a, head) /\ ev[N + k + i] = SuppliedRow(c, Review, b, head)
  BY <1>1, <1>2
<1>7. N + k + k \in Nat /\ N + i \in 1 .. N + k + k /\ N + k + i \in 1 .. N + k + k
  BY <1>1
<1> HIDE DEF kind
<1>8. /\ Latest(ev, RowsOf(ev, c, kind, rev)) = N + i
      /\ Stands(ev, RowsOf(ev, c, kind, rev), rev, head, Clean)
  <2>1. PICK n \in 1 .. N + k + k : n = N + i
    BY <1>7
  <2>2. ev[n] = SuppliedRow(c, kind, a, head)
        /\ \A m \in n + 1 .. N + k + k : ev[m].crit = c => ev[m].kind # kind
    BY <1>4, <1>6, <2>1
  <2>3. Len(ev) = N + k + k /\ DOMAIN ev = 1 .. N + k + k
    BY <1>1
  <2>4. /\ Latest(ev, RowsOf(ev, c, kind, rev)) = n
        /\ Stands(ev, RowsOf(ev, c, kind, rev), rev, head, Clean)
    BY <1>7, <2>2, <2>3, LastPassedStands
  <2> QED
    BY <2>1, <2>4
<1>9. /\ Latest(ev, RowsOf(ev, c, Review, rev)) = N + k + i
      /\ Stands(ev, RowsOf(ev, c, Review, rev), rev, head, Clean)
  <2>1. PICK n \in 1 .. N + k + k : n = N + k + i
    BY <1>7
  <2>2. ev[n] = SuppliedRow(c, Review, b, head)
        /\ \A m \in n + 1 .. N + k + k : ev[m].crit = c => ev[m].kind # Review
    BY <1>5, <1>6, <2>1
  <2>3. Len(ev) = N + k + k /\ DOMAIN ev = 1 .. N + k + k
    BY <1>1
  <2>4. /\ Latest(ev, RowsOf(ev, c, Review, rev)) = n
        /\ Stands(ev, RowsOf(ev, c, Review, rev), rev, head, Clean)
    BY <1>7, <2>2, <2>3, LastPassedStands
  <2> QED
    BY <2>1, <2>4
<1>10. ev[N + k + i].by = b /\ ev[N + i].by = a
  BY <1>6 DEF SuppliedRow
<1>11. ev[N + k + i].scoped
  <2>1. SuppliedRow(c, Review, b, head).scoped = (Review = Review)
    BY DEF SuppliedRow
  <2> QED
    BY <1>6, <2>1
<1> QED
  BY <1>0, <1>8, <1>9, <1>10, <1>11 DEF CriterionMet, kind

(* No history wedges the gate: from every reachable state, one author's pass   *)
(* and another's review of each required criterion meet it, whatever was       *)
(* recorded before, unless the criterion is itself of kind review (finding 2). *)
THEOREM NoHistoryWedgesTheGate == Spec => []GateCanPass
BY FinitelyManyExist, GateOpens, PTL

=============================================================================
