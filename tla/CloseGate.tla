----------------------------- MODULE CloseGate -----------------------------
(***************************************************************************)
(* The contract of one requirement, its evidence ledger and the close gate *)
(* (pcs.requirements.contracts, pcs.requirements.evidence).  Every write   *)
(* holds the project row lock from its first locked read to its commit.    *)
(* Most are one step here; record_evidence and the change to done, which   *)
(* ask git about the worktree while they hold the lock, are several, and   *)
(* record_evidence and add_violation read rows before they take it.        *)
(***************************************************************************)
EXTENDS Naturals, Sequences, FiniteSets

CONSTANTS
    Invs, Crits, Authors,
    Kinds, Review,        \* evidence kinds, review among them
    Commits, Trees, Clean, \* commits; fingerprints of git diff HEAD, Clean of no change
    Definitions,          \* what a criterion may say
    MaxRev, MaxEvidence, MaxViolations, \* bounds for TLC
    MaxActs               \* bounds updates, records, findings and moves of the repository

ASSUME KindAssumption == Review \in Kinds /\ Clean \in Trees
ASSUME DefinitionAssumption ==
    Definitions \subseteq [inv : Invs, kind : Kinds, required : BOOLEAN, review : BOOLEAN,
                           text : {0, 1}]
ASSUME GateBounds == MaxRev \in Nat \ {0} /\ {MaxEvidence, MaxViolations, MaxActs} \subseteq Nat

VARIABLES
    done,        \* requirement_status is done
    inv,         \* requirement_invariants
    crit,        \* acceptance_criteria
    rev,         \* the criterion's latest requirement_contract_revisions row
    evidence,    \* requirement_evidence by seq
    violations,  \* requirement_violations
    repo,        \* HEAD and the fingerprint of the worktree
    begun,       \* per criterion, its rev when a waiting update's transaction began, or 0
    overtaken,   \* criteria whose definition came from a transaction that began before the one
                 \* their latest revision came from; read by no action
    reading,     \* a request that has read rows and does not hold the lock yet
    tx,          \* the transaction that holds the project lock
    acts         \* acts so far

vars == <<done, inv, crit, rev, evidence, violations, repo, begun, overtaken, reading, tx, acts>>
contract == <<inv, crit, rev, overtaken>>

NoCommit == "unreadable"
ASSUME CommitAssumption == NoCommit \notin Commits
NoRow == [life |-> "none"]

Idle == [op |-> "none"]
Free == tx = Idle

Row == [crit : Crits, rev : 1 .. MaxRev, kind : Kinds, passed : BOOLEAN, commit : Commits,
        fp : Trees, verified : BOOLEAN, by : Authors, scoped : BOOLEAN,
        of : Definitions]     \* of: the definition it was recorded for, read by no action

-----------------------------------------------------------------------------
(* The ledger as list_evidence derives it, for a HEAD and worktree.  An      *)
(* operator named X_... is X with a seeded bug; nothing refers to it.       *)

(* _is_stale: evidence holds for one commit and one worktree.  A row without *)
(* fingerprint is fresh exactly in a clean worktree, as one with the         *)
(* fingerprint of no change is: fp is Clean for both.                        *)
Stale(e, head, tree) ==
    \/ head = NoCommit
    \/ e.commit # head
    \/ tree # e.fp

\* A failed row replaces nothing.
Superseded_ByPassedOnly(ev, n, current) ==
    \E m \in n + 1 .. Len(ev) : /\ ev[m].crit = ev[n].crit /\ ev[m].kind = ev[n].kind
                                /\ ev[m].rev = current[ev[m].crit] /\ ev[m].passed

\* The slot is the criterion, whatever the kind.
Superseded_ByAnyKind(ev, n, current) ==
    \E m \in n + 1 .. Len(ev) : /\ ev[m].crit = ev[n].crit
                                /\ ev[m].rev = current[ev[m].crit]

(* latest_by_slot: a later row of the same criterion and kind counts.       *)
Superseded(ev, n, current) ==
    \E m \in n + 1 .. Len(ev) : /\ ev[m].crit = ev[n].crit /\ ev[m].kind = ev[n].kind
                                /\ ev[m].rev = current[ev[m].crit]

Lifecycle(ev, n, current, head, tree) ==
    IF ev[n].rev # current[ev[n].crit] \/ Stale(ev[n], head, tree) THEN "stale"
    ELSE IF Superseded(ev, n, current) THEN "superseded"
    ELSE IF ev[n].verified THEN "verified" ELSE "provisional"

-----------------------------------------------------------------------------
(* evaluate_close_gate.                                                     *)

Required(cr, iv) ==
    {c \in Crits : cr[c].life = "open" /\ cr[c].def.required /\ iv[cr[c].def.inv].life = "open"}

ReviewRequired(c, cr, iv) == cr[c].def.review \/ iv[cr[c].def.inv].risk = "high"

RowsOf(ev, c, kind, current) ==
    {n \in DOMAIN ev : ev[n].crit = c /\ ev[n].kind = kind /\ ev[n].rev = current[c]}

Latest(ev, S) == CHOOSE n \in S : \A m \in S : m <= n

(* The latest row passed and is neither stale nor provisional.              *)
Stands(ev, S, current, head, tree) ==
    /\ S # {}
    /\ ev[Latest(ev, S)].passed
    /\ Lifecycle(ev, Latest(ev, S), current, head, tree) = "verified"

CriterionMet(c, cr, iv, current, ev, head, tree) ==
    LET impl == RowsOf(ev, c, cr[c].def.kind, current)
        reviews == RowsOf(ev, c, Review, current)
    IN  /\ Stands(ev, impl, current, head, tree)
        /\ ReviewRequired(c, cr, iv) =>
              /\ Stands(ev, reviews, current, head, tree)
              /\ ev[Latest(ev, reviews)].by # ev[Latest(ev, impl)].by
              /\ ev[Latest(ev, reviews)].scoped

(* Blocking violations count under deleted invariants too.                  *)
Blocked(vi) == \E n \in DOMAIN vi : vi[n].open /\ vi[n].blocking

(* A requirement without criteria passes unless it is blocked.              *)
GatePasses(cr, iv, current, ev, vi, head, tree) ==
    /\ \A c \in Required(cr, iv) : CriterionMet(c, cr, iv, current, ev, head, tree)
    /\ ~Blocked(vi)

-----------------------------------------------------------------------------
Heads == Commits \cup {NoCommit}

Types ==
    /\ done \in BOOLEAN
    /\ inv \in [Invs -> {NoRow} \cup [life : {"open", "deleted"}, risk : {"low", "high"}]]
    /\ crit \in [Crits -> {NoRow} \cup [life : {"open", "deleted"}, def : Definitions]]
    /\ rev \in [Crits -> 0 .. MaxRev]
    /\ evidence \in Seq(Row)
    /\ repo \in [head : Commits, tree : Trees]
    /\ begun \in [Crits -> 0 .. MaxRev]
    /\ overtaken \subseteq Crits
    /\ reading \in {Idle} \cup [op : {"record"}, crit : Crits, kind : Kinds]
                            \cup [op : {"flag"}, inv : Invs]
    /\ tx \in {Idle} \cup [op : {"record"}, crit : Crits, kind : Kinds, head : Heads]
                      \cup [op : {"close"}, head : Heads, passed : BOOLEAN]

RowsFit ==
    \A c \in Crits :
        /\ rev[c] = 0 <=> crit[c] = NoRow
        /\ begun[c] <= rev[c]
        /\ crit[c].life = "open" => inv[crit[c].def.inv].life = "open"

RequestsFit ==
    /\ reading.op = "record" => rev[reading.crit] > 0
    /\ tx.op = "record" => rev[tx.crit] > 0

EvidenceFits ==
    \A n \in DOMAIN evidence :
        /\ evidence[n].rev <= rev[evidence[n].crit]
        /\ \A m \in DOMAIN evidence :
              m < n /\ evidence[m].crit = evidence[n].crit => evidence[m].rev <= evidence[n].rev

(* Rows, revisions and evidence fit together: an open criterion belongs to   *)
(* an open invariant, evidence names revisions that exist, in their order,   *)
(* and a waiting request knows only criteria that exist.                     *)
GateTypeOK == Types /\ RowsFit /\ RequestsFit /\ EvidenceFits

Init ==
    /\ done = FALSE
    /\ inv = [i \in Invs |-> NoRow]
    /\ crit = [c \in Crits |-> NoRow]
    /\ rev = [c \in Crits |-> 0]
    /\ evidence = <<>> /\ violations = <<>>
    /\ repo \in [head : Commits, tree : {Clean}]
    /\ begun = [c \in Crits |-> 0] /\ overtaken = {} /\ reading = Idle /\ tx = Idle
    /\ acts = 0

Act == acts < MaxActs /\ acts' = acts + 1

-----------------------------------------------------------------------------
(* The contract.                                                            *)

CreateInvariant(i, risk) ==
    /\ Free /\ inv[i].life = "none"
    /\ inv' = [inv EXCEPT ![i] = [life |-> "open", risk |-> risk]]
    /\ UNCHANGED <<done, crit, rev, evidence, violations, repo, begun, overtaken, reading, tx, acts>>

(* Evidence is bound to revisions of the criterion: it survives this.       *)
UpdateInvariant(i, risk) ==
    /\ Free /\ inv[i].life = "open" /\ inv[i].risk # risk
    /\ inv' = [inv EXCEPT ![i].risk = risk]
    /\ Act
    /\ UNCHANGED <<done, crit, rev, evidence, violations, repo, begun, overtaken, reading, tx>>

\* The invariant goes and its criteria stay.
DeleteInvariant_KeepsCriteria(i) ==
    /\ Free /\ inv[i].life = "open"
    /\ inv' = [inv EXCEPT ![i].life = "deleted"]
    /\ Act
    /\ UNCHANGED <<done, crit, rev, evidence, violations, repo, begun, overtaken, reading, tx>>

DeleteInvariant(i) ==
    LET children == {c \in Crits : crit[c].life = "open" /\ crit[c].def.inv = i}
    IN  /\ Free /\ inv[i].life = "open"
        /\ \A c \in children : rev[c] < MaxRev
        /\ inv' = [inv EXCEPT ![i].life = "deleted"]
        /\ crit' = [c \in Crits |-> IF c \in children THEN [crit[c] EXCEPT !.life = "deleted"]
                                    ELSE crit[c]]
        /\ rev' = [c \in Crits |-> IF c \in children THEN rev[c] + 1 ELSE rev[c]]
        /\ Act
        /\ UNCHANGED <<done, evidence, violations, repo, begun, overtaken, reading, tx>>

CreateCriterion(c, def) ==
    /\ Free /\ crit[c].life = "none" /\ inv[def.inv].life = "open"
    /\ crit' = [crit EXCEPT ![c] = [life |-> "open", def |-> def]]
    /\ rev' = [rev EXCEPT ![c] = 1]
    /\ UNCHANGED <<done, inv, evidence, violations, repo, begun, overtaken, reading, tx, acts>>

(* An update whose transaction has begun and that waits for the lock.        *)
BeginUpdate(c) ==
    /\ crit[c].life = "open" /\ begun[c] = 0
    /\ begun' = [begun EXCEPT ![c] = rev[c]]
    /\ Act
    /\ UNCHANGED <<done, contract, evidence, violations, repo, reading, tx>>

(* The latest revision is the one of the latest created_at, the time its     *)
(* transaction began: a transaction that waited while another one began and  *)
(* committed leaves that one's revision the latest.                          *)
Overtaken(c, waited) == waited /\ begun[c] < rev[c]

\* A waiting update never gets the latest revision.
RevAfter_Waiting(c, waited) == IF waited THEN rev[c] ELSE rev[c] + 1

RevAfter(c, waited) == IF Overtaken(c, waited) THEN rev[c] ELSE rev[c] + 1

\* The update does not take the project lock.
UpdateCriterion_Unlocked(c, def, waited) ==
    /\ crit[c].life = "open" /\ def.inv = crit[c].def.inv /\ def # crit[c].def
    /\ rev[c] < MaxRev /\ ~waited
    /\ crit' = [crit EXCEPT ![c].def = def]
    /\ rev' = [rev EXCEPT ![c] = @ + 1]
    /\ Act
    /\ UNCHANGED <<done, inv, evidence, violations, repo, begun, overtaken, reading, tx>>

(* An update that changes nothing appends no revision.  One that did not     *)
(* wait begins and locks in this step.                                       *)
UpdateCriterion(c, def, waited) ==
    /\ Free /\ crit[c].life = "open" /\ def.inv = crit[c].def.inv /\ def # crit[c].def
    /\ waited => begun[c] # 0
    /\ RevAfter(c, waited) <= MaxRev
    /\ crit' = [crit EXCEPT ![c].def = def]
    /\ rev' = [rev EXCEPT ![c] = RevAfter(c, waited)]
    /\ begun' = IF waited THEN [begun EXCEPT ![c] = 0] ELSE begun
    /\ overtaken' = IF Overtaken(c, waited) THEN overtaken \cup {c} ELSE overtaken \ {c}
    /\ waited \/ acts < MaxActs
    /\ acts' = IF waited THEN acts ELSE acts + 1
    /\ UNCHANGED <<done, inv, evidence, violations, repo, reading, tx>>

(* Waiting makes no difference here: a deleted criterion stays deleted.      *)
DeleteCriterion(c) ==
    /\ Free /\ crit[c].life = "open" /\ rev[c] < MaxRev
    /\ crit' = [crit EXCEPT ![c].life = "deleted"]
    /\ rev' = [rev EXCEPT ![c] = @ + 1]
    /\ Act
    /\ UNCHANGED <<done, inv, evidence, violations, repo, begun, overtaken, reading, tx>>

-----------------------------------------------------------------------------
(* Evidence.                                                                *)

(* The kind is checked against the criterion as it is before the lock.      *)
RecordRead(c, kind) ==
    /\ reading = Idle /\ crit[c].life = "open" /\ kind \in {crit[c].def.kind, Review}
    /\ reading' = [op |-> "record", crit |-> c, kind |-> kind]
    /\ Act
    /\ UNCHANGED <<done, contract, evidence, violations, repo, begun, tx>>

(* The lock, the criterion's latest revision, and git rev-parse HEAD.       *)
RecordLock ==
    /\ Free /\ reading.op = "record"
    /\ \E head \in {repo.head, NoCommit} :
          tx' = [op |-> "record", crit |-> reading.crit, kind |-> reading.kind, head |-> head]
    /\ reading' = Idle
    /\ UNCHANGED <<done, contract, evidence, violations, repo, begun, acts>>

(* git diff HEAD and the row.  A dirty worktree wants its own fingerprint;  *)
(* in a clean one, or in one git cannot read, any will do.                  *)
RecordEvidence(a, passed, commit, fp, scoped) ==
    /\ tx.op = "record" /\ Len(evidence) < MaxEvidence
    /\ LET dirty == tx.head # NoCommit /\ repo.tree # Clean
       IN  /\ dirty => fp = repo.tree
           /\ evidence' = Append(evidence,
                 [crit |-> tx.crit, rev |-> rev[tx.crit], kind |-> tx.kind, passed |-> passed,
                  commit |-> commit, fp |-> fp, verified |-> ~dirty /\ commit = tx.head,
                  by |-> a, scoped |-> scoped, of |-> crit[tx.crit].def])
    /\ tx' = Idle
    /\ UNCHANGED <<done, contract, violations, repo, begun, reading, acts>>

-----------------------------------------------------------------------------
(* Violations.                                                              *)

FlagRead(i) ==
    /\ reading = Idle /\ inv[i].life = "open"
    /\ reading' = [op |-> "flag", inv |-> i]
    /\ Act
    /\ UNCHANGED <<done, contract, evidence, violations, repo, begun, tx>>

AddViolation(blocking) ==
    /\ Free /\ reading.op = "flag" /\ Len(violations) < MaxViolations
    /\ violations' = Append(violations, [inv |-> reading.inv, blocking |-> blocking, open |-> TRUE])
    /\ reading' = Idle
    /\ UNCHANGED <<done, contract, evidence, repo, begun, tx, acts>>

ResolveViolation(n) ==
    /\ Free /\ violations[n].open
    /\ violations' = [violations EXCEPT ![n].open = FALSE]
    /\ UNCHANGED <<done, contract, evidence, repo, begun, reading, tx, acts>>

(* A request whose client or server dies, or whose input is refused.        *)
Abort ==
    /\ \/ reading # Idle /\ reading' = Idle /\ UNCHANGED <<begun, tx>>
       \/ tx # Idle /\ tx' = Idle /\ UNCHANGED <<begun, reading>>
       \/ \E c \in Crits : /\ begun[c] # 0 /\ begun' = [begun EXCEPT ![c] = 0]
                          /\ UNCHANGED <<reading, tx>>
    /\ UNCHANGED <<done, contract, evidence, violations, repo, acts>>

-----------------------------------------------------------------------------
(* set_requirement_status(done): the lock and HEAD, then the worktree and   *)
(* the gate, then the update and the commit.  Git is asked only when a      *)
(* criterion is required.  Setting done again would change nothing.         *)

BeginClose ==
    /\ Free /\ ~done
    /\ \E head \in {repo.head, NoCommit} :
          tx' = [op |-> "close", head |-> head, passed |-> FALSE]
    /\ UNCHANGED <<done, contract, evidence, violations, repo, begun, reading, acts>>

EvaluateGate ==
    /\ tx.op = "close" /\ ~tx.passed
    /\ GatePasses(crit, inv, rev, evidence, violations, tx.head, repo.tree)
    /\ tx' = [tx EXCEPT !.passed = TRUE]
    /\ UNCHANGED <<done, contract, evidence, violations, repo, begun, reading, acts>>

CommitDone ==
    /\ tx.op = "close" /\ tx.passed
    /\ done' = TRUE /\ tx' = Idle
    /\ UNCHANGED <<contract, evidence, violations, repo, begun, reading, acts>>

(* set_requirement_status with another status.                              *)
Reopen ==
    /\ Free /\ done /\ done' = FALSE
    /\ UNCHANGED <<contract, evidence, violations, repo, begun, reading, tx, acts>>

(* PATCH /entries/{id} writes any status and asks no gate.                  *)
PatchEntry ==
    /\ Free /\ ~done /\ done' = TRUE
    /\ Act
    /\ UNCHANGED <<contract, evidence, violations, repo, begun, reading, tx>>

(* The repository moves at any time: an edit, a stash, a commit, a checkout. *)
MoveRepo ==
    /\ Act
    /\ repo' \in [head : Commits, tree : Trees] \ {repo}
    /\ repo'.head = repo.head \/ repo'.tree = Clean
    /\ UNCHANGED <<done, contract, evidence, violations, begun, reading, tx>>

EditContract ==
    \/ \E i \in Invs, risk \in {"low", "high"} : CreateInvariant(i, risk) \/ UpdateInvariant(i, risk)
    \/ \E i \in Invs : DeleteInvariant(i)
    \/ \E c \in Crits, def \in Definitions : CreateCriterion(c, def)
    \/ \E c \in Crits, def \in Definitions, waited \in BOOLEAN : UpdateCriterion(c, def, waited)
    \/ \E c \in Crits : BeginUpdate(c) \/ DeleteCriterion(c)

Record ==
    \/ \E c \in Crits, kind \in Kinds : RecordRead(c, kind)
    \/ RecordLock
    \/ \E a \in Authors, passed \in BOOLEAN, commit \in Commits, fp \in Trees, scoped \in BOOLEAN :
          /\ tx.op = "record" /\ tx.kind # Review => ~scoped
          /\ RecordEvidence(a, passed, commit, fp, scoped)

Flag ==
    \/ \E i \in Invs : FlagRead(i)
    \/ \E blocking \in BOOLEAN : AddViolation(blocking)
    \/ \E n \in DOMAIN violations : ResolveViolation(n)

Close == BeginClose \/ EvaluateGate \/ CommitDone \/ Reopen \/ PatchEntry

Next == EditContract \/ Record \/ Flag \/ Close \/ Abort \/ MoveRepo

Spec == Init /\ [][Next]_vars

-----------------------------------------------------------------------------
(* Properties.                                                              *)

\* The last rows of a kind that pass for the present definition at the commit asked about;
\* for any definition where the latest revision is not the last update's (finding 3).
GoodRows(c, kind) ==
    {n \in DOMAIN evidence :
        /\ evidence[n].crit = c /\ evidence[n].kind = kind
        /\ evidence[n].passed /\ evidence[n].verified
        /\ evidence[n].of = crit[c].def \/ c \in overtaken
        /\ evidence[n].commit = tx.head
        /\ \A m \in n + 1 .. Len(evidence) : <<evidence[m].crit, evidence[m].kind>> # <<c, kind>>}

VerifiedAtHead ==
    /\ ~Blocked(violations)
    /\ \A c \in Required(crit, inv) :
          \E n \in GoodRows(c, crit[c].def.kind) :
             ReviewRequired(c, crit, inv) =>
                \E m \in GoodRows(c, Review) : evidence[m].scoped /\ evidence[m].by # evidence[n].by

(* A requirement is set to done only on a contract that is met when the     *)
(* change commits: every required criterion has a passed row recorded for   *)
(* its present definition and for the commit asked about, no later row of   *)
(* the same kind says otherwise, a review it needs was passed by somebody   *)
(* else, and nothing blocks it (AC-EVIDENCE-4, 6, 7, 11).  The row of an    *)
(* overtaken criterion may be for an earlier definition, and PATCH of the   *)
(* entry, which asks no gate, is not spoken of.                             *)
DoneWasVerified ==
    [][tx.op = "close" /\ tx.passed /\ tx' = Idle /\ done' => VerifiedAtHead]_vars

(* What list_evidence shows and what the gate decides agree: a required     *)
(* criterion that needs no review is met exactly when a row of its kind is  *)
(* listed as passed and verified-at-commit, for every HEAD and worktree.    *)
LedgerAgreesWithGate ==
    \A head \in Commits, tree \in Trees : \A c \in Required(crit, inv) :
        ~ReviewRequired(c, crit, inv) =>
            (CriterionMet(c, crit, inv, rev, evidence, head, tree) <=>
                \E n \in DOMAIN evidence :
                    /\ evidence[n].crit = c /\ evidence[n].kind = crit[c].def.kind
                    /\ evidence[n].passed
                    /\ Lifecycle(evidence, n, rev, head, tree) = "verified")

(* The ledger with a passing row for every required criterion, and a review *)
(* of it by somebody else, all recorded in a clean worktree.                *)
SuppliedRow(c, kind, who, head) ==
    [crit |-> c, rev |-> rev[c], kind |-> kind, passed |-> TRUE, commit |-> head,
     fp |-> Clean, verified |-> TRUE, by |-> who, scoped |-> kind = Review,
     of |-> crit[c].def]

InSomeOrder(S) ==
    CHOOSE s \in [1 .. Cardinality(S) -> S] : \A i, j \in DOMAIN s : s[i] = s[j] => i = j

Supplied(a, b, head) ==
    LET order == InSomeOrder(Required(crit, inv))
    IN  evidence
          \o [i \in DOMAIN order |-> SuppliedRow(order[i], crit[order[i]].def.kind, a, head)]
          \o [i \in DOMAIN order |-> SuppliedRow(order[i], Review, b, head)]

GateOpensFor(cs) ==
    \A a, b \in Authors, head \in Commits :
        a # b => \A c \in Required(crit, inv) \cap cs :
                    CriterionMet(c, crit, inv, rev, Supplied(a, b, head), head, Clean)

(* No history wedges the gate: whatever was recorded, failed, superseded or *)
(* left stale, each required criterion whose own kind is not review is met  *)
(* once one author passes it and another one reviews it.                    *)
GateCanPass == GateOpensFor({c \in Crits : crit[c].life = "open" /\ crit[c].def.kind # Review})

(* AC-EVIDENCE-6, a high-risk invariant requires "distinct, correctly       *)
(* scoped review evidence".  With it the gate opens, whatever kind of       *)
(* evidence the criterion names.                                            *)
EveryGateCanPass == GateOpensFor(Crits)

(* T12, "Criterion update binds a new revision and makes prior evidence      *)
(* stale": what counts for a criterion was recorded for its present          *)
(* definition.                                                               *)
UpdateMakesStale ==
    \A n \in DOMAIN evidence :
        LET e == evidence[n]
        IN  crit[e.crit].life = "open" /\ e.rev = rev[e.crit] => e.of = crit[e.crit].def

(* What the code makes of T12: an update makes prior evidence stale, however *)
(* long it waited for the lock, unless another update that began after it    *)
(* committed before it.  The next update that is not overtaken mends that.   *)
StaleUnlessOvertaken ==
    \A n \in DOMAIN evidence :
        LET e == evidence[n]
        IN  /\ crit[e.crit].life = "open" /\ e.rev = rev[e.crit]
            /\ e.crit \notin overtaken
            => e.of = crit[e.crit].def
=============================================================================
