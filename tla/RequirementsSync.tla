------------------------- MODULE RequirementsSync -------------------------
(***************************************************************************)
(* The requirements file of one project and its merge with the store       *)
(* (pcs.requirements.service).  The file is edited by people at any time;  *)
(* the rows are changed by requests, each of which holds the project row   *)
(* lock, merges file and store and writes the file before it commits.  A   *)
(* request is therefore three steps here: it reads and merges, it replaces *)
(* the file, it commits.  Edits fall between any two, and it may crash.    *)
(***************************************************************************)
EXTENDS Naturals, Sequences, FiniteSets, SequencesExt

CONSTANTS
    Texts,        \* a title with its prose
    Parts,        \* the blocks the parser makes of a rendered text: its own, whose id and
                  \* status are the row's, and one for each heading line in its prose,
                  \* with the id and the status found there
    Refused,      \* texts the store rejects (an oversize headline or detail)
    Kept,         \* what a refused update leaves in the row: its old text, or, the
                  \* headline being assigned before the detail is measured, the new
                  \* title over the old prose
    Statuses, NotStarted, Done,
    MaxRows, MaxKey, MaxBlocks,   \* bounds for TLC
    MaxActs       \* bounds the edits of the file and the writes to the store together

ASSUME TextAssumption ==
    /\ Refused \subseteq Texts
    /\ Parts \in [Texts -> Seq([key : Nat, text : Texts, st : Statuses, ok : BOOLEAN])]
    /\ \A t \in Texts : Parts[t] # <<>>
    /\ Kept \in [Texts \X Refused -> Texts]
    /\ \A t \in Texts, r \in Refused :
          /\ t \notin Refused => Kept[<<t, r>>] \notin Refused
          /\ Kept[<<Kept[<<t, r>>], r>>] = Kept[<<t, r>>]
    /\ \A t \in Texts : \A n \in DOMAIN Parts[t] :
          LET u == Parts[t][n].text IN Len(Parts[u]) = 1 /\ Parts[u][1].text = u
ASSUME StatusAssumption == {NotStarted, Done} \subseteq Statuses /\ NotStarted # Done
ASSUME SyncBounds == {MaxRows, MaxKey, MaxBlocks, MaxActs} \subseteq Nat

VARIABLES
    rows,       \* context_entries of section requirements, oldest first
    nextSeq,    \* requirements_sync_state.next_seq
    snap,       \* requirements_sync_state.snapshot: key -> status
    file,       \* the blocks of requirements.md
    phase,      \* the transaction that holds the project lock: idle, merged, written
    work,       \* what that transaction will commit, and the file it will write
    \* history, read by no action
    op,         \* the request being served, and whether it found clean TRUE
    clean,      \* file and store have not been touched since a complete sync
    removed,    \* keys that somebody took out of the file or asked to delete
    touched,    \* keys whose status token the last complete sync did not write
    acts        \* edits and store writes so far

vars == <<rows, nextSeq, snap, file, phase, work, op, clean, removed, touched,
          acts>>

NoKey == 0
Lives == {"open", "resolved", "archived", "deleted"}
Row == [key : Nat, text : Texts, st : Statuses, life : Lives]
Block == [key : Nat, text : Texts, st : Statuses, ok : BOOLEAN]
Plain == {t \in Texts : Len(Parts[t]) = 1 /\ Parts[t][1].text = t}

(* The blocks that heading lines split off a prose, and the ids they carry.  *)
Split(t) == {Parts[t][n] : n \in 2 .. Len(Parts[t])}
Quoted(t) == {p.key : p \in Split(t)} \ {NoKey}

Op(kind, i, text, calm) == [kind |-> kind, row |-> i, text |-> text, calm |-> calm]
NoText == "none"
NoOp == Op("none", 0, NoText, FALSE)
Resting(rs, from, sn, f) ==
    [rows |-> rs, nextSeq |-> from, snap |-> sn, out |-> f, full |-> FALSE]

-----------------------------------------------------------------------------
(* What a merge sees.  An operator named X_... is X with a seeded bug;       *)
(* nothing refers to it.                                                    *)

FileKeys(f) == {f[j].key : j \in DOMAIN f} \ {NoKey}

(* Two headings with one id: the file is refused as a whole.                *)
Fatal(f) == \E i, j \in DOMAIN f : i # j /\ f[i].key = f[j].key /\ f[i].key # NoKey

(* by_key: the query of _merge leaves deleted rows out.                     *)
Known(rs, k) == k # NoKey /\ \E i \in DOMAIN rs : rs[i].key = k /\ rs[i].life # "deleted"
RowOf(rs, k) == CHOOSE i \in DOMAIN rs : rs[i].key = k /\ rs[i].life # "deleted"
BlockOf(f, k) == CHOOSE j \in DOMAIN f : f[j].key = k

\* Only the store's keys count, not the ones standing in the file.
UsedKeys_StoreOnly(rs, f) == {k \in {rs[i].key : i \in DOMAIN rs} : Known(rs, k)}

UsedKeys(rs, f) == {k \in {rs[i].key : i \in DOMAIN rs} : Known(rs, k)} \cup FileKeys(f)

Live(rs) == {i \in DOMAIN rs : rs[i].life \in {"open", "resolved"}}

(* Blocks that become rows: without an id, or with one the store lacks.     *)
NewBlocks(rs, f) == {j \in DOMAIN f : f[j].ok /\ ~Known(rs, f[j].key)}
CreatedBlocks(rs, f) == {j \in NewBlocks(rs, f) : f[j].text \notin Refused}

(* Readable blocks of rows the store still has.                             *)
Matched(rs, f) ==
    {j \in DOMAIN f : /\ f[j].ok /\ Known(rs, f[j].key)
                      /\ rs[RowOf(rs, f[j].key)].life # "archived"}

(* Rows the file does not mention, appended to it unless the snapshot says  *)
(* that they were there; and rows that never had a key.                     *)
Missing(rs, f) == {i \in Live(rs) : rs[i].key # NoKey /\ rs[i].key \notin FileKeys(f)}
Keyless(rs) == {i \in Live(rs) : rs[i].key = NoKey}

-----------------------------------------------------------------------------
(* next_key(): keys in the order in which new blocks and then keyless rows  *)
(* ask for them, skipping the ones in use.  A key is spent even when the    *)
(* store then refuses the block's text.                                     *)

Needs(rs, f) == (NewBlocks(rs, f) \X {"block"}) \cup (Keyless(rs) \X {"row"})

Earlier(m, n) == \/ m[2] = "block" /\ n[2] = "row"
                 \/ m[2] = n[2] /\ m[1] < n[1]

IsAllocation(alloc, from, used) ==
    /\ \A n \in DOMAIN alloc : alloc[n] \notin used
    /\ \A m, n \in DOMAIN alloc : Earlier(m, n) => alloc[m] < alloc[n]
    /\ \A n \in DOMAIN alloc : \A k \in from .. alloc[n] :
            k \in used \/ \E m \in DOMAIN alloc : alloc[m] = k

NextSeqAfter(alloc, from) ==
    IF DOMAIN alloc = {} THEN from
    ELSE 1 + CHOOSE k \in {alloc[n] : n \in DOMAIN alloc} : \A n \in DOMAIN alloc : alloc[n] <= k

-----------------------------------------------------------------------------
(* The three-way merge.                                                     *)

\* A two-way merge: whatever the file says goes.
FinalStatus_FileWins(row, block, sn, gate) ==
    IF block.st = Done => row.key \in gate THEN block.st ELSE row.st

(* Only a status changed in the file and not in the store goes to the store, *)
(* and done only when its close gate passes: gate holds the keys that pass. *)
FinalStatus(row, block, sn, gate) ==
    IF /\ row.key \in DOMAIN sn
       /\ block.st # sn[row.key]
       /\ row.st = sn[row.key]
       /\ block.st = Done => row.key \in gate
    THEN block.st ELSE row.st

MergedRow(rs, i, f, sn, alloc, gate) ==
    IF i \in Keyless(rs) THEN [rs[i] EXCEPT !.key = alloc[<<i, "row">>]]
    ELSE IF i \in Missing(rs, f) /\ rs[i].key \in DOMAIN sn
         THEN [rs[i] EXCEPT !.life = "archived"]
    ELSE IF i \in Live(rs) /\ rs[i].key \in {f[j].key : j \in Matched(rs, f)}
         THEN LET block == f[BlockOf(f, rs[i].key)]
              IN  [rs[i] EXCEPT !.text = IF block.text \in Refused THEN Kept[<<@, block.text>>] ELSE block.text,
                                !.st = FinalStatus(rs[i], block, sn, gate)]
    ELSE rs[i]

(* create_from_block, for the created blocks in file order.                 *)
CreatedRow(rs, f, n, alloc) ==
    LET j == CHOOSE b \in CreatedBlocks(rs, f) :
                 Cardinality({a \in CreatedBlocks(rs, f) : a <= b}) = n
    IN  [key |-> alloc[<<j, "block">>], text |-> f[j].text, st |-> f[j].st, life |-> "open"]

RowsAfter(rs, f, sn, alloc, gate) ==
    [i \in 1 .. Len(rs) + Cardinality(CreatedBlocks(rs, f)) |->
        IF i <= Len(rs) THEN MergedRow(rs, i, f, sn, alloc, gate)
        ELSE CreatedRow(rs, f, i - Len(rs), alloc)]

\* The status is settled in the store but the token is not rewritten.
MergedBlock_StaleToken(rs, f, j, sn, alloc, gate) ==
    IF j \in CreatedBlocks(rs, f) THEN [f[j] EXCEPT !.key = alloc[<<j, "block">>]] ELSE f[j]

(* Headings get their key, tokens their status; prose is never touched.     *)
MergedBlock(rs, f, j, sn, alloc, gate) ==
    IF j \in CreatedBlocks(rs, f) THEN [f[j] EXCEPT !.key = alloc[<<j, "block">>]]
    ELSE IF j \in Matched(rs, f)
         THEN [f[j] EXCEPT !.st = FinalStatus(rs[RowOf(rs, f[j].key)], f[j], sn, gate)]
    ELSE f[j]

(* A row rendered as a block, and read back by the next parse: its prose is *)
(* copied as it stands, so a heading line in it speaks for itself.           *)
Rendered(key, text, st) ==
    [n \in DOMAIN Parts[text] |->
        IF n = 1 THEN [key |-> key, text |-> Parts[text][1].text, st |-> st, ok |-> TRUE]
        ELSE Parts[text][n]]

Appended(rs, f, sn) == {i \in Missing(rs, f) : rs[i].key \notin DOMAIN sn}

(* The rows of S, one after the other: piece <<i, n>> is the n-th of row i.  *)
Upto(p, q) == p[1] < q[1] \/ (p[1] = q[1] /\ p[2] <= q[2])
Ascending(S) ==
    [n \in 1 .. Cardinality(S) |-> CHOOSE p \in S : Cardinality({q \in S : Upto(q, p)}) = n]

Pieces(rs, S) == UNION {{i} \X DOMAIN Parts[rs[i].text] : i \in S}
Key(rs, i, alloc) == IF i \in Keyless(rs) THEN alloc[<<i, "row">>] ELSE rs[i].key

RenderedRows(rs, S, alloc) ==
    LET pieces == Ascending(Pieces(rs, S))
    IN  [n \in DOMAIN pieces |->
            LET i == pieces[n][1]
            IN  Rendered(Key(rs, i, alloc), rs[i].text, rs[i].st)[pieces[n][2]]]

AppendedBlocks(rs, f, sn, alloc) ==
    RenderedRows(rs, Appended(rs, f, sn), alloc) \o RenderedRows(rs, Keyless(rs), alloc)

FileAfter(rs, f, sn, alloc, gate) ==
    [j \in DOMAIN f |-> MergedBlock(rs, f, j, sn, alloc, gate)]
        \o AppendedBlocks(rs, f, sn, alloc)

\* The snapshot forgets the rows that were keyed only now.
SnapAfter_NoKeyless(rs, f, sn, alloc, gate) ==
    LET after == RowsAfter(rs, f, sn, alloc, gate)
        told == {alloc[<<j, "block">>] : j \in CreatedBlocks(rs, f)}
                  \cup {f[j].key : j \in Matched(rs, f)}
                  \cup {rs[i].key : i \in Appended(rs, f, sn)}
        kept == {k \in DOMAIN sn : \E i \in Live(rs) : rs[i].key = k
                                       /\ \E j \in DOMAIN f : ~f[j].ok /\ f[j].key = k}
    IN  [k \in told \cup kept |->
            IF k \in told THEN after[RowOf(after, k)].st ELSE sn[k]]

(* new_snapshot: what the file now says, and for an unreadable block what   *)
(* it last said.                                                            *)
SnapAfter(rs, f, sn, alloc, gate) ==
    LET after == RowsAfter(rs, f, sn, alloc, gate)
        told == {alloc[<<j, "block">>] : j \in CreatedBlocks(rs, f)}
                  \cup {f[j].key : j \in Matched(rs, f)}
                  \cup {rs[i].key : i \in Appended(rs, f, sn)}
                  \cup {alloc[<<i, "row">>] : i \in Keyless(rs)}
        kept == {k \in DOMAIN sn : \E i \in Live(rs) : rs[i].key = k
                                       /\ \E j \in DOMAIN f : ~f[j].ok /\ f[j].key = k}
    IN  [k \in told \cup kept |->
            IF k \in told THEN after[RowOf(after, k)].st ELSE sn[k]]

Merge(rs, from, sn, f, alloc, gate) ==
    [rows |-> RowsAfter(rs, f, sn, alloc, gate), nextSeq |-> NextSeqAfter(alloc, from),
     snap |-> SnapAfter(rs, f, sn, alloc, gate), out |-> FileAfter(rs, f, sn, alloc, gate),
     full |-> TRUE]

\* The snapshot advances although the file was not written.
ReadOnly_SnapshotAdvances(m, sn, f) == [m EXCEPT !.out = f, !.full = FALSE]

(* In a directory that cannot be written the rows are merged all the same,  *)
(* but neither the file nor the snapshot moves.                             *)
ReadOnly(m, sn, f) == [m EXCEPT !.snap = sn, !.out = f, !.full = FALSE]
-----------------------------------------------------------------------------
(* A request: the project row is locked, its own write is applied to rs,    *)
(* and the file is read and merged.                                         *)

Init ==
    /\ rows = <<>> /\ nextSeq = 1 /\ snap = [k \in {} |-> NotStarted] /\ file = <<>>
    /\ phase = "idle"
    /\ work = Resting(rows, nextSeq, snap, file)
    /\ op = NoOp /\ clean = TRUE /\ removed = {} /\ touched = {}
    /\ acts = 0

(* Keys for which the file asks for done: the close gate is consulted, and   *)
(* what it answers is open here.                                            *)
Asking(rs, f) == {f[j].key : j \in {b \in Matched(rs, f) : f[b].st = Done}}

WithinBounds(m) == Len(m.rows) <= MaxRows /\ Len(m.out) <= MaxBlocks

(* sync_requirements up to the file write.  An unreadable file, or one with *)
(* a duplicate id, is reported and left alone; the request itself goes on.  *)
SyncOutcome(rs) ==
    \/ work' = Resting(rs, nextSeq, snap, file)
    \/ /\ ~Fatal(file)
       /\ \E alloc \in [Needs(rs, file) -> nextSeq .. MaxKey], gate \in SUBSET Asking(rs, file) :
             /\ IsAllocation(alloc, nextSeq, UsedKeys(rs, file))
             /\ LET m == Merge(rs, nextSeq, snap, file, alloc, gate)
                IN  work' = m \/ work' = ReadOnly(m, snap, file)
       /\ WithinBounds(work')

Begin(rs, request) ==
    /\ phase = "idle"
    /\ SyncOutcome(rs)
    /\ phase' = IF work'.out = file THEN "written" ELSE "merged"
    /\ op' = request
    /\ UNCHANGED <<rows, nextSeq, snap, file, clean, touched>>

Request(rs, kind, i, text) ==
    /\ acts < MaxActs
    /\ acts' = acts + 1
    /\ Begin(rs, Op(kind, i, text, clean))
    /\ removed' = IF kind = "delete" THEN removed \cup {rows[i].key} ELSE removed

AddRequirement ==
    \E t \in Texts \ Refused, s \in Statuses :
        Request(Append(rows, [key |-> NoKey, text |-> t, st |-> s, life |-> "open"]),
                "add", Len(rows) + 1, t)

UpdateRequirement ==
    \E i \in Live(rows), t \in Texts \ Refused :
        Request([rows EXCEPT ![i].text = t], "update", i, t)

(* Done is accepted when the close gate passes, and it may.                 *)
SetRequirementStatus ==
    \E i \in Live(rows), s \in Statuses :
        Request([rows EXCEPT ![i].st = s], "status", i, NoText)

ResolveRequirement ==
    \E i \in Live(rows) : Request([rows EXCEPT ![i].life = "resolved"], "resolve", i, NoText)

(* DELETE /entries/{id}: the soft delete, and then the write-through.       *)
DeleteEntry ==
    \E i \in Live(rows) : Request([rows EXCEPT ![i].life = "deleted"], "delete", i, NoText)

(* The delete_entry tool writes nothing through.                            *)
DeleteEntryTool ==
    /\ phase = "idle" /\ acts < MaxActs
    /\ acts' = acts + 1
    /\ \E i \in Live(rows) : rows' = [rows EXCEPT ![i].life = "deleted"]
    /\ work' = Resting(rows', nextSeq, snap, file)
    /\ clean' = FALSE
    /\ UNCHANGED <<nextSeq, snap, file, phase, op, removed, touched>>

SyncRequirements ==
    /\ Begin(rows, Op("sync", 0, NoText, clean))
    /\ UNCHANGED <<removed, acts>>

(* os.replace of the merged text, whatever the file holds by now.           *)
ReplaceFile ==
    /\ phase = "merged"
    /\ phase' = "written" /\ file' = work.out /\ clean' = FALSE
    /\ UNCHANGED <<rows, nextSeq, snap, work, op, removed, touched, acts>>

Commit ==
    /\ phase = "written"
    /\ rows' = work.rows /\ nextSeq' = work.nextSeq /\ snap' = work.snap
    /\ phase' = "idle" /\ op' = NoOp
    /\ clean' = (work.full /\ file = work.out)
    /\ touched' = IF clean' THEN {k \in touched : \E j \in DOMAIN file : file[j].key = k /\ ~file[j].ok}
                  ELSE touched
    /\ work' = Resting(rows', nextSeq', snap', file)
    /\ UNCHANGED <<file, removed, acts>>

(* Keys whose token in f is not the one last synced: it was not there, or   *)
(* another block of the same id said otherwise.                              *)
Stray(f, before) ==
    {f[j].key : j \in {b \in DOMAIN f :
        LET same == {a \in DOMAIN before : before[a].key = f[b].key}
        IN  same = {} \/ \E a \in same : before[a].st # f[b].st \/ before[a].ok # f[b].ok}}

(* The process stops, or the commit fails: the file may be ahead.           *)
Crash ==
    /\ phase # "idle"
    /\ phase' = "idle" /\ op' = NoOp
    /\ work' = Resting(rows, nextSeq, snap, file)
    /\ touched' = touched \cup {k \in FileKeys(file) : k \notin DOMAIN snap
                                    \/ \E j \in DOMAIN file : file[j].key = k /\ file[j].st # snap[k]}
    /\ UNCHANGED <<rows, nextSeq, snap, file, clean, removed, acts>>

(* Somebody saves the file.                                                 *)
Token(block, s) == [block EXCEPT !.st = s, !.ok = TRUE]
BadToken(block) == [block EXCEPT !.st = NotStarted, !.ok = FALSE]

Dropped(f) == {RemoveAt(f, j) : j \in DOMAIN f}
Reworded(f) == {[f EXCEPT ![j].text = t] : j \in DOMAIN f, t \in Plain}
Restated(f) == {[f EXCEPT ![j] = Token(@, s)] : j \in DOMAIN f, s \in Statuses}
Garbled(f) == {[f EXCEPT ![j] = BadToken(@)] : j \in DOMAIN f}
Longer(f) ==
    {Append(f, b) : b \in [key : NoKey .. nextSeq, text : Plain, st : Statuses, ok : {TRUE}]}

Edited(f) == Dropped(f) \cup Reworded(f) \cup Restated(f) \cup Garbled(f) \cup Longer(f)

EditFile ==
    /\ acts < MaxActs
    /\ acts' = acts + 1
    /\ file' \in Edited(file) \ {file}
    /\ Len(file') <= MaxBlocks
    /\ clean' = FALSE
    /\ removed' = removed \cup (FileKeys(file) \ FileKeys(file'))
    /\ touched' = touched \cup Stray(file', file)
    /\ work' = IF phase = "idle" THEN Resting(rows, nextSeq, snap, file') ELSE work
    /\ UNCHANGED <<rows, nextSeq, snap, phase, op>>

Next ==
    \/ AddRequirement \/ UpdateRequirement \/ SetRequirementStatus \/ ResolveRequirement
    \/ DeleteEntry \/ DeleteEntryTool \/ SyncRequirements
    \/ ReplaceFile \/ Commit \/ Crash \/ EditFile

Spec == Init /\ [][Next]_vars

-----------------------------------------------------------------------------
(* Properties.                                                              *)

(* R-NNN ids are stable and never reused (REQUIREMENTS.md FR16a): no two    *)
(* rows share one, in the store or about to be committed, none lies ahead   *)
(* of the counter, and the server writes an id over two blocks, a file that *)
(* every later sync refuses, only when a heading line in the prose of a row *)
(* quotes that id.                                                           *)
KeysUnique ==
    /\ \A w \in {[rows |-> rows, nextSeq |-> nextSeq], [rows |-> work.rows, nextSeq |-> work.nextSeq]} :
          \A i, j \in DOMAIN w.rows :
              /\ w.rows[i].key < w.nextSeq
              /\ i # j /\ w.rows[i].key = w.rows[j].key => w.rows[i].key = NoKey
    /\ work.full => \A j, k \in DOMAIN work.out :
          j # k /\ work.out[j].key = work.out[k].key /\ work.out[j].key # NoKey =>
              \E i \in Live(work.rows) : work.out[j].key \in Quoted(work.rows[i].text)

(* AC22: the merge archives a requirement only when somebody took its block *)
(* out of the file, or asked to delete it in a request that crashed after   *)
(* it gave the block another id.  A row that never reached the file,        *)
(* because it could not be written or the server crashed, stays.            *)
ArchivedWasRemoved ==
    \A i \in DOMAIN rows : rows[i].life = "archived" => rows[i].key \in removed

(* After a complete sync, and until somebody touches either side, file and  *)
(* store say the same: every live row has its block with its text and its   *)
(* status, and every block that can be read belongs to a row, or is one that *)
(* a heading line split off a live row's prose.                              *)
CleanAgrees ==
    clean =>
        /\ \A i \in Live(rows) : \E j \in DOMAIN file :
              /\ file[j].key = rows[i].key /\ rows[i].key # NoKey
              /\ file[j].ok => /\ file[j].st = rows[i].st
                               /\ file[j].text \notin Refused => file[j].text = Parts[rows[i].text][1].text
        /\ \A j \in DOMAIN file : file[j].ok /\ file[j].text \notin Refused =>
              \/ Known(rows, file[j].key)
              \/ \E i \in Live(rows) : file[j] \in Split(rows[i].text)

(* A second sync does nothing (tests/test_requirements_file.py,             *)
(* test_sync_is_idempotent), but for keys spent on blocks the store refuses *)
(* and for rows whose prose holds a heading, which the parser splits off.   *)
SecondSyncIdle ==
    (clean /\ \A i \in DOMAIN rows : rows[i].text \in Plain) =>
        \A alloc \in [Needs(rows, file) -> nextSeq .. MaxKey], gate \in SUBSET Asking(rows, file) :
            IsAllocation(alloc, nextSeq, UsedKeys(rows, file)) =>
                LET m == Merge(rows, nextSeq, snap, file, alloc, gate)
                IN  m.rows = rows /\ m.snap = snap /\ m.out = file

(* D15, the store owns the status: no merge changes the status of a row     *)
(* unless the request sets it, or somebody else wrote the status token of   *)
(* its block since the last complete sync.                                  *)
StoreOwnsStatus ==
    [][\A i \in DOMAIN rows : rows'[i].st # rows[i].st =>
            \/ op.kind = "status" /\ op.row = i
            \/ rows[i].key \in touched]_vars

Completes(kind) == phase = "written" /\ phase' = "idle" /\ rows' = work.rows
                     /\ op.kind = kind /\ op.calm /\ work.full

(* docs/mcp-reference.md:104, update_requirement "Merge-updates and writes  *)
(* through".  An update served completely, with file and store in agreement *)
(* when it began, leaves the row with the text it was given.                *)
UpdateIsKept == [][Completes("update") => rows'[op.row].text = op.text]_vars
=============================================================================
