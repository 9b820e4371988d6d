---------------------------- MODULE MemoryStore ----------------------------
(***************************************************************************)
(* Durable memory: what becomes of a proposal.  A proposal is stored as a  *)
(* candidate, an editor reviews it into a slot, the slot's memory moves    *)
(* from revision to revision, and everything is erased when its source is, *)
(* when an owner says so, or when its retention has elapsed (packages/db,  *)
(* memories.ts and memory-source-signals.ts; memory-core, policy.ts;       *)
(* apps/worker, memory-retention.ts; apps/web, MemoryManagementWorkspace). *)
(* Every repository call is one transaction; a reviewer's page is read     *)
(* before, and shown while, other reviewers go on.                         *)
(***************************************************************************)
EXTENDS Integers, FiniteSets, TLC

CONSTANTS
    Runs, Signals,     \* completed runs and recorded signals
    Slots,             \* (subject, key) of a memory, in one workspace
    Contents,          \* normalized contents
    Kind,              \* the kind of each content
    Proposes,          \* the contents an extractor may propose from a source
    Reviewers, Owners, \* members who may review; who may delete a memory
    None,
    Retention,         \* retention periods a source may have
    Batch,             \* rows of a kind one maintenance batch erases
    Horizon,           \* bound: the last instant
    MaxMemories        \* bound: memories ever created

Sources == Runs \cup Signals

ASSUME StoreAssumption ==
    /\ Runs \cap Signals = {} /\ Owners \subseteq Reviewers
    /\ Horizon \in Nat /\ MaxMemories \in Nat
    /\ Retention \subseteq 1 .. Horizon /\ Batch \in Nat \ {0}
    /\ DOMAIN Kind = Contents /\ Proposes \in [Sources -> SUBSET Contents]

VARIABLES
    now,
    until,       \* retention deadline of a source: 0 before it exists, None once erased
    candidates,  \* memory_candidates: at most one per source and slot
    memories,    \* memories, by id
    revisions,   \* memory_revisions, with what the reviewer's page showed (history)
    tombstones,  \* memory_tombstones: ids
    pages,       \* the active memories each reviewer's page shows
    sweep,       \* the maintenance batch: sources first, then memories
    born         \* memories created so far

vars == <<now, until, candidates, memories, revisions, tombstones, pages, sweep, born>>

MemoryIds == 1 .. MaxMemories
CandidateIds == Sources \X Slots
CandidateRow ==
    [content : Contents, outcome : {"candidate", "conflict"},
     status : {"pending_review", "rejected", "materialized"},
     memory : MemoryIds \cup {None}, revision : Nat]
MemoryRow ==
    [slot : Slots, kind : {Kind[c] : c \in Contents}, revision : Nat \ {0},
     content : Contents, source : Sources]
RevisionRow ==
    [memory : MemoryIds, revision : Nat \ {0}, content : Contents,
     source : Sources, slot : Slots, shown : Nat]
Shown == [memory : MemoryIds, revision : Nat \ {0}]

\* SQL null is no row and no instant.
ASSUME NoneIsNoRow ==
    None \notin Nat \cup CandidateRow \cup MemoryRow \cup Shown

Init ==
    /\ now = 0
    /\ until = [s \in Sources |-> 0]
    /\ candidates = [c \in CandidateIds |-> None]
    /\ memories = [m \in MemoryIds |-> None]
    /\ revisions = {}
    /\ tombstones = {}
    /\ pages = [p \in Reviewers |-> [k \in Slots |-> None]]
    /\ sweep = "sources"
    /\ born = 0

-----------------------------------------------------------------------------
(* Reading the tables, and erasing from them with what hangs on a row.     *)

Live == {m \in MemoryIds : memories[m] # None}
Stored == {c \in CandidateIds : candidates[c] # None}
Elapsed(s) == until[s] # None /\ until[s] <= now
DueMemories == {m \in Live : Elapsed(memories[m].source)}
DueCandidates == {c \in Stored : Elapsed(c[1])}
DueSignals == {s \in Signals : until[s] # 0 /\ Elapsed(s)}
InSlot(k) == {m \in Live : memories[m].slot = k}
Current(m) == <<memories[m].source, memories[m].slot>>

\* The memories that go with their current candidate (ON DELETE CASCADE).
Orphans(cs) == {m \in Live : Current(m) \in cs}

\* Mutant: the revisions of a deleted candidate stay.
EraseKeepsRevisions(cs, ms, ts) ==
    LET gone == ms \cup Orphans(cs) IN
    /\ candidates' = [c \in CandidateIds |-> IF c \in cs THEN None ELSE candidates[c]]
    /\ memories' = [m \in MemoryIds |-> IF m \in gone THEN None ELSE memories[m]]
    /\ revisions' = {r \in revisions : r.memory \notin gone}
    /\ tombstones' = tombstones \cup ts

\* Deletes the candidates cs and the memories ms, leaving tombstones for those
\* of ts; revisions go with their memory and with their candidate.
Erase(cs, ms, ts) ==
    LET gone == ms \cup Orphans(cs) IN
    /\ candidates' = [c \in CandidateIds |-> IF c \in cs THEN None ELSE candidates[c]]
    /\ memories' = [m \in MemoryIds |-> IF m \in gone THEN None ELSE memories[m]]
    /\ revisions' =
         {r \in revisions : r.memory \notin gone /\ <<r.source, r.slot>> \notin cs}
    /\ tombstones' = tombstones \cup ts

\* The first of the rows in due by retention deadline, at most Batch of them.
Batches(due, deadline) ==
    {b \in SUBSET due :
        /\ Cardinality(b) = IF Cardinality(due) < Batch THEN Cardinality(due) ELSE Batch
        /\ \A x \in b, y \in due \ b : deadline[x] <= deadline[y]}

-----------------------------------------------------------------------------
(* Sources and proposals.                                                  *)

\* The database's clock.
Tick ==
    /\ now < Horizon /\ now' = now + 1
    /\ UNCHANGED <<until, candidates, memories, revisions, tombstones, pages, sweep, born>>

\* MemorySourceSignalRepository.create, once per idempotency key; a run becomes
\* a source when it completes.  Its deadline is fixed then.
Record(s) ==
    /\ until[s] = 0
    /\ \E days \in Retention :
         now + days <= Horizon /\ until' = [until EXCEPT ![s] = now + days]
    /\ UNCHANGED <<now, candidates, memories, revisions, tombstones, pages, sweep, born>>

\* The expired memory of slot k, with its current candidate: retired by whoever
\* finds the slot occupied by it.
Expired(k) == InSlot(k) \cap DueMemories
RetiredCandidates(k) == {Current(m) : m \in Expired(k)}
Active(k) == InSlot(k) \ Expired(k)

\* evaluateMemoryProposal.
PolicyOutcome(s, k, content) ==
    IF Elapsed(s) THEN "rejected"
    ELSE IF Active(k) = {} THEN "candidate"
    ELSE IF \E m \in Active(k) : memories[m].content = content THEN "duplicate"
    ELSE "conflict"

\* Mutant: a duplicate is stored like any proposal.
StoresAccepted(outcome) == outcome # "rejected"

\* The decisions that insert a candidate row.
Stores(outcome) == outcome \in {"candidate", "conflict"}

NewCandidate(content, outcome) ==
    [content |-> content, outcome |-> outcome, status |-> "pending_review",
     memory |-> None, revision |-> 0]

\* A second proposal of the same source for the same slot must be the first one.
Replays(c, content, outcome) ==
    candidates[c].content = content /\ candidates[c].outcome = outcome

\* MemoryRepository.submitProposal.  A proposal that throws changes nothing.
SubmitProposal(s, k, content) ==
    LET outcome == PolicyOutcome(s, k, content)
        c == <<s, k>>
        kept == candidates[c] # None /\ c \notin RetiredCandidates(k) IN
    /\ until[s] \notin {0, None}
    /\ s \in Signals => ~Elapsed(s)
    /\ Stores(outcome) /\ kept => Replays(c, content, outcome)
    /\ LET inserted == Stores(outcome) /\ ~kept IN
       /\ Expired(k) # {} \/ inserted
       /\ candidates' =
            [x \in CandidateIds |->
               IF x = c /\ inserted THEN NewCandidate(content, outcome)
               ELSE IF x \in RetiredCandidates(k) THEN None ELSE candidates[x]]
    /\ memories' = [m \in MemoryIds |-> IF m \in Expired(k) THEN None ELSE memories[m]]
    /\ revisions' = {r \in revisions : r.memory \notin Expired(k)}
    /\ tombstones' = tombstones \cup Expired(k)
    /\ UNCHANGED <<now, until, pages, sweep, born>>

-----------------------------------------------------------------------------
(* Review.                                                                 *)

\* What listMemoriesPage answers: what is shown of each slot.
Listed ==
    [k \in Slots |->
       IF Active(k) = {} THEN None
       ELSE LET m == CHOOSE x \in Active(k) : TRUE IN
            [memory |-> m, revision |-> memories[m].revision]]

\* A reviewer opens the page, or loads more of it.
LoadPage(p) ==
    /\ pages' = [pages EXCEPT ![p] = Listed]
    /\ UNCHANGED <<now, until, candidates, memories, revisions, tombstones, sweep, born>>

\* The id the page submits with a conflict: of the memory it shows in the slot.
Replacement(p, c) ==
    IF candidates[c].outcome = "conflict" /\ pages[p][c[2]] # None
    THEN pages[p][c[2]].memory ELSE None

\* Mutant: a conflict replaces whatever is in the slot.
TransitionOfSlot(c, replacement) ==
    LET k == c[2] IN
    IF candidates[c].outcome = "candidate"
    THEN IF Active(k) = {} THEN "create" ELSE "refused"
    ELSE IF Active(k) # {} THEN "replace" ELSE "refused"

\* Mutant: a new candidate is approved although the slot is taken by now.
TransitionOverOccupied(c, replacement) ==
    IF candidates[c].outcome = "candidate" THEN "create"
    ELSE IF \E m \in Active(c[2]) :
              m = replacement /\ memories[m].kind = Kind[candidates[c].content]
    THEN "replace" ELSE "refused"

\* planMemoryReviewTransition.
Transition(c, replacement) ==
    LET k == c[2] IN
    IF candidates[c].outcome = "candidate"
    THEN IF Active(k) = {} THEN "create" ELSE "refused"
    ELSE IF \E m \in Active(k) : m = replacement /\ memories[m].kind = Kind[candidates[c].content]
    THEN "replace" ELSE "refused"

\* A candidate found past its deadline is deleted, whatever was decided on it.
DropExpired(c) ==
    /\ Elapsed(c[1])
    /\ Erase({c}, {}, {})
    /\ UNCHANGED <<now, until, pages, sweep, born>>

Reject(c) ==
    /\ ~Elapsed(c[1]) /\ candidates[c].status = "pending_review"
    /\ candidates' = [candidates EXCEPT ![c].status = "rejected"]
    /\ UNCHANGED <<now, until, memories, revisions, tombstones, pages, sweep, born>>

\* MemoryRepository.reviewCandidate, to materialize: the new revision becomes
\* the slot's.  An expired memory found there is retired first; a refusal undoes
\* that too.
Materialize(p, c) ==
    LET k == c[2]
        content == candidates[c].content
        transition == Transition(c, Replacement(p, c))
        m == IF transition = "create" THEN born + 1 ELSE CHOOSE x \in Active(k) : TRUE
        revision == IF transition = "create" THEN 1 ELSE memories[m].revision + 1 IN
    /\ ~Elapsed(c[1]) /\ candidates[c].status = "pending_review"
    /\ transition # "refused"
    /\ m \in MemoryIds
    /\ candidates' =
         [x \in CandidateIds |->
            IF x = c THEN [candidates[c] EXCEPT !.status = "materialized", !.memory = m,
                                                !.revision = revision]
            ELSE IF x \in RetiredCandidates(k) THEN None ELSE candidates[x]]
    /\ memories' =
         [x \in MemoryIds |->
            IF x = m THEN [slot |-> k, kind |-> Kind[content], revision |-> revision,
                           content |-> content, source |-> c[1]]
            ELSE IF x \in Expired(k) THEN None ELSE memories[x]]
    /\ revisions' =
         {r \in revisions : r.memory \notin Expired(k)} \cup
           {[memory |-> m, revision |-> revision, content |-> content, source |-> c[1],
             slot |-> k,
             shown |-> IF pages[p][k] # None /\ pages[p][k].memory = m
                       THEN pages[p][k].revision ELSE 0]}
    /\ tombstones' = tombstones \cup Expired(k)
    /\ born' = IF transition = "create" THEN m ELSE born
    /\ UNCHANGED <<now, until, pages, sweep>>

-----------------------------------------------------------------------------
(* Erasure.                                                                *)

\* Mutant: only the memory's current candidate goes with it.
DeleteMemoryOnly(p, k) ==
    /\ p \in Owners /\ pages[p][k] # None
    /\ pages[p][k].memory \in InSlot(k)
    /\ Erase({Current(pages[p][k].memory)}, {pages[p][k].memory}, {pages[p][k].memory})
    /\ pages' = [pages EXCEPT ![p][k] = None]
    /\ UNCHANGED <<now, until, sweep, born>>

\* MemoryRepository.deleteMemory: an owner deletes a memory the page shows, and
\* with it every candidate of its slot.
DeleteMemory(p, k) ==
    /\ p \in Owners /\ pages[p][k] # None
    /\ pages[p][k].memory \in InSlot(k)
    /\ Erase(Stored \cap (Sources \X {k}), {pages[p][k].memory}, {pages[p][k].memory})
    /\ pages' = [pages EXCEPT ![p][k] = None]
    /\ UNCHANGED <<now, until, sweep, born>>

EraseSources(ss) ==
    /\ until' = [s \in Sources |-> IF s \in ss THEN None ELSE until[s]]
    /\ Erase({c \in Stored : c[1] \in ss}, {}, {})

\* MemorySourceSignalRepository.delete: its author, or an owner, revokes a signal.
EraseSignal(s) ==
    /\ until[s] \notin {0, None}
    /\ EraseSources({s})
    /\ UNCHANGED <<now, pages, sweep, born>>

\* MemorySourceSignalRepository.expireDue, the first half of a maintenance batch.
ExpireSignals ==
    /\ sweep = "sources" /\ sweep' = "memories"
    /\ \E ss \in Batches(DueSignals, until) : EraseSources(ss)
    /\ UNCHANGED <<now, pages, born>>

\* Mutant: a candidate somebody decided on is left to its memory.
ExpireMemoriesPendingOnly ==
    /\ sweep = "memories" /\ sweep' = "sources"
    /\ \E ms \in Batches(DueMemories, [m \in DueMemories |-> until[memories[m].source]]) :
         \E cs \in Batches({c \in DueCandidates : candidates[c].status = "pending_review"},
                            [c \in DueCandidates |-> until[c[1]]]) : Erase(cs, ms, ms)
    /\ UNCHANGED <<now, until, pages, born>>

\* MemoryRepository.expireDue, the second half: memories first, then candidates.
\* A batch that fails only delays the next.
ExpireMemories ==
    /\ sweep = "memories" /\ sweep' = "sources"
    /\ \E ms \in Batches(DueMemories, [m \in DueMemories |-> until[memories[m].source]]) :
         \E cs \in Batches(DueCandidates, [c \in DueCandidates |-> until[c[1]]]) :
            Erase(cs, ms, ms)
    /\ UNCHANGED <<now, until, pages, born>>

Next ==
    \/ Tick
    \/ \E s \in Sources : Record(s)
    \/ \E s \in Sources, k \in Slots : \E content \in Proposes[s] : SubmitProposal(s, k, content)
    \/ \E p \in Reviewers : LoadPage(p)
    \/ \E c \in Stored : DropExpired(c) \/ Reject(c)
    \/ \E p \in Reviewers, c \in Stored : Materialize(p, c)
    \/ \E p \in Reviewers, k \in Slots : DeleteMemory(p, k)
    \/ \E s \in Signals : EraseSignal(s)
    \/ ExpireSignals
    \/ ExpireMemories

\* MemoryRetentionProcessRuntime.maintenanceLoop runs batch after batch for as
\* long as the process lives; nothing else has to happen.
Spec ==
    /\ Init /\ [][Next]_vars
    /\ WF_vars(ExpireSignals) /\ WF_vars(ExpireMemories)

-----------------------------------------------------------------------------
(* Properties.                                                             *)

StoreTypeOK ==
    /\ now \in 0 .. Horizon /\ born \in 0 .. MaxMemories
    /\ until \in [Sources -> 0 .. Horizon \cup {None}]
    /\ \A s \in Runs : until[s] # None
    /\ candidates \in [CandidateIds -> CandidateRow \cup {None}]
    /\ memories \in [MemoryIds -> MemoryRow \cup {None}]
    /\ revisions \subseteq RevisionRow
    /\ tombstones \subseteq MemoryIds
    /\ pages \in [Reviewers -> [Slots -> Shown \cup {None}]]
    /\ sweep \in {"sources", "memories"}

\* A slot has one memory, and whoever lists memories sees it: its current revision
\* has the row the list joins with, holding the content and the approval of a
\* candidate that is still there and says so (memories.ts:367, 599-697; the
\* cascades of schema.ts:1946-2017).  Two editors, a deletion and a sweep act on
\* the same slot; a memory whose row is missing would fill the slot unseen.
MemoryIsReadable ==
    \A m \in Live :
        /\ InSlot(memories[m].slot) = {m}
        /\ \E r \in revisions :
             /\ r.memory = m /\ r.revision = memories[m].revision
             /\ r.content = memories[m].content /\ <<r.source, r.slot>> = Current(m)
        /\ LET c == Current(m) IN
           /\ candidates[c] # None /\ candidates[c].status = "materialized"
           /\ candidates[c].memory = m /\ candidates[c].revision = memories[m].revision

\* A revision that replaces another does so in a memory its reviewer's page showed,
\* and keeps its kind: a page that is out of date can only fail, however the slot
\* was emptied and filled since (policy.ts:163-194, MemoryManagementWorkspace.tsx:199).
ReplacementIsNamed ==
    \A r \in revisions : r.revision > 1 =>
        r.shown > 0 /\ Kind[r.content] = memories[r.memory].kind

\* The tables agree whoever reviews, deletes or sweeps: a slot holds one memory, which
\* the list shows with its approval, and only what a page showed is replaced.
StoreIsConsistent == StoreTypeOK /\ MemoryIsReadable /\ ReplacementIsNamed

\* Nothing derived from an erased signal stays, in any table: no candidate, no
\* memory, no older revision (ADR-0045; memory-source-signals.ts:263-378).
NothingOutlivesItsSource ==
    \A s \in Signals : until[s] = None =>
        /\ \A c \in Stored : c[1] # s
        /\ \A m \in Live : memories[m].source # s
        /\ \A r \in revisions : r.source # s

\* When an owner deletes a memory, no text of its slot survives that a reviewer
\* could approve again, whichever source it came from (ADR-0038, decision 5;
\* memories.ts:738-748).
DeletionTakesTheSlot ==
    [][\A m \in Live :
         (m \in tombstones' \ tombstones /\ ~Elapsed(memories[m].source)) =>
            /\ \A c \in Stored : c[2] = memories[m].slot => candidates'[c] = None
            /\ \A r \in revisions' : r.slot # memories[m].slot]_vars

\* What retention has to erase is erased although a batch takes only its oldest
\* rows, however many fall due at once (memories.ts:753-791).
DueIsErased ==
    \A s \in Sources :
        (until[s] # 0 /\ Elapsed(s)) ~>
            /\ \A c \in Stored : c[1] # s
            /\ \A m \in Live : memories[m].source # s

\* A revision replaces the one its reviewer had on the page: nobody's decision is
\* overwritten unseen (ADR-0038, decision 3: a conflict advances the revision by
\* compare-and-swap, never last-write-wins).
NoBlindOverwrite == \A r \in revisions : r.revision > 1 => r.shown = r.revision - 1

\* A memory that came from a run is gone only with a tombstone (ADR-0038,
\* decision 5: a materialized memory leaves one, whoever or whatever erases it).
ErasureLeavesTombstone ==
    [][\A m \in MemoryIds :
         (memories[m] # None /\ memories[m].source \in Runs /\ memories'[m] = None)
            => m \in tombstones']_vars

=============================================================================
