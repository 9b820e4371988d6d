------------------------- MODULE MemoryStore_proofs -------------------------
(***************************************************************************)
(* Theorems about durable memory, for any sources, slots, contents,        *)
(* reviewers and retention periods: whoever reviews, deletes or sweeps, a  *)
(* slot holds one memory that the list can show with its approval, nothing *)
(* outlives the signal it came from, and a deletion takes the whole slot.  *)
(***************************************************************************)
EXTENDS MemoryStore, TLAPS

(* The four tables, as candidates cs, memories ms, revisions rs and         *)
(* tombstones ts, so that a transaction is taken one statement at a time.   *)

TablesTyped(cs, ms, rs, ts) ==
    /\ cs \in [CandidateIds -> CandidateRow \cup {None}]
    /\ ms \in [MemoryIds -> MemoryRow \cup {None}]
    /\ rs \subseteq RevisionRow
    /\ ts \subseteq MemoryIds

OneMemory(ms) ==
    \A m, n \in MemoryIds :
        (ms[m] # None /\ ms[n] # None /\ ms[m].slot = ms[n].slot) => m = n

\* Revision row r is the one the list joins memory row row of id m with.
Shows(r, m, row) ==
    /\ r.memory = m /\ r.revision = row.revision /\ r.content = row.content
    /\ r.source = row.source /\ r.slot = row.slot

HasCurrentRevision(ms, rs) ==
    \A m \in MemoryIds : ms[m] # None => \E r \in rs : Shows(r, m, ms[m])

\* Candidate row says that it became memory m at revision n.
Approves(row, m, n) ==
    row # None /\ row.status = "materialized" /\ row.memory = m /\ row.revision = n

HasApproval(cs, ms) ==
    \A m \in MemoryIds :
        ms[m] # None => Approves(cs[<<ms[m].source, ms[m].slot>>], m, ms[m].revision)

\* The foreign keys of a revision: its memory, in its slot, and its candidate.
RevisionsHang(cs, ms, rs) ==
    \A r \in rs :
        /\ ms[r.memory] # None /\ ms[r.memory].slot = r.slot
        /\ cs[<<r.source, r.slot>>] # None

ReplacementsAreNamed(ms, rs) ==
    \A r \in rs : r.revision > 1 => r.shown > 0 /\ Kind[r.content] = ms[r.memory].kind

TablesInv(cs, ms, rs, ts) ==
    /\ TablesTyped(cs, ms, rs, ts) /\ OneMemory(ms) /\ HasCurrentRevision(ms, rs)
    /\ HasApproval(cs, ms) /\ RevisionsHang(cs, ms, rs) /\ ReplacementsAreNamed(ms, rs)

\* Ids are given in order, and a proposal is never older than its source.
BornInOrder == \A m \in MemoryIds : memories[m] # None => m <= born

CandidatesHaveSources ==
    \A c \in CandidateIds : candidates[c] # None => until[c[1]] \notin {0, None}

StoreInv ==
    /\ StoreTypeOK /\ BornInOrder /\ CandidatesHaveSources
    /\ TablesInv(candidates, memories, revisions, tombstones)

-----------------------------------------------------------------------------
(* The statements                                                          *)

\* A row of a table is not the null that says there is none.
LEMMA RowsAreNotNull ==
    /\ \A row \in CandidateRow : row # None
    /\ \A row \in MemoryRow : row # None
    /\ \A row \in Shown : row # None
    /\ \A n \in Nat : n # None
  BY NoneIsNoRow

\* The tables cs2, ms2 and rs2 are cs, ms and rs without the candidates dropped, the
\* memories gone, and what hangs on them.
Erases(cs, ms, rs, dropped, gone, cs2, ms2, rs2) ==
    /\ cs2 = [c \in CandidateIds |-> IF c \in dropped THEN None ELSE cs[c]]
    /\ ms2 = [m \in MemoryIds |-> IF m \in gone THEN None ELSE ms[m]]
    /\ rs2 = {r \in rs : r.memory \notin gone /\ <<r.source, r.slot>> \notin dropped}
    /\ \A m \in MemoryIds :
         (ms[m] # None /\ <<ms[m].source, ms[m].slot>> \in dropped) => m \in gone

\* Deleting the candidates dropped with every memory whose current candidate is one
\* of them, and the memories gone with their revisions, keeps the tables in order.
LEMMA RowsErased ==
    ASSUME NEW cs, NEW ms, NEW rs, NEW ts, TablesInv(cs, ms, rs, ts),
           NEW dropped, NEW gone, NEW cs2, NEW ms2, NEW rs2,
           Erases(cs, ms, rs, dropped, gone, cs2, ms2, rs2),
           NEW ts2 \in SUBSET MemoryIds
    PROVE  TablesInv(cs2, ms2, rs2, ts2)
  <1> USE DEF Erases
  <1>1. TablesTyped(cs, ms, rs, ts)
    BY DEF TablesInv
  <1>2. TablesTyped(cs2, ms2, rs2, ts2)
    BY <1>1 DEF TablesTyped
  <1>3. \A m \in MemoryIds : ms2[m] # None => ms2[m] = ms[m] /\ m \notin gone
    OBVIOUS
  <1>4. \A r \in rs : r.memory \in MemoryIds /\ <<r.source, r.slot>> \in CandidateIds
    BY <1>1 DEF TablesTyped, RevisionRow, CandidateIds
  <1>5. \A m \in MemoryIds :
            ms[m] # None => <<ms[m].source, ms[m].slot>> \in CandidateIds
    BY <1>1 DEF TablesTyped, MemoryRow, CandidateIds
  <1>6. OneMemory(ms2)
    BY <1>3 DEF TablesInv, OneMemory
  <1>7. HasCurrentRevision(ms2, rs2)
    <2> SUFFICES ASSUME NEW m \in MemoryIds, ms2[m] # None
                 PROVE  \E r \in rs2 : Shows(r, m, ms2[m])
      BY DEF HasCurrentRevision
    <2>1. PICK r \in rs : Shows(r, m, ms[m])
      BY <1>3 DEF TablesInv, HasCurrentRevision
    <2>2. r \in rs2
      BY <1>3, <2>1 DEF Shows
    <2> QED
      BY <1>3, <2>1, <2>2
  <1>8. HasApproval(cs2, ms2)
    <2> SUFFICES ASSUME NEW m \in MemoryIds, ms2[m] # None
                 PROVE  Approves(cs2[<<ms2[m].source, ms2[m].slot>>], m, ms2[m].revision)
      BY DEF HasApproval
    <2>1. ms2[m] = ms[m] /\ ms[m] # None /\ m \notin gone
      BY <1>3
    <2>2. Approves(cs[<<ms[m].source, ms[m].slot>>], m, ms[m].revision)
      BY <2>1 DEF TablesInv, HasApproval
    <2>3. cs2[<<ms[m].source, ms[m].slot>>] = cs[<<ms[m].source, ms[m].slot>>]
      BY <1>5, <2>1
    <2> QED
      BY <2>1, <2>2, <2>3
  <1>9. RevisionsHang(cs2, ms2, rs2)
    BY <1>4 DEF TablesInv, RevisionsHang
  <1>10. ReplacementsAreNamed(ms2, rs2)
    BY <1>4 DEF TablesInv, ReplacementsAreNamed
  <1> QED
    BY <1>2, <1>6, <1>7, <1>8, <1>9, <1>10 DEF TablesInv

\* Writing a candidate row that approves no memory yet keeps the tables in order.
LEMMA CandidateWritten ==
    ASSUME NEW cs, NEW ms, NEW rs, NEW ts, TablesInv(cs, ms, rs, ts),
           NEW c \in CandidateIds, cs[c] = None \/ cs[c].status # "materialized",
           NEW row \in CandidateRow
    PROVE  TablesInv([cs EXCEPT ![c] = row], ms, rs, ts)
  <1> DEFINE cs2 == [cs EXCEPT ![c] = row]
  <1>1. TablesTyped(cs, ms, rs, ts) /\ row # None
    BY RowsAreNotNull DEF TablesInv
  <1>2. TablesTyped(cs2, ms, rs, ts)
    BY <1>1 DEF TablesTyped
  <1>3. \A m \in MemoryIds :
            ms[m] # None => <<ms[m].source, ms[m].slot>> \in CandidateIds
    BY <1>1 DEF TablesTyped, MemoryRow, CandidateIds
  <1>4. \A r \in rs : <<r.source, r.slot>> \in CandidateIds
    BY <1>1 DEF TablesTyped, RevisionRow, CandidateIds
  <1>5. \A x \in CandidateIds : x # c => cs2[x] = cs[x]
    BY <1>1 DEF TablesTyped
  <1>6. cs2[c] = row
    BY <1>1 DEF TablesTyped
  <1> HIDE DEF cs2
  <1>7. HasApproval(cs2, ms)
    BY <1>3, <1>5 DEF TablesInv, HasApproval, Approves
  <1>8. RevisionsHang(cs2, ms, rs)
    BY <1>1, <1>4, <1>5, <1>6 DEF TablesInv, RevisionsHang
  <1>9. TablesInv(cs2, ms, rs, ts)
    BY <1>2, <1>7, <1>8 DEF TablesInv
  <1> QED
    BY <1>9 DEF cs2

\* Writing memory row and its revision row new, which the candidate approves, keeps the
\* tables in order when the slot is the memory's own and keeps its kind.
LEMMA MemoryWritten ==
    ASSUME NEW cs, NEW ms, NEW rs, NEW ts, TablesInv(cs, ms, rs, ts),
           NEW m \in MemoryIds, NEW row \in MemoryRow, NEW new \in RevisionRow,
           \A n \in MemoryIds : (ms[n] # None /\ ms[n].slot = row.slot) => n = m,
           ms[m] # None => ms[m].slot = row.slot /\ ms[m].kind = row.kind,
           row.kind = Kind[row.content],
           Approves(cs[<<row.source, row.slot>>], m, row.revision),
           Shows(new, m, row), new.revision > 1 => new.shown > 0
    PROVE  TablesInv(cs, [ms EXCEPT ![m] = row], rs \cup {new}, ts)
  <1> DEFINE ms2 == [ms EXCEPT ![m] = row]
             rs2 == rs \cup {new}
  <1>1. TablesTyped(cs, ms, rs, ts) /\ row # None
    BY RowsAreNotNull DEF TablesInv
  <1>2. TablesTyped(cs, ms2, rs2, ts)
    BY <1>1 DEF TablesTyped
  <1>3. ms2[m] = row /\ \A n \in MemoryIds : n # m => ms2[n] = ms[n]
    BY <1>1 DEF TablesTyped
  <1>4. \A r \in rs : r.memory \in MemoryIds
    BY <1>1 DEF TablesTyped, RevisionRow
  <1> HIDE DEF ms2
  <1>5. OneMemory(ms2)
    BY <1>3 DEF TablesInv, OneMemory
  <1>6. HasCurrentRevision(ms2, rs2)
    <2> SUFFICES ASSUME NEW n \in MemoryIds, ms2[n] # None
                 PROVE  \E r \in rs2 : Shows(r, n, ms2[n])
      BY DEF HasCurrentRevision
    <2>1. CASE n = m
      BY <1>3, <2>1
    <2>2. CASE n # m
      BY <1>3, <2>2 DEF TablesInv, HasCurrentRevision
    <2> QED
      BY <2>1, <2>2
  <1>7. HasApproval(cs, ms2)
    BY <1>3 DEF TablesInv, HasApproval
  <1>8. RevisionsHang(cs, ms2, rs2)
    <2> SUFFICES ASSUME NEW r \in rs2
                 PROVE  /\ ms2[r.memory] # None /\ ms2[r.memory].slot = r.slot
                        /\ cs[<<r.source, r.slot>>] # None
      BY DEF RevisionsHang
    <2>1. CASE r = new
      BY <1>1, <1>3, <2>1 DEF Shows, Approves
    <2>2. CASE r \in rs
      BY <1>1, <1>3, <1>4, <2>2 DEF TablesInv, RevisionsHang
    <2> QED
      BY <2>1, <2>2
  <1>9. ReplacementsAreNamed(ms2, rs2)
    <2> SUFFICES ASSUME NEW r \in rs2, r.revision > 1
                 PROVE  r.shown > 0 /\ Kind[r.content] = ms2[r.memory].kind
      BY DEF ReplacementsAreNamed
    <2>1. CASE r = new
      BY <1>3, <2>1 DEF Shows
    <2>2. CASE r \in rs
      BY <1>3, <1>4, <2>2 DEF TablesInv, RevisionsHang, ReplacementsAreNamed
    <2> QED
      BY <2>1, <2>2
  <1> HIDE DEF rs2
  <1>10. TablesInv(cs, ms2, rs2, ts)
    BY <1>2, <1>5, <1>6, <1>7, <1>8, <1>9 DEF TablesInv
  <1> QED
    BY <1>10 DEF ms2, rs2

-----------------------------------------------------------------------------
(* The transactions                                                        *)

\* Init satisfies the invariant.
LEMMA StoreStarts == Init => StoreInv
  <1> SUFFICES ASSUME Init
               PROVE  StoreInv
    OBVIOUS
  <1> USE RowsAreNotNull, StoreAssumption DEF Init
  <1>1. StoreTypeOK
    <2>1. now \in 0 .. Horizon /\ born \in 0 .. MaxMemories /\ 0 \in 0 .. Horizon
      OBVIOUS
    <2>2. until \in [Sources -> 0 .. Horizon \cup {None}]
      BY <2>1
    <2>3. \A s \in Runs : until[s] # None
      BY DEF Sources
    <2>4. pages \in [Reviewers -> [Slots -> Shown \cup {None}]]
      OBVIOUS
    <2> QED
      BY <2>1, <2>2, <2>3, <2>4 DEF StoreTypeOK
  <1>2. BornInOrder /\ CandidatesHaveSources
    BY DEF BornInOrder, CandidatesHaveSources
  <1>3. TablesTyped(candidates, memories, revisions, tombstones)
    BY DEF TablesTyped
  <1>4. OneMemory(memories) /\ HasCurrentRevision(memories, revisions)
    BY DEF OneMemory, HasCurrentRevision
  <1>5. HasApproval(candidates, memories) /\ RevisionsHang(candidates, memories, revisions)
    BY DEF HasApproval, RevisionsHang
  <1>6. ReplacementsAreNamed(memories, revisions)
    BY DEF ReplacementsAreNamed
  <1> QED
    BY <1>1, <1>2, <1>3, <1>4, <1>5, <1>6 DEF StoreInv, TablesInv

\* What of the type the tables do not say.
OtherTyped ==
    /\ now \in 0 .. Horizon /\ born \in 0 .. MaxMemories
    /\ until \in [Sources -> 0 .. Horizon \cup {None}]
    /\ \A s \in Runs : until[s] # None
    /\ pages \in [Reviewers -> [Slots -> Shown \cup {None}]]
    /\ sweep \in {"sources", "memories"}

\* The type invariant in two halves, so that a step proves only what it changes.
LEMMA TypeHalves ==
    /\ StoreInv => OtherTyped
    /\ (OtherTyped /\ TablesInv(candidates, memories, revisions, tombstones))
            => StoreTypeOK
    /\ (OtherTyped' /\ TablesInv(candidates, memories, revisions, tombstones)')
            => StoreTypeOK'
  BY DEF StoreInv, StoreTypeOK, OtherTyped, TablesInv, TablesTyped

\* Erase keeps the tables in order, adds no row, and takes the candidates it names.
LEMMA EraseKeeps ==
    ASSUME StoreInv, NEW cs, NEW ms \in SUBSET MemoryIds, NEW ts \in SUBSET MemoryIds,
           Erase(cs, ms, ts)
    PROVE  /\ TablesInv(candidates, memories, revisions, tombstones)'
           /\ \A m \in MemoryIds : memories'[m] # None => memories[m] # None
           /\ \A c \in CandidateIds :
                candidates'[c] # None => candidates[c] # None /\ c \notin cs
           /\ revisions' \subseteq revisions
           /\ \A r \in revisions' : <<r.source, r.slot>> \notin cs
  <1> DEFINE gone == ms \cup Orphans(cs)
  <1>1. /\ candidates' = [c \in CandidateIds |-> IF c \in cs THEN None ELSE candidates[c]]
        /\ memories' = [m \in MemoryIds |-> IF m \in gone THEN None ELSE memories[m]]
        /\ revisions' =
             {r \in revisions : r.memory \notin gone /\ <<r.source, r.slot>> \notin cs}
        /\ tombstones' = tombstones \cup ts
    BY DEF Erase
  <1>2. \A m \in MemoryIds :
            (memories[m] # None /\ <<memories[m].source, memories[m].slot>> \in cs)
                => m \in gone
    BY DEF Orphans, Live, Current
  <1> HIDE DEF gone
  <1>3. TablesInv(candidates, memories, revisions, tombstones)
    BY DEF StoreInv
  <1>4. Erases(candidates, memories, revisions, cs, gone, candidates', memories', revisions')
    BY <1>1, <1>2 DEF Erases
  <1>5. tombstones' \in SUBSET MemoryIds
    BY <1>1 DEF StoreInv, StoreTypeOK
  <1>6. TablesInv(candidates', memories', revisions', tombstones')
    BY <1>3, <1>4, <1>5, RowsErased
  <1> QED
    BY <1>1, <1>6

\* A transaction that only erases, by a live or a dropped source, keeps the invariant.
LEMMA ErasureKeepsInv ==
    ASSUME StoreInv, NEW cs, NEW ms \in SUBSET MemoryIds, NEW ts \in SUBSET MemoryIds,
           Erase(cs, ms, ts), OtherTyped', UNCHANGED born,
           \A c \in CandidateIds :
               (candidates[c] # None /\ c \notin cs) => until'[c[1]] = until[c[1]]
    PROVE  StoreInv'
  <1>1. /\ TablesInv(candidates, memories, revisions, tombstones)'
        /\ \A m \in MemoryIds : memories'[m] # None => memories[m] # None
        /\ \A c \in CandidateIds :
             candidates'[c] # None => candidates[c] # None /\ c \notin cs
    BY EraseKeeps
  <1>2. BornInOrder'
    BY <1>1 DEF BornInOrder, StoreInv, MemoryIds
  <1>3. CandidatesHaveSources'
    BY <1>1 DEF CandidatesHaveSources, StoreInv, CandidateIds, Sources
  <1> QED
    BY <1>1, <1>2, <1>3, TypeHalves DEF StoreInv

\* The memory that holds a slot past its deadline is the slot's only one, so that
\* retiring it erases its current candidate and nothing else that is stored.
LEMMA RetiredIsOne ==
    ASSUME StoreInv, NEW k \in Slots
    PROVE  /\ Expired(k) \subseteq MemoryIds
           /\ Expired(k) # {} => Active(k) = {}
           /\ \A m \in MemoryIds :
                (memories[m] # None /\ <<memories[m].source, memories[m].slot>>
                                          \in RetiredCandidates(k)) => m \in Expired(k)
           /\ \A r \in revisions :
                r.memory \notin Expired(k) => <<r.source, r.slot>> \notin RetiredCandidates(k)
           /\ \A c \in RetiredCandidates(k) : c[2] = k /\ Elapsed(c[1])
  <1>1. OneMemory(memories)
    BY DEF StoreInv, TablesInv
  <1>2. \A m, n \in InSlot(k) : m = n
    BY <1>1 DEF InSlot, Live, OneMemory
  <1>3. \A c \in RetiredCandidates(k) :
            \E m \in Expired(k) : c = <<memories[m].source, memories[m].slot>>
    BY DEF RetiredCandidates, Current
  <1>4. \A m \in Expired(k) : /\ m \in InSlot(k) /\ m \in MemoryIds
                              /\ memories[m].slot = k /\ Elapsed(memories[m].source)
    BY DEF Expired, InSlot, DueMemories, Live
  <1>5. \A m \in MemoryIds :
            (memories[m] # None /\ memories[m].slot = k) => m \in InSlot(k)
    BY DEF InSlot, Live
  <1>6. \A r \in revisions : r.memory \in MemoryIds /\ memories[r.memory] # None
                             /\ memories[r.memory].slot = r.slot
    BY DEF StoreInv, StoreTypeOK, RevisionRow, TablesInv, RevisionsHang
  <1>7. ASSUME NEW m \in MemoryIds, memories[m] # None,
               <<memories[m].source, memories[m].slot>> \in RetiredCandidates(k)
        PROVE  m \in Expired(k)
    <2>1. PICK n \in Expired(k) :
              <<memories[m].source, memories[m].slot>>
                  = <<memories[n].source, memories[n].slot>>
      BY <1>3, <1>7
    <2> QED
      BY <1>2, <1>4, <1>5, <1>7, <2>1
  <1>8. ASSUME NEW r \in revisions, <<r.source, r.slot>> \in RetiredCandidates(k)
        PROVE  r.memory \in Expired(k)
    <2>1. PICK n \in Expired(k) :
              <<r.source, r.slot>> = <<memories[n].source, memories[n].slot>>
      BY <1>3, <1>8
    <2> QED
      BY <1>2, <1>4, <1>5, <1>6, <2>1
  <1>9. \A c \in RetiredCandidates(k) : c[2] = k /\ Elapsed(c[1])
    BY <1>3, <1>4
  <1>10. Expired(k) # {} => Active(k) = {}
    BY <1>2, <1>4 DEF Active
  <1> QED
    BY <1>4, <1>7, <1>8, <1>9, <1>10

\* What retiring the expired memory of a slot leaves is in order.
LEMMA RetirementKeeps ==
    ASSUME StoreInv, NEW k \in Slots
    PROVE  TablesInv([c \in CandidateIds |->
                        IF c \in RetiredCandidates(k) THEN None ELSE candidates[c]],
                     [m \in MemoryIds |-> IF m \in Expired(k) THEN None ELSE memories[m]],
                     {r \in revisions : r.memory \notin Expired(k)},
                     tombstones \cup Expired(k))
  <1>1. /\ Expired(k) \in SUBSET MemoryIds
        /\ \A m \in MemoryIds :
             (memories[m] # None /\ <<memories[m].source, memories[m].slot>>
                                       \in RetiredCandidates(k)) => m \in Expired(k)
    BY RetiredIsOne
  <1>2. {r \in revisions : r.memory \notin Expired(k)}
          = {r \in revisions : /\ r.memory \notin Expired(k)
                               /\ <<r.source, r.slot>> \notin RetiredCandidates(k)}
    BY RetiredIsOne
  <1>3. TablesInv(candidates, memories, revisions, tombstones)
    BY DEF StoreInv
  <1> DEFINE cs2 == [c \in CandidateIds |->
                       IF c \in RetiredCandidates(k) THEN None ELSE candidates[c]]
             ms2 == [m \in MemoryIds |-> IF m \in Expired(k) THEN None ELSE memories[m]]
             rs2 == {r \in revisions : r.memory \notin Expired(k)}
             ts2 == tombstones \cup Expired(k)
  <1>4. PICK cs, ms, rs, ts : cs = cs2 /\ ms = ms2 /\ rs = rs2 /\ ts = ts2
    OBVIOUS
  <1>5. Erases(candidates, memories, revisions, RetiredCandidates(k), Expired(k), cs, ms, rs)
    BY <1>1, <1>2, <1>4 DEF Erases
  <1>6. ts \in SUBSET MemoryIds
    BY <1>1, <1>4 DEF StoreInv, StoreTypeOK
  <1>7. TablesInv(cs, ms, rs, ts)
    BY <1>3, <1>5, <1>6, RowsErased
  <1> QED
    BY <1>4, <1>7

\* submitProposal keeps the invariant: it inserts a row where none is left, after
\* retiring the expired memory it may find in the slot.
LEMMA SubmitProposalKeepsInv ==
    ASSUME StoreInv, NEW s \in Sources, NEW k \in Slots, NEW content \in Contents,
           SubmitProposal(s, k, content)
    PROVE  StoreInv'
  <1> DEFINE outcome == PolicyOutcome(s, k, content)
             c == <<s, k>>
             kept == candidates[c] # None /\ c \notin RetiredCandidates(k)
             inserted == Stores(outcome) /\ ~kept
             cs2 == [x \in CandidateIds |->
                       IF x \in RetiredCandidates(k) THEN None ELSE candidates[x]]
             row == NewCandidate(content, outcome)
  <1>1. /\ until[s] \notin {0, None}
        /\ candidates' =
             [x \in CandidateIds |->
                IF x = c /\ inserted THEN row
                ELSE IF x \in RetiredCandidates(k) THEN None ELSE candidates[x]]
        /\ memories' = [m \in MemoryIds |-> IF m \in Expired(k) THEN None ELSE memories[m]]
        /\ revisions' = {r \in revisions : r.memory \notin Expired(k)}
        /\ tombstones' = tombstones \cup Expired(k)
        /\ UNCHANGED <<now, until, pages, sweep, born>>
    BY DEF SubmitProposal
  <1>2. TablesInv(cs2, memories', revisions', tombstones')
    BY <1>1, RetirementKeeps
  <1>3. c \in CandidateIds
    BY DEF CandidateIds
  <1>4. TablesInv(candidates', memories', revisions', tombstones')
    <2>1. CASE ~inserted
      <3>1. candidates' = cs2
        BY <1>1, <2>1
      <3> QED
        BY <1>2, <3>1
    <2>2. CASE inserted
      <3>1. row \in CandidateRow
        BY <2>2 DEF Stores, NewCandidate, CandidateRow
      <3>2. cs2[c] = None
        BY <1>3, <2>2
      <3>3. candidates' = [cs2 EXCEPT ![c] = row]
        BY <1>1, <2>2
      <3> HIDE DEF cs2, row
      <3> QED
        BY <1>2, <1>3, <3>1, <3>2, <3>3, CandidateWritten
    <2> QED
      BY <2>1, <2>2
  <1>5. OtherTyped'
    BY <1>1, TypeHalves DEF OtherTyped
  <1>6. BornInOrder'
    BY <1>1 DEF StoreInv, BornInOrder
  <1>7. CandidatesHaveSources'
    BY <1>1 DEF StoreInv, CandidatesHaveSources
  <1> QED
    BY <1>4, <1>5, <1>6, <1>7, TypeHalves DEF StoreInv

\* A candidate that is written keeps the tables in order, and so does Reject.
LEMMA RejectKeepsInv ==
    ASSUME StoreInv, NEW c \in Stored, Reject(c)
    PROVE  StoreInv'
  <1> DEFINE row == [candidates[c] EXCEPT !.status = "rejected"]
  <1>1. /\ c \in CandidateIds /\ candidates[c] # None
        /\ candidates[c].status = "pending_review"
        /\ candidates' = [candidates EXCEPT ![c] = row]
        /\ UNCHANGED <<now, until, memories, revisions, tombstones, pages, sweep, born>>
    BY DEF Reject, Stored
  <1>2. row \in CandidateRow
    BY <1>1 DEF StoreInv, StoreTypeOK, CandidateRow
  <1> HIDE DEF row
  <1>3. TablesInv(candidates', memories', revisions', tombstones')
    BY <1>1, <1>2, CandidateWritten DEF StoreInv
  <1>4. OtherTyped'
    BY <1>1, TypeHalves DEF OtherTyped
  <1>5. BornInOrder'
    BY <1>1 DEF StoreInv, BornInOrder
  <1>6. CandidatesHaveSources'
    BY <1>1 DEF StoreInv, StoreTypeOK, CandidatesHaveSources
  <1> QED
    BY <1>3, <1>4, <1>5, <1>6, TypeHalves DEF StoreInv

\* What a reviewer's page names as the memory a conflict replaces was shown.
LEMMA ReplacementWasShown ==
    ASSUME StoreInv, NEW p \in Reviewers, NEW c \in Stored, Replacement(p, c) \in MemoryIds
    PROVE  /\ pages[p][c[2]] # None /\ pages[p][c[2]].memory = Replacement(p, c)
           /\ pages[p][c[2]].revision \in Nat \ {0}
  <1>1. Replacement(p, c) # None
    BY RowsAreNotNull DEF MemoryIds
  <1>2. c[2] \in Slots
    BY DEF Stored, CandidateIds
  <1> QED
    BY <1>1, <1>2 DEF Replacement, StoreInv, StoreTypeOK, Shown

\* The candidate row that an approval leaves.
LEMMA ApprovedRow ==
    ASSUME NEW old \in CandidateRow, NEW m \in MemoryIds, NEW n \in Nat
    PROVE  LET row == [old EXCEPT !.status = "materialized", !.memory = m, !.revision = n]
           IN  row \in CandidateRow /\ Approves(row, m, n)
  BY RowsAreNotNull DEF CandidateRow, Approves

\* reviewCandidate, to materialize: the memory it writes is the slot's own, or the
\* slot is free.
LEMMA MaterializeKeepsInv ==
    ASSUME StoreInv, NEW p \in Reviewers, NEW c \in Stored, Materialize(p, c)
    PROVE  StoreInv'
  <1> DEFINE k == c[2]
             content == candidates[c].content
             transition == Transition(c, Replacement(p, c))
             m == IF transition = "create" THEN born + 1 ELSE CHOOSE x \in Active(k) : TRUE
             n == IF transition = "create" THEN 1 ELSE memories[m].revision + 1
             row == [candidates[c] EXCEPT !.status = "materialized", !.memory = m,
                                          !.revision = n]
             memory == [slot |-> k, kind |-> Kind[content], revision |-> n,
                        content |-> content, source |-> c[1]]
             new == [memory |-> m, revision |-> n, content |-> content, source |-> c[1],
                     slot |-> k,
                     shown |-> IF pages[p][k] # None /\ pages[p][k].memory = m
                               THEN pages[p][k].revision ELSE 0]
             cs2 == [x \in CandidateIds |->
                       IF x \in RetiredCandidates(k) THEN None ELSE candidates[x]]
             ms2 == [x \in MemoryIds |-> IF x \in Expired(k) THEN None ELSE memories[x]]
             rs2 == {r \in revisions : r.memory \notin Expired(k)}
  <1>1. /\ candidates[c].status = "pending_review" /\ transition # "refused"
        /\ m \in MemoryIds
        /\ candidates' =
             [x \in CandidateIds |->
                IF x = c THEN row
                ELSE IF x \in RetiredCandidates(k) THEN None ELSE candidates[x]]
        /\ memories' =
             [x \in MemoryIds |->
                IF x = m THEN memory ELSE IF x \in Expired(k) THEN None ELSE memories[x]]
        /\ revisions' = rs2 \cup {new}
        /\ tombstones' = tombstones \cup Expired(k)
        /\ born' = IF transition = "create" THEN m ELSE born
        /\ UNCHANGED <<now, until, pages, sweep>>
    BY DEF Materialize
  <1>2. /\ c \in CandidateIds /\ candidates[c] # None /\ candidates[c] \in CandidateRow
        /\ c[1] \in Sources /\ k \in Slots /\ c = <<c[1], k>> /\ content \in Contents
    BY DEF Stored, CandidateIds, StoreInv, StoreTypeOK, CandidateRow
  <1>3. TablesInv(cs2, ms2, rs2, tombstones')
    BY <1>1, <1>2, RetirementKeeps
  <1>4. /\ Active(k) = {} => transition = "create"
        /\ transition = "create" => Active(k) = {}
        /\ transition # "create" =>
             /\ Active(k) # {} /\ Replacement(p, c) \in Active(k)
             /\ memories[Replacement(p, c)].kind = Kind[content]
    BY <1>1 DEF Transition
  <1>5. /\ InSlot(k) = Active(k) \cup Expired(k)
        /\ \A x \in MemoryIds : memories[x] # None /\ memories[x].slot = k <=> x \in InSlot(k)
        /\ InSlot(k) \subseteq MemoryIds
        /\ \A x, y \in InSlot(k) : x = y
    BY <1>2 DEF InSlot, Active, Expired, Live, StoreInv, TablesInv, OneMemory
  <1>6. transition # "create" => m = Replacement(p, c) /\ m \in Active(k)
    BY <1>4, <1>5
  <1>7. transition = "create" => memories[m] = None
    BY <1>1 DEF StoreInv, StoreTypeOK, BornInOrder
  <1>8. n \in Nat \ {0}
    <2>1. CASE transition = "create"
      BY <2>1
    <2>2. CASE transition # "create"
      <3>1. memories[m] # None /\ m \in MemoryIds
        BY <1>1, <1>5, <1>6, <2>2
      <3>2. memories[m].revision \in Nat \ {0}
        BY <3>1 DEF StoreInv, StoreTypeOK, MemoryRow
      <3>3. n = memories[m].revision + 1
        BY <2>2
      <3> HIDE DEF m, n
      <3> QED
        BY <3>2, <3>3
    <2> QED
      BY <2>1, <2>2
  <1> HIDE DEF m, n, transition
  <1>9. row \in CandidateRow /\ Approves(row, m, n) /\ row # None
    <2>1. m \in MemoryIds /\ candidates[c] \in CandidateRow /\ n \in Nat
      BY <1>1, <1>2, <1>8
    <2>2. row \in CandidateRow /\ Approves(row, m, n)
      BY <2>1, ApprovedRow
    <2> QED
      BY <2>2, RowsAreNotNull
  <1>10. memory \in MemoryRow
    BY <1>2, <1>8 DEF MemoryRow
  <1>11. /\ transition # "create" =>
              /\ pages[p][k] # None /\ pages[p][k].memory = m
              /\ pages[p][k].revision \in Nat \ {0}
         /\ pages[p][k] # None => pages[p][k].revision \in Nat
    BY <1>1, <1>2, <1>6, ReplacementWasShown DEF StoreInv, StoreTypeOK, Shown
  <1>12. /\ new \in RevisionRow /\ Shows(new, m, memory)
         /\ new.revision > 1 => new.shown > 0
    <2>1. transition = "create" => n = 1
      BY DEF n
    <2> QED
      BY <1>1, <1>2, <1>8, <1>11, <2>1 DEF RevisionRow, Shows
  <1>13. /\ \A x \in MemoryIds : ms2[x] # None /\ ms2[x].slot = k => x = m
         /\ ms2[m] # None => ms2[m].slot = k /\ ms2[m].kind = Kind[content]
    BY <1>1, <1>4, <1>5, <1>6, <1>7
  <1>14. c \in CandidateIds /\ (cs2[c] = None \/ cs2[c].status # "materialized")
    BY <1>1, <1>2
  <1>15. candidates' = [cs2 EXCEPT ![c] = row] /\ memories' = [ms2 EXCEPT ![m] = memory]
    BY <1>1, <1>2
  <1>16. memory.slot = k /\ memory.kind = Kind[content] /\ memory.content = content
         /\ memory.source = c[1] /\ memory.revision = n
    OBVIOUS
  <1>17. candidates'[c] = row
    BY <1>1, <1>2
  <1> HIDE DEF row, memory, new, cs2, ms2, rs2
  <1>18. TablesInv(candidates', ms2, rs2, tombstones')
    BY <1>3, <1>9, <1>14, <1>15, CandidateWritten
  <1>19. Approves(candidates'[<<memory.source, memory.slot>>], m, memory.revision)
    BY <1>2, <1>9, <1>16, <1>17
  <1>20. TablesInv(candidates', memories', revisions', tombstones')
    BY <1>1, <1>10, <1>12, <1>13, <1>15, <1>16, <1>18, <1>19, MemoryWritten
  <1>21. /\ born \in 0 .. MaxMemories /\ born' \in 0 .. MaxMemories /\ born <= born'
         /\ transition = "create" => m = born + 1 /\ born' = m
    <2>1. born \in 0 .. MaxMemories /\ m \in 1 .. MaxMemories
      BY <1>1 DEF StoreInv, StoreTypeOK, MemoryIds
    <2>2. born' = IF transition = "create" THEN m ELSE born
      BY <1>1
    <2>3. transition = "create" => m = born + 1
      BY DEF m
    <2> HIDE DEF k
    <2> QED
      BY <2>1, <2>2, <2>3, StoreAssumption
  <1>22. OtherTyped'
    BY <1>1, <1>21, TypeHalves DEF OtherTyped
  <1>23. BornInOrder'
    <2> SUFFICES ASSUME NEW x \in MemoryIds, memories'[x] # None
                 PROVE  x <= born'
      BY DEF BornInOrder
    <2>1. CASE x = m /\ transition = "create"
      BY <1>21, <2>1 DEF MemoryIds
    <2>2. CASE ~(x = m /\ transition = "create")
      <3>1. memories[x] # None
        BY <1>1, <1>5, <1>6, <2>2
      <3> QED
        BY <1>21, <3>1 DEF StoreInv, BornInOrder, MemoryIds
    <2> QED
      BY <2>1, <2>2
  <1>24. CandidatesHaveSources'
    BY <1>1, <1>2 DEF StoreInv, CandidatesHaveSources
  <1> QED
    BY <1>20, <1>22, <1>23, <1>24, TypeHalves DEF StoreInv

\* deleteMemory keeps the invariant.
LEMMA DeleteMemoryKeepsInv ==
    ASSUME StoreInv, NEW p \in Reviewers, NEW k \in Slots, DeleteMemory(p, k)
    PROVE  StoreInv'
  <1> DEFINE cs == Stored \cap (Sources \X {k})
             ms == {pages[p][k].memory}
  <1>1. /\ Erase(cs, ms, ms) /\ pages[p][k].memory \in InSlot(k)
        /\ pages' = [pages EXCEPT ![p][k] = None]
        /\ UNCHANGED <<now, until, sweep, born>>
    BY DEF DeleteMemory
  <1>2. ms \in SUBSET MemoryIds
    BY <1>1 DEF InSlot, Live
  <1>3. pages' \in [Reviewers -> [Slots -> Shown \cup {None}]]
    BY <1>1 DEF StoreInv, StoreTypeOK
  <1>4. OtherTyped'
    BY <1>1, <1>3, TypeHalves DEF OtherTyped
  <1> HIDE DEF cs, ms
  <1> QED
    BY <1>1, <1>2, <1>4, ErasureKeepsInv

\* Erasing signals, with every candidate that came from them, keeps the invariant.
LEMMA EraseSourcesKeepsInv ==
    ASSUME StoreInv, NEW ss \in SUBSET Signals, EraseSources(ss),
           UNCHANGED <<now, pages, born>>, sweep' \in {"sources", "memories"}
    PROVE  StoreInv'
  <1> DEFINE cs == {c \in Stored : c[1] \in ss}
  <1>1. /\ until' = [s \in Sources |-> IF s \in ss THEN None ELSE until[s]]
        /\ Erase(cs, {}, {})
    BY DEF EraseSources
  <1>2. OtherTyped'
    <2>1. until' \in [Sources -> 0 .. Horizon \cup {None}]
      BY <1>1 DEF StoreInv, StoreTypeOK
    <2>2. \A s \in Runs : until'[s] # None
      BY <1>1, StoreAssumption DEF StoreInv, StoreTypeOK, Sources
    <2> QED
      BY <2>1, <2>2, TypeHalves DEF OtherTyped
  <1>3. ASSUME NEW c \in CandidateIds, candidates[c] # None, c \notin cs
        PROVE  until'[c[1]] = until[c[1]]
    BY <1>1, <1>3 DEF Stored, CandidateIds
  <1> HIDE DEF cs
  <1> QED
    BY <1>1, <1>2, <1>3, ErasureKeepsInv

\* A batch only erases rows that are due.
LEMMA BatchIsDue ==
    ASSUME NEW due, NEW deadline, NEW b \in Batches(due, deadline)
    PROVE  b \subseteq due
  BY DEF Batches

\* A transaction that writes none of the tables keeps the invariant.
LEMMA OthersKeepInv ==
    ASSUME StoreInv, OtherTyped',
           UNCHANGED <<candidates, memories, revisions, tombstones, born>>,
           \A s \in Sources : until[s] \notin {0, None} => until'[s] \notin {0, None}
    PROVE  StoreInv'
  <1>1. TablesInv(candidates, memories, revisions, tombstones)'
    BY DEF StoreInv
  <1>2. CandidatesHaveSources'
    BY DEF StoreInv, CandidatesHaveSources, CandidateIds
  <1>3. BornInOrder'
    BY DEF StoreInv, BornInOrder
  <1> QED
    BY <1>1, <1>2, <1>3, TypeHalves DEF StoreInv

\* The instants at which a source is recorded, and the clock, stay in their bounds.
LEMMA TimeKeepsInv ==
    ASSUME StoreInv, Tick \/ \E s \in Sources : Record(s)
    PROVE  StoreInv'
  <1>1. CASE Tick
    <2>1. OtherTyped'
      BY <1>1, TypeHalves, StoreAssumption DEF Tick, OtherTyped
    <2> QED
      BY <1>1, <2>1, OthersKeepInv DEF Tick
  <1>2. ASSUME NEW s \in Sources, Record(s) PROVE StoreInv'
    <2>1. PICK days \in Retention :
             now + days <= Horizon /\ until' = [until EXCEPT ![s] = now + days]
      BY <1>2 DEF Record
    <2>2. now \in 0 .. Horizon /\ days \in 1 .. Horizon
      BY StoreAssumption DEF StoreInv, StoreTypeOK
    <2>3. now + days \in 1 .. Horizon /\ now + days # None /\ now + days # 0
      BY <2>1, <2>2, StoreAssumption, RowsAreNotNull
    <2>4. OtherTyped'
      <3>1. until' \in [Sources -> 0 .. Horizon \cup {None}]
        BY <2>1, <2>3 DEF StoreInv, StoreTypeOK
      <3>2. \A x \in Runs : until'[x] # None
        BY <2>1, <2>3 DEF StoreInv, StoreTypeOK, Sources
      <3> QED
        BY <1>2, <3>1, <3>2, TypeHalves DEF OtherTyped, Record
    <2>5. \A x \in Sources : until[x] \notin {0, None} => until'[x] \notin {0, None}
      BY <2>1, <2>3 DEF StoreInv, StoreTypeOK
    <2> QED
      BY <1>2, <2>4, <2>5, OthersKeepInv DEF Record
  <1> QED
    BY <1>1, <1>2

\* What a page is loaded with are memories that are there.
LEMMA LoadPageKeepsInv ==
    ASSUME StoreInv, NEW p \in Reviewers, LoadPage(p)
    PROVE  StoreInv'
  <1>1. ASSUME NEW k \in Slots PROVE Listed[k] \in Shown \cup {None}
    <2>1. CASE Active(k) = {}
      BY <2>1 DEF Listed
    <2>2. CASE Active(k) # {}
      <3> DEFINE m == CHOOSE x \in Active(k) : TRUE
      <3>1. m \in Active(k) /\ Listed[k] = [memory |-> m, revision |-> memories[m].revision]
        BY <2>2 DEF Listed
      <3> HIDE DEF m
      <3>2. m \in MemoryIds /\ memories[m].revision \in Nat \ {0}
        BY <3>1 DEF Active, InSlot, Live, StoreInv, StoreTypeOK, MemoryRow
      <3> QED
        BY <3>1, <3>2 DEF Shown
    <2> QED
      BY <2>1, <2>2
  <1>2. Listed \in [Slots -> Shown \cup {None}]
    BY <1>1 DEF Listed
  <1>3. pages' \in [Reviewers -> [Slots -> Shown \cup {None}]]
    BY <1>2 DEF LoadPage, StoreInv, StoreTypeOK
  <1>4. OtherTyped'
    BY <1>3, TypeHalves DEF LoadPage, OtherTyped
  <1> QED
    BY <1>4, OthersKeepInv DEF LoadPage

\* Every step of the store keeps the invariant.
LEMMA StoreInductive == StoreInv /\ [Next]_vars => StoreInv'
  <1> SUFFICES ASSUME StoreInv, [Next]_vars
               PROVE  StoreInv'
    OBVIOUS
  <1>1. CASE Tick \/ \E s \in Sources : Record(s)
    BY <1>1, TimeKeepsInv
  <1>2. ASSUME NEW s \in Sources, NEW k \in Slots, NEW content \in Proposes[s],
               SubmitProposal(s, k, content)
        PROVE  StoreInv'
    <2>1. content \in Contents
      BY StoreAssumption
    <2> QED
      BY <1>2, <2>1, SubmitProposalKeepsInv
  <1>3. ASSUME NEW p \in Reviewers, LoadPage(p)
        PROVE  StoreInv'
    BY <1>3, LoadPageKeepsInv
  <1>4. ASSUME NEW c \in Stored, DropExpired(c)
        PROVE  StoreInv'
    <2>1. OtherTyped' /\ UNCHANGED <<until, born>>
      BY <1>4, TypeHalves DEF DropExpired, OtherTyped
    <2> QED
      BY <1>4, <2>1, ErasureKeepsInv DEF DropExpired
  <1>5. ASSUME NEW c \in Stored, Reject(c)
        PROVE  StoreInv'
    BY <1>5, RejectKeepsInv
  <1>6. ASSUME NEW p \in Reviewers, NEW c \in Stored, Materialize(p, c)
        PROVE  StoreInv'
    BY <1>6, MaterializeKeepsInv
  <1>7. ASSUME NEW p \in Reviewers, NEW k \in Slots, DeleteMemory(p, k)
        PROVE  StoreInv'
    BY <1>7, DeleteMemoryKeepsInv
  <1>8. ASSUME NEW s \in Signals, EraseSignal(s)
        PROVE  StoreInv'
    BY <1>8, EraseSourcesKeepsInv DEF EraseSignal, StoreInv, StoreTypeOK
  <1>9. CASE ExpireSignals
    <2>1. PICK ss \in Batches(DueSignals, until) : EraseSources(ss)
      BY <1>9 DEF ExpireSignals
    <2>2. ss \in SUBSET Signals
      BY BatchIsDue DEF DueSignals
    <2> QED
      BY <1>9, <2>1, <2>2, EraseSourcesKeepsInv DEF ExpireSignals
  <1>10. CASE ExpireMemories
    <2>1. PICK ms \in Batches(DueMemories,
                              [m \in DueMemories |-> until[memories[m].source]]),
               cs \in Batches(DueCandidates, [c \in DueCandidates |-> until[c[1]]]) :
             Erase(cs, ms, ms)
      BY <1>10 DEF ExpireMemories
    <2>2. ms \in SUBSET MemoryIds
      BY BatchIsDue DEF DueMemories, Live
    <2>3. OtherTyped' /\ UNCHANGED <<until, born>>
      BY <1>10, TypeHalves DEF ExpireMemories, OtherTyped
    <2> QED
      BY <2>1, <2>2, <2>3, ErasureKeepsInv
  <1>11. CASE UNCHANGED vars
    BY <1>11, OthersKeepInv, TypeHalves DEF vars, OtherTyped
  <1> QED
    BY <1>1, <1>2, <1>3, <1>4, <1>5, <1>6, <1>7, <1>8, <1>9, <1>10, <1>11 DEF Next

\* In every reachable state the four tables fit together.
THEOREM StoreInvariant == Spec => []StoreInv
  <1>1. Init => StoreInv
    BY StoreStarts
  <1>2. StoreInv /\ [Next]_vars => StoreInv'
    BY StoreInductive
  <1> QED
    BY <1>1, <1>2, PTL DEF Spec

-----------------------------------------------------------------------------
(* What follows                                                            *)

\* What the inductive invariant says in the terms of StoreIsConsistent.
LEMMA InvariantIsConsistent == StoreInv => StoreIsConsistent
  <1> SUFFICES ASSUME StoreInv
               PROVE  StoreIsConsistent
    OBVIOUS
  <1>1. MemoryIsReadable
    <2> SUFFICES ASSUME NEW m \in Live
                 PROVE  /\ InSlot(memories[m].slot) = {m}
                        /\ \E r \in revisions :
                             /\ r.memory = m /\ r.revision = memories[m].revision
                             /\ r.content = memories[m].content
                             /\ <<r.source, r.slot>> = Current(m)
                        /\ LET c == Current(m) IN
                           /\ candidates[c] # None /\ candidates[c].status = "materialized"
                           /\ candidates[c].memory = m
                           /\ candidates[c].revision = memories[m].revision
      BY DEF MemoryIsReadable
    <2>1. InSlot(memories[m].slot) = {m}
      BY DEF InSlot, Live, StoreInv, TablesInv, OneMemory
    <2>2. PICK r \in revisions : Shows(r, m, memories[m])
      BY DEF Live, StoreInv, TablesInv, HasCurrentRevision
    <2>3. Approves(candidates[Current(m)], m, memories[m].revision)
      BY DEF Current, Live, StoreInv, TablesInv, HasApproval
    <2> QED
      BY <2>1, <2>2, <2>3 DEF Shows, Approves, Current
  <1>2. ReplacementIsNamed
    BY DEF StoreInv, TablesInv, ReplacementsAreNamed, ReplacementIsNamed
  <1> QED
    BY <1>1, <1>2 DEF StoreInv, StoreIsConsistent

\* StoreIsConsistent: whoever reviews, deletes or sweeps, a slot holds one memory,
\* which the list shows with its approval, and only what a page showed is replaced.
THEOREM StoreIsConsistentHolds == Spec => []StoreIsConsistent
  BY StoreInvariant, InvariantIsConsistent, PTL

\* NothingOutlivesItsSource: nothing derived from an erased signal stays in any table.
THEOREM NothingOutlivesItsSourceHolds == Spec => []NothingOutlivesItsSource
  <1>1. ASSUME StoreInv PROVE NothingOutlivesItsSource
    <2>1. \A c \in Stored : until[c[1]] # None
      BY <1>1 DEF Stored, StoreInv, CandidatesHaveSources
    <2>2. \A m \in Live : Current(m) \in Stored
      BY <1>1 DEF Live, Current, Stored, StoreInv, StoreTypeOK, TablesInv, HasApproval,
                  Approves, MemoryRow, CandidateIds
    <2>3. \A r \in revisions : <<r.source, r.slot>> \in Stored
      BY <1>1 DEF Stored, StoreInv, StoreTypeOK, TablesInv, RevisionsHang, RevisionRow,
                  CandidateIds
    <2>4. \A m \in Live : until[memories[m].source] # None
      BY <2>1, <2>2 DEF Current
    <2>5. \A r \in revisions : until[r.source] # None
      BY <2>1, <2>3
    <2> QED
      BY <2>1, <2>4, <2>5 DEF NothingOutlivesItsSource
  <1>2. StoreInv => NothingOutlivesItsSource
    BY <1>1
  <1> QED
    BY <1>2, StoreInvariant, PTL

\* A deletion and the tombstones it adds, as DeletionTakesTheSlot reads a step.
TakesTheSlot ==
    \A m \in Live :
        (m \in tombstones' \ tombstones /\ ~Elapsed(memories[m].source)) =>
            /\ \A c \in Stored : c[2] = memories[m].slot => candidates'[c] = None
            /\ \A r \in revisions' : r.slot # memories[m].slot

\* A transaction writes tombstones of expired memories only, unless it deletes a slot.
LEMMA StepTakesTheSlot == StoreInv /\ [Next]_vars => TakesTheSlot
  <1> SUFFICES ASSUME StoreInv, [Next]_vars
               PROVE  TakesTheSlot
    OBVIOUS
  <1>1. CASE UNCHANGED tombstones
    BY <1>1 DEF TakesTheSlot
  <1>2. ASSUME NEW k, tombstones' = tombstones \cup Expired(k)
        PROVE  TakesTheSlot
    BY <1>2 DEF TakesTheSlot, Expired, DueMemories
  <1>3. ASSUME NEW p \in Reviewers, NEW k \in Slots, DeleteMemory(p, k)
        PROVE  TakesTheSlot
    <2> DEFINE cs == Stored \cap (Sources \X {k})
               ms == {pages[p][k].memory}
    <2>1. Erase(cs, ms, ms) /\ pages[p][k].memory \in InSlot(k)
      BY <1>3 DEF DeleteMemory
    <2>2. \A m \in tombstones' \ tombstones : memories[m].slot = k
      BY <2>1 DEF Erase, InSlot
    <2>3. \A c \in Stored : c[2] = k => candidates'[c] = None
      BY <2>1 DEF Erase, Stored, CandidateIds
    <2>4. \A r \in revisions : r.slot = k => <<r.source, r.slot>> \in cs
      BY DEF Stored, StoreInv, StoreTypeOK, TablesInv, RevisionsHang, RevisionRow,
             CandidateIds
    <2>5. \A r \in revisions' : r \in revisions /\ <<r.source, r.slot>> \notin cs
      BY <2>1 DEF Erase
    <2> HIDE DEF cs, ms
    <2> QED
      BY <2>2, <2>3, <2>4, <2>5 DEF TakesTheSlot
  <1>4. CASE ExpireMemories
    <2>1. PICK ms \in Batches(DueMemories,
                              [m \in DueMemories |-> until[memories[m].source]]),
               cs \in Batches(DueCandidates, [c \in DueCandidates |-> until[c[1]]]) :
             Erase(cs, ms, ms)
      BY <1>4 DEF ExpireMemories
    <2>2. ms \subseteq DueMemories
      BY BatchIsDue
    <2> QED
      BY <2>1, <2>2 DEF Erase, TakesTheSlot, DueMemories
  <1>5. ASSUME NEW cs, Erase(cs, {}, {})
        PROVE  TakesTheSlot
    BY <1>5 DEF Erase, TakesTheSlot
  <1>6. ASSUME NEW s \in Sources, NEW k \in Slots, NEW content \in Proposes[s],
               SubmitProposal(s, k, content)
        PROVE  TakesTheSlot
    BY <1>2, <1>6 DEF SubmitProposal
  <1>7. ASSUME NEW p \in Reviewers, NEW c \in Stored, Materialize(p, c)
        PROVE  TakesTheSlot
    BY <1>2, <1>7 DEF Materialize
  <1>8. ASSUME NEW ss, EraseSources(ss)
        PROVE  TakesTheSlot
    BY <1>5, <1>8 DEF EraseSources
  <1>9. ASSUME NEW c \in Stored, DropExpired(c) \/ Reject(c)
        PROVE  TakesTheSlot
    BY <1>1, <1>5, <1>9 DEF DropExpired, Reject
  <1>10. CASE Tick \/ (\E s \in Sources : Record(s)) \/ \E p \in Reviewers : LoadPage(p)
    BY <1>1, <1>10 DEF Tick, Record, LoadPage
  <1>11. CASE ExpireSignals \/ \E s \in Signals : EraseSignal(s)
    BY <1>8, <1>11 DEF ExpireSignals, EraseSignal
  <1>12. CASE UNCHANGED vars
    BY <1>1, <1>12 DEF vars
  <1> QED
    BY <1>3, <1>4, <1>6, <1>7, <1>9, <1>10, <1>11, <1>12 DEF Next

\* DeletionTakesTheSlot: when an owner deletes a memory, no candidate and no revision of
\* its slot survives, whichever source it came from.
THEOREM DeletionTakesTheSlotHolds == Spec => DeletionTakesTheSlot
  <1>1. StoreInv /\ [Next]_vars => [TakesTheSlot]_vars
    BY StepTakesTheSlot
  <1>2. Spec => [][TakesTheSlot]_vars
    BY <1>1, StoreInvariant, PTL DEF Spec
  <1> QED
    BY <1>2 DEF DeletionTakesTheSlot, TakesTheSlot
=============================================================================
