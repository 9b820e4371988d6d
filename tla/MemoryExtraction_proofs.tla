---------------------- MODULE MemoryExtraction_proofs ----------------------
(***************************************************************************)
(* Theorems about memory extraction, for any finite set of sources, and    *)
(* any workers, costs and limits.                                          *)
(*                                                                         *)
(* The invariant has one part per table or actor.  StoreInv: only the last *)
(* attempt of a source can run, and only the last can have been charged    *)
(* unless the owner settled it.  WorkerInv: the place a worker is at in    *)
(* its run says what its attempt shows and whether the provider charged    *)
(* for it, even when the lease is lost; others only let that row drift.    *)
(* OwnersInv: no two workers are at one attempt.  JobsInv: a job that is   *)
(* done has nothing left to do.  LimitsInv: the reservations are within    *)
(* the limits.  The parts are kept together, action by action; the budget  *)
(* rests on lemmas about sums over finite sets.                            *)
(***************************************************************************)
EXTENDS MemoryExtraction, FiniteSetTheorems, TLAPS

-----------------------------------------------------------------------------
(* Sums over finite sets.  A proof by induction on a set takes a smallest   *)
(* set for which the claim is wrong.                                        *)

\* A nonempty family of subsets of a finite set has a minimal member.
LEMMA MinimalSet ==
    ASSUME NEW S, IsFiniteSet(S), NEW F \in SUBSET (SUBSET S), F # {}
    PROVE  \E T \in F : \A U \in F : U \subseteq T => U = T
  <1>1. IsWellFoundedOn(StrictSubsetOrdering(S), FiniteSubsetsOf(S))
    BY FS_StrictSubsetOrderingWellFounded
  <1>2. FiniteSubsetsOf(S) = SUBSET S
    BY FS_FiniteSubsetsOfFinite
  <1>3. PICK T \in F : \A U \in F : ~ (<<U, T>> \in StrictSubsetOrdering(S))
    BY <1>1, <1>2, WFMin
  <1>4. ASSUME NEW U \in F, U \subseteq T PROVE U = T
    BY <1>3, <1>4 DEF StrictSubsetOrdering
  <1> QED
    BY <1>4

\* The element a sum adds first, and the table of the sums over the subsets of S.
First(T) == CHOOSE x \in T : TRUE
AreSums(g, f, S) ==
    g = [T \in SUBSET S |-> IF T = {} THEN 0 ELSE f[First(T)] + g[T \ {First(T)}]]

\* The definition of the library, in those terms.
LEMMA SumDefinition ==
    ASSUME NEW f, NEW S
    PROVE  SumFunctionOnSet(f, S) = (CHOOSE g : AreSums(g, f, S))[S]
  BY DEF SumFunctionOnSet, FoldFunctionOnSet, MapThenFoldSet, AreSums, First

\* What a set and the set without its first element have to do with one another.
LEMMA FirstIsIn ==
    ASSUME NEW T, T # {}
    PROVE  First(T) \in T /\ T \ {First(T)} \subseteq T /\ T \ {First(T)} # T
  BY DEF First

\* Two tables agree where both have an entry.
LEMMA SumsAreUnique ==
    ASSUME NEW f, NEW S, NEW R, IsFiniteSet(S), NEW g, NEW h,
           AreSums(g, f, S), AreSums(h, f, R), NEW T \in SUBSET (S \cap R)
    PROVE  g[T] = h[T]
  <1> DEFINE Wrong == {U \in SUBSET (S \cap R) : g[U] # h[U]}
  <1> SUFFICES ASSUME Wrong # {}
               PROVE  FALSE
    OBVIOUS
  <1>1. PICK U \in Wrong : \A V \in Wrong : V \subseteq U => V = U
    <2>1. IsFiniteSet(S \cap R) /\ Wrong \in SUBSET (SUBSET (S \cap R))
      BY FS_Intersection
    <2> HIDE DEF Wrong
    <2> QED
      BY <2>1, MinimalSet
  <1>2. g[U] # h[U] /\ U \in SUBSET S /\ U \in SUBSET R
    OBVIOUS
  <1>3. U # {} => g[U \ {First(U)}] = h[U \ {First(U)}]
    BY <1>1, FirstIsIn
  <1>4. g[U] = IF U = {} THEN 0 ELSE f[First(U)] + g[U \ {First(U)}]
    BY <1>2 DEF AreSums
  <1>5. h[U] = IF U = {} THEN 0 ELSE f[First(U)] + h[U \ {First(U)}]
    BY <1>2 DEF AreSums
  <1> QED
    BY <1>2, <1>3, <1>4, <1>5

\* There is such a table for every finite set.
LEMMA SumsExist ==
    ASSUME NEW f, NEW S, IsFiniteSet(S)
    PROVE  \E g : AreSums(g, f, S)
  <1> DEFINE Wrong == {T \in SUBSET S : ~ \E g : AreSums(g, f, T)}
  <1> SUFFICES ASSUME Wrong # {}
               PROVE  FALSE
    OBVIOUS
  <1>1. PICK T \in Wrong : \A V \in Wrong : V \subseteq T => V = T
    <2>1. Wrong \in SUBSET (SUBSET S)
      OBVIOUS
    <2> HIDE DEF Wrong
    <2> QED
      BY <2>1, MinimalSet
  <1> DEFINE Of(U) == (CHOOSE g : AreSums(g, f, U))[U]
             G == [U \in SUBSET T |->
                     IF U = {} THEN 0 ELSE f[First(U)] + Of(U \ {First(U)})]
  <1>2. ASSUME NEW U \in SUBSET T, U # T
        PROVE  AreSums(CHOOSE g : AreSums(g, f, U), f, U)
    <2>1. U \notin Wrong
      BY <1>1, <1>2
    <2>2. \E g : AreSums(g, f, U)
      BY <2>1
    <2> QED
      BY <2>2
  <1>3. ASSUME NEW U \in SUBSET T, U # T
        PROVE  G[U] = Of(U)
    <2> DEFINE g == CHOOSE h : AreSums(h, f, U)
    <2>1. AreSums(g, f, U)
      BY <1>2, <1>3
    <2>2. CASE U = {}
      <3>1. g[U] = 0
        BY <2>1, <2>2 DEF AreSums
      <3> QED
        BY <2>2, <3>1
    <2>3. CASE U # {}
      <3> DEFINE V == U \ {First(U)}
                 h == CHOOSE k : AreSums(k, f, V)
      <3>1. V \in SUBSET T /\ V # T /\ V \in SUBSET (U \cap V)
        BY <1>3, <2>3, FirstIsIn
      <3>2. AreSums(h, f, V)
        BY <1>2, <3>1
      <3>3. IsFiniteSet(U)
        BY FS_Subset
      <3>4. g[V] = h[V]
        <4> HIDE DEF g, h, V
        <4> QED
          BY <2>1, <3>1, <3>2, <3>3, SumsAreUnique
      <3>5. g[U] = f[First(U)] + g[V]
        BY <2>1, <2>3 DEF AreSums
      <3>6. G[U] = f[First(U)] + h[V]
        BY <2>3
      <3> QED
        BY <3>4, <3>5, <3>6
    <2> QED
      BY <2>2, <2>3
  <1>4. ASSUME NEW U \in SUBSET T, U # {}
        PROVE  G[U] = f[First(U)] + G[U \ {First(U)}]
    <2>1. U \ {First(U)} \in SUBSET T /\ U \ {First(U)} # T
      BY <1>4, FirstIsIn
    <2>2. G[U \ {First(U)}] = Of(U \ {First(U)})
      BY <1>3, <2>1
    <2>3. G[U] = f[First(U)] + Of(U \ {First(U)})
      BY <1>4
    <2> HIDE DEF G, Of
    <2> QED
      BY <2>2, <2>3
  <1>5. G[{}] = 0 /\ DOMAIN G = SUBSET T
    OBVIOUS
  <1>6. G = [U \in SUBSET T |-> G[U]]
    OBVIOUS
  <1> HIDE DEF G, Of
  <1>7. AreSums(G, f, T)
    BY <1>4, <1>5, <1>6 DEF AreSums
  <1> QED
    BY <1>1, <1>7

\* A sum is zero over no indices, and otherwise the first value and the sum of the rest.
LEMMA SumUnfolds ==
    ASSUME NEW f, NEW S, IsFiniteSet(S)
    PROVE  SumFunctionOnSet(f, S) =
             IF S = {} THEN 0 ELSE f[First(S)] + SumFunctionOnSet(f, S \ {First(S)})
  <1> DEFINE g == CHOOSE k : AreSums(k, f, S)
             R == S \ {First(S)}
             h == CHOOSE k : AreSums(k, f, R)
  <1>1. AreSums(g, f, S) /\ SumFunctionOnSet(f, S) = g[S]
    BY SumsExist, SumDefinition
  <1>2. IsFiniteSet(R)
    BY FS_RemoveElement
  <1>3. AreSums(h, f, R) /\ SumFunctionOnSet(f, R) = h[R]
    BY <1>2, SumsExist, SumDefinition
  <1>4. g[R] = h[R]
    <2>1. R \in SUBSET (S \cap R)
      OBVIOUS
    <2> HIDE DEF g, h, R
    <2> QED
      BY <1>1, <1>3, <2>1, SumsAreUnique
  <1>5. g[S] = IF S = {} THEN 0 ELSE f[First(S)] + g[R]
    <2> HIDE DEF g
    <2> QED
      BY <1>1 DEF AreSums
  <1> HIDE DEF g, h
  <1> QED
    BY <1>1, <1>3, <1>4, <1>5

\* The sum of natural numbers is one.
LEMMA SumIsNat ==
    ASSUME NEW f, NEW S, IsFiniteSet(S), \A x \in S : f[x] \in Nat
    PROVE  SumFunctionOnSet(f, S) \in Nat
  <1> DEFINE Wrong == {T \in SUBSET S : SumFunctionOnSet(f, T) \notin Nat}
  <1> SUFFICES ASSUME Wrong # {}
               PROVE  FALSE
    OBVIOUS
  <1>1. PICK T \in Wrong : \A V \in Wrong : V \subseteq T => V = T
    <2>1. Wrong \in SUBSET (SUBSET S)
      OBVIOUS
    <2> HIDE DEF Wrong
    <2> QED
      BY <2>1, MinimalSet
  <1>2. T \in SUBSET S /\ IsFiniteSet(T)
    BY FS_Subset
  <1>3. T # {} => SumFunctionOnSet(f, T \ {First(T)}) \in Nat
    BY <1>1, FirstIsIn
  <1>4. T # {} => f[First(T)] \in Nat
    BY <1>2, FirstIsIn
  <1>5. SumFunctionOnSet(f, T) =
          IF T = {} THEN 0 ELSE f[First(T)] + SumFunctionOnSet(f, T \ {First(T)})
    BY <1>2, SumUnfolds
  <1>6. SumFunctionOnSet(f, T) \in Nat
    BY ONLY <1>3, <1>4, <1>5
  <1> QED
    BY <1>1, <1>6

\* Any index may be the one that is added last.
LEMMA SumRemoved ==
    ASSUME NEW f, NEW S, IsFiniteSet(S), \A x \in S : f[x] \in Nat, NEW y \in S
    PROVE  SumFunctionOnSet(f, S) = f[y] + SumFunctionOnSet(f, S \ {y})
  <1> DEFINE Sum(T) == SumFunctionOnSet(f, T)
             Wrong == {T \in SUBSET S : \E z \in T : Sum(T) # f[z] + Sum(T \ {z})}
  <1> SUFFICES ASSUME Wrong # {}
               PROVE  FALSE
    OBVIOUS
  <1>1. PICK T \in Wrong : \A V \in Wrong : V \subseteq T => V = T
    <2>1. Wrong \in SUBSET (SUBSET S)
      OBVIOUS
    <2> HIDE DEF Wrong
    <2> QED
      BY <2>1, MinimalSet
  <1>2. PICK z \in T : Sum(T) # f[z] + Sum(T \ {z})
    OBVIOUS
  <1> DEFINE x == First(T)
  <1>3. T \in SUBSET S /\ x \in T
    BY FirstIsIn
  <1>4. \A U \in SUBSET T : IsFiniteSet(U) /\ Sum(U) \in Nat
    <2>1. ASSUME NEW U \in SUBSET T PROVE IsFiniteSet(U) /\ Sum(U) \in Nat
      <3>1. IsFiniteSet(U)
        BY <1>3, FS_Subset
      <3> QED
        BY <1>3, <3>1, SumIsNat
    <2> QED
      BY <2>1
  <1>5. Sum(T) = f[x] + Sum(T \ {x})
    BY <1>3, <1>4, SumUnfolds
  <1>6. x # z
    BY <1>2, <1>5
  <1> HIDE DEF Sum
  <1>7. \A U \in SUBSET T : U # T => \A v \in U : Sum(U) = f[v] + Sum(U \ {v})
    BY <1>1, <1>3
  <1> HIDE DEF Wrong, x
  <1> DEFINE R == T \ {x, z}
  <1>8. Sum(T \ {x}) = f[z] + Sum(R)
    <2>1. T \ {x} \in SUBSET T /\ T \ {x} # T /\ z \in T \ {x} /\ (T \ {x}) \ {z} = R
      BY <1>3, <1>6
    <2> QED
      BY <1>7, <2>1
  <1>9. Sum(T \ {z}) = f[x] + Sum(R)
    <2>1. T \ {z} \in SUBSET T /\ T \ {z} # T /\ x \in T \ {z} /\ (T \ {z}) \ {x} = R
      BY <1>3, <1>6
    <2> QED
      BY <1>7, <2>1
  <1>10. f[x] \in Nat /\ f[z] \in Nat /\ Sum(R) \in Nat
    BY <1>3, <1>4
  <1>11. Sum(T) = f[z] + Sum(T \ {z})
    <2> HIDE DEF R
    <2> QED
      BY <1>5, <1>8, <1>9, <1>10
  <1> QED
    BY <1>2, <1>11

\* A sum depends on the values it adds only.
LEMMA SumAgrees ==
    ASSUME NEW f, NEW g, NEW S, IsFiniteSet(S), \A x \in S : f[x] = g[x]
    PROVE  SumFunctionOnSet(f, S) = SumFunctionOnSet(g, S)
  <1> DEFINE Wrong == {T \in SUBSET S : SumFunctionOnSet(f, T) # SumFunctionOnSet(g, T)}
  <1> SUFFICES ASSUME Wrong # {}
               PROVE  FALSE
    OBVIOUS
  <1>1. PICK T \in Wrong : \A V \in Wrong : V \subseteq T => V = T
    <2>1. Wrong \in SUBSET (SUBSET S)
      OBVIOUS
    <2> HIDE DEF Wrong
    <2> QED
      BY <2>1, MinimalSet
  <1>2. T \in SUBSET S /\ IsFiniteSet(T)
    BY FS_Subset
  <1>3. T # {} => SumFunctionOnSet(f, T \ {First(T)}) = SumFunctionOnSet(g, T \ {First(T)})
    BY <1>1, FirstIsIn
  <1> QED
    BY <1>2, <1>3, SumUnfolds, FirstIsIn

\* Changing one value changes the sum by as much.
LEMMA SumChanged ==
    ASSUME NEW f, NEW g, NEW S, IsFiniteSet(S), NEW y \in S,
           \A x \in S : f[x] \in Nat /\ g[x] \in Nat,
           \A x \in S : x # y => f[x] = g[x]
    PROVE  /\ SumFunctionOnSet(f, S) \in Nat /\ SumFunctionOnSet(g, S) \in Nat
           /\ SumFunctionOnSet(g, S) + f[y] = SumFunctionOnSet(f, S) + g[y]
  <1>1. IsFiniteSet(S \ {y})
    BY FS_RemoveElement
  <1>2. SumFunctionOnSet(f, S \ {y}) = SumFunctionOnSet(g, S \ {y})
    BY <1>1, SumAgrees
  <1>3. SumFunctionOnSet(f, S \ {y}) \in Nat
    BY <1>1, SumIsNat
  <1>4. SumFunctionOnSet(f, S) = f[y] + SumFunctionOnSet(f, S \ {y})
    BY SumRemoved
  <1>5. SumFunctionOnSet(g, S) = g[y] + SumFunctionOnSet(g, S \ {y})
    BY SumRemoved
  <1> QED
    BY <1>2, <1>3, <1>4, <1>5

\* Smaller values have the smaller sum.
LEMMA SumFalls ==
    ASSUME NEW f, NEW g, NEW S, IsFiniteSet(S),
           \A x \in S : f[x] \in Nat /\ g[x] \in Nat /\ g[x] <= f[x]
    PROVE  SumFunctionOnSet(g, S) <= SumFunctionOnSet(f, S)
  <1> DEFINE Below(T) == SumFunctionOnSet(g, T) <= SumFunctionOnSet(f, T)
             Wrong == {T \in SUBSET S : ~Below(T)}
  <1> SUFFICES ASSUME Wrong # {}
               PROVE  FALSE
    OBVIOUS
  <1>1. PICK T \in Wrong : \A V \in Wrong : V \subseteq T => V = T
    <2>1. Wrong \in SUBSET (SUBSET S)
      OBVIOUS
    <2> HIDE DEF Wrong
    <2> QED
      BY <2>1, MinimalSet
  <1>2. T \in SUBSET S /\ IsFiniteSet(T)
    BY FS_Subset
  <1>3. CASE T = {}
    <2>1. SumFunctionOnSet(g, T) = 0 /\ SumFunctionOnSet(f, T) = 0
      BY <1>2, <1>3, SumUnfolds
    <2> QED
      BY <1>1, <2>1
  <1>4. CASE T # {}
    <2> DEFINE x == First(T)
               R == T \ {x}
    <2>1. x \in S /\ R \in SUBSET S /\ R \subseteq T /\ R # T /\ IsFiniteSet(R)
      BY <1>2, <1>4, FirstIsIn, FS_Subset
    <2>2. SumFunctionOnSet(g, R) <= SumFunctionOnSet(f, R)
      BY <1>1, <2>1
    <2>3. SumFunctionOnSet(f, R) \in Nat /\ SumFunctionOnSet(g, R) \in Nat
      BY <2>1, SumIsNat
    <2>4. /\ SumFunctionOnSet(f, T) = f[x] + SumFunctionOnSet(f, R)
          /\ SumFunctionOnSet(g, T) = g[x] + SumFunctionOnSet(g, R)
      BY <1>2, <1>4, SumUnfolds
    <2>5. Below(T)
      <3> HIDE DEF x, R
      <3> QED
        BY <2>1, <2>2, <2>3, <2>4
    <2> QED
      BY <2>5
  <1> QED
    BY <1>3, <1>4

-----------------------------------------------------------------------------
(* What fits together, said of values: a task row t, its attempts rows, the *)
(* charges b of the provider, the stored proposals cs of a source in state  *)
(* src, its job j, and a worker row k.                                      *)

\* What the owner's evidence settled stays as it was settled.
RowFits(r) ==
    r.resolved # None =>
        r.status = "failed" /\ r.effect = r.resolved.decision /\ r.cost \in Costs

\* Only the last attempt can be running, and only the last may have been charged
\* without the owner having confirmed otherwise.
TaskFits(t, rows) ==
    /\ t \in TaskRow /\ rows \in Seq(AttemptRow)
    /\ t.attempt = Len(rows) /\ Len(rows) <= MaxAttempts
    /\ (t.status = "absent") <=> (Len(rows) = 0)
    /\ \A n \in 1 .. Len(rows) :
          /\ RowFits(rows[n])
          /\ (rows[n].status = "running") <=> (t.status = "running" /\ n = Len(rows))
          /\ (n < Len(rows) \/ t.status = "queued") => ~MayBeCharged(rows[n])
    /\ t.status = "completed" =>
          rows[Len(rows)].status = "completed" /\ rows[Len(rows)].effect = "succeeded"

\* A charge is on record, and what the record says of it is true.
ChargeFits(r, c) ==
    /\ c # None => (MayBeCharged(r) \/ r.resolved # None)
    /\ r.request => c # None
    /\ (r.effect = "succeeded" /\ r.resolved = None) => (c # None /\ r.cost = c)

BillFits(rows, b) ==
    /\ b \in [1 .. MaxAttempts -> Costs \cup {None}]
    /\ \A n \in 1 .. MaxAttempts :
          IF n <= Len(rows) THEN ChargeFits(rows[n], b[n]) ELSE b[n] = None

StoreFits(src, t, rows, cs) ==
    /\ src \in {"live", "due", "gone"}
    /\ cs \subseteq [slot : Slots, attempt : 1 .. MaxAttempts]
    /\ \A c \in cs :
          c.attempt = Len(rows) /\ Len(rows) > 0 /\ rows[Len(rows)].effect = "succeeded"
    /\ src = "gone" =>
          cs = {} /\ (t.status = "absent" \/ (t.erased /\ t.status \in Final))

JobFits(src, t, rows, j) ==
    /\ j \in JobRow
    /\ (j.state = "active") <=> (j.holder # None)
    /\ (j.state = "done" /\ src = "live") =>
          (t.status \in Final
           \/ (t.status = "queued" /\ rows[Len(rows)].resolved # None))

\* Where a worker is says what its attempt shows and whether it was charged.
Unsettled(r) == r.effect \in {"reserved", "uncertain"} \/ r.resolved # None

WorkerRow ==
    [stage : Stages, source : Sources \cup {None}, attempt : Nat,
     effect : {"none", "reserved", "succeeded", "failed", "uncertain"},
     outcome : Outcome \cup {None}, cost : Costs \cup {None}, request : BOOLEAN,
     retryable : BOOLEAN, left : SUBSET Slots, error : {"retry", "terminal"}]

WorkerFits(k, r, c) ==
    /\ k.stage \in {"load", "reserve"} => r.effect = "absent" /\ c = None
    /\ k.stage = "ask" => Unsettled(r) /\ c = None
    /\ k.stage = "finish" =>
          /\ Unsettled(r)
          /\ k.outcome \in Outcome
          /\ k.outcome = "failed" => c = None /\ k.cost = None
          /\ k.outcome = "succeeded" => c # None /\ k.cost = c /\ c <= Reservation
          /\ k.request => c # None
    /\ k.stage = "submit" => r.effect = "succeeded"

WorkerAt(k, all, bs) ==
    /\ k \in WorkerRow
    /\ k.stage # "idle" =>
          /\ k.source \in Sources /\ k.attempt \in 1 .. Len(all[k.source])
          /\ WorkerFits(k, all[k.source][k.attempt], bs[k.source][k.attempt])

-----------------------------------------------------------------------------

StoreInv ==
    \A s \in Sources :
        /\ TaskFits(task[s], attempts[s])
        /\ BillFits(attempts[s], bill[s])
        /\ StoreFits(source[s], task[s], attempts[s], candidates[s])

JobsInv ==
    \A s \in Sources :
        /\ JobFits(source[s], task[s], attempts[s], job[s])
        /\ outbox[s] \in {"pending", "published", "failed"}

WorkerInv == \A w \in Workers : WorkerAt(worker[w], attempts, bill)

\* No two workers are at the same attempt.
OwnersInv ==
    \A v, w \in Workers :
        (v # w /\ worker[v].stage # "idle" /\ worker[w].stage # "idle"
         /\ worker[v].source = worker[w].source) => worker[v].attempt # worker[w].attempt

StoreTyped ==
    /\ source = [s \in Sources |-> source[s]] /\ task = [s \in Sources |-> task[s]]
    /\ attempts = [s \in Sources |-> attempts[s]]
    /\ candidates = [s \in Sources |-> candidates[s]]
    /\ bill = [s \in Sources |-> bill[s]]

RestTyped ==
    /\ outbox = [s \in Sources |-> outbox[s]] /\ job = [s \in Sources |-> job[s]]
    /\ worker = [w \in Workers |-> worker[w]]
    /\ faults \in 0 .. MaxFaults

LimitsInv ==
    EvidenceWithinReservation =>
        DayTotal <= DayLimit /\ \A s \in Sources : SourceTotal(s) <= SourceLimit

ExtractionInv ==
    /\ StoreTyped /\ RestTyped
    /\ StoreInv /\ JobsInv /\ WorkerInv /\ OwnersInv /\ LimitsInv

-----------------------------------------------------------------------------
(* Lemmas about rows.                                                       *)

\* A sequence with one row replaced, and with one row added.
LEMMA RowReplaced ==
    ASSUME NEW R, NEW q \in Seq(R), NEW n \in 1 .. Len(q), NEW r \in R
    PROVE  /\ [q EXCEPT ![n] = r] \in Seq(R)
           /\ Len([q EXCEPT ![n] = r]) = Len(q)
           /\ \A m \in 1 .. Len(q) : [q EXCEPT ![n] = r][m] = IF m = n THEN r ELSE q[m]
  OBVIOUS

\* A sequence with one row added at its end.
LEMMA RowAdded ==
    ASSUME NEW R, NEW q \in Seq(R), NEW r \in R
    PROVE  /\ Append(q, r) \in Seq(R) /\ Len(Append(q, r)) = Len(q) + 1
           /\ \A m \in 1 .. Len(q) : Append(q, r)[m] = q[m]
           /\ Append(q, r)[Len(q) + 1] = r
  OBVIOUS

\* What the end of an attempt leaves of it.
LEMMA EndedRow ==
    ASSUME NEW r \in AttemptRow, NEW st \in Final
    PROVE  /\ EndAttempt(r, st) \in AttemptRow
           /\ EndAttempt(r, st).status = st
           /\ EndAttempt(r, st).effect =
                IF st = "uncertain" /\ r.effect = "reserved" THEN "uncertain" ELSE r.effect
           /\ EndAttempt(r, st).cost = r.cost /\ EndAttempt(r, st).request = r.request
           /\ EndAttempt(r, st).resolved = r.resolved
  BY DEF EndAttempt, AttemptRow, Final

\* An attempt that ends counts for as much, and its charge is still on record.
LEMMA EndedRowFits ==
    ASSUME NEW r \in AttemptRow, NEW st \in Final, NEW c, ChargeFits(r, c)
    PROVE  /\ Counted(EndAttempt(r, st)) = Counted(r)
           /\ ChargeFits(EndAttempt(r, st), c)
           /\ MayBeCharged(EndAttempt(r, st)) <=> MayBeCharged(r)
  BY EndedRow DEF Counted, ChargeFits, MayBeCharged

\* An attempt counts for a natural number.
LEMMA CountedIsNat ==
    ASSUME NEW r \in AttemptRow
    PROVE  Counted(r) \in Nat
  BY BudgetAssumption DEF Counted, AttemptRow

\* Row r can follow the rows of a task whose last one it replaces.
MayBecome(t, r) ==
    /\ r \in AttemptRow /\ RowFits(r)
    /\ (r.status = "running") <=> (t.status = "running")
    /\ t.status = "queued" => ~MayBeCharged(r)
    /\ t.status = "completed" => r.status = "completed" /\ r.effect = "succeeded"

\* The last row of a task is replaced.
LEMMA LastTask ==
    ASSUME NEW t, NEW rows, TaskFits(t, rows), Len(rows) # 0,
           NEW t2 \in TaskRow, t2.attempt = t.attempt, t2.status # "absent",
           NEW r, MayBecome(t2, r)
    PROVE  TaskFits(t2, [rows EXCEPT ![Len(rows)] = r])
  <1> DEFINE new == [rows EXCEPT ![Len(rows)] = r]
  <1>1. /\ rows \in Seq(AttemptRow) /\ Len(rows) \in 1 .. Len(rows) /\ r \in AttemptRow
        /\ Len(rows) \in Nat
    BY DEF TaskFits, MayBecome
  <1>2. /\ new \in Seq(AttemptRow) /\ Len(new) = Len(rows) /\ new[Len(rows)] = r
        /\ \A m \in 1 .. Len(rows) : m # Len(rows) => new[m] = rows[m]
    BY <1>1, RowReplaced
  <1> HIDE DEF new
  <1>3. ASSUME NEW n \in 1 .. Len(new)
        PROVE  /\ RowFits(new[n])
               /\ (new[n].status = "running") <=> (t2.status = "running" /\ n = Len(new))
               /\ (n < Len(new) \/ t2.status = "queued") => ~MayBeCharged(new[n])
    <2>1. CASE n = Len(rows)
      BY <1>1, <1>2, <2>1 DEF MayBecome
    <2>2. CASE n # Len(rows)
      <3>1. new[n] = rows[n] /\ n < Len(rows)
        BY <1>1, <1>2, <2>2
      <3> QED
        BY <1>2, <3>1 DEF TaskFits
    <2> QED
      BY <2>1, <2>2
  <1>4. TaskFits(t2, new)
    BY <1>1, <1>2, <1>3 DEF TaskFits, MayBecome
  <1> QED
    BY <1>4 DEF new

\* The charges still fit when the last row is replaced by one its charge fits.
LEMMA LastBill ==
    ASSUME NEW rows \in Seq(AttemptRow), NEW b, BillFits(rows, b), Len(rows) # 0,
           Len(rows) <= MaxAttempts, NEW r \in AttemptRow, ChargeFits(r, b[Len(rows)])
    PROVE  BillFits([rows EXCEPT ![Len(rows)] = r], b)
  <1> DEFINE new == [rows EXCEPT ![Len(rows)] = r]
  <1>1. /\ new \in Seq(AttemptRow) /\ Len(new) = Len(rows)
        /\ \A m \in 1 .. Len(rows) : new[m] = IF m = Len(rows) THEN r ELSE rows[m]
    BY RowReplaced
  <1> HIDE DEF new
  <1>2. BillFits(new, b)
    BY <1>1, ExtractionAssumption DEF BillFits
  <1> QED
    BY <1>2 DEF new

\* The stored proposals stay accounted for while the last row stays successful.
LEMMA LastStore ==
    ASSUME NEW src, NEW t, NEW rows \in Seq(AttemptRow), NEW cs, StoreFits(src, t, rows, cs),
           Len(rows) # 0, NEW t2, NEW r \in AttemptRow,
           rows[Len(rows)].effect = "succeeded" => r.effect = "succeeded",
           src = "gone" => (t2.erased /\ t2.status \in Final)
    PROVE  StoreFits(src, t2, [rows EXCEPT ![Len(rows)] = r], cs)
  <1> DEFINE new == [rows EXCEPT ![Len(rows)] = r]
  <1>1. Len(new) = Len(rows) /\ new[Len(rows)] = r
    BY RowReplaced
  <1> HIDE DEF new
  <1>2. StoreFits(src, t2, new, cs)
    BY <1>1 DEF StoreFits
  <1> QED
    BY <1>2 DEF new

-----------------------------------------------------------------------------
(* Lemmas about workers.                                                    *)

\* What others may do to the row of an attempt: they leave its call alone, find
\* it uncertain, or resolve it when it is.
Drifts(r, r2) ==
    \/ r2.effect = r.effect /\ r2.resolved = r.resolved
    \/ r.effect = "reserved" /\ r2.effect = "uncertain"
    \/ r.effect = "uncertain" /\ r2.resolved # None

\* A worker still fits its row when others let it drift.
LEMMA DriftKeeps ==
    ASSUME NEW k, NEW r, NEW r2, NEW c, WorkerFits(k, r, c), Drifts(r, r2)
    PROVE  WorkerFits(k, r2, c)
  BY DEF WorkerFits, Drifts, Unsettled

\* Rows change into rows2 by such steps, other than at the attempts in mine.
Grows(rows, rows2, mine) ==
    /\ Len(rows) \in Nat /\ Len(rows2) \in Nat /\ Len(rows) <= Len(rows2)
    /\ \A n \in 1 .. Len(rows) : n \notin mine => Drifts(rows[n], rows2[n])

\* A worker stays where it is while the rows grow and its charge is the same.
LEMMA WorkerStays ==
    ASSUME NEW k, NEW all, NEW all2, NEW bs, NEW bs2, NEW mine, WorkerAt(k, all, bs),
           k.stage # "idle" =>
              /\ k.attempt \notin mine
              /\ Grows(all[k.source], all2[k.source], mine)
              /\ bs2[k.source][k.attempt] = bs[k.source][k.attempt]
    PROVE  WorkerAt(k, all2, bs2)
  <1>1. CASE k.stage = "idle"
    BY <1>1 DEF WorkerAt
  <1>2. CASE k.stage # "idle"
    <2> DEFINE r == all[k.source][k.attempt]
               r2 == all2[k.source][k.attempt]
    <2>1. /\ k \in WorkerRow /\ k.source \in Sources
          /\ k.attempt \in 1 .. Len(all[k.source])
          /\ WorkerFits(k, r, bs[k.source][k.attempt])
      BY <1>2 DEF WorkerAt
    <2>2. Grows(all[k.source], all2[k.source], mine) /\ k.attempt \notin mine
      BY <1>2
    <2>3. k.attempt \in 1 .. Len(all2[k.source]) /\ Drifts(r, r2)
      BY <2>1, <2>2 DEF Grows
    <2>4. WorkerFits(k, r2, bs2[k.source][k.attempt])
      BY <1>2, <2>1, <2>3, DriftKeeps
    <2> QED
      BY <2>1, <2>3, <2>4 DEF WorkerAt
  <1> QED
    BY <1>1, <1>2

-----------------------------------------------------------------------------
(* Lemmas about the budget.                                                 *)

\* What the attempts of a source count for, and those of a day.
RowsTotal(rows) == SumFunction([n \in DOMAIN rows |-> Counted(rows[n])])
DayOf(all) == SumFunction([s \in Sources |-> RowsTotal(all[s])])

\* The totals of the budget, as totals of rows.
LEMMA TotalsOfRows ==
    /\ \A s : SourceTotal(s) = RowsTotal(attempts[s])
    /\ DayTotal = DayOf(attempts)
  BY DEF SourceTotal, RowsTotal, DayTotal, DayOf

\* The total of a list of rows is a sum over a finite set, and a number.
LEMMA RowsTotalIs ==
    ASSUME NEW rows \in Seq(AttemptRow)
    PROVE  /\ RowsTotal(rows) = SumFunctionOnSet([n \in 1 .. Len(rows) |-> Counted(rows[n])],
                                                 1 .. Len(rows))
           /\ RowsTotal(rows) \in Nat
           /\ IsFiniteSet(1 .. Len(rows))
  <1> DEFINE f == [n \in 1 .. Len(rows) |-> Counted(rows[n])]
  <1>1. Len(rows) \in Nat /\ DOMAIN rows = 1 .. Len(rows)
    OBVIOUS
  <1>2. IsFiniteSet(1 .. Len(rows))
    BY <1>1, FS_Interval
  <1>3. RowsTotal(rows) = SumFunctionOnSet(f, 1 .. Len(rows))
    BY <1>1 DEF RowsTotal, SumFunction
  <1>4. \A n \in 1 .. Len(rows) : f[n] \in Nat
    BY CountedIsNat
  <1> HIDE DEF f
  <1>5. SumFunctionOnSet(f, 1 .. Len(rows)) \in Nat
    BY <1>2, <1>4, SumIsNat
  <1> QED
    BY <1>2, <1>3, <1>5 DEF f

\* Rows that each count for no more together count for no more.
LEMMA RowsTotalFalls ==
    ASSUME NEW rows \in Seq(AttemptRow), NEW rows2 \in Seq(AttemptRow), Len(rows2) = Len(rows),
           \A n \in 1 .. Len(rows) : Counted(rows2[n]) <= Counted(rows[n])
    PROVE  RowsTotal(rows2) <= RowsTotal(rows)
  <1> DEFINE S == 1 .. Len(rows)
             f == [n \in S |-> Counted(rows[n])]
             g == [n \in S |-> Counted(rows2[n])]
  <1>1. /\ RowsTotal(rows) = SumFunctionOnSet(f, S) /\ IsFiniteSet(S)
        /\ RowsTotal(rows2) = SumFunctionOnSet(g, S)
    BY RowsTotalIs
  <1>2. \A n \in S : f[n] \in Nat /\ g[n] \in Nat /\ g[n] <= f[n]
    BY CountedIsNat
  <1> HIDE DEF f, g, S
  <1> QED
    BY <1>1, <1>2, SumFalls

\* One row changes, and the total by as much.
LEMMA RowsTotalMoves ==
    ASSUME NEW rows \in Seq(AttemptRow), NEW rows2 \in Seq(AttemptRow), Len(rows2) = Len(rows),
           NEW m \in 1 .. Len(rows), \A n \in 1 .. Len(rows) : n # m => rows2[n] = rows[n]
    PROVE  RowsTotal(rows2) + Counted(rows[m]) = RowsTotal(rows) + Counted(rows2[m])
  <1> DEFINE S == 1 .. Len(rows)
             f == [n \in S |-> Counted(rows[n])]
             g == [n \in S |-> Counted(rows2[n])]
  <1>1. /\ RowsTotal(rows) = SumFunctionOnSet(f, S) /\ IsFiniteSet(S)
        /\ RowsTotal(rows2) = SumFunctionOnSet(g, S)
    BY RowsTotalIs
  <1>2. \A n \in S : f[n] \in Nat /\ g[n] \in Nat
    BY CountedIsNat
  <1>3. m \in S /\ \A n \in S : n # m => f[n] = g[n]
    OBVIOUS
  <1>4. f[m] = Counted(rows[m]) /\ g[m] = Counted(rows2[m])
    OBVIOUS
  <1> HIDE DEF f, g, S
  <1>5. SumFunctionOnSet(g, S) + f[m] = SumFunctionOnSet(f, S) + g[m]
    <2>1. IsFiniteSet(S) /\ m \in S
      BY <1>1, <1>3
    <2>2. \A n \in S : n # m => f[n] = g[n]
      BY <1>3
    <2> QED
      BY ONLY <1>2, <2>1, <2>2, SumChanged, ZenonT(60)
  <1> QED
    BY <1>1, <1>4, <1>5

\* A new attempt counts for nothing yet.
LEMMA RowsTotalAppended ==
    ASSUME NEW rows \in Seq(AttemptRow)
    PROVE  RowsTotal(Append(rows, NewAttempt)) = RowsTotal(rows)
  <1> DEFINE new == Append(rows, NewAttempt)
             last == Len(rows) + 1
             S == 1 .. last
             f == [n \in 1 .. Len(rows) |-> Counted(rows[n])]
             g == [n \in S |-> Counted(new[n])]
  <1>1. NewAttempt \in AttemptRow
    BY DEF NewAttempt, AttemptRow
  <1>2. /\ new \in Seq(AttemptRow) /\ Len(new) = last
        /\ \A m \in 1 .. Len(rows) : new[m] = rows[m]
        /\ new[last] = NewAttempt
    BY <1>1, RowAdded
  <1>3. Counted(NewAttempt) = 0
    BY DEF Counted, NewAttempt
  <1>4. /\ RowsTotal(rows) = SumFunctionOnSet(f, 1 .. Len(rows)) /\ IsFiniteSet(1 .. Len(rows))
        /\ RowsTotal(rows) \in Nat
    BY RowsTotalIs
  <1> HIDE DEF new
  <1>5. RowsTotal(new) = SumFunctionOnSet(g, S) /\ IsFiniteSet(S)
    BY <1>2, RowsTotalIs
  <1>6. \A n \in S : g[n] \in Nat
    BY <1>2, CountedIsNat
  <1>7. last \in S /\ S \ {last} = 1 .. Len(rows) /\ g[last] = 0
    BY <1>2, <1>3
  <1>8. \A n \in 1 .. Len(rows) : g[n] = f[n]
    BY <1>2
  <1> HIDE DEF f, g, S, last
  <1>9. SumFunctionOnSet(g, S) = g[last] + SumFunctionOnSet(g, S \ {last})
    BY <1>5, <1>6, <1>7, SumRemoved
  <1>10. SumFunctionOnSet(g, 1 .. Len(rows)) = SumFunctionOnSet(f, 1 .. Len(rows))
    BY <1>4, <1>8, SumAgrees
  <1>11. RowsTotal(new) = RowsTotal(rows)
    <2>1. SumFunctionOnSet(g, S \ {last}) = RowsTotal(rows)
      BY ONLY <1>4, <1>7, <1>10
    <2>2. RowsTotal(new) = 0 + RowsTotal(rows)
      BY ONLY <1>5, <1>7, <1>9, <2>1
    <2> QED
      BY ONLY <1>4, <2>2
  <1> QED
    BY <1>11 DEF new

\* Only the attempts of one source change: the day changes by as much.
LEMMA DayMoves ==
    ASSUME NEW all, NEW all2, NEW s \in Sources,
           \A x \in Sources : all[x] \in Seq(AttemptRow) /\ all2[x] \in Seq(AttemptRow),
           \A x \in Sources : x # s => all2[x] = all[x]
    PROVE  /\ DayOf(all) \in Nat /\ DayOf(all2) \in Nat
           /\ DayOf(all2) + RowsTotal(all[s]) = DayOf(all) + RowsTotal(all2[s])
  <1> DEFINE f == [x \in Sources |-> RowsTotal(all[x])]
             g == [x \in Sources |-> RowsTotal(all2[x])]
  <1>1. /\ DayOf(all) = SumFunctionOnSet(f, Sources)
        /\ DayOf(all2) = SumFunctionOnSet(g, Sources)
    BY DEF DayOf, SumFunction
  <1>2. IsFiniteSet(Sources)
    BY ExtractionAssumption DEF Sources
  <1>3. \A x \in Sources : f[x] \in Nat /\ g[x] \in Nat
    BY RowsTotalIs
  <1>4. \A x \in Sources : x # s => f[x] = g[x]
    OBVIOUS
  <1>5. f[s] = RowsTotal(all[s]) /\ g[s] = RowsTotal(all2[s])
    OBVIOUS
  <1> HIDE DEF f, g
  <1>6. /\ SumFunctionOnSet(f, Sources) \in Nat /\ SumFunctionOnSet(g, Sources) \in Nat
        /\ SumFunctionOnSet(g, Sources) + f[s] = SumFunctionOnSet(f, Sources) + g[s]
    BY <1>2, <1>3, <1>4, SumChanged
  <1> QED
    BY <1>1, <1>5, <1>6

-----------------------------------------------------------------------------
(* Steps.  A step touches one source; the lemmas below say what is left to  *)
(* show of it.                                                              *)

\* Nothing changes about the other sources.
OnlyAt(s) ==
    \A x \in Sources : x # s =>
        /\ source'[x] = source[x] /\ task'[x] = task[x] /\ attempts'[x] = attempts[x]
        /\ candidates'[x] = candidates[x] /\ bill'[x] = bill[x]

\* The three facts about source s hold after the step.
FitsNow(s) ==
    /\ TaskFits(task[s], attempts[s])
    /\ BillFits(attempts[s], bill[s])
    /\ StoreFits(source[s], task[s], attempts[s], candidates[s])

\* A step that touches one source keeps the tables sound if it leaves that one sound.
LEMMA StoreMoves ==
    ASSUME StoreInv, NEW s \in Sources, OnlyAt(s), FitsNow(s)'
    PROVE  StoreInv'
  <1> SUFFICES ASSUME NEW x \in Sources
               PROVE  FitsNow(x)'
    BY DEF StoreInv, FitsNow
  <1>1. CASE x = s
    BY <1>1
  <1>2. CASE x # s
    <2>1. FitsNow(x)
      BY DEF StoreInv, FitsNow
    <2> QED
      BY <1>2, <2>1 DEF OnlyAt, FitsNow
  <1> QED
    BY <1>1, <1>2

\* Workers of W are at other attempts than those in mine of source s.
Elsewhere(W, s, mine) ==
    \A v \in W : (worker[v].stage # "idle" /\ worker[v].source = s) => worker[v].attempt \notin mine

StandAt(W) == \A v \in W : WorkerAt(worker[v], attempts, bill)
StandAfter(W) == \A v \in W : WorkerAt(worker[v], attempts', bill')

\* So do the workers: those that are not at the attempts in mine notice nothing.
LEMMA OthersStay ==
    ASSUME StoreInv, NEW s \in Sources, OnlyAt(s), NEW W, NEW mine,
           StandAt(W), Elsewhere(W, s, mine), Grows(attempts[s], attempts'[s], mine),
           \A n \in 1 .. Len(attempts[s]) : n \notin mine => bill'[s][n] = bill[s][n]
    PROVE  StandAfter(W)
  <1> SUFFICES ASSUME NEW v \in W
               PROVE  WorkerAt(worker[v], attempts', bill')
    BY DEF StandAfter
  <1> PICK k : k = worker[v]
    OBVIOUS
  <1>1. WorkerAt(k, attempts, bill)
    BY DEF StandAt
  <1> SUFFICES WorkerAt(k, attempts', bill')
    OBVIOUS
  <1>2. CASE k.stage # "idle" /\ k.source = s
    <2>1. k.attempt \notin mine /\ k.attempt \in 1 .. Len(attempts[s])
      BY <1>1, <1>2 DEF Elsewhere, WorkerAt
    <2>2. bill'[s][k.attempt] = bill[s][k.attempt]
      BY <2>1
    <2> QED
      BY <1>1, <1>2, <2>1, <2>2, WorkerStays
  <1>3. CASE k.stage # "idle" /\ k.source # s
    <2> DEFINE x == k.source
    <2>1. x \in Sources /\ attempts'[x] = attempts[x] /\ bill'[x] = bill[x]
      BY <1>1, <1>3 DEF OnlyAt, WorkerAt
    <2>2. Len(attempts[x]) \in Nat
      BY <2>1 DEF StoreInv, TaskFits
    <2>3. Grows(attempts[x], attempts'[x], {})
      BY <2>1, <2>2 DEF Grows, Drifts
    <2> QED
      BY <1>1, <1>3, <2>1, <2>3, WorkerStays
  <1>4. CASE k.stage = "idle"
    BY <1>1, <1>4 DEF WorkerAt
  <1> QED
    BY <1>2, <1>3, <1>4

\* The owner of an attempt is alone at it.
LEMMA OwnerAlone ==
    ASSUME OwnersInv, NEW w \in Workers, worker[w].stage # "idle"
    PROVE  Elsewhere(Workers \ {w}, worker[w].source, {worker[w].attempt})
  BY DEF OwnersInv, Elsewhere

\* The limits hold on if they held for as long as the evidence stays within them
\* and what counts for the source does not grow.
LEMMA TotalsFall ==
    ASSUME StoreInv, StoreInv', LimitsInv, NEW s \in Sources,
           \A x \in Sources : x # s => attempts'[x] = attempts[x],
           EvidenceWithinReservation' =>
              (EvidenceWithinReservation /\ RowsTotal(attempts'[s]) <= RowsTotal(attempts[s]))
    PROVE  LimitsInv'
  <1> SUFFICES ASSUME EvidenceWithinReservation'
               PROVE  /\ DayOf(attempts') <= DayLimit
                      /\ \A x \in Sources : RowsTotal(attempts'[x]) <= SourceLimit
    BY DEF LimitsInv, DayTotal, DayOf, SourceTotal, RowsTotal
  <1>1. /\ DayOf(attempts) <= DayLimit
        /\ \A x \in Sources : RowsTotal(attempts[x]) <= SourceLimit
    BY TotalsOfRows DEF LimitsInv
  <1>2. \A x \in Sources : attempts[x] \in Seq(AttemptRow) /\ attempts'[x] \in Seq(AttemptRow)
    BY DEF StoreInv, TaskFits
  <1>3. /\ DayOf(attempts) \in Nat /\ DayOf(attempts') \in Nat
        /\ DayOf(attempts') + RowsTotal(attempts[s]) = DayOf(attempts) + RowsTotal(attempts'[s])
    BY <1>2, DayMoves
  <1>4. \A x \in Sources : RowsTotal(attempts[x]) \in Nat /\ RowsTotal(attempts'[x]) \in Nat
    BY <1>2, RowsTotalIs
  <1>5. RowsTotal(attempts'[s]) <= RowsTotal(attempts[s])
    OBVIOUS
  <1>6. DayOf(attempts') <= DayLimit
    BY <1>1, <1>3, <1>4, <1>5, BudgetAssumption
  <1>7. ASSUME NEW x \in Sources PROVE RowsTotal(attempts'[x]) <= SourceLimit
    <2>1. RowsTotal(attempts'[x]) <= RowsTotal(attempts[x])
      BY <1>4, <1>5
    <2> QED
      BY <1>1, <1>4, <2>1, BudgetAssumption
  <1> QED
    BY <1>6, <1>7

\* A job stays as sound as it was.
JobsStand(S) ==
    \A s \in S : \A j \in JobRow :
        JobFits(source[s], task[s], attempts[s], j) =>
            JobFits(source'[s], task'[s], attempts'[s], j)

\* What a step does to the tables, as far as it concerns the workers of W and the jobs.
Moved(W) ==
    /\ StoreTyped' /\ StoreInv' /\ LimitsInv'
    /\ StandAfter(W)
    /\ JobsStand(Sources)
    /\ \A s \in Sources : Len(attempts[s]) <= Len(attempts'[s])

\* A step that leaves the tables alone moves nothing.
LEMMA Unmoved ==
    ASSUME ExtractionInv, UNCHANGED <<source, task, attempts, candidates, bill>>, NEW W,
           W \subseteq Workers
    PROVE  Moved(W)
  <1>1. StoreTyped' /\ StoreInv' /\ LimitsInv'
    BY DEF ExtractionInv, StoreTyped, StoreInv, LimitsInv, EvidenceWithinReservation, DayTotal,
           SourceTotal
  <1>2. StandAfter(W) /\ JobsStand(Sources)
    BY DEF ExtractionInv, WorkerInv, StandAfter, JobsStand
  <1>3. \A s \in Sources : Len(attempts[s]) \in Nat
    BY DEF ExtractionInv, StoreInv, TaskFits
  <1> QED
    BY <1>1, <1>2, <1>3 DEF Moved

-----------------------------------------------------------------------------
(* What a delivery and a worker become.                                     *)

JobPut(j, st, n) == [j EXCEPT !.state = st, !.tries = n, !.holder = None]

\* A job put into a state, with nobody holding it.
LEMMA JobSet ==
    ASSUME NEW j \in JobRow, NEW st \in JobState, NEW n \in Nat
    PROVE  /\ JobPut(j, st, n) \in JobRow
           /\ JobPut(j, st, n).state = st /\ JobPut(j, st, n).holder = None
  <1> PICK j1 : j1 = [j EXCEPT !.state = st]
    OBVIOUS
  <1>1. j1 \in JobRow /\ j1.state = st
    BY DEF JobRow
  <1> PICK j2 : j2 = [j1 EXCEPT !.tries = n]
    OBVIOUS
  <1>2. j2 \in JobRow /\ j2.state = st
    BY <1>1 DEF JobRow
  <1> PICK j3 : j3 = [j2 EXCEPT !.holder = None]
    OBVIOUS
  <1>3. j3 \in JobRow /\ j3.state = st /\ j3.holder = None
    BY <1>2 DEF JobRow
  <1>4. j3 = JobPut(j, st, n)
    BY DEF JobPut
  <1> QED
    BY <1>3, <1>4

\* A job whose delivery ended is held by nobody, and done only if the run said so.
LEMMA EndedJob ==
    ASSUME NEW j \in JobRow, NEW end \in {"retry", "terminal", "done", "busy"}
    PROVE  /\ Ended(j, end) \in JobRow
           /\ Ended(j, end).state # "active" /\ Ended(j, end).holder = None
           /\ Ended(j, end).state = "done" => end = "done"
  <1> PICK st : st = IF end = "retry" /\ j.tries + 1 < MaxDeliveries THEN "waiting"
                     ELSE IF end \in {"retry", "terminal"} THEN "failed" ELSE end
    OBVIOUS
  <1>1. st \in JobState /\ st # "active" /\ (st = "done" => end = "done")
    BY DEF JobState
  <1>2. j.tries + 1 \in Nat
    BY DEF JobRow
  <1>3. Ended(j, end) = JobPut(j, st, j.tries + 1)
    BY DEF Ended, JobPut
  <1> QED
    BY <1>1, <1>2, <1>3, JobSet

\* A stalled job is held by nobody and is not done.
LEMMA StalledJob ==
    ASSUME NEW j \in JobRow
    PROVE  /\ Stalled(j) \in JobRow
           /\ Stalled(j).state \notin {"active", "done"} /\ Stalled(j).holder = None
  BY DEF Stalled, JobRow, JobState

JobTyped == job = [s \in Sources |-> job[s]]

\* The jobs and the outbox do not move while the tables do.
LEMMA JobsSame ==
    ASSUME ExtractionInv, JobsStand(Sources), job' = job, outbox' = outbox
    PROVE  JobsInv' /\ JobTyped'
  BY DEF ExtractionInv, RestTyped, JobsInv, JobsStand, JobTyped, JobFits

\* The job of s becomes j.
LEMMA JobMoves ==
    ASSUME ExtractionInv, NEW s \in Sources, JobsStand(Sources \ {s}), NEW j,
           job' = [job EXCEPT ![s] = j], outbox' = outbox,
           JobFits(source'[s], task'[s], attempts'[s], j)
    PROVE  JobsInv' /\ JobTyped'
  <1>1. JobTyped' /\ job'[s] = j /\ \A x \in Sources : x # s => job'[x] = job[x]
    BY DEF ExtractionInv, RestTyped, JobTyped
  <1>2. ASSUME NEW x \in Sources
        PROVE  JobFits(source'[x], task'[x], attempts'[x], job'[x])
    <2>1. CASE x = s
      BY <1>1, <2>1
    <2>2. CASE x # s
      <3>1. JobFits(source[x], task[x], attempts[x], job[x])
        BY DEF ExtractionInv, JobsInv
      <3>2. job[x] \in JobRow
        BY <3>1 DEF JobFits
      <3> QED
        BY <1>1, <2>2, <3>1, <3>2 DEF JobsStand
    <2> QED
      BY <2>1, <2>2
  <1> QED
    BY <1>1, <1>2 DEF ExtractionInv, JobsInv

\* Worker w returns: its delivery ends, and says it is done only if the task is over.
LEMMA ReturnFits ==
    ASSUME ExtractionInv, NEW w \in Workers, worker[w].source \in Sources, JobsStand(Sources),
           NEW end \in {"retry", "terminal", "done"}, Return(w, end), outbox' = outbox,
           end = "done" => task'[worker[w].source].status \in Final
    PROVE  JobsInv' /\ JobTyped'
  <1> DEFINE s == worker[w].source
  <1>1. CASE job[s].holder = w
    <2>1. job' = [job EXCEPT ![s] = Ended(job[s], end)]
      BY <1>1 DEF Return
    <2>2. job[s] \in JobRow
      BY DEF ExtractionInv, JobsInv, JobFits
    <2>3. JobFits(source'[s], task'[s], attempts'[s], Ended(job[s], end))
      BY <2>2, EndedJob DEF JobFits
    <2>4. JobsStand(Sources \ {s})
      BY DEF JobsStand
    <2> QED
      BY <2>1, <2>3, <2>4, JobMoves
  <1>2. CASE job[s].holder # w
    BY <1>2, JobsSame DEF Return
  <1> QED
    BY <1>1, <1>2

\* No two workers come to share an attempt when one moves on within its own, or stops.
LEMMA OwnersKept ==
    ASSUME OwnersInv, RestTyped, NEW w \in Workers, worker[w].stage # "idle", NEW k,
           worker' = [worker EXCEPT ![w] = k],
           k.stage = "idle"
           \/ (k.source = worker[w].source /\ k.attempt = worker[w].attempt)
    PROVE  OwnersInv'
  <1>1. worker'[w] = k /\ \A v \in Workers : v # w => worker'[v] = worker[v]
    BY DEF RestTyped
  <1> SUFFICES ASSUME NEW v \in Workers, NEW x \in Workers, v # x,
                      worker'[v].stage # "idle", worker'[x].stage # "idle",
                      worker'[v].source = worker'[x].source
               PROVE  worker'[v].attempt # worker'[x].attempt
    BY DEF OwnersInv
  <1>2. \A y \in Workers : worker'[y].stage # "idle" =>
           /\ worker[y].stage # "idle"
           /\ worker'[y].source = worker[y].source /\ worker'[y].attempt = worker[y].attempt
    BY <1>1
  <1> QED
    BY <1>2 DEF OwnersInv

\* Worker w turns into k.
LEMMA WorkerTurns ==
    ASSUME ExtractionInv, NEW w \in Workers, worker[w].stage # "idle", NEW k,
           worker' = [worker EXCEPT ![w] = k],
           k.stage = "idle"
           \/ (k.source = worker[w].source /\ k.attempt = worker[w].attempt),
           WorkerAt(k, attempts', bill'), Moved(Workers \ {w}), JobsInv', JobTyped',
           outbox' = outbox, faults' \in 0 .. MaxFaults
    PROVE  ExtractionInv'
  <1>1. OwnersInv'
    BY OwnersKept DEF ExtractionInv
  <1>2. worker'[w] = k /\ \A v \in Workers : v # w => worker'[v] = worker[v]
    BY DEF ExtractionInv, RestTyped
  <1>3. ASSUME NEW v \in Workers PROVE WorkerAt(worker'[v], attempts', bill')
    BY <1>2 DEF Moved, StandAfter
  <1>4. WorkerInv'
    BY <1>3 DEF WorkerInv
  <1>5. RestTyped'
    BY DEF ExtractionInv, RestTyped, JobTyped
  <1> QED
    BY <1>1, <1>4, <1>5 DEF ExtractionInv, Moved

\* A worker that failed or threw needs nothing but its claim.
LEMMA TurnsFree ==
    ASSUME ExtractionInv, NEW w \in Workers, worker[w].stage # "idle", NEW k \in WorkerRow,
           k.stage \in {"fail", "catch"},
           k.source = worker[w].source, k.attempt = worker[w].attempt,
           \A s \in Sources : Len(attempts[s]) <= Len(attempts'[s]), StoreInv'
    PROVE  WorkerAt(k, attempts', bill')
  <1>1. /\ worker[w].source \in Sources
        /\ worker[w].attempt \in 1 .. Len(attempts[worker[w].source])
    BY DEF ExtractionInv, WorkerInv, WorkerAt
  <1>2. /\ Len(attempts[worker[w].source]) \in Nat /\ Len(attempts'[worker[w].source]) \in Nat
        /\ Len(attempts[worker[w].source]) <= Len(attempts'[worker[w].source])
    BY <1>1 DEF ExtractionInv, StoreInv, TaskFits
  <1>3. WorkerFits(k, attempts'[k.source][k.attempt], bill'[k.source][k.attempt])
    BY DEF WorkerFits
  <1> QED
    BY <1>1, <1>2, <1>3 DEF WorkerAt

\* A worker that is idle asks nothing of the tables.
LEMMA IdleStands ==
    ASSUME NEW all, NEW bs
    PROVE  Idle \in WorkerRow /\ WorkerAt(Idle, all, bs)
  BY DEF Idle, WorkerAt, WorkerRow, Stages

\* What the invariant says of one worker.
LEMMA WorkerIsTyped ==
    ASSUME ExtractionInv, NEW w \in Workers
    PROVE  /\ worker[w] \in WorkerRow /\ worker = [v \in Workers |-> worker[v]]
           /\ worker[w].stage # "idle" =>
                 /\ worker[w].source \in Sources
                 /\ worker[w].attempt \in 1 .. Len(attempts[worker[w].source])
                 /\ WorkerFits(worker[w], Own(w), bill[worker[w].source][worker[w].attempt])
  BY DEF ExtractionInv, RestTyped, WorkerInv, WorkerAt, Own

\* The ways out of a step: the run throws, or it fails with what it knows.
LEMMA ThrowTurns ==
    ASSUME NEW w \in Workers, worker[w] \in WorkerRow, worker = [v \in Workers |-> worker[v]],
           NEW e \in {"retry", "terminal"}, Throw(w, e)
    PROVE  \E k \in WorkerRow :
              /\ worker' = [worker EXCEPT ![w] = k] /\ k.stage = "catch"
              /\ k.source = worker[w].source /\ k.attempt = worker[w].attempt
  <1> DEFINE k == [[worker[w] EXCEPT !.stage = "catch"] EXCEPT !.error = e]
  <1>1. /\ k \in WorkerRow /\ k.stage = "catch"
        /\ k.source = worker[w].source /\ k.attempt = worker[w].attempt
    BY DEF WorkerRow, Stages
  <1>2. worker' = [worker EXCEPT ![w] = k]
    BY DEF Throw
  <1> QED
    BY <1>1, <1>2

\* The run fails with an outcome it knows.
LEMMA FailTurns ==
    ASSUME NEW w \in Workers, worker[w] \in WorkerRow, worker = [v \in Workers |-> worker[v]],
           NEW o \in Outcome, NEW b \in BOOLEAN, FailWith(w, o, b)
    PROVE  \E k \in WorkerRow :
              /\ worker' = [worker EXCEPT ![w] = k] /\ k.stage = "fail"
              /\ k.source = worker[w].source /\ k.attempt = worker[w].attempt
  <1> DEFINE k == [[[worker[w] EXCEPT !.stage = "fail"] EXCEPT !.outcome = o]
                      EXCEPT !.retryable = b]
  <1>1. /\ k \in WorkerRow /\ k.stage = "fail"
        /\ k.source = worker[w].source /\ k.attempt = worker[w].attempt
    BY DEF WorkerRow, Stages
  <1>2. worker' = [worker EXCEPT ![w] = k]
    BY DEF FailWith
  <1> QED
    BY <1>1, <1>2

-----------------------------------------------------------------------------
(* The last attempt of a source and its task change.                        *)

LastBecomes(s, t2, r) ==
    /\ task' = [task EXCEPT ![s] = t2]
    /\ attempts' = [attempts EXCEPT ![s] = [attempts[s] EXCEPT ![Len(attempts[s])] = r]]
    /\ bill' = bill

\* Task and row of s may become t2 and r.
MayMove(s, t2, r) ==
    /\ Len(attempts[s]) # 0
    /\ t2 \in TaskRow /\ t2.attempt = Len(attempts[s]) /\ t2.status # "absent"
    /\ MayBecome(t2, r) /\ ChargeFits(r, bill[s][Len(attempts[s])])

\* The last row of a source and its task move within their bounds: tables and workers
\* stay sound.
LEMMA LastMoves ==
    ASSUME ExtractionInv, NEW s \in Sources, NEW t2, NEW r, MayMove(s, t2, r),
           LastBecomes(s, t2, r), NEW W, NEW mine, W \subseteq Workers, Elsewhere(W, s, mine),
           Len(attempts[s]) \in mine \/ Drifts(attempts[s][Len(attempts[s])], r),
           OnlyAt(s), StoreTyped', StoreFits(source'[s], t2, attempts'[s], candidates'[s])
    PROVE  /\ StoreInv' /\ StandAfter(W)
           /\ \A x \in Sources : Len(attempts[x]) <= Len(attempts'[x])
  <1> DEFINE rows == attempts[s]
             last == Len(rows)
             new == [rows EXCEPT ![last] = r]
  <1>1. /\ rows \in Seq(AttemptRow) /\ TaskFits(task[s], rows) /\ BillFits(rows, bill[s])
        /\ Len(rows) <= MaxAttempts /\ Len(rows) \in Nat /\ task[s].attempt = Len(rows)
    BY DEF ExtractionInv, StoreInv, TaskFits
  <1>2. last \in 1 .. last /\ r \in AttemptRow
    BY <1>1 DEF MayMove, MayBecome
  <1>3. task'[s] = t2 /\ attempts'[s] = new /\ bill'[s] = bill[s]
    BY DEF LastBecomes, ExtractionInv, StoreTyped
  <1>4. TaskFits(t2, new)
    BY <1>1, LastTask DEF MayMove
  <1>5. BillFits(new, bill[s])
    BY <1>1, <1>2, LastBill DEF MayMove
  <1>6. FitsNow(s)'
    BY <1>3, <1>4, <1>5 DEF FitsNow
  <1>7. StoreInv'
    BY <1>6, StoreMoves DEF ExtractionInv
  <1>8. /\ Len(new) = last /\ new[last] = r
        /\ \A m \in 1 .. last : m # last => new[m] = rows[m]
    BY <1>1, <1>2, RowReplaced
  <1>9. Grows(rows, attempts'[s], mine)
    <2>1. ASSUME NEW n \in 1 .. Len(rows), n \notin mine PROVE Drifts(rows[n], attempts'[s][n])
      <3>1. CASE n = last
        BY <1>3, <1>8, <2>1, <3>1
      <3>2. CASE n # last
        BY <1>3, <1>8, <3>2 DEF Drifts
      <3> QED
        BY <3>1, <3>2
    <2> HIDE DEF new
    <2> QED
      BY <1>1, <1>3, <1>8, <2>1 DEF Grows
  <1>10. StandAt(W)
    BY DEF StandAt, ExtractionInv, WorkerInv
  <1>11. StandAfter(W)
    BY <1>3, <1>9, <1>10, OthersStay DEF ExtractionInv
  <1>12. ASSUME NEW x \in Sources PROVE Len(attempts[x]) <= Len(attempts'[x])
    <2>1. CASE x = s
      BY <1>1, <1>3, <1>8, <2>1
    <2>2. CASE x # s
      <3>1. Len(attempts[x]) \in Nat
        BY DEF ExtractionInv, StoreInv, TaskFits
      <3> QED
        BY <2>2, <3>1 DEF OnlyAt
    <2> QED
      BY <2>1, <2>2
  <1> QED
    BY <1>7, <1>11, <1>12

\* It counts for no more than before, and no evidence is dropped.
LEMMA LastLimits ==
    ASSUME ExtractionInv, StoreInv', NEW s \in Sources, NEW t2, NEW r, MayMove(s, t2, r),
           LastBecomes(s, t2, r), OnlyAt(s),
           attempts[s][Len(attempts[s])].resolved = None
           \/ (r.resolved = attempts[s][Len(attempts[s])].resolved
               /\ r.cost = attempts[s][Len(attempts[s])].cost),
           (r.resolved # None => r.cost <= Reservation) =>
               Counted(r) <= Counted(attempts[s][Len(attempts[s])])
    PROVE  LimitsInv'
  <1> DEFINE rows == attempts[s]
             last == Len(rows)
             new == [rows EXCEPT ![last] = r]
  <1>1. rows \in Seq(AttemptRow) /\ Len(rows) \in Nat
    BY DEF ExtractionInv, StoreInv, TaskFits
  <1>2. last \in 1 .. last /\ r \in AttemptRow
    BY <1>1 DEF MayMove, MayBecome
  <1>3. attempts'[s] = new
    BY DEF LastBecomes, ExtractionInv, StoreTyped
  <1>4. /\ new \in Seq(AttemptRow) /\ Len(new) = last /\ new[last] = r
        /\ \A m \in 1 .. last : m # last => new[m] = rows[m]
    BY <1>1, <1>2, RowReplaced
  <1> HIDE DEF new
  <1>5. ASSUME EvidenceWithinReservation' PROVE EvidenceWithinReservation
    <2> SUFFICES ASSUME NEW x \in Sources, NEW n \in 1 .. Len(attempts[x]),
                        attempts[x][n].resolved # None
                 PROVE  attempts[x][n].cost <= Reservation
      BY DEF EvidenceWithinReservation
    <2>1. CASE x # s
      BY <1>5, <2>1 DEF OnlyAt, EvidenceWithinReservation
    <2>2. CASE x = s /\ n # last
      BY <1>3, <1>4, <1>5, <2>2 DEF EvidenceWithinReservation
    <2>3. CASE x = s /\ n = last
      <3>1. r.resolved = rows[last].resolved /\ r.cost = rows[last].cost
        BY <2>3
      <3>2. r.resolved # None => r.cost <= Reservation
        BY <1>2, <1>3, <1>4, <1>5 DEF EvidenceWithinReservation
      <3> QED
        BY <2>3, <3>1, <3>2
    <2> QED
      BY <2>1, <2>2, <2>3
  <1>6. ASSUME EvidenceWithinReservation' PROVE RowsTotal(attempts'[s]) <= RowsTotal(attempts[s])
    <2>1. r.resolved # None => r.cost <= Reservation
      BY <1>2, <1>3, <1>4, <1>6 DEF EvidenceWithinReservation
    <2>2. Counted(r) <= Counted(rows[last])
      BY <2>1
    <2>3. ASSUME NEW n \in 1 .. Len(rows) PROVE Counted(new[n]) <= Counted(rows[n])
      <3>1. CASE n = last
        BY <1>4, <2>2, <3>1
      <3>2. CASE n # last
        <4>1. new[n] = rows[n] /\ rows[n] \in AttemptRow
          BY <1>1, <1>4, <3>2
        <4>2. Counted(rows[n]) \in Nat
          BY <4>1, CountedIsNat
        <4> QED
          BY <4>1, <4>2
      <3> QED
        BY <3>1, <3>2
    <2> QED
      BY <1>1, <1>3, <1>4, <2>3, RowsTotalFalls
  <1> QED
    BY <1>5, <1>6, TotalsFall DEF ExtractionInv, OnlyAt

\* The fence: the worker that holds the claim is at the last attempt, which runs.
LEMMA ActiveFacts ==
    ASSUME ExtractionInv, NEW w \in Workers, worker[w].stage # "idle", Active(w),
           NEW s, s = worker[w].source
    PROVE  /\ s \in Sources /\ task[s] \in TaskRow /\ task[s].status = "running"
           /\ task[s].attempt = Len(attempts[s]) /\ worker[w].attempt = Len(attempts[s])
           /\ Len(attempts[s]) # 0 /\ Len(attempts[s]) \in 1 .. Len(attempts[s])
           /\ attempts[s] \in Seq(AttemptRow) /\ Len(attempts[s]) <= MaxAttempts
           /\ Own(w) = attempts[s][Len(attempts[s])] /\ Own(w) \in AttemptRow
           /\ Own(w).status = "running" /\ Own(w).resolved = None
           /\ ChargeFits(Own(w), bill[s][Len(attempts[s])])
           /\ source[s] # "gone"
  <1>1. s \in Sources /\ worker[w].attempt \in 1 .. Len(attempts[s])
    BY WorkerIsTyped
  <1>2. /\ TaskFits(task[s], attempts[s]) /\ BillFits(attempts[s], bill[s])
        /\ StoreFits(source[s], task[s], attempts[s], candidates[s])
    BY <1>1 DEF ExtractionInv, StoreInv
  <1>3. task[s].status = "running" /\ task[s].attempt = worker[w].attempt
    BY DEF Active
  <1>4. /\ attempts[s] \in Seq(AttemptRow) /\ task[s].attempt = Len(attempts[s])
        /\ Len(attempts[s]) <= MaxAttempts /\ task[s] \in TaskRow
    BY <1>2 DEF TaskFits
  <1>5. /\ Len(attempts[s]) \in 1 .. Len(attempts[s]) /\ Len(attempts[s]) # 0
        /\ Own(w) = attempts[s][Len(attempts[s])] /\ Own(w) \in AttemptRow
    BY <1>1, <1>3, <1>4 DEF Own
  <1>6. Own(w).status = "running" /\ RowFits(Own(w))
    BY <1>2, <1>3, <1>5 DEF TaskFits
  <1>7. Own(w).resolved = None
    BY <1>6 DEF RowFits
  <1>8. ChargeFits(Own(w), bill[s][Len(attempts[s])])
    BY <1>2, <1>4, <1>5, ExtractionAssumption DEF BillFits
  <1>9. source[s] # "gone"
    BY <1>2, <1>3 DEF StoreFits, Final
  <1> QED
    BY <1>1, <1>3, <1>4, <1>5, <1>6, <1>7, <1>8, <1>9

\* A worker under the fence writes its own attempt and its task; the proposals of
\* the attempt, if there are any, keep the answer they come from.
LEMMA OwnMoves ==
    ASSUME ExtractionInv, NEW w \in Workers, worker[w].stage # "idle", Active(w),
           NEW s, s = worker[w].source, NEW t2, NEW r, MayMove(s, t2, r),
           WriteOwn(w, r), task' = [task EXCEPT ![s] = t2],
           UNCHANGED <<source, candidates, bill>>,
           Own(w).effect = "succeeded" => r.effect = "succeeded"
    PROVE  /\ StoreTyped' /\ StoreInv' /\ StandAfter(Workers \ {w}) /\ JobsStand(Sources)
           /\ \A x \in Sources : Len(attempts[x]) <= Len(attempts'[x])
           /\ OnlyAt(s) /\ LastBecomes(s, t2, r)
           /\ attempts'[s][worker[w].attempt] = r /\ task'[s] = t2
  <1> DEFINE rows == attempts[s]
             last == Len(rows)
             new == [rows EXCEPT ![last] = r]
  <1>1. /\ s \in Sources /\ task[s].status = "running" /\ worker[w].attempt = last
        /\ rows \in Seq(AttemptRow) /\ Own(w) = rows[last] /\ source[s] # "gone"
        /\ Len(rows) # 0 /\ last \in 1 .. last
    BY ActiveFacts
  <1>2. LastBecomes(s, t2, r)
    BY <1>1 DEF WriteOwn, LastBecomes
  <1>3. OnlyAt(s) /\ StoreTyped' /\ attempts'[s] = new /\ task'[s] = t2
    BY <1>1, <1>2 DEF OnlyAt, LastBecomes, StoreTyped, ExtractionInv
  <1>4. r \in AttemptRow
    BY DEF MayMove, MayBecome
  <1>5. StoreFits(source[s], task[s], rows, candidates[s])
    BY <1>1 DEF ExtractionInv, StoreInv
  <1>6. StoreFits(source[s], t2, new, candidates[s])
    BY <1>1, <1>4, <1>5, LastStore
  <1>7. StoreFits(source'[s], t2, attempts'[s], candidates'[s])
    BY <1>3, <1>6
  <1>8. Elsewhere(Workers \ {w}, s, {last})
    BY <1>1, OwnerAlone DEF ExtractionInv
  <1>9. last \in {last}
    OBVIOUS
  <1>10. /\ StoreInv' /\ StandAfter(Workers \ {w})
         /\ \A x \in Sources : Len(attempts[x]) <= Len(attempts'[x])
    <2> HIDE DEF new
    <2> QED
      BY <1>1, <1>2, <1>3, <1>7, <1>8, <1>9, LastMoves
  <1>11. new[last] = r
    BY <1>1, <1>4, RowReplaced
  <1>12. JobsStand(Sources)
    <2> SUFFICES ASSUME NEW x \in Sources, NEW j \in JobRow,
                        JobFits(source[x], task[x], attempts[x], j)
                 PROVE  JobFits(source'[x], task'[x], attempts'[x], j)
      BY DEF JobsStand
    <2>1. CASE x # s
      BY <1>3, <2>1 DEF OnlyAt
    <2>2. CASE x = s
      BY <1>1, <2>2 DEF JobFits, Final
    <2> QED
      BY <2>1, <2>2
  <1> QED
    BY <1>1, <1>2, <1>3, <1>10, <1>11, <1>12

\* If it counts for no more than before, nothing else can go wrong.
LEMMA OwnMoved ==
    ASSUME ExtractionInv, NEW w \in Workers, worker[w].stage # "idle", Active(w),
           NEW s, s = worker[w].source, NEW t2, NEW r, MayMove(s, t2, r),
           WriteOwn(w, r), task' = [task EXCEPT ![s] = t2],
           UNCHANGED <<source, candidates, bill>>,
           Own(w).effect = "succeeded" => r.effect = "succeeded",
           Counted(r) <= Counted(Own(w))
    PROVE  /\ Moved(Workers \ {w})
           /\ attempts'[s][worker[w].attempt] = r /\ task'[s] = t2
  <1>1. /\ StoreTyped' /\ StoreInv' /\ StandAfter(Workers \ {w}) /\ JobsStand(Sources)
        /\ \A x \in Sources : Len(attempts[x]) <= Len(attempts'[x])
        /\ OnlyAt(s) /\ LastBecomes(s, t2, r)
        /\ attempts'[s][worker[w].attempt] = r /\ task'[s] = t2
    BY OwnMoves
  <1>2. s \in Sources /\ Own(w) = attempts[s][Len(attempts[s])] /\ Own(w).resolved = None
    BY ActiveFacts
  <1>3. LimitsInv'
    BY <1>1, <1>2, LastLimits
  <1> QED
    BY <1>1, <1>3 DEF Moved

\* Worker w goes on, having thrown or failed.
LEMMA FreeStep ==
    ASSUME ExtractionInv, NEW w \in Workers, worker[w].stage # "idle",
           Moved(Workers \ {w}), job' = job, outbox' = outbox, faults' \in 0 .. MaxFaults,
           (\E e \in {"retry", "terminal"} : Throw(w, e))
           \/ (\E o \in Outcome, b \in BOOLEAN : FailWith(w, o, b))
    PROVE  ExtractionInv'
  <1>1. worker[w] \in WorkerRow /\ worker = [v \in Workers |-> worker[v]]
    BY WorkerIsTyped
  <1>2. PICK k \in WorkerRow :
           /\ worker' = [worker EXCEPT ![w] = k] /\ k.stage \in {"fail", "catch"}
           /\ k.source = worker[w].source /\ k.attempt = worker[w].attempt
    BY <1>1, ThrowTurns, FailTurns
  <1>3. WorkerAt(k, attempts', bill')
    BY <1>2, TurnsFree DEF Moved
  <1>4. JobsInv' /\ JobTyped'
    BY JobsSame DEF Moved
  <1> QED
    BY <1>2, <1>3, <1>4, WorkerTurns

\* A fault is counted, within the bound.
LEMMA FaultIsCounted ==
    ASSUME ExtractionInv, Fault
    PROVE  faults' \in 0 .. MaxFaults
  BY ExtractionAssumption DEF ExtractionInv, RestTyped, Fault

\* So is none.
LEMMA NoFault ==
    ASSUME ExtractionInv, UNCHANGED faults
    PROVE  faults' \in 0 .. MaxFaults
  BY DEF ExtractionInv, RestTyped

-----------------------------------------------------------------------------
(* The steps of a run, in its order.                                        *)

\* The run reads its source again.
LEMMA LoadKeeps ==
    ASSUME ExtractionInv, NEW w \in Workers, LoadExtractionSource(w)
    PROVE  ExtractionInv'
  <1>1. /\ worker[w].stage = "load"
        /\ UNCHANGED <<source, task, attempts, candidates, outbox, job, bill, faults>>
    BY DEF LoadExtractionSource
  <1>2. Moved(Workers \ {w}) /\ faults' \in 0 .. MaxFaults
    BY <1>1, Unmoved, NoFault
  <1>3. CASE FailWith(w, "failed", FALSE)
    BY <1>1, <1>2, <1>3, FreeStep DEF Outcome
  <1>4. CASE Go(w, "reserve")
    <2> PICK k : k = [worker[w] EXCEPT !.stage = "reserve"]
      OBVIOUS
    <2>1. /\ worker[w] \in WorkerRow /\ worker = [v \in Workers |-> worker[v]]
          /\ worker[w].source \in Sources
          /\ worker[w].attempt \in 1 .. Len(attempts[worker[w].source])
          /\ WorkerFits(worker[w], Own(w), bill[worker[w].source][worker[w].attempt])
      BY <1>1, WorkerIsTyped
    <2>2. /\ k \in WorkerRow /\ k.stage = "reserve"
          /\ k.source = worker[w].source /\ k.attempt = worker[w].attempt
      BY <2>1 DEF WorkerRow, Stages
    <2>3. worker' = [worker EXCEPT ![w] = k]
      BY <1>4, <2>1 DEF Go
    <2>4. WorkerFits(k, Own(w), bill[worker[w].source][worker[w].attempt])
      BY <1>1, <2>1, <2>2 DEF WorkerFits
    <2>5. WorkerAt(k, attempts', bill')
      BY <1>1, <2>1, <2>2, <2>4 DEF WorkerAt, Own
    <2>6. JobsInv' /\ JobTyped'
      BY <1>1, <1>2, JobsSame DEF Moved
    <2> QED
      BY <1>1, <1>2, <2>2, <2>3, <2>5, <2>6, WorkerTurns
  <1> QED
    BY <1>3, <1>4 DEF LoadExtractionSource

\* A reservation is made within both limits, and so does not break them.
LEMMA ReservationMoves ==
    ASSUME ExtractionInv, NEW w \in Workers, worker[w].stage = "reserve",
           ReserveResult(w, "reserved"), UNCHANGED <<source, task, candidates, bill>>
    PROVE  /\ Moved(Workers \ {w})
           /\ attempts'[worker[w].source][worker[w].attempt].effect = "reserved"
           /\ bill'[worker[w].source][worker[w].attempt] = None
  <1> PICK s : s = worker[w].source
    OBVIOUS
  <1> PICK r : r = [Own(w) EXCEPT !.effect = "reserved"]
    OBVIOUS
  <1>1. worker[w].stage # "idle" /\ Active(w) /\ WithinBudget(s) /\ WriteOwn(w, r)
    BY DEF ReserveResult
  <1>2. /\ s \in Sources /\ task[s] \in TaskRow /\ task[s].status = "running"
        /\ task[s].attempt = Len(attempts[s]) /\ worker[w].attempt = Len(attempts[s])
        /\ Len(attempts[s]) # 0 /\ Len(attempts[s]) \in 1 .. Len(attempts[s])
        /\ attempts[s] \in Seq(AttemptRow)
        /\ Own(w) = attempts[s][Len(attempts[s])] /\ Own(w) \in AttemptRow
        /\ Own(w).status = "running" /\ Own(w).resolved = None
        /\ ChargeFits(Own(w), bill[s][Len(attempts[s])])
    BY <1>1, ActiveFacts
  <1>3. Own(w).effect = "absent" /\ bill[s][worker[w].attempt] = None
    BY <1>1, WorkerIsTyped DEF WorkerFits
  <1>4. /\ r \in AttemptRow /\ r.effect = "reserved" /\ r.status = "running"
        /\ r.resolved = None /\ r.request = Own(w).request
    BY <1>2 DEF AttemptRow
  <1>5. MayMove(s, task[s], r)
    BY <1>2, <1>3, <1>4 DEF MayMove, MayBecome, RowFits, ChargeFits, MayBeCharged
  <1> PICK t : t = task[s]
    OBVIOUS
  <1>6. task' = [task EXCEPT ![s] = t] /\ UNCHANGED <<source, candidates, bill>>
    BY DEF ExtractionInv, StoreTyped
  <1>7. /\ StoreTyped' /\ StoreInv' /\ StandAfter(Workers \ {w}) /\ JobsStand(Sources)
        /\ \A x \in Sources : Len(attempts[x]) <= Len(attempts'[x])
        /\ OnlyAt(s) /\ LastBecomes(s, t, r)
        /\ attempts'[s][worker[w].attempt] = r
    <2>1. MayMove(s, t, r) /\ (Own(w).effect = "succeeded" => r.effect = "succeeded")
      BY <1>3, <1>5
    <2>2. ExtractionInv /\ w \in Workers /\ s = worker[w].source
      OBVIOUS
    <2> QED
      BY ONLY <1>1, <1>6, <2>1, <2>2, OwnMoves
  <1>8. LimitsInv'
    <2>1. /\ RowsTotal(attempts[s]) + Reservation <= SourceLimit
          /\ DayOf(attempts) + Reservation <= DayLimit
      BY <1>1, TotalsOfRows DEF WithinBudget
    <2>2. attempts'[s] = [attempts[s] EXCEPT ![Len(attempts[s])] = r]
      BY <1>2, <1>7 DEF LastBecomes, ExtractionInv, StoreTyped
    <2>3. /\ attempts'[s] \in Seq(AttemptRow) /\ Len(attempts'[s]) = Len(attempts[s])
          /\ attempts'[s][Len(attempts[s])] = r
          /\ \A n \in 1 .. Len(attempts[s]) :
                n # Len(attempts[s]) => attempts'[s][n] = attempts[s][n]
      <3> PICK q, m : q = attempts[s] /\ m = Len(attempts[s])
        OBVIOUS
      <3>1. q \in Seq(AttemptRow) /\ m \in 1 .. Len(q) /\ r \in AttemptRow /\ m = Len(q)
        BY <1>2, <1>4
      <3>2. /\ [q EXCEPT ![m] = r] \in Seq(AttemptRow) /\ Len([q EXCEPT ![m] = r]) = Len(q)
            /\ \A n \in 1 .. Len(q) : [q EXCEPT ![m] = r][n] = IF n = m THEN r ELSE q[n]
        BY ONLY <3>1, RowReplaced
      <3>3. attempts'[s] = [q EXCEPT ![m] = r]
        BY <2>2
      <3> QED
        BY ONLY <3>1, <3>2, <3>3, q = attempts[s]
    <2>4. RowsTotal(attempts'[s]) + Counted(Own(w)) = RowsTotal(attempts[s]) + Counted(r)
      <3> PICK old, new : old = attempts[s] /\ new = attempts'[s]
        OBVIOUS
      <3> PICK m \in 1 .. Len(old) : m = Len(attempts[s])
        BY <1>2
      <3>1. /\ old \in Seq(AttemptRow) /\ new \in Seq(AttemptRow) /\ Len(new) = Len(old)
            /\ \A n \in 1 .. Len(old) : n # m => new[n] = old[n]
        BY <1>2, <2>3
      <3>2. RowsTotal(new) + Counted(old[m]) = RowsTotal(old) + Counted(new[m])
        BY <3>1, RowsTotalMoves
      <3>3. old[m] = Own(w) /\ new[m] = r
        BY <1>2, <2>3
      <3> QED
        BY <3>2, <3>3
    <2>5. Counted(r) = Reservation /\ Counted(Own(w)) \in Nat
      BY <1>2, <1>4, CountedIsNat DEF Counted
    <2>6. \A x \in Sources : attempts[x] \in Seq(AttemptRow) /\ attempts'[x] \in Seq(AttemptRow)
      BY <1>7 DEF ExtractionInv, StoreInv, TaskFits
    <2>7. \A x \in Sources : RowsTotal(attempts[x]) \in Nat /\ RowsTotal(attempts'[x]) \in Nat
      BY <2>6, RowsTotalIs
    <2>8. /\ DayOf(attempts) \in Nat /\ DayOf(attempts') \in Nat
          /\ DayOf(attempts') + RowsTotal(attempts[s]) = DayOf(attempts) + RowsTotal(attempts'[s])
      <3> PICK all, all2 : all = attempts /\ all2 = attempts'
        OBVIOUS
      <3>1. /\ \A x \in Sources : all[x] \in Seq(AttemptRow) /\ all2[x] \in Seq(AttemptRow)
            /\ \A x \in Sources : x # s => all2[x] = all[x]
        BY <1>7, <2>6 DEF OnlyAt
      <3>2. /\ DayOf(all) \in Nat /\ DayOf(all2) \in Nat
            /\ DayOf(all2) + RowsTotal(all[s]) = DayOf(all) + RowsTotal(all2[s])
        BY ONLY <1>2, <3>1, DayMoves
      <3> QED
        BY <3>2
    <2>9. RowsTotal(attempts'[s]) <= SourceLimit /\ DayOf(attempts') <= DayLimit
      <3> PICK old, new, day, day2, c :
             /\ old = RowsTotal(attempts[s]) /\ new = RowsTotal(attempts'[s])
             /\ day = DayOf(attempts) /\ day2 = DayOf(attempts') /\ c = Counted(Own(w))
        OBVIOUS
      <3>1. old \in Nat /\ new \in Nat /\ day \in Nat /\ day2 \in Nat /\ c \in Nat
        BY <1>2, <2>5, <2>7, <2>8
      <3>2. /\ old + Reservation <= SourceLimit /\ day + Reservation <= DayLimit
            /\ new + c = old + Reservation /\ day2 + old = day + new
        BY <2>1, <2>4, <2>5, <2>8
      <3>3. new <= SourceLimit /\ day2 <= DayLimit
        BY ONLY <3>1, <3>2, BudgetAssumption
      <3> QED
        BY <3>3
    <2>10. ASSUME EvidenceWithinReservation' PROVE EvidenceWithinReservation
      <3> SUFFICES ASSUME NEW x \in Sources, NEW n \in 1 .. Len(attempts[x]),
                          attempts[x][n].resolved # None
                   PROVE  attempts[x][n].cost <= Reservation
        BY DEF EvidenceWithinReservation
      <3>1. CASE x # s
        BY <1>7, <2>10, <3>1 DEF OnlyAt, EvidenceWithinReservation
      <3>2. CASE x = s
        <4>1. n # Len(attempts[s])
          BY <1>2, <3>2
        <4> QED
          BY <2>3, <2>10, <3>2, <4>1 DEF EvidenceWithinReservation
      <3> QED
        BY <3>1, <3>2
    <2> SUFFICES ASSUME EvidenceWithinReservation'
                 PROVE  /\ DayOf(attempts') <= DayLimit
                        /\ \A x \in Sources : RowsTotal(attempts'[x]) <= SourceLimit
      BY DEF LimitsInv, DayTotal, DayOf, SourceTotal, RowsTotal
    <2>11. \A x \in Sources : RowsTotal(attempts[x]) <= SourceLimit
      BY <2>10, TotalsOfRows DEF ExtractionInv, LimitsInv
    <2>12. \A x \in Sources : RowsTotal(attempts'[x]) <= SourceLimit
      BY <1>7, <2>9, <2>11 DEF OnlyAt
    <2> QED
      BY <2>9, <2>12
  <1> QED
    BY <1>2, <1>3, <1>4, <1>7, <1>8 DEF Moved

\* The run reserves the cost of its call, is refused, or cannot tell.
LEMMA ReserveKeeps ==
    ASSUME ExtractionInv, NEW w \in Workers, ReserveEffect(w)
    PROVE  ExtractionInv'
  <1>1. /\ worker[w].stage = "reserve" /\ worker[w].stage # "idle"
        /\ UNCHANGED <<source, task, candidates, outbox, job, bill>>
    BY DEF ReserveEffect
  <1>2. /\ worker[w] \in WorkerRow /\ worker = [v \in Workers |-> worker[v]]
        /\ worker[w].source \in Sources
        /\ worker[w].attempt \in 1 .. Len(attempts[worker[w].source])
    BY <1>1, WorkerIsTyped
  <1>3. ASSUME attempts' = attempts PROVE Moved(Workers \ {w})
    BY <1>1, <1>3, Unmoved
  <1>4. ASSUME ReserveResult(w, "reserved"), UNCHANGED faults,
               worker' = [worker EXCEPT ![w].stage = "ask", ![w].effect = "reserved"]
        PROVE  ExtractionInv'
    <2> PICK k1 : k1 = [worker[w] EXCEPT !.stage = "ask"]
      OBVIOUS
    <2> PICK k : k = [k1 EXCEPT !.effect = "reserved"]
      OBVIOUS
    <2>1. /\ k1 \in WorkerRow /\ k1.stage = "ask"
          /\ k1.source = worker[w].source /\ k1.attempt = worker[w].attempt
      BY <1>2 DEF WorkerRow, Stages
    <2>2. /\ k \in WorkerRow /\ k.stage = "ask"
          /\ k.source = worker[w].source /\ k.attempt = worker[w].attempt
      BY <2>1 DEF WorkerRow, Stages
    <2>3. worker' = [worker EXCEPT ![w] = k]
      BY <1>2, <1>4
    <2>4. /\ Moved(Workers \ {w})
          /\ attempts'[k.source][k.attempt].effect = "reserved"
          /\ bill'[k.source][k.attempt] = None
      BY <1>1, <1>4, <2>2, ReservationMoves
    <2>5. WorkerFits(k, attempts'[k.source][k.attempt], bill'[k.source][k.attempt])
      BY <2>2, <2>4 DEF WorkerFits, Unsettled
    <2>6. Len(attempts[k.source]) \in Nat /\ Len(attempts'[k.source]) \in Nat
      BY <1>2, <2>2, <2>4 DEF Moved, ExtractionInv, StoreInv, TaskFits
    <2>7. k.attempt \in 1 .. Len(attempts'[k.source])
      BY <1>2, <2>2, <2>4, <2>6 DEF Moved
    <2>8. WorkerAt(k, attempts', bill')
      BY <1>2, <2>2, <2>5, <2>7 DEF WorkerAt
    <2>9. JobsInv' /\ JobTyped'
      BY <1>1, <2>4, JobsSame DEF Moved
    <2> QED
      BY <1>1, <1>4, <2>2, <2>3, <2>4, <2>8, <2>9, WorkerTurns, NoFault
  <1>5. ASSUME ReserveResult(w, "budget_rejected"), FailWith(w, "failed", FALSE), UNCHANGED faults
        PROVE  ExtractionInv'
    <2>1. attempts' = attempts
      BY <1>5 DEF ReserveResult
    <2> QED
      BY <1>1, <1>3, <1>5, <2>1, FreeStep, NoFault DEF Outcome
  <1>6. ASSUME ReserveResult(w, "lease_lost"), Throw(w, "retry"), UNCHANGED faults
        PROVE  ExtractionInv'
    <2>1. attempts' = attempts
      BY <1>6 DEF ReserveResult
    <2> QED
      BY <1>1, <1>3, <1>6, <2>1, FreeStep, NoFault
  <1>7. ASSUME Fault, Throw(w, "retry"), ReserveResult(w, "reserved") \/ UNCHANGED attempts
        PROVE  ExtractionInv'
    <2>1. Moved(Workers \ {w})
      BY <1>1, <1>3, <1>7, ReservationMoves
    <2> QED
      BY <1>1, <1>7, <2>1, FreeStep, FaultIsCounted
  <1> QED
    BY <1>4, <1>5, <1>6, <1>7 DEF ReserveEffect

\* What the run may have learnt of a call that was charged c.
AnswerFits(a, c) ==
    /\ a.outcome \in Outcome /\ a.cost \in Costs \cup {None}
    /\ a.request \in BOOLEAN /\ a.retryable \in BOOLEAN /\ a.left \in SUBSET Slots
    /\ a.outcome = "failed" => c = None /\ a.cost = None
    /\ a.outcome = "succeeded" => c # None /\ a.cost = c /\ c <= Reservation
    /\ a.request => c # None

\* What the provider answers and charges for.
LEMMA AnswersFit ==
    ASSUME NEW c \in Costs
    PROVE  /\ c <= Reservation => \A left \in SUBSET Slots :
                AnswerFits([NoAnswer EXCEPT !.outcome = "succeeded", !.cost = c, !.left = left], c)
           /\ \A a \in {LostAnswer} \cup UnusableAnswers(c) : AnswerFits(a, c)
  <1>1. c # None
    BY BudgetAssumption
  <1>2. ASSUME c <= Reservation, NEW left \in SUBSET Slots
        PROVE  AnswerFits([NoAnswer EXCEPT !.outcome = "succeeded", !.cost = c, !.left = left], c)
    BY <1>1, <1>2 DEF AnswerFits, NoAnswer, Outcome
  <1>3. AnswerFits(LostAnswer, c)
    BY <1>1 DEF AnswerFits, LostAnswer, NoAnswer, Outcome
  <1>4. ASSUME NEW known \in BOOLEAN
        PROVE  AnswerFits([NoAnswer EXCEPT !.outcome = "unusable", !.request = known], c)
    BY <1>1 DEF AnswerFits, NoAnswer, Outcome
  <1>5. ASSUME NEW x \in {c}
        PROVE  AnswerFits([NoAnswer EXCEPT !.outcome = "unusable", !.request = TRUE,
                                           !.cost = x], c)
    BY <1>1 DEF AnswerFits, NoAnswer, Outcome
  <1>6. \A a \in UnusableAnswers(c) : AnswerFits(a, c)
    BY <1>4, <1>5 DEF UnusableAnswers
  <1> QED
    BY <1>2, <1>3, <1>6

\* What it reports as failed, or an abort stopped, is charged nothing.
LEMMA FailuresFit ==
    \A a \in ProviderFailures : AnswerFits(a, None)
  <1>1. AnswerFits(LostAnswer, None)
    BY DEF AnswerFits, LostAnswer, NoAnswer, Outcome
  <1>2. ASSUME NEW b \in BOOLEAN
        PROVE  AnswerFits([NoAnswer EXCEPT !.outcome = "failed", !.retryable = b], None)
    BY DEF AnswerFits, NoAnswer, Outcome
  <1> QED
    BY <1>1, <1>2 DEF ProviderFailures

\* The run takes an answer.
LEMMA GotTurns ==
    ASSUME NEW w \in Workers, worker[w] \in WorkerRow, worker = [v \in Workers |-> worker[v]],
           NEW a, NEW c, AnswerFits(a, c), Got(w, a)
    PROVE  \E k \in WorkerRow :
              /\ worker' = [worker EXCEPT ![w] = k] /\ k.stage = "finish"
              /\ k.source = worker[w].source /\ k.attempt = worker[w].attempt
              /\ k.outcome = a.outcome /\ k.cost = a.cost /\ k.request = a.request
  <1> PICK k1 : k1 = [worker[w] EXCEPT !.stage = "finish"]
    OBVIOUS
  <1>1. /\ k1 \in WorkerRow /\ k1.stage = "finish"
        /\ k1.source = worker[w].source /\ k1.attempt = worker[w].attempt
    BY DEF WorkerRow, Stages
  <1> PICK k2 : k2 = [k1 EXCEPT !.outcome = a.outcome]
    OBVIOUS
  <1>2. /\ k2 \in WorkerRow /\ k2.stage = "finish" /\ k2.outcome = a.outcome
        /\ k2.source = worker[w].source /\ k2.attempt = worker[w].attempt
    <2>1. a.outcome \in Outcome /\ k2 = [k1 EXCEPT !.outcome = a.outcome]
      BY DEF AnswerFits
    <2> QED
      BY ONLY <1>1, <2>1 DEF WorkerRow
  <1> PICK k3 : k3 = [k2 EXCEPT !.cost = a.cost]
    OBVIOUS
  <1>3. /\ k3 \in WorkerRow /\ k3.stage = "finish" /\ k3.outcome = a.outcome
        /\ k3.source = worker[w].source /\ k3.attempt = worker[w].attempt /\ k3.cost = a.cost
    <2>1. a.cost \in Costs \cup {None} /\ k3 = [k2 EXCEPT !.cost = a.cost]
      BY DEF AnswerFits
    <2> QED
      BY ONLY <1>2, <2>1 DEF WorkerRow
  <1> PICK k4 : k4 = [k3 EXCEPT !.request = a.request]
    OBVIOUS
  <1>4. /\ k4 \in WorkerRow /\ k4.stage = "finish" /\ k4.outcome = a.outcome
        /\ k4.source = worker[w].source /\ k4.attempt = worker[w].attempt /\ k4.cost = a.cost
        /\ k4.request = a.request
    <2>1. a.request \in BOOLEAN /\ k4 = [k3 EXCEPT !.request = a.request]
      BY DEF AnswerFits
    <2> QED
      BY ONLY <1>3, <2>1 DEF WorkerRow
  <1> PICK k5 : k5 = [k4 EXCEPT !.retryable = a.retryable]
    OBVIOUS
  <1>5. /\ k5 \in WorkerRow /\ k5.stage = "finish" /\ k5.outcome = a.outcome
        /\ k5.source = worker[w].source /\ k5.attempt = worker[w].attempt /\ k5.cost = a.cost
        /\ k5.request = a.request
    <2>1. a.retryable \in BOOLEAN /\ k5 = [k4 EXCEPT !.retryable = a.retryable]
      BY DEF AnswerFits
    <2> QED
      BY ONLY <1>4, <2>1 DEF WorkerRow
  <1> PICK k6 : k6 = [k5 EXCEPT !.left = a.left]
    OBVIOUS
  <1>6. /\ k6 \in WorkerRow /\ k6.stage = "finish" /\ k6.outcome = a.outcome
        /\ k6.source = worker[w].source /\ k6.attempt = worker[w].attempt /\ k6.cost = a.cost
        /\ k6.request = a.request
    <2>1. a.left \in SUBSET Slots /\ k6 = [k5 EXCEPT !.left = a.left]
      BY DEF AnswerFits
    <2> QED
      BY ONLY <1>5, <2>1 DEF WorkerRow
  <1>7. worker' = [worker EXCEPT ![w] = k6]
    BY DEF Got
  <1> QED
    BY <1>6, <1>7

\* The provider charges a call that was reserved and is not settled as it came back.
LEMMA ChargeMoves ==
    ASSUME ExtractionInv, NEW w \in Workers, worker[w].stage = "ask", NEW c \in Costs,
           Charge(w, c), UNCHANGED <<source, task, attempts, candidates>>
    PROVE  /\ Moved(Workers \ {w})
           /\ bill'[worker[w].source][worker[w].attempt] = c
  <1> PICK s, a : s = worker[w].source /\ a = worker[w].attempt
    OBVIOUS
  <1>1. /\ worker[w].stage # "idle" /\ s \in Sources /\ a \in 1 .. Len(attempts[s])
        /\ Unsettled(attempts[s][a])
    BY WorkerIsTyped DEF WorkerFits, Own
  <1>2. FitsNow(s) /\ Len(attempts[s]) \in Nat /\ Len(attempts[s]) <= MaxAttempts
    BY <1>1 DEF ExtractionInv, StoreInv, FitsNow, TaskFits
  <1>3. /\ StoreTyped' /\ bill'[s] = [bill[s] EXCEPT ![a] = c] /\ OnlyAt(s)
    BY <1>1 DEF Charge, StoreTyped, ExtractionInv, OnlyAt
  <1>4. /\ bill'[s] \in [1 .. MaxAttempts -> Costs \cup {None}] /\ bill'[s][a] = c
        /\ \A n \in 1 .. MaxAttempts : n # a => bill'[s][n] = bill[s][n]
    BY <1>1, <1>2, <1>3, ExtractionAssumption DEF FitsNow, BillFits
  <1>5. ChargeFits(attempts[s][a], c)
    BY <1>1, BudgetAssumption DEF ChargeFits, Unsettled, MayBeCharged
  <1>6. ASSUME NEW n \in 1 .. MaxAttempts
        PROVE  IF n <= Len(attempts[s]) THEN ChargeFits(attempts[s][n], bill'[s][n])
               ELSE bill'[s][n] = None
    <2>1. CASE n = a
      BY <1>1, <1>4, <1>5, <2>1
    <2>2. CASE n # a
      BY <1>2, <1>4, <2>2 DEF FitsNow, BillFits
    <2> QED
      BY <2>1, <2>2
  <1>7. BillFits(attempts[s], bill'[s])
    BY <1>4, <1>6 DEF BillFits
  <1>8. FitsNow(s)'
    BY <1>2, <1>7 DEF FitsNow
  <1>9. StoreInv'
    BY <1>1, <1>3, <1>8, StoreMoves DEF ExtractionInv
  <1>10. LimitsInv'
    BY DEF ExtractionInv, LimitsInv, EvidenceWithinReservation, DayTotal, SourceTotal
  <1>11. Elsewhere(Workers \ {w}, s, {a})
    BY <1>1, OwnerAlone DEF ExtractionInv
  <1>12. /\ Grows(attempts[s], attempts'[s], {a})
         /\ \A n \in 1 .. Len(attempts[s]) : n \notin {a} => bill'[s][n] = bill[s][n]
    BY <1>2, <1>4, ExtractionAssumption DEF Grows, Drifts
  <1>13. StandAt(Workers \ {w})
    BY DEF StandAt, ExtractionInv, WorkerInv
  <1>14. StoreInv
    BY DEF ExtractionInv
  <1>15. StandAfter(Workers \ {w})
    BY ONLY <1>1, <1>3, <1>11, <1>12, <1>13, <1>14, OthersStay
  <1>16. JobsStand(Sources) /\ \A x \in Sources : Len(attempts[x]) <= Len(attempts'[x])
    BY <1>14 DEF JobsStand, StoreInv, TaskFits
  <1> QED
    BY <1>3, <1>4, <1>9, <1>10, <1>15, <1>16 DEF Moved

\* The provider answers and charges, in any of the ways it may.
LEMMA AskKeeps ==
    ASSUME ExtractionInv, NEW w \in Workers, Ask(w)
    PROVE  ExtractionInv'
  <1> PICK s, n : s = worker[w].source /\ n = worker[w].attempt
    OBVIOUS
  <1>1. /\ worker[w].stage = "ask" /\ worker[w].stage # "idle"
        /\ UNCHANGED <<source, task, attempts, candidates, outbox, job, faults>>
    BY DEF Ask
  <1>2. /\ worker[w] \in WorkerRow /\ worker = [v \in Workers |-> worker[v]]
        /\ s \in Sources /\ n \in 1 .. Len(attempts[s])
        /\ Unsettled(attempts[s][n]) /\ bill[s][n] = None
    BY <1>1, WorkerIsTyped DEF WorkerFits, Own
  <1>3. ASSUME NEW a, NEW c, AnswerFits(a, c), Got(w, a),
               Moved(Workers \ {w}), bill'[s][n] = c
        PROVE  ExtractionInv'
    <2>1. PICK k \in WorkerRow :
              /\ worker' = [worker EXCEPT ![w] = k] /\ k.stage = "finish"
              /\ k.source = worker[w].source /\ k.attempt = worker[w].attempt
              /\ k.outcome = a.outcome /\ k.cost = a.cost /\ k.request = a.request
      BY <1>2, <1>3, GotTurns
    <2>2. WorkerFits(k, attempts'[s][n], bill'[s][n])
      BY <1>1, <1>2, <1>3, <2>1 DEF WorkerFits, AnswerFits
    <2>3. WorkerAt(k, attempts', bill')
      BY <1>1, <1>2, <2>1, <2>2 DEF WorkerAt
    <2>4. JobsInv' /\ JobTyped'
      BY <1>1, <1>3, JobsSame DEF Moved
    <2> QED
      BY <1>1, <1>3, <2>1, <2>3, <2>4, WorkerTurns, NoFault
  <1>4. CASE \E c \in Costs, left \in SUBSET Slots :
             /\ c <= Reservation
             /\ Charge(w, c)
             /\ Got(w, [NoAnswer EXCEPT !.outcome = "succeeded", !.cost = c, !.left = left])
    <2>1. PICK c \in Costs, left \in SUBSET Slots :
             /\ c <= Reservation
             /\ Charge(w, c)
             /\ Got(w, [NoAnswer EXCEPT !.outcome = "succeeded", !.cost = c, !.left = left])
      BY <1>4
    <2> PICK a : a = [NoAnswer EXCEPT !.outcome = "succeeded", !.cost = c, !.left = left]
      OBVIOUS
    <2>2. AnswerFits(a, c) /\ Got(w, a)
      BY <2>1, AnswersFit
    <2>3. Moved(Workers \ {w}) /\ bill'[s][n] = c
      BY <1>1, <2>1, ChargeMoves
    <2> QED
      BY <1>3, <2>2, <2>3
  <1>5. CASE \E c \in Costs : \E answer \in {LostAnswer} \cup UnusableAnswers(c) :
             Charge(w, c) /\ Got(w, answer)
    <2>1. PICK c \in Costs : \E answer \in {LostAnswer} \cup UnusableAnswers(c) :
             Charge(w, c) /\ Got(w, answer)
      BY <1>5
    <2>2. PICK a \in {LostAnswer} \cup UnusableAnswers(c) : Charge(w, c) /\ Got(w, a)
      BY <2>1
    <2>3. AnswerFits(a, c)
      BY AnswersFit
    <2>4. Moved(Workers \ {w}) /\ bill'[s][n] = c
      BY <1>1, <2>2, ChargeMoves
    <2> QED
      BY <1>3, <2>2, <2>3, <2>4
  <1>6. CASE \E answer \in ProviderFailures : Got(w, answer) /\ UNCHANGED bill
    <2>1. PICK a \in ProviderFailures : Got(w, a) /\ UNCHANGED bill
      BY <1>6
    <2>2. AnswerFits(a, None)
      BY FailuresFit
    <2>3. Moved(Workers \ {w}) /\ bill'[s][n] = None
      BY <1>1, <1>2, <2>1, Unmoved
    <2> QED
      BY <1>3, <2>1, <2>2, <2>3
  <1> QED
    BY <1>4, <1>5, <1>6 DEF Ask

\* The effect an outcome is recorded as tells success and failure apart.
LEMMA EffectOfOutcome ==
    ASSUME NEW o \in Outcome
    PROVE  /\ EffectOf(o) \in {"succeeded", "failed", "uncertain"}
           /\ EffectOf(o) = "succeeded" <=> o = "succeeded"
           /\ EffectOf(o) = "failed" <=> o = "failed"
  BY DEF EffectOf, Outcome

\* The run goes on with the outcome it recorded.
LEMMA KnownTurns ==
    ASSUME NEW w \in Workers, worker[w] \in WorkerRow, worker = [v \in Workers |-> worker[v]],
           worker[w].outcome \in Outcome, NEW st \in Stages, Known(w, st)
    PROVE  \E k \in WorkerRow :
              /\ worker' = [worker EXCEPT ![w] = k] /\ k.stage = st
              /\ k.source = worker[w].source /\ k.attempt = worker[w].attempt
  <1> PICK e : e = EffectOf(worker[w].outcome)
    OBVIOUS
  <1>1. e \in {"succeeded", "failed", "uncertain"}
    BY EffectOfOutcome
  <1> PICK k1 : k1 = [worker[w] EXCEPT !.effect = e]
    OBVIOUS
  <1>2. /\ k1 \in WorkerRow
        /\ k1.source = worker[w].source /\ k1.attempt = worker[w].attempt
    BY <1>1 DEF WorkerRow
  <1> PICK k2 : k2 = [k1 EXCEPT !.stage = st]
    OBVIOUS
  <1>3. /\ k2 \in WorkerRow /\ k2.stage = st
        /\ k2.source = worker[w].source /\ k2.attempt = worker[w].attempt
    BY <1>2 DEF WorkerRow
  <1> PICK k3 : k3 = [k2 EXCEPT !.outcome = e]
    OBVIOUS
  <1>4. /\ k3 \in WorkerRow /\ k3.stage = st
        /\ k3.source = worker[w].source /\ k3.attempt = worker[w].attempt
    <2>1. e \in Outcome
      BY <1>1 DEF Outcome
    <2> QED
      BY ONLY <1>3, <2>1, k3 = [k2 EXCEPT !.outcome = e] DEF WorkerRow
  <1>5. worker' = [worker EXCEPT ![w] = k3]
    BY DEF Known
  <1> QED
    BY <1>4, <1>5

\* A run records what it learnt of its call: it counts for no more than was reserved.
LEMMA FinishMoves ==
    ASSUME ExtractionInv, NEW w \in Workers, worker[w].stage = "finish",
           FinishResult(w, "finished"), UNCHANGED <<source, task, candidates, bill>>
    PROVE  /\ Moved(Workers \ {w})
           /\ attempts'[worker[w].source][worker[w].attempt].effect = EffectOf(worker[w].outcome)
  <1> PICK s, t : s = worker[w].source /\ t = task[s]
    OBVIOUS
  <1> PICK e : e = EffectOf(worker[w].outcome)
    OBVIOUS
  <1> PICK r1 : r1 = [Own(w) EXCEPT !.effect = e]
    OBVIOUS
  <1> PICK r2 : r2 = [r1 EXCEPT !.cost = worker[w].cost]
    OBVIOUS
  <1> PICK r : r = [r2 EXCEPT !.request = worker[w].request]
    OBVIOUS
  <1>1. worker[w].stage # "idle" /\ Active(w) /\ WriteOwn(w, r)
    BY DEF FinishResult
  <1>2. /\ s \in Sources /\ task[s] \in TaskRow /\ task[s].status = "running"
        /\ task[s].attempt = Len(attempts[s]) /\ worker[w].attempt = Len(attempts[s])
        /\ Len(attempts[s]) # 0
        /\ Own(w) = attempts[s][Len(attempts[s])] /\ Own(w) \in AttemptRow
        /\ Own(w).status = "running" /\ Own(w).resolved = None
    BY <1>1, ActiveFacts
  <1> PICK c : c = bill[s][Len(attempts[s])]
    OBVIOUS
  <1>3. /\ worker[w] \in WorkerRow /\ WorkerFits(worker[w], Own(w), c)
    BY <1>1, <1>2, WorkerIsTyped
  <1>4. /\ Own(w).effect \in {"reserved", "uncertain"}
        /\ worker[w].outcome \in Outcome
        /\ worker[w].outcome = "failed" => c = None /\ worker[w].cost = None
        /\ worker[w].outcome = "succeeded" => c # None /\ worker[w].cost = c /\ c <= Reservation
        /\ worker[w].request => c # None
        /\ worker[w].cost \in Costs \cup {None} /\ worker[w].request \in BOOLEAN
    BY <1>2, <1>3 DEF WorkerFits, Unsettled, WorkerRow
  <1>5. /\ e \in {"succeeded", "failed", "uncertain"}
        /\ e = "succeeded" => worker[w].outcome = "succeeded"
        /\ e = "failed" => worker[w].outcome = "failed"
    BY <1>4, EffectOfOutcome
  <1>6. /\ r1 \in AttemptRow /\ r1.effect = e /\ r1.status = "running" /\ r1.resolved = None
    BY <1>2, <1>5 DEF AttemptRow
  <1>7. /\ r2 \in AttemptRow /\ r2.effect = e /\ r2.status = "running" /\ r2.resolved = None
        /\ r2.cost = worker[w].cost
    BY ONLY <1>4, <1>6, r2 = [r1 EXCEPT !.cost = worker[w].cost] DEF AttemptRow
  <1>8. /\ r \in AttemptRow /\ r.effect = e /\ r.status = "running" /\ r.resolved = None
        /\ r.cost = worker[w].cost /\ r.request = worker[w].request
    BY ONLY <1>4, <1>7, r = [r2 EXCEPT !.request = worker[w].request] DEF AttemptRow
  <1>9. ChargeFits(r, c)
    BY <1>4, <1>5, <1>8 DEF ChargeFits, MayBeCharged
  <1>10. MayMove(s, t, r)
    BY <1>2, <1>8, <1>9 DEF MayMove, MayBecome, RowFits
  <1>11. Counted(r) <= Counted(Own(w))
    <2>1. Counted(Own(w)) = Reservation
      BY <1>4 DEF Counted
    <2>2. CASE e = "uncertain"
      BY <1>8, <2>1, <2>2, BudgetAssumption DEF Counted
    <2>3. CASE e = "failed"
      <3>1. Counted(r) = 0
        BY <1>4, <1>5, <1>8, <2>3 DEF Counted
      <3> QED
        BY <2>1, <3>1, BudgetAssumption
    <2>4. CASE e = "succeeded"
      <3>1. Counted(r) = c /\ c <= Reservation
        BY <1>4, <1>5, <1>8, <2>4 DEF Counted
      <3> QED
        BY <2>1, <3>1
    <2> QED
      BY <1>5, <2>2, <2>3, <2>4
  <1>12. task' = [task EXCEPT ![s] = t] /\ UNCHANGED <<source, candidates, bill>>
    BY DEF ExtractionInv, StoreTyped
  <1>13. ~(Own(w).effect = "succeeded") /\ ExtractionInv /\ w \in Workers /\ s = worker[w].source
    BY <1>4
  <1>14. Moved(Workers \ {w}) /\ attempts'[s][worker[w].attempt] = r
    BY ONLY <1>1, <1>10, <1>11, <1>12, <1>13, OwnMoved
  <1> QED
    BY <1>8, <1>14

\* The run records what became of its call, or does not.
LEMMA FinishKeeps ==
    ASSUME ExtractionInv, NEW w \in Workers, FinishEffect(w)
    PROVE  ExtractionInv'
  <1>1. /\ worker[w].stage = "finish" /\ worker[w].stage # "idle"
        /\ UNCHANGED <<source, task, candidates, outbox, job, bill>>
    BY DEF FinishEffect
  <1>2. /\ worker[w] \in WorkerRow /\ worker = [v \in Workers |-> worker[v]]
        /\ worker[w].source \in Sources
        /\ worker[w].attempt \in 1 .. Len(attempts[worker[w].source])
        /\ worker[w].outcome \in Outcome
    BY <1>1, WorkerIsTyped DEF WorkerFits
  <1>3. ASSUME attempts' = attempts PROVE Moved(Workers \ {w})
    BY <1>1, <1>3, Unmoved
  <1>4. ASSUME NEW st \in {"submit", "fail"}, Known(w, st), Moved(Workers \ {w}), UNCHANGED faults,
               st = "submit" =>
                  attempts'[worker[w].source][worker[w].attempt].effect = "succeeded"
        PROVE  ExtractionInv'
    <2>1. st \in Stages
      BY DEF Stages
    <2>2. PICK k \in WorkerRow :
              /\ worker' = [worker EXCEPT ![w] = k] /\ k.stage = st
              /\ k.source = worker[w].source /\ k.attempt = worker[w].attempt
      BY <1>2, <1>4, <2>1, KnownTurns
    <2>3. WorkerFits(k, attempts'[k.source][k.attempt], bill'[k.source][k.attempt])
      BY <1>4, <2>2 DEF WorkerFits
    <2>4. Len(attempts[k.source]) \in Nat /\ Len(attempts'[k.source]) \in Nat
      BY <1>2, <1>4, <2>2 DEF Moved, ExtractionInv, StoreInv, TaskFits
    <2>5. k.attempt \in 1 .. Len(attempts'[k.source])
      BY <1>2, <1>4, <2>2, <2>4 DEF Moved
    <2>6. WorkerAt(k, attempts', bill')
      BY <1>2, <2>2, <2>3, <2>5 DEF WorkerAt
    <2>7. JobsInv' /\ JobTyped'
      BY <1>1, <1>4, JobsSame DEF Moved
    <2>8. faults' \in 0 .. MaxFaults /\ k.stage # "idle"
      BY <1>4, <2>2, NoFault
    <2> QED
      BY <1>1, <1>4, <2>2, <2>6, <2>7, <2>8, WorkerTurns
  <1>5. ASSUME FinishResult(w, "finished"), UNCHANGED faults,
               Known(w, IF EffectOf(worker[w].outcome) = "succeeded" THEN "submit" ELSE "fail")
        PROVE  ExtractionInv'
    <2> PICK st : st = IF EffectOf(worker[w].outcome) = "succeeded" THEN "submit" ELSE "fail"
      OBVIOUS
    <2>1. st \in {"submit", "fail"} /\ Known(w, st)
      BY <1>5
    <2>2. /\ Moved(Workers \ {w})
          /\ attempts'[worker[w].source][worker[w].attempt].effect = EffectOf(worker[w].outcome)
      BY <1>1, <1>5, FinishMoves
    <2> QED
      BY <1>4, <1>5, <2>1, <2>2
  <1>6. ASSUME FinishResult(w, "lease_lost"), UNCHANGED faults,
               Known(w, "fail") \/ Throw(w, "retry")
        PROVE  ExtractionInv'
    <2>1. Moved(Workers \ {w})
      BY <1>3, <1>6 DEF FinishResult
    <2>2. CASE Known(w, "fail")
      BY <1>4, <1>6, <2>1, <2>2
    <2>3. CASE Throw(w, "retry")
      BY <1>1, <1>6, <2>1, <2>3, FreeStep, NoFault
    <2> QED
      BY <1>6, <2>2, <2>3
  <1>7. ASSUME Fault, Throw(w, "retry"), FinishResult(w, "finished") \/ UNCHANGED attempts
        PROVE  ExtractionInv'
    <2>1. Moved(Workers \ {w})
      BY <1>1, <1>3, <1>7, FinishMoves
    <2> QED
      BY <1>1, <1>7, <2>1, FreeStep, FaultIsCounted
  <1> QED
    BY <1>5, <1>6, <1>7 DEF FinishEffect

\* A proposal is stored for the attempt whose answer succeeded, which is the last one.
LEMMA ProposalMoves ==
    ASSUME ExtractionInv, NEW w \in Workers, worker[w].stage = "submit",
           NEW p \in Slots, source[worker[w].source] = "live", NEW cs,
           cs = candidates[worker[w].source]
           \/ cs = candidates[worker[w].source]
                    \cup {[slot |-> p, attempt |-> worker[w].attempt]},
           candidates' = [candidates EXCEPT ![worker[w].source] = cs],
           UNCHANGED <<source, task, attempts, bill>>
    PROVE  Moved(Workers \ {w})
  <1> PICK s, n : s = worker[w].source /\ n = worker[w].attempt
    OBVIOUS
  <1>1. /\ worker[w].stage # "idle" /\ s \in Sources /\ n \in 1 .. Len(attempts[s])
        /\ attempts[s][n].effect = "succeeded"
    BY WorkerIsTyped DEF WorkerFits, Own
  <1>2. FitsNow(s) /\ Len(attempts[s]) \in Nat /\ Len(attempts[s]) <= MaxAttempts
    BY <1>1 DEF ExtractionInv, StoreInv, FitsNow, TaskFits
  <1>3. n = Len(attempts[s])
    BY <1>1, <1>2 DEF FitsNow, TaskFits, MayBeCharged
  <1>4. /\ StoreTyped' /\ candidates'[s] = cs /\ OnlyAt(s)
    BY <1>1 DEF StoreTyped, ExtractionInv, OnlyAt
  <1>5. n \in 1 .. MaxAttempts
    BY <1>1, <1>2, ExtractionAssumption
  <1>6. StoreFits(source[s], task[s], attempts[s], cs)
    BY <1>1, <1>2, <1>3, <1>5 DEF FitsNow, StoreFits
  <1>7. FitsNow(s)'
    BY <1>2, <1>4, <1>6 DEF FitsNow
  <1>8. StoreInv'
    BY <1>1, <1>4, <1>7, StoreMoves DEF ExtractionInv
  <1>9. LimitsInv' /\ StandAfter(Workers \ {w}) /\ JobsStand(Sources)
    BY DEF ExtractionInv, LimitsInv, EvidenceWithinReservation, DayTotal, SourceTotal,
           StandAfter, WorkerInv, JobsStand
  <1>10. \A x \in Sources : Len(attempts[x]) <= Len(attempts'[x])
    BY DEF ExtractionInv, StoreInv, TaskFits
  <1> QED
    BY <1>4, <1>8, <1>9, <1>10 DEF Moved

\* The run submits a proposal, which is stored, refused, or lost on the way.
LEMMA SubmitKeeps ==
    ASSUME ExtractionInv, NEW w \in Workers, SubmitProposal(w)
    PROVE  ExtractionInv'
  <1> PICK s : s = worker[w].source
    OBVIOUS
  <1>1. /\ worker[w].stage = "submit" /\ worker[w].stage # "idle"
        /\ UNCHANGED <<source, task, attempts, outbox, job, bill>>
    BY DEF SubmitProposal
  <1>2. /\ worker[w] \in WorkerRow /\ worker = [v \in Workers |-> worker[v]]
        /\ s \in Sources /\ worker[w].attempt \in 1 .. Len(attempts[s])
        /\ WorkerFits(worker[w], Own(w), bill[s][worker[w].attempt])
    BY <1>1, WorkerIsTyped
  <1>3. ASSUME candidates' = candidates PROVE Moved(Workers \ {w})
    BY <1>1, <1>3, Unmoved
  <1>4. ASSUME NEW p \in worker[w].left, SourceAccepts(s),
               candidates' = [candidates EXCEPT ![s] =
                  IF \E c \in candidates[s] : c.slot = p THEN candidates[s]
                  ELSE candidates[s] \cup {[slot |-> p, attempt |-> worker[w].attempt]}],
               (worker' = [worker EXCEPT ![w].left = worker[w].left \ {p}] /\ UNCHANGED faults)
               \/ (Fault /\ Throw(w, "retry"))
        PROVE  ExtractionInv'
    <2> PICK cs : cs = IF \E c \in candidates[s] : c.slot = p THEN candidates[s]
                       ELSE candidates[s] \cup {[slot |-> p, attempt |-> worker[w].attempt]}
      OBVIOUS
    <2>1. /\ p \in Slots /\ source[s] = "live"
          /\ candidates' = [candidates EXCEPT ![s] = cs]
          /\ \/ cs = candidates[s]
             \/ cs = candidates[s] \cup {[slot |-> p, attempt |-> worker[w].attempt]}
      BY <1>2, <1>4 DEF SourceAccepts, Present, WorkerRow
    <2>2. Moved(Workers \ {w})
      BY <1>1, <2>1, ProposalMoves
    <2>3. CASE Fault /\ Throw(w, "retry")
      BY <1>1, <2>2, <2>3, FreeStep, FaultIsCounted
    <2>4. CASE worker' = [worker EXCEPT ![w].left = worker[w].left \ {p}] /\ UNCHANGED faults
      <3> PICK k : k = [worker[w] EXCEPT !.left = worker[w].left \ {p}]
        OBVIOUS
      <3>1. /\ k \in WorkerRow /\ k.stage = "submit"
            /\ k.source = worker[w].source /\ k.attempt = worker[w].attempt
        BY <1>1, <1>2 DEF WorkerRow
      <3>2. worker' = [worker EXCEPT ![w] = k]
        BY <1>2, <2>4
      <3>3. Own(w).effect = "succeeded"
        BY <1>1, <1>2 DEF WorkerFits
      <3>4. WorkerFits(k, attempts'[k.source][k.attempt], bill'[k.source][k.attempt])
        BY <1>1, <3>1, <3>3 DEF WorkerFits, Own
      <3>5. WorkerAt(k, attempts', bill')
        BY <1>1, <1>2, <3>1, <3>4 DEF WorkerAt
      <3>6. JobsInv' /\ JobTyped'
        BY <1>1, <2>2, JobsSame DEF Moved
      <3> QED
        BY <1>1, <2>2, <2>4, <3>1, <3>2, <3>5, <3>6, WorkerTurns, NoFault
    <2> QED
      BY <1>4, <2>3, <2>4
  <1>5. ASSUME Throw(w, "retry"), UNCHANGED candidates, Fault \/ UNCHANGED faults
        PROVE  ExtractionInv'
    <2>1. Moved(Workers \ {w}) /\ faults' \in 0 .. MaxFaults
      BY <1>3, <1>5, FaultIsCounted, NoFault
    <2> QED
      BY <1>1, <1>5, <2>1, FreeStep
  <1> QED
    BY <1>4, <1>5 DEF SubmitProposal

\* A task without a lease.
LEMMA ReleasedTask ==
    ASSUME NEW t1 \in TaskRow, NEW t, t = [t1 EXCEPT !.lease = 0]
    PROVE  t \in TaskRow /\ t.attempt = t1.attempt /\ t.status = t1.status /\ t.erased = t1.erased
  <1>1. 0 \in 0 .. LeaseDuration
    BY ExtractionAssumption
  <1> QED
    BY ONLY <1>1, t1 \in TaskRow, t = [t1 EXCEPT !.lease = 0] DEF TaskRow

\* Under the fence and after a successful call the task is completed.
LEMMA CompletionMoves ==
    ASSUME ExtractionInv, NEW w \in Workers, worker[w].stage # "idle",
           CompleteResult(w, "completed"), UNCHANGED <<source, candidates, bill>>
    PROVE  Moved(Workers \ {w}) /\ task'[worker[w].source].status = "completed"
  <1> PICK s : s = worker[w].source
    OBVIOUS
  <1> PICK t1 : t1 = [task[s] EXCEPT !.status = "completed"]
    OBVIOUS
  <1> PICK t : t = [t1 EXCEPT !.lease = 0]
    OBVIOUS
  <1> PICK r : r = [Own(w) EXCEPT !.status = "completed"]
    OBVIOUS
  <1>1. Active(w) /\ Own(w).effect = "succeeded" /\ WriteOwn(w, r)
    BY DEF CompleteResult
  <1>2. /\ s \in Sources /\ task[s] \in TaskRow /\ task[s].attempt = Len(attempts[s])
        /\ Len(attempts[s]) # 0 /\ Own(w) \in AttemptRow /\ Own(w).resolved = None
        /\ ChargeFits(Own(w), bill[s][Len(attempts[s])])
    BY <1>1, ActiveFacts
  <1>3. task' = [task EXCEPT ![s] = t]
    BY <1>2 DEF CompleteResult, ExtractionInv, StoreTyped
  <1>4. t1 \in TaskRow /\ t1.attempt = task[s].attempt /\ t1.status = "completed"
    BY <1>2 DEF TaskRow, TaskStatus, Final
  <1>5. t \in TaskRow /\ t.attempt = task[s].attempt /\ t.status = "completed"
    BY <1>4, ReleasedTask
  <1>6. /\ r \in AttemptRow /\ r.status = "completed" /\ r.effect = "succeeded"
        /\ r.resolved = None /\ r.cost = Own(w).cost /\ r.request = Own(w).request
    BY <1>1, <1>2 DEF AttemptRow, Final
  <1>7. MayMove(s, t, r)
    BY <1>1, <1>2, <1>5, <1>6 DEF MayMove, MayBecome, RowFits, ChargeFits, MayBeCharged
  <1>8. Counted(r) <= Counted(Own(w))
    <2>1. Counted(r) = Counted(Own(w))
      BY <1>1, <1>6 DEF Counted
    <2>2. Counted(Own(w)) \in Nat
      BY <1>2, CountedIsNat
    <2> QED
      BY <2>1, <2>2
  <1>9. /\ ExtractionInv /\ w \in Workers /\ worker[w].stage # "idle" /\ s = worker[w].source
        /\ UNCHANGED <<source, candidates, bill>>
        /\ (Own(w).effect = "succeeded" => r.effect = "succeeded")
    BY <1>6
  <1>10. Active(w) /\ WriteOwn(w, r)
    BY <1>1
  <1>11. Moved(Workers \ {w}) /\ task'[s] = t
    BY ONLY <1>3, <1>7, <1>8, <1>9, <1>10, OwnMoved
  <1> QED
    BY <1>5, <1>11

\* Worker w returns from its delivery.
LEMMA ReturnStep ==
    ASSUME ExtractionInv, NEW w \in Workers, worker[w].stage # "idle",
           Moved(Workers \ {w}), NEW end \in {"retry", "terminal", "done"}, Return(w, end),
           end = "done" => task'[worker[w].source].status \in Final,
           outbox' = outbox, faults' \in 0 .. MaxFaults
    PROVE  ExtractionInv'
  <1>1. worker' = [worker EXCEPT ![w] = Idle] /\ Idle.stage = "idle"
    BY DEF Return, Idle
  <1>2. worker[w].source \in Sources /\ JobsStand(Sources)
    BY WorkerIsTyped DEF Moved
  <1>3. JobsInv' /\ JobTyped'
    BY <1>2, ReturnFits
  <1>4. WorkerAt(Idle, attempts', bill')
    BY IdleStands
  <1> QED
    BY <1>1, <1>3, <1>4, WorkerTurns

\* The run completes, or finds its lease lost.
LEMMA CompleteKeeps ==
    ASSUME ExtractionInv, NEW w \in Workers, CompleteExtraction(w)
    PROVE  ExtractionInv'
  <1>1. /\ worker[w].stage # "idle" /\ UNCHANGED <<source, candidates, outbox, bill>>
    BY DEF CompleteExtraction
  <1>2. ASSUME UNCHANGED <<task, attempts>> PROVE Moved(Workers \ {w})
    BY <1>1, <1>2, Unmoved
  <1>3. CASE CompleteResult(w, "completed") /\ Return(w, "done") /\ UNCHANGED faults
    <2>1. Moved(Workers \ {w}) /\ task'[worker[w].source].status \in Final
      BY <1>1, <1>3, CompletionMoves DEF Final
    <2> QED
      BY <1>1, <1>3, <2>1, ReturnStep, NoFault
  <1>4. CASE CompleteResult(w, "lease_lost") /\ Throw(w, "retry") /\ UNCHANGED <<job, faults>>
    <2>1. Moved(Workers \ {w})
      BY <1>2, <1>4 DEF CompleteResult
    <2> QED
      BY <1>1, <1>4, <2>1, FreeStep, NoFault
  <1>5. CASE /\ Fault /\ Throw(w, "retry") /\ UNCHANGED job
             /\ CompleteResult(w, "completed") \/ UNCHANGED <<task, attempts>>
    <2>1. Moved(Workers \ {w})
      BY <1>1, <1>2, <1>5, CompletionMoves
    <2> QED
      BY <1>1, <1>5, <2>1, FreeStep, FaultIsCounted
  <1> QED
    BY <1>3, <1>4, <1>5 DEF CompleteExtraction

\* The claim is settled: what may have been charged is uncertain, not failed.
LEMMA SettleMoves ==
    ASSUME ExtractionInv, NEW w \in Workers, worker[w].stage # "idle", Active(w),
           NEW o, NEW b, NEW end, Settle(w, o, b, end), UNCHANGED <<source, candidates, bill>>
    PROVE  Moved(Workers \ {w})
  <1> PICK s : s = worker[w].source
    OBVIOUS
  <1> PICK unsure : unsure = (o = "uncertain" \/ MayBeCharged(Own(w)))
    OBVIOUS
  <1> PICK status : status = IF unsure THEN "uncertain" ELSE "failed"
    OBVIOUS
  <1> PICK again : again = (~unsure /\ b /\ worker[w].attempt < MaxAttempts)
    OBVIOUS
  <1> PICK next : next = IF again THEN "queued" ELSE status
    OBVIOUS
  <1> PICK t1 : t1 = [task[s] EXCEPT !.status = next]
    OBVIOUS
  <1> PICK t : t = [t1 EXCEPT !.lease = 0]
    OBVIOUS
  <1> PICK r : r = EndAttempt(Own(w), status)
    OBVIOUS
  <1>1. /\ s \in Sources /\ task[s] \in TaskRow /\ task[s].attempt = Len(attempts[s])
        /\ Len(attempts[s]) # 0 /\ Own(w) \in AttemptRow /\ Own(w).resolved = None
        /\ ChargeFits(Own(w), bill[s][Len(attempts[s])])
    BY ActiveFacts
  <1>2. WriteOwn(w, r) /\ task' = [task EXCEPT ![s] = t]
    BY <1>1 DEF Settle, ExtractionInv, StoreTyped
  <1>3. /\ next \in {"queued", "failed", "uncertain"} /\ status \in {"failed", "uncertain"}
        /\ next = "queued" => ~MayBeCharged(Own(w))
    OBVIOUS
  <1>4. t1 \in TaskRow /\ t1.attempt = task[s].attempt /\ t1.status = next
    BY <1>1, <1>3 DEF TaskRow, TaskStatus, Final
  <1>5. t \in TaskRow /\ t.attempt = task[s].attempt /\ t.status = next
    BY <1>4, ReleasedTask
  <1>6. status \in Final
    BY <1>3 DEF Final
  <1>7. /\ r \in AttemptRow /\ r.status = status /\ r.resolved = None
        /\ Own(w).effect = "succeeded" => r.effect = "succeeded"
    BY <1>1, <1>6, EndedRow
  <1>8. /\ Counted(r) = Counted(Own(w)) /\ ChargeFits(r, bill[s][Len(attempts[s])])
        /\ MayBeCharged(r) <=> MayBeCharged(Own(w))
    BY <1>1, <1>6, EndedRowFits
  <1>9. MayMove(s, t, r)
    BY <1>1, <1>3, <1>5, <1>7, <1>8 DEF MayMove, MayBecome, RowFits
  <1>10. Counted(r) <= Counted(Own(w))
    BY <1>1, <1>8, CountedIsNat
  <1>11. /\ ExtractionInv /\ w \in Workers /\ worker[w].stage # "idle" /\ s = worker[w].source
         /\ UNCHANGED <<source, candidates, bill>> /\ Active(w)
    OBVIOUS
  <1> QED
    BY ONLY <1>2, <1>7, <1>9, <1>10, <1>11, OwnMoved

\* The run fails with an outcome it knows.
LEMMA FailKeeps ==
    ASSUME ExtractionInv, NEW w \in Workers, FailExtraction(w)
    PROVE  ExtractionInv'
  <1>1. worker[w].stage # "idle" /\ UNCHANGED <<source, candidates, outbox, bill>>
    BY DEF FailExtraction
  <1>2. ASSUME UNCHANGED <<task, attempts>> PROVE Moved(Workers \ {w})
    BY <1>1, <1>2, Unmoved
  <1>3. ASSUME Active(w), NEW end \in {"retry", "terminal"},
               Settle(w, worker[w].outcome, worker[w].retryable, end),
               (Return(w, end) /\ UNCHANGED faults)
               \/ (Fault /\ Throw(w, "retry") /\ UNCHANGED job)
        PROVE  ExtractionInv'
    <2>1. Moved(Workers \ {w})
      BY <1>1, <1>3, SettleMoves
    <2>2. CASE Return(w, end) /\ UNCHANGED faults
      BY <1>1, <1>3, <2>1, <2>2, ReturnStep, NoFault
    <2>3. CASE Fault /\ Throw(w, "retry") /\ UNCHANGED job
      BY <1>1, <2>1, <2>3, FreeStep, FaultIsCounted
    <2> QED
      BY <1>3, <2>2, <2>3
  <1>4. ASSUME \E e \in {"retry", "terminal"} : Throw(w, e), UNCHANGED <<task, attempts, job>>,
               Fault \/ UNCHANGED faults
        PROVE  ExtractionInv'
    <2>1. Moved(Workers \ {w}) /\ faults' \in 0 .. MaxFaults
      BY <1>2, <1>4, FaultIsCounted, NoFault
    <2> QED
      BY <1>1, <1>4, <2>1, FreeStep
  <1> QED
    BY <1>3, <1>4 DEF FailExtraction

\* Whatever was thrown, the claim is settled or given up.
LEMMA CatchKeeps ==
    ASSUME ExtractionInv, NEW w \in Workers, FailInCatch(w)
    PROVE  ExtractionInv'
  <1>1. worker[w].stage # "idle" /\ UNCHANGED <<source, candidates, outbox, bill>>
    BY DEF FailInCatch
  <1>2. ASSUME Moved(Workers \ {w}), NEW end \in {"retry", "terminal"}, Return(w, end),
               Fault \/ UNCHANGED faults
        PROVE  ExtractionInv'
    <2>1. faults' \in 0 .. MaxFaults
      BY <1>2, FaultIsCounted, NoFault
    <2> QED
      BY <1>1, <1>2, <2>1, ReturnStep
  <1>3. ASSUME Active(w), NEW end \in {"retry", "terminal"}, NEW o, NEW b, Settle(w, o, b, end),
               (Return(w, end) /\ UNCHANGED faults) \/ (Fault /\ Return(w, "retry"))
        PROVE  ExtractionInv'
    <2>1. Moved(Workers \ {w})
      BY <1>1, <1>3, SettleMoves
    <2> QED
      BY <1>2, <1>3, <2>1
  <1>4. ASSUME NEW e \in {"retry", "terminal"}, Return(w, e), UNCHANGED <<task, attempts>>,
               Fault \/ UNCHANGED faults
        PROVE  ExtractionInv'
    <2>1. Moved(Workers \ {w})
      BY <1>1, <1>4, Unmoved
    <2> QED
      BY <1>2, <1>4, <2>1
  <1>5. worker[w].error \in {"retry", "terminal"}
    BY <1>1, WorkerIsTyped DEF WorkerRow
  <1> QED
    BY <1>3, <1>4, <1>5 DEF FailInCatch

-----------------------------------------------------------------------------
(* The steps of the queue, of time, of the user and of the owner.           *)

\* No worker moves.
LEMMA WorkersRest ==
    ASSUME ExtractionInv, Moved(Workers), worker' = worker, JobsInv', JobTyped',
           outbox' = [s \in Sources |-> outbox'[s]], faults' \in 0 .. MaxFaults
    PROVE  ExtractionInv'
  <1>1. WorkerInv'
    BY DEF Moved, StandAfter, WorkerInv
  <1>2. OwnersInv' /\ RestTyped'
    BY DEF ExtractionInv, OwnersInv, RestTyped, JobTyped
  <1> QED
    BY <1>1, <1>2 DEF ExtractionInv, Moved

OutboxTyped == outbox = [s \in Sources |-> outbox[s]]

\* The outbox does not move.
LEMMA OutboxSame ==
    ASSUME ExtractionInv, outbox' = outbox
    PROVE  OutboxTyped'
  BY DEF ExtractionInv, RestTyped, OutboxTyped

\* The event of a source becomes its job.
LEMMA PublishKeeps ==
    ASSUME ExtractionInv, NEW s \in Sources, Publish(s)
    PROVE  ExtractionInv'
  <1> PICK st : st = IF job[s].state = "none" THEN "waiting" ELSE job[s].state
    OBVIOUS
  <1> PICK j : j = [job[s] EXCEPT !.state = st]
    OBVIOUS
  <1>1. /\ UNCHANGED <<source, task, attempts, candidates, worker, bill>>
        /\ (outbox' = [outbox EXCEPT ![s] = "published"] /\ UNCHANGED faults)
           \/ (Fault /\ UNCHANGED outbox)
    BY DEF Publish
  <1>2. Moved(Workers) /\ faults' \in 0 .. MaxFaults
    BY <1>1, Unmoved, FaultIsCounted, NoFault
  <1>3. JobFits(source[s], task[s], attempts[s], job[s]) /\ st \in JobState
    BY DEF ExtractionInv, JobsInv, JobFits, JobRow, JobState
  <1>4. j \in JobRow /\ j.state = st /\ j.holder = job[s].holder
    BY <1>3 DEF JobFits, JobRow
  <1>5. JobFits(source[s], task[s], attempts[s], j)
    BY <1>3, <1>4 DEF JobFits
  <1>6. job' = [job EXCEPT ![s] = j]
    BY DEF Publish, ExtractionInv, RestTyped
  <1>7. /\ JobTyped' /\ OutboxTyped' /\ job'[s] = j
        /\ \A x \in Sources : x # s => job'[x] = job[x]
        /\ \A x \in Sources : outbox'[x] \in {"pending", "published", "failed"}
    BY <1>1, <1>6 DEF ExtractionInv, RestTyped, JobsInv, JobTyped, OutboxTyped
  <1>8. \A x \in Sources : JobFits(source'[x], task'[x], attempts'[x], job'[x])
    BY <1>1, <1>5, <1>7 DEF ExtractionInv, JobsInv
  <1>9. JobsInv'
    BY <1>7, <1>8 DEF JobsInv
  <1> QED
    BY <1>1, <1>2, <1>7, <1>9, WorkersRest DEF OutboxTyped

\* The queue refuses an event for the last time.
LEMMA PublishFailsKeeps ==
    ASSUME ExtractionInv, NEW s \in Sources, PublishFails(s)
    PROVE  ExtractionInv'
  <1>1. /\ UNCHANGED <<source, task, attempts, candidates, job, worker, bill>>
        /\ outbox' = [outbox EXCEPT ![s] = "failed"] /\ Fault
    BY DEF PublishFails
  <1>2. Moved(Workers) /\ faults' \in 0 .. MaxFaults
    BY <1>1, Unmoved, FaultIsCounted
  <1>3. JobsInv' /\ JobTyped' /\ OutboxTyped'
    BY <1>1 DEF ExtractionInv, RestTyped, JobsInv, JobTyped, OutboxTyped
  <1> QED
    BY <1>1, <1>2, <1>3, WorkersRest DEF OutboxTyped

\* A job that is neither active nor done asks nothing of its task.
LEMMA JobOnly ==
    ASSUME ExtractionInv, NEW s \in Sources, NEW j \in JobRow, j.state \notin {"active", "done"},
           j.holder = None, job' = [job EXCEPT ![s] = j],
           UNCHANGED <<source, task, attempts, candidates, outbox, worker, bill>>,
           Fault \/ UNCHANGED faults
    PROVE  ExtractionInv'
  <1>1. Moved(Workers) /\ faults' \in 0 .. MaxFaults
    BY Unmoved, FaultIsCounted, NoFault
  <1>2. JobsStand(Sources \ {s})
    BY <1>1 DEF Moved, JobsStand
  <1>3. JobFits(source'[s], task'[s], attempts'[s], j)
    BY DEF JobFits
  <1>4. JobsInv' /\ JobTyped'
    BY <1>2, <1>3, JobMoves
  <1>5. OutboxTyped'
    BY OutboxSame
  <1> QED
    BY <1>1, <1>4, <1>5, WorkersRest DEF OutboxTyped

\* The lock of a job expires under a worker that goes on.
LEMMA StallKeeps ==
    ASSUME ExtractionInv, NEW s \in Sources, Stall(s)
    PROVE  ExtractionInv'
  <1>1. job[s] \in JobRow
    BY DEF ExtractionInv, JobsInv, JobFits
  <1>2. /\ Fault /\ job' = [job EXCEPT ![s] = Stalled(job[s])]
        /\ UNCHANGED <<source, task, attempts, candidates, outbox, worker, bill>>
    BY DEF Stall
  <1> QED
    BY <1>1, <1>2, StalledJob, JobOnly

\* An operator retries a job.
LEMMA RedeliverKeeps ==
    ASSUME ExtractionInv, NEW s \in Sources, Redeliver(s)
    PROVE  ExtractionInv'
  <1> PICK j : j = [NewJob EXCEPT !.state = "waiting"]
    OBVIOUS
  <1>1. j \in JobRow /\ j.state = "waiting" /\ j.holder = None
    BY DEF NewJob, JobRow, JobState
  <1>2. /\ Fault /\ job' = [job EXCEPT ![s] = j]
        /\ UNCHANGED <<source, task, attempts, candidates, outbox, worker, bill>>
    BY DEF Redeliver
  <1> QED
    BY <1>1, <1>2, JobOnly

\* A claim throws before it is committed.
LEMMA ClaimThrowsKeeps ==
    ASSUME ExtractionInv, NEW s \in Sources, ClaimThrows(s)
    PROVE  ExtractionInv'
  <1> PICK j : j = Ended(job[s], "retry")
    OBVIOUS
  <1>1. job[s] \in JobRow
    BY DEF ExtractionInv, JobsInv, JobFits
  <1>2. j \in JobRow /\ j.state \notin {"active", "done"} /\ j.holder = None
    BY <1>1, EndedJob
  <1>3. /\ Fault /\ job' = [job EXCEPT ![s] = j]
        /\ UNCHANGED <<source, task, attempts, candidates, outbox, worker, bill>>
    BY DEF ClaimThrows
  <1> QED
    BY <1>2, <1>3, JobOnly

\* A worker process dies.
LEMMA CrashKeeps ==
    ASSUME ExtractionInv, NEW w \in Workers, Crash(w)
    PROVE  ExtractionInv'
  <1> PICK s : s = worker[w].source
    OBVIOUS
  <1>1. /\ worker[w].stage # "idle" /\ Fault /\ worker' = [worker EXCEPT ![w] = Idle]
        /\ UNCHANGED <<source, task, attempts, candidates, outbox, bill>>
        /\ job' = IF job[s].holder = w THEN [job EXCEPT ![s] = Stalled(job[s])] ELSE job
    BY DEF Crash
  <1>2. Moved(Workers \ {w}) /\ faults' \in 0 .. MaxFaults /\ s \in Sources
    BY <1>1, Unmoved, FaultIsCounted, WorkerIsTyped
  <1>3. JobsInv' /\ JobTyped'
    <2>1. CASE job[s].holder = w
      <3>1. job[s] \in JobRow
        BY <1>2 DEF ExtractionInv, JobsInv, JobFits
      <3>2. JobFits(source'[s], task'[s], attempts'[s], Stalled(job[s]))
        BY <3>1, StalledJob DEF JobFits
      <3>3. JobsStand(Sources \ {s})
        BY <1>2 DEF Moved, JobsStand
      <3> QED
        BY <1>1, <1>2, <2>1, <3>2, <3>3, JobMoves
    <2>2. CASE job[s].holder # w
      BY <1>1, <1>2, <2>2, JobsSame DEF Moved
    <2> QED
      BY <2>1, <2>2
  <1>4. Idle.stage = "idle" /\ WorkerAt(Idle, attempts', bill')
    BY IdleStands DEF Idle
  <1> QED
    BY <1>1, <1>2, <1>3, <1>4, WorkerTurns

\* Only the task and the state of the source change, no attempt does.
LEMMA TaskMoves ==
    ASSUME ExtractionInv, NEW s \in Sources, OnlyAt(s), StoreTyped',
           attempts' = attempts, bill' = bill, FitsNow(s)',
           \A j \in JobRow : JobFits(source[s], task[s], attempts[s], j) =>
                                JobFits(source'[s], task'[s], attempts'[s], j)
    PROVE  Moved(Workers)
  <1>1. StoreInv'
    BY StoreMoves DEF ExtractionInv
  <1>2. LimitsInv' /\ StandAfter(Workers)
    BY DEF ExtractionInv, LimitsInv, EvidenceWithinReservation, DayTotal, SourceTotal,
           StandAfter, WorkerInv
  <1>3. JobsStand(Sources)
    BY DEF JobsStand, OnlyAt
  <1>4. \A x \in Sources : Len(attempts[x]) <= Len(attempts'[x])
    BY DEF ExtractionInv, StoreInv, TaskFits
  <1> QED
    BY <1>1, <1>2, <1>3, <1>4 DEF Moved

\* A lease is renewed or runs out.
LEMMA LeaseMoves ==
    ASSUME ExtractionInv, NEW s \in Sources, NEW x \in 0 .. LeaseDuration,
           task' = [task EXCEPT ![s].lease = x],
           UNCHANGED <<source, attempts, candidates, outbox, job, worker, bill, faults>>
    PROVE  ExtractionInv'
  <1> PICK t : t = [task[s] EXCEPT !.lease = x]
    OBVIOUS
  <1>1. FitsNow(s) /\ task[s] \in TaskRow
    BY DEF ExtractionInv, StoreInv, FitsNow, TaskFits
  <1>2. /\ t \in TaskRow /\ t.attempt = task[s].attempt /\ t.status = task[s].status
        /\ t.erased = task[s].erased
    BY <1>1 DEF TaskRow
  <1>3. /\ StoreTyped' /\ OnlyAt(s) /\ task'[s] = t
    BY DEF StoreTyped, ExtractionInv, OnlyAt
  <1>4. TaskFits(t, attempts[s]) /\ StoreFits(source[s], t, attempts[s], candidates[s])
    BY <1>1, <1>2 DEF FitsNow, TaskFits, StoreFits
  <1>5. FitsNow(s)'
    BY <1>1, <1>3, <1>4 DEF FitsNow
  <1>6. \A j \in JobRow : JobFits(source[s], task[s], attempts[s], j) =>
                             JobFits(source'[s], task'[s], attempts'[s], j)
    BY <1>2, <1>3 DEF JobFits
  <1>7. Moved(Workers)
    BY <1>3, <1>5, <1>6, TaskMoves
  <1>8. JobsInv' /\ JobTyped' /\ OutboxTyped' /\ faults' \in 0 .. MaxFaults
    BY <1>7, JobsSame, OutboxSame, NoFault DEF Moved
  <1> QED
    BY <1>7, <1>8, WorkersRest DEF OutboxTyped

\* A lease runs out.
LEMMA TickKeeps ==
    ASSUME ExtractionInv, NEW s \in Sources, Tick(s)
    PROVE  ExtractionInv'
  <1>1. task[s] \in TaskRow
    BY DEF ExtractionInv, StoreInv, TaskFits
  <1>2. task[s].lease - 1 \in 0 .. LeaseDuration
    <2>1. task[s].lease \in 0 .. LeaseDuration
      BY <1>1 DEF TaskRow
    <2>2. task[s].lease > 0
      BY DEF Tick
    <2> QED
      BY <2>1, <2>2, ExtractionAssumption
  <1> QED
    BY <1>2, LeaseMoves DEF Tick

\* A heartbeat renews it.
LEMMA HeartbeatKeeps ==
    ASSUME ExtractionInv, NEW w \in Workers, HeartbeatExtraction(w)
    PROVE  ExtractionInv'
  <1>1. worker[w].source \in Sources
    BY WorkerIsTyped DEF HeartbeatExtraction
  <1>2. LeaseDuration \in 0 .. LeaseDuration
    BY ExtractionAssumption
  <1> QED
    BY <1>1, <1>2, LeaseMoves DEF HeartbeatExtraction, RenewLease

\* The retention of a signal passes.
LEMMA FallDueKeeps ==
    ASSUME ExtractionInv, NEW s \in Sources, FallDue(s)
    PROVE  ExtractionInv'
  <1>1. /\ source[s] = "live" /\ source' = [source EXCEPT ![s] = "due"]
        /\ UNCHANGED <<task, attempts, candidates, outbox, job, worker, bill, faults>>
    BY DEF FallDue
  <1>2. FitsNow(s)
    BY DEF ExtractionInv, StoreInv, FitsNow
  <1>3. StoreTyped' /\ OnlyAt(s) /\ source'[s] = "due"
    BY <1>1 DEF StoreTyped, ExtractionInv, OnlyAt
  <1>4. FitsNow(s)'
    BY <1>1, <1>2, <1>3 DEF FitsNow, StoreFits
  <1>5. \A j \in JobRow : JobFits(source[s], task[s], attempts[s], j) =>
                             JobFits(source'[s], task'[s], attempts'[s], j)
    BY <1>3 DEF JobFits
  <1>6. Moved(Workers)
    BY <1>1, <1>3, <1>4, <1>5, TaskMoves
  <1>7. JobsInv' /\ JobTyped' /\ OutboxTyped' /\ faults' \in 0 .. MaxFaults
    BY <1>1, <1>6, JobsSame, OutboxSame, NoFault DEF Moved
  <1> QED
    BY <1>1, <1>6, <1>7, WorkersRest DEF OutboxTyped

\* The last row and the task of a source change, and what the row counts for does
\* not grow; the workers see their rows drift.
LEMMA LastMoved ==
    ASSUME ExtractionInv, NEW s \in Sources, NEW t2, NEW r, MayMove(s, t2, r),
           LastBecomes(s, t2, r), OnlyAt(s), StoreTyped',
           Drifts(attempts[s][Len(attempts[s])], r),
           StoreFits(source'[s], t2, attempts'[s], candidates'[s]),
           attempts[s][Len(attempts[s])].resolved = None
           \/ (r.resolved = attempts[s][Len(attempts[s])].resolved
               /\ r.cost = attempts[s][Len(attempts[s])].cost),
           (r.resolved # None => r.cost <= Reservation) =>
               Counted(r) <= Counted(attempts[s][Len(attempts[s])]),
           \A j \in JobRow : JobFits(source[s], task[s], attempts[s], j) =>
                                JobFits(source'[s], task'[s], attempts'[s], j)
    PROVE  Moved(Workers)
  <1>1. Workers \subseteq Workers /\ Elsewhere(Workers, s, {})
    BY DEF Elsewhere
  <1>2. /\ StoreInv' /\ StandAfter(Workers)
        /\ \A x \in Sources : Len(attempts[x]) <= Len(attempts'[x])
    BY <1>1, LastMoves
  <1>3. LimitsInv'
    BY <1>2, LastLimits
  <1>4. JobsStand(Sources)
    BY DEF JobsStand, OnlyAt
  <1> QED
    BY <1>2, <1>3, <1>4 DEF Moved

\* The owner resolves an unknown outcome, and may requeue a call that failed.
LEMMA ReconcileKeeps ==
    ASSUME ExtractionInv, NEW s \in Sources, NEW d \in {"failed", "succeeded"}, NEW c \in Costs,
           NEW l \in OwnerAttempts \cup {None}, Reconcile(s, d, c, l)
    PROVE  ExtractionInv'
  <1> PICK rows, last, old : rows = attempts[s] /\ last = Len(rows) /\ old = rows[last]
    OBVIOUS
  <1> PICK rec : rec = [decision |-> d, limit |-> l]
    OBVIOUS
  <1> PICK st : st = IF l # None THEN "queued" ELSE "failed"
    OBVIOUS
  <1> PICK t : t = [task[s] EXCEPT !.status = st]
    OBVIOUS
  <1> PICK r1 : r1 = [old EXCEPT !.status = "failed"]
    OBVIOUS
  <1> PICK r2 : r2 = [r1 EXCEPT !.effect = d]
    OBVIOUS
  <1> PICK r3 : r3 = [r2 EXCEPT !.cost = c]
    OBVIOUS
  <1> PICK r : r = [r3 EXCEPT !.resolved = rec]
    OBVIOUS
  <1>1. /\ Resolvable(s) /\ (l # None => (d = "failed" /\ MayRequeue(s, l)))
        /\ UNCHANGED <<source, candidates, outbox, job, worker, bill, faults>>
    BY DEF Reconcile
  <1>2. /\ TaskFits(task[s], rows) /\ BillFits(rows, bill[s])
        /\ StoreFits(source[s], task[s], rows, candidates[s])
        /\ task[s] \in TaskRow /\ rows \in Seq(AttemptRow) /\ task[s].attempt = last
        /\ last \in Nat /\ last <= MaxAttempts /\ task[s].status = "uncertain"
    BY <1>1 DEF ExtractionInv, StoreInv, TaskFits, Resolvable
  <1>3. last # 0 /\ last \in 1 .. last
    BY <1>2 DEF TaskFits
  <1>4. /\ Last(s) = old /\ old \in AttemptRow
        /\ old.status = "uncertain" /\ old.effect = "uncertain"
    BY <1>1, <1>2, <1>3 DEF Last, Resolvable
  <1>5. old.resolved = None /\ ChargeFits(old, bill[s][last])
    BY <1>2, <1>3, <1>4, ExtractionAssumption DEF TaskFits, RowFits, BillFits
  <1>6. rec \in ReconciliationRow /\ rec # None /\ rec.decision = d
    BY NoneIsNoResolution DEF ReconciliationRow
  <1>7. r1 \in AttemptRow /\ r1.status = "failed" /\ r1.request = old.request
    BY ONLY <1>4, r1 = [old EXCEPT !.status = "failed"] DEF AttemptRow, Final
  <1>8. /\ r2 \in AttemptRow /\ r2.status = "failed" /\ r2.request = old.request
        /\ r2.effect = d
    BY ONLY <1>7, r2 = [r1 EXCEPT !.effect = d], d \in {"failed", "succeeded"} DEF AttemptRow
  <1>9. /\ r3 \in AttemptRow /\ r3.status = "failed" /\ r3.request = old.request
        /\ r3.effect = d /\ r3.cost = c
    BY ONLY <1>8, r3 = [r2 EXCEPT !.cost = c], c \in Costs DEF AttemptRow
  <1>10. /\ r \in AttemptRow /\ r.status = "failed" /\ r.request = old.request
         /\ r.effect = d /\ r.cost = c /\ r.resolved = rec
    BY ONLY <1>6, <1>9, r = [r3 EXCEPT !.resolved = rec] DEF AttemptRow
  <1>11. /\ t \in TaskRow /\ t.attempt = last /\ t.status = st /\ t.erased = task[s].erased
    BY <1>2 DEF TaskRow, TaskStatus, Final
  <1>12. MayMove(s, t, r)
    BY <1>3, <1>5, <1>6, <1>10, <1>11, <1>1
       DEF MayMove, MayBecome, RowFits, ChargeFits, MayBeCharged
  <1>13. LastBecomes(s, t, r)
    BY <1>2, <1>4, <1>1 DEF Reconcile, LastBecomes, ExtractionInv, StoreTyped
  <1>14. /\ OnlyAt(s) /\ StoreTyped' /\ task'[s] = t
         /\ attempts'[s] = [rows EXCEPT ![last] = r]
    BY <1>1, <1>13 DEF LastBecomes, OnlyAt, ExtractionInv, StoreTyped
  <1>15. attempts'[s][last] = r /\ Len(attempts'[s]) = last
    BY <1>2, <1>3, <1>10, <1>14, RowReplaced
  <1>16. StoreFits(source[s], t, [rows EXCEPT ![last] = r], candidates[s])
    <2>1. source[s] = "gone" => (t.erased /\ t.status \in Final)
      BY <1>1, <1>2, <1>11 DEF StoreFits, MayRequeue, Final
    <2>2. rows[last].effect # "succeeded" /\ last = Len(rows)
      BY <1>4
    <2> QED
      BY ONLY <1>2, <1>3, <1>10, <2>1, <2>2, LastStore
  <1>17. Drifts(old, r)
    BY <1>4, <1>6, <1>10 DEF Drifts
  <1>18. (r.resolved # None => r.cost <= Reservation) => Counted(r) <= Counted(old)
    BY <1>4, <1>6, <1>10, BudgetAssumption DEF Counted
  <1>19. ASSUME NEW j \in JobRow, JobFits(source[s], task[s], attempts[s], j)
         PROVE  JobFits(source'[s], task'[s], attempts'[s], j)
    <2>1. t.status \in Final \/ (t.status = "queued" /\ attempts'[s][last].resolved # None)
      BY <1>6, <1>10, <1>11, <1>15 DEF Final
    <2>2. task'[s].status = t.status /\ Len(attempts'[s]) = last
      BY <1>14, <1>15
    <2> QED
      BY ONLY <1>19, <2>1, <2>2 DEF JobFits
  <1>20. Moved(Workers)
    <2>1. source'[s] = source[s] /\ candidates'[s] = candidates[s]
      BY <1>1
    <2>2. StoreFits(source'[s], t, attempts'[s], candidates'[s])
      BY <1>14, <1>16, <2>1
    <2> QED
      BY <1>5, <1>12, <1>13, <1>14, <1>17, <1>18, <1>19, <2>2, LastMoved
  <1>21. JobsInv' /\ JobTyped' /\ OutboxTyped' /\ faults' \in 0 .. MaxFaults
    BY <1>1, <1>20, JobsSame, OutboxSame, NoFault DEF Moved
  <1> QED
    BY <1>1, <1>20, <1>21, WorkersRest DEF OutboxTyped

\* The provider is asked about a call whose request it answered, and so charged.
LEMMA LookupKeeps ==
    ASSUME ExtractionInv, NEW s \in Sources, LookupAndReconcile(s)
    PROVE  ExtractionInv'
  <1> PICK n, c : n = task[s].attempt /\ c = bill[s][n]
    OBVIOUS
  <1>1. Resolvable(s) /\ attempts[s][n].request /\ Reconcile(s, "succeeded", c, None)
    BY DEF LookupAndReconcile, Last
  <1>2. /\ TaskFits(task[s], attempts[s]) /\ BillFits(attempts[s], bill[s])
        /\ n = Len(attempts[s]) /\ Len(attempts[s]) \in Nat /\ Len(attempts[s]) <= MaxAttempts
        /\ task[s].status = "uncertain"
    BY <1>1 DEF ExtractionInv, StoreInv, TaskFits, Resolvable
  <1>3. n # 0
    BY <1>2 DEF TaskFits
  <1>4. n \in 1 .. MaxAttempts /\ n <= Len(attempts[s])
    BY <1>2, <1>3, ExtractionAssumption
  <1>5. ChargeFits(attempts[s][n], c) /\ c \in Costs \cup {None}
    BY <1>2, <1>4 DEF BillFits
  <1>6. c \in Costs
    BY <1>1, <1>5 DEF ChargeFits
  <1> QED
    BY <1>1, <1>6, ReconcileKeeps

\* Erasure settles the task, whatever state it is in.
LEMMA EraseKeeps ==
    ASSUME ExtractionInv, NEW s \in Sources, EraseSignal(s)
    PROVE  ExtractionInv'
  <1> PICK rows, last : rows = attempts[s] /\ last = Len(rows)
    OBVIOUS
  <1>1. /\ source' = [source EXCEPT ![s] = "gone"]
        /\ candidates' = [candidates EXCEPT ![s] = {}]
        /\ task' = [task EXCEPT ![s] = SettledTask(s)]
        /\ outbox' = [outbox EXCEPT ![s] = IF outbox[s] = "pending" THEN "failed" ELSE outbox[s]]
        /\ UNCHANGED <<job, worker, bill, faults>>
    BY DEF EraseSignal
  <1>2. /\ FitsNow(s) /\ task[s] \in TaskRow /\ rows \in Seq(AttemptRow)
        /\ task[s].attempt = last /\ last \in Nat /\ last <= MaxAttempts
    BY DEF ExtractionInv, StoreInv, FitsNow, TaskFits
  <1> PICK t : t = SettledTask(s)
    OBVIOUS
  <1>3. /\ t \in TaskRow /\ t.attempt = last
        /\ task[s].status = "absent" => t = task[s]
        /\ task[s].status # "absent" => (t.erased /\ t.status \in Final)
        /\ (task[s].status \notin {"queued", "running"}) => t.status = task[s].status
        /\ task[s].status \in {"queued", "running"} => t.status \in {"cancelled", "uncertain"}
    <2>1. CASE task[s].status = "absent"
      BY <1>2, <2>1 DEF SettledTask
    <2>2. CASE task[s].status # "absent"
      <3> PICK st : st = IF \/ task[s].status = "queued"
                            \/ task[s].status = "running" /\ ~MayBeCharged(Last(s))
                         THEN "cancelled"
                         ELSE IF task[s].status = "running" THEN "uncertain"
                         ELSE task[s].status
        OBVIOUS
      <3> PICK t1 : t1 = [task[s] EXCEPT !.erased = TRUE]
        OBVIOUS
      <3> PICK t2 : t2 = [t1 EXCEPT !.lease = 0]
        OBVIOUS
      <3>1. task[s].status \in {"queued", "running"} \cup Final
        BY <1>2, <2>2 DEF TaskRow, TaskStatus
      <3>2. /\ st \in Final
            /\ task[s].status \notin {"queued", "running"} => st = task[s].status
            /\ task[s].status \in {"queued", "running"} => st \in {"cancelled", "uncertain"}
        BY <3>1 DEF Final
      <3>3. /\ t1 \in TaskRow /\ t1.attempt = task[s].attempt /\ t1.erased
        BY ONLY <1>2, t1 = [task[s] EXCEPT !.erased = TRUE] DEF TaskRow
      <3>4. /\ t2 \in TaskRow /\ t2.attempt = task[s].attempt /\ t2.erased
        BY ONLY <3>3, t2 = [t1 EXCEPT !.lease = 0], ReleasedTask
      <3>5. t = [t2 EXCEPT !.status = st]
        BY <2>2 DEF SettledTask
      <3>6. /\ t \in TaskRow /\ t.attempt = last /\ t.erased /\ t.status = st
        <4>1. st \in TaskStatus
          BY <3>2 DEF TaskStatus
        <4>2. t \in TaskRow /\ t.attempt = t2.attempt /\ t.erased = t2.erased /\ t.status = st
          BY ONLY <3>4, <3>5, <4>1 DEF TaskRow
        <4> QED
          BY ONLY <1>2, <3>4, <4>2
      <3> QED
        BY <2>2, <3>2, <3>6
    <2> QED
      BY <2>1, <2>2
  <1>4. task' = [task EXCEPT ![s] = t] /\ task'[s] = t /\ source'[s] = "gone" /\ candidates'[s] = {}
    BY <1>1 DEF ExtractionInv, StoreTyped
  <1>5. StoreTyped' /\ OnlyAt(s)
    BY <1>1 DEF EraseSignal, StoreTyped, ExtractionInv, OnlyAt
  <1>6. ASSUME NEW all PROVE StoreFits(source'[s], t, all, candidates'[s])
    BY <1>3, <1>4 DEF StoreFits
  <1>7. ASSUME NEW j \in JobRow, JobFits(source[s], task[s], attempts[s], j)
        PROVE  JobFits(source'[s], task'[s], attempts'[s], j)
    BY <1>4, <1>7 DEF JobFits
  <1>8. CASE task[s].status # "running"
    <2>1. attempts' = attempts
      BY <1>8 DEF EraseSignal, ExtractionInv, StoreTyped
    <2>2. TaskFits(t, rows)
      BY <1>2, <1>3, <1>8 DEF FitsNow, TaskFits, Final
    <2>3. FitsNow(s)'
      BY <1>1, <1>2, <1>4, <1>6, <2>1, <2>2 DEF FitsNow
    <2> QED
      <3>1. Moved(Workers)
        BY <1>1, <1>5, <1>7, <2>1, <2>3, TaskMoves
      <3>2. JobsStand(Sources)
        BY <3>1 DEF Moved
      <3> HIDE DEF Moved
      <3>3. JobTyped' /\ OutboxTyped' /\ faults' \in 0 .. MaxFaults
            /\ \A x \in Sources : outbox'[x] \in {"pending", "published", "failed"}
        BY <1>1, NoFault DEF ExtractionInv, RestTyped, JobsInv, JobTyped, OutboxTyped
      <3>4. \A x \in Sources : JobFits(source'[x], task'[x], attempts'[x], job'[x])
        BY <1>1, <3>2 DEF ExtractionInv, JobsInv, JobsStand, JobFits
      <3> QED
        BY <1>1, <3>1, <3>3, <3>4, WorkersRest DEF OutboxTyped, JobsInv
  <1>9. CASE task[s].status = "running"
    <2> PICK old : old = rows[last]
      OBVIOUS
    <2> PICK end : end = IF MayBeCharged(old) THEN "uncertain" ELSE "cancelled"
      OBVIOUS
    <2> PICK r : r = EndAttempt(old, end)
      OBVIOUS
    <2>1. last # 0 /\ last \in 1 .. last /\ old \in AttemptRow /\ Last(s) = old
      BY <1>2, <1>9 DEF FitsNow, TaskFits, Last
    <2>2. old.status = "running" /\ RowFits(old) /\ ChargeFits(old, bill[s][last])
      BY <1>2, <1>9, <2>1, ExtractionAssumption DEF FitsNow, TaskFits, BillFits
    <2>3. old.resolved = None
      BY <2>2 DEF RowFits
    <2>4. end \in Final /\ end \in {"uncertain", "cancelled"}
      BY DEF Final
    <2>5. /\ r \in AttemptRow /\ r.status = end /\ r.resolved = None /\ r.cost = old.cost
          /\ r.effect = IF end = "uncertain" /\ old.effect = "reserved" THEN "uncertain"
                        ELSE old.effect
      BY <2>1, <2>3, <2>4, EndedRow
    <2>6. Counted(r) = Counted(old) /\ ChargeFits(r, bill[s][last])
      BY <2>1, <2>2, <2>4, EndedRowFits
    <2>7. MayMove(s, t, r)
      BY <1>3, <1>9, <2>1, <2>4, <2>5, <2>6 DEF MayMove, MayBecome, RowFits
    <2>8. attempts' = [attempts EXCEPT ![s] = [rows EXCEPT ![last] = r]]
      BY <1>2, <1>9, <2>1 DEF EraseSignal, EndLast
    <2>9. LastBecomes(s, t, r)
      BY <1>1, <1>4, <2>8 DEF LastBecomes
    <2>10. Drifts(old, r)
      BY <2>3, <2>5 DEF Drifts
    <2>11. Counted(r) <= Counted(old)
      BY <2>1, <2>6, CountedIsNat
    <2>12. StoreFits(source'[s], t, attempts'[s], candidates'[s])
      BY <1>6
    <2>13. Moved(Workers)
      BY <1>5, <1>7, <2>3, <2>7, <2>9, <2>10, <2>11, <2>12, LastMoved
    <2>14. JobsStand(Sources)
      BY <2>13 DEF Moved
    <2>15. JobTyped' /\ OutboxTyped' /\ faults' \in 0 .. MaxFaults
           /\ \A x \in Sources : outbox'[x] \in {"pending", "published", "failed"}
      BY <1>1, NoFault DEF ExtractionInv, RestTyped, JobsInv, JobTyped, OutboxTyped
    <2>16. \A x \in Sources : JobFits(source'[x], task'[x], attempts'[x], job'[x])
      BY <1>1, <2>14 DEF ExtractionInv, JobsInv, JobsStand, JobFits
    <2> QED
      BY <1>1, <2>13, <2>15, <2>16, WorkersRest DEF OutboxTyped, JobsInv
  <1> QED
    BY <1>8, <1>9

\* A delivery that finds nothing to do ends, and is called done only where the
\* source is gone or its task is over.
LEMMA Acknowledges ==
    ASSUME ExtractionInv, NEW s \in Sources, Moved(Workers),
           job' = [job EXCEPT ![s] = Ended(job[s], Acknowledged(s))],
           UNCHANGED <<outbox, worker, faults>>,
           (source'[s] = "live" /\ Acknowledged(s) = "done") => task'[s].status \in Final
    PROVE  ExtractionInv'
  <1> PICK j : j = Ended(job[s], Acknowledged(s))
    OBVIOUS
  <1>1. job[s] \in JobRow /\ Acknowledged(s) \in {"done", "busy"}
    BY DEF ExtractionInv, JobsInv, JobFits, Acknowledged
  <1>2. /\ j \in JobRow /\ j.state # "active" /\ j.holder = None
        /\ j.state = "done" => Acknowledged(s) = "done"
    BY <1>1, EndedJob
  <1>3. JobFits(source'[s], task'[s], attempts'[s], j)
    BY <1>2 DEF JobFits
  <1>4. JobsStand(Sources \ {s})
    BY DEF Moved, JobsStand
  <1>5. JobsInv' /\ JobTyped'
    BY <1>3, <1>4, JobMoves
  <1>6. OutboxTyped' /\ faults' \in 0 .. MaxFaults
    BY OutboxSame, NoFault
  <1> QED
    BY <1>5, <1>6, WorkersRest DEF OutboxTyped

\* What a claim makes of an attempt whose lease expired: the attempt ends and its
\* task moves on.
LEMMA ExpiryMoves ==
    ASSUME ExtractionInv, NEW s \in Sources, Expired(s), NEW t,
           t \in TaskRow, t.attempt = Len(attempts[s]), t.status \in {"uncertain", "failed"},
           NEW end \in {"uncertain", "failed"}, t.status = end, source[s] # "gone",
           task' = [task EXCEPT ![s] = t],
           attempts' = [attempts EXCEPT ![s] = EndLast(s, end)],
           UNCHANGED <<source, candidates, bill>>
    PROVE  Moved(Workers)
  <1> PICK rows, last, old : rows = attempts[s] /\ last = Len(rows) /\ old = rows[last]
    OBVIOUS
  <1> PICK r : r = EndAttempt(old, end)
    OBVIOUS
  <1>1. /\ TaskFits(task[s], rows) /\ BillFits(rows, bill[s])
        /\ StoreFits(source[s], task[s], rows, candidates[s])
        /\ rows \in Seq(AttemptRow) /\ last \in Nat /\ last <= MaxAttempts
        /\ task[s].attempt = last /\ task[s].status = "running"
    BY DEF ExtractionInv, StoreInv, TaskFits, Expired
  <1>2. last # 0 /\ last \in 1 .. last /\ old \in AttemptRow /\ Last(s) = old
    BY <1>1 DEF TaskFits, Last
  <1>3. old.status = "running" /\ RowFits(old) /\ ChargeFits(old, bill[s][last])
    BY <1>1, <1>2, ExtractionAssumption DEF TaskFits, BillFits
  <1>4. old.resolved = None
    BY <1>3 DEF RowFits
  <1>5. end \in Final
    BY DEF Final
  <1>6. /\ r \in AttemptRow /\ r.status = end /\ r.resolved = None /\ r.cost = old.cost
        /\ r.effect = IF end = "uncertain" /\ old.effect = "reserved" THEN "uncertain"
                      ELSE old.effect
    BY <1>2, <1>4, <1>5, EndedRow
  <1>7. Counted(r) = Counted(old) /\ ChargeFits(r, bill[s][last])
    BY <1>2, <1>3, <1>5, EndedRowFits
  <1>8. MayMove(s, t, r)
    BY <1>2, <1>6, <1>7 DEF MayMove, MayBecome, RowFits
  <1>9. LastBecomes(s, t, r)
    BY <1>1, <1>2 DEF LastBecomes, EndLast
  <1>10. /\ OnlyAt(s) /\ StoreTyped' /\ task'[s] = t
         /\ attempts'[s] = [rows EXCEPT ![last] = r]
    BY <1>9 DEF LastBecomes, OnlyAt, ExtractionInv, StoreTyped
  <1>11. StoreFits(source[s], t, [rows EXCEPT ![last] = r], candidates[s])
    <2>1. rows[last].effect = "succeeded" => r.effect = "succeeded"
      BY <1>6
    <2>2. source[s] # "gone" /\ last = Len(rows)
      OBVIOUS
    <2> QED
      BY ONLY <1>1, <1>2, <1>6, <2>1, <2>2, LastStore
  <1>12. Drifts(old, r)
    BY <1>4, <1>6 DEF Drifts
  <1>13. Counted(r) <= Counted(old)
    BY <1>2, <1>7, CountedIsNat
  <1>14. ASSUME NEW j \in JobRow, JobFits(source[s], task[s], attempts[s], j)
         PROVE  JobFits(source'[s], task'[s], attempts'[s], j)
    <2>1. task'[s].status \in Final
      BY <1>5, <1>10
    <2> QED
      BY ONLY <1>14, <2>1 DEF JobFits
  <1>15. StoreFits(source'[s], t, attempts'[s], candidates'[s])
    BY <1>10, <1>11
  <1> QED
    BY <1>4, <1>8, <1>9, <1>10, <1>12, <1>13, <1>14, <1>15, LastMoved

\* A task row that ends or starts: its status and its lease change.
LEMMA TaskSet ==
    ASSUME NEW t \in TaskRow, NEW st \in TaskStatus
    PROVE  \E t2 \in TaskRow :
              /\ t2 = [t EXCEPT !.status = st, !.lease = 0]
              /\ t2.status = st /\ t2.attempt = t.attempt /\ t2.erased = t.erased
  <1> PICK t1 : t1 = [t EXCEPT !.status = st]
    OBVIOUS
  <1>1. t1 \in TaskRow /\ t1.status = st /\ t1.attempt = t.attempt /\ t1.erased = t.erased
    BY DEF TaskRow
  <1> PICK t2 : t2 = [t1 EXCEPT !.lease = 0]
    OBVIOUS
  <1>2. t2 \in TaskRow /\ t2.status = st /\ t2.attempt = t.attempt /\ t2.erased = t.erased
    BY <1>1, ReleasedTask
  <1>3. t2 = [t EXCEPT !.status = st, !.lease = 0]
    OBVIOUS
  <1> QED
    BY <1>2, <1>3

\* A claim finds nothing to do, or only an attempt to end.
LEMMA ClaimNothingKeeps ==
    ASSUME ExtractionInv, NEW s \in Sources, ClaimNothing(s)
    PROVE  ExtractionInv'
  <1>1. /\ job' = [job EXCEPT ![s] = Ended(job[s], Acknowledged(s))]
        /\ UNCHANGED <<source, candidates, outbox, worker, bill, faults>>
    BY DEF ClaimNothing
  <1>2. /\ FitsNow(s) /\ task[s] \in TaskRow /\ task[s].attempt = Len(attempts[s])
        /\ source[s] \in {"live", "due", "gone"}
    BY DEF ExtractionInv, StoreInv, FitsNow, TaskFits, StoreFits
  <1>3. ASSUME UNCHANGED <<task, attempts>>,
               Present(s) => Acknowledged(s) = "busy" \/ task[s].status \in Final
        PROVE  ExtractionInv'
    <2>1. Moved(Workers)
      BY <1>1, <1>3, Unmoved
    <2>2. (source'[s] = "live" /\ Acknowledged(s) = "done") => task'[s].status \in Final
      BY <1>1, <1>3 DEF Present
    <2> QED
      BY <1>1, <2>1, <2>2, Acknowledges
  <1>4. CASE ~Present(s) /\ UNCHANGED <<task, attempts>>
    BY <1>3, <1>4
  <1>5. CASE /\ Present(s)
             /\ task[s].status \in Final \/ (task[s].status = "running" /\ ~Expired(s))
             /\ UNCHANGED <<task, attempts>>
    BY <1>3, <1>5 DEF Acknowledged
  <1>6. ASSUME Present(s), ~Claimable(s), task[s].status \in {"absent", "queued"} \/ Expired(s),
               NEW end,
               end = (IF Expired(s) /\ MayBeCharged(Last(s)) THEN "uncertain" ELSE "failed"),
               task' = [task EXCEPT ![s].status = end, ![s].lease = 0],
               attempts' = [attempts EXCEPT ![s] = Abandoned(s, end)]
        PROVE  ExtractionInv'
    <2>1. end \in {"uncertain", "failed"} /\ end \in TaskStatus
      BY <1>6 DEF TaskStatus, Final
    <2>2. PICK t \in TaskRow :
             /\ t = [task[s] EXCEPT !.status = end, !.lease = 0]
             /\ t.status = end /\ t.attempt = task[s].attempt /\ t.erased = task[s].erased
      BY ONLY <1>2, <2>1, TaskSet
    <2>3. task' = [task EXCEPT ![s] = t]
      BY <1>6, <2>2
    <2>4. Moved(Workers)
      <3>1. CASE Expired(s)
        <4>1. attempts' = [attempts EXCEPT ![s] = EndLast(s, end)] /\ source[s] # "gone"
          BY <1>6, <3>1 DEF Abandoned, Present
        <4> QED
          BY <1>1, <1>2, <2>1, <2>2, <2>3, <3>1, <4>1, ExpiryMoves
      <3>2. CASE ~Expired(s)
        <4>1. end = "failed" /\ attempts' = attempts /\ task[s].status \in {"absent", "queued"}
          BY <1>6, <3>2 DEF Abandoned, ExtractionInv, StoreTyped
        <4>2. ~ (task[s].attempt < MaxAttempts)
          BY <1>6, <4>1 DEF Claimable
        <4>3. task[s].status = "queued"
          <5>1. Len(attempts[s]) # 0
            BY <1>2, <4>2, ExtractionAssumption
          <5> QED
            BY <1>2, <4>1, <5>1 DEF FitsNow, TaskFits
        <4>4. TaskFits(t, attempts[s])
          BY <1>2, <2>2, <4>1, <4>3 DEF FitsNow, TaskFits
        <4>5. StoreTyped' /\ OnlyAt(s) /\ task'[s] = t
          BY <1>1, <2>3, <4>1 DEF StoreTyped, ExtractionInv, OnlyAt
        <4>6. StoreFits(source[s], t, attempts[s], candidates[s])
          BY <1>2, <1>6 DEF StoreFits, FitsNow, Present
        <4>7. FitsNow(s)'
          BY <1>1, <1>2, <4>1, <4>4, <4>5, <4>6 DEF FitsNow
        <4>8. ASSUME NEW j \in JobRow, JobFits(source[s], task[s], attempts[s], j)
              PROVE  JobFits(source'[s], task'[s], attempts'[s], j)
          BY <2>2, <4>1, <4>5, <4>8 DEF JobFits, Final
        <4> QED
          BY <1>1, <4>1, <4>5, <4>7, <4>8, TaskMoves
      <3> QED
        BY <3>1, <3>2
    <2>5. task'[s].status \in Final
      BY <2>1, <2>2, <2>3 DEF ExtractionInv, StoreTyped, Final
    <2> QED
      BY <1>1, <2>4, <2>5, Acknowledges
  <1> QED
    BY <1>4, <1>5, <1>6 DEF ClaimNothing

\* A claim counts for nothing, so the limits hold on.
LEMMA ClaimLimits ==
    ASSUME ExtractionInv, StoreInv', NEW s \in Sources,
           \A x \in Sources : x # s => attempts'[x] = attempts[x],
           NEW rows \in Seq(AttemptRow), Len(rows) = Len(attempts[s]),
           \A n \in 1 .. Len(rows) :
              /\ Counted(rows[n]) = Counted(attempts[s][n])
              /\ rows[n].resolved = attempts[s][n].resolved
              /\ rows[n].cost = attempts[s][n].cost,
           attempts'[s] = Append(rows, NewAttempt)
    PROVE  LimitsInv'
  <1>1. attempts[s] \in Seq(AttemptRow)
    BY DEF ExtractionInv, StoreInv, TaskFits
  <1>2. \A n \in 1 .. Len(rows) : Counted(rows[n]) <= Counted(attempts[s][n])
    <2>1. \A n \in 1 .. Len(rows) : Counted(attempts[s][n]) \in Nat
      BY <1>1, CountedIsNat
    <2> QED
      BY <2>1
  <1>3. RowsTotal(rows) <= RowsTotal(attempts[s])
    BY <1>1, <1>2, RowsTotalFalls
  <1>4. RowsTotal(attempts'[s]) <= RowsTotal(attempts[s])
    BY <1>3, RowsTotalAppended
  <1>5. NewAttempt \in AttemptRow
    BY DEF NewAttempt, AttemptRow
  <1>6. /\ Len(attempts'[s]) = Len(rows) + 1 /\ Len(rows) \in Nat
        /\ \A n \in 1 .. Len(rows) : attempts'[s][n] = rows[n]
    BY <1>5, RowAdded
  <1>7. ASSUME EvidenceWithinReservation' PROVE EvidenceWithinReservation
    <2> SUFFICES ASSUME NEW x \in Sources, NEW n \in 1 .. Len(attempts[x]),
                        attempts[x][n].resolved # None
                 PROVE  attempts[x][n].cost <= Reservation
      BY DEF EvidenceWithinReservation
    <2>1. CASE x # s
      BY <1>7, <2>1 DEF EvidenceWithinReservation
    <2>2. CASE x = s
      <3>1. n \in 1 .. Len(rows) /\ n \in 1 .. Len(attempts'[s]) /\ attempts'[s][n] = rows[n]
        BY <1>6, <2>2
      <3>2. rows[n].resolved # None
        BY <2>2, <3>1
      <3>3. rows[n].cost <= Reservation
        BY <1>7, <3>1, <3>2 DEF EvidenceWithinReservation
      <3> QED
        BY <2>2, <3>1, <3>3
    <2> QED
      BY <2>1, <2>2
  <1> QED
    BY <1>4, <1>7, TotalsFall DEF ExtractionInv

\* The attempts a claim leaves behind: none runs, and none may have been charged.
LEMMA AbandonedRows ==
    ASSUME ExtractionInv, NEW s \in Sources, Claimable(s)
    PROVE  \E rows \in Seq(AttemptRow) :
              /\ rows = Abandoned(s, "failed")
              /\ Len(rows) = Len(attempts[s])
              /\ BillFits(rows, bill[s])
              /\ \A n \in 1 .. Len(rows) :
                    /\ RowFits(rows[n]) /\ rows[n].status # "running" /\ ~MayBeCharged(rows[n])
                    /\ Counted(rows[n]) = Counted(attempts[s][n])
                    /\ rows[n].effect = attempts[s][n].effect
                    /\ rows[n].resolved = attempts[s][n].resolved
                    /\ rows[n].cost = attempts[s][n].cost
  <1> PICK rows, last : rows = attempts[s] /\ last = Len(rows)
    OBVIOUS
  <1>1. /\ TaskFits(task[s], rows) /\ BillFits(rows, bill[s])
        /\ rows \in Seq(AttemptRow) /\ last \in Nat /\ last <= MaxAttempts
        /\ task[s].attempt = last
    BY DEF ExtractionInv, StoreInv, TaskFits
  <1>2. CASE ~Expired(s)
    <2>1. task[s].status \in {"absent", "queued"} /\ Abandoned(s, "failed") = rows
      BY <1>2 DEF Claimable, Abandoned
    <2>2. ASSUME NEW n \in 1 .. Len(rows)
          PROVE  RowFits(rows[n]) /\ rows[n].status # "running" /\ ~MayBeCharged(rows[n])
      BY <1>1, <2>1 DEF TaskFits
    <2> QED
      BY <1>1, <2>1, <2>2
  <1>3. CASE Expired(s)
    <2> PICK old : old = rows[last]
      OBVIOUS
    <2> PICK r : r = EndAttempt(old, "failed")
      OBVIOUS
    <2> PICK new : new = [rows EXCEPT ![last] = r]
      OBVIOUS
    <2>1. task[s].status = "running" /\ last # 0 /\ last \in 1 .. last
      BY <1>1, <1>3 DEF Expired, TaskFits
    <2>2. old \in AttemptRow /\ Last(s) = old /\ ~MayBeCharged(old)
      BY <1>1, <1>3, <2>1 DEF Last, Claimable, Expired
    <2>3. ChargeFits(old, bill[s][last]) /\ RowFits(old) /\ old.status = "running"
      BY <1>1, <2>1, ExtractionAssumption DEF TaskFits, BillFits
    <2>4. "failed" \in Final
      BY DEF Final
    <2>5. /\ r \in AttemptRow /\ r.status = "failed" /\ r.effect = old.effect
          /\ r.cost = old.cost /\ r.resolved = old.resolved
      BY <2>2, <2>4, EndedRow
    <2>6. /\ Counted(r) = Counted(old) /\ ChargeFits(r, bill[s][last]) /\ ~MayBeCharged(r)
      BY <2>2, <2>3, <2>4, EndedRowFits
    <2>7. /\ new \in Seq(AttemptRow) /\ Len(new) = Len(rows)
          /\ \A m \in 1 .. Len(rows) : new[m] = IF m = last THEN r ELSE rows[m]
      BY ONLY <1>1, <2>1, <2>5, new = [rows EXCEPT ![last] = r], last = Len(rows), RowReplaced
    <2>8. BillFits(new, bill[s])
      BY ONLY <1>1, <2>1, <2>5, <2>6, new = [rows EXCEPT ![last] = r], last = Len(rows), LastBill
    <2>9. new = Abandoned(s, "failed")
      BY <1>1, <1>3, <2>2 DEF Abandoned, EndLast
    <2>10. RowFits(r)
      BY <2>3, <2>5 DEF RowFits
    <2>11. ASSUME NEW n \in 1 .. Len(new)
           PROVE  /\ RowFits(new[n]) /\ new[n].status # "running" /\ ~MayBeCharged(new[n])
                  /\ Counted(new[n]) = Counted(rows[n]) /\ new[n].effect = rows[n].effect
                  /\ new[n].resolved = rows[n].resolved /\ new[n].cost = rows[n].cost
      <3>1. CASE n = last
        BY <2>5, <2>6, <2>7, <2>10, <3>1
      <3>2. CASE n # last
        <4>1. new[n] = rows[n] /\ n \in 1 .. Len(rows) /\ n < Len(rows)
          BY <1>1, <2>7, <3>2
        <4>2. RowFits(rows[n]) /\ rows[n].status # "running" /\ ~MayBeCharged(rows[n])
          BY <1>1, <4>1 DEF TaskFits
        <4> QED
          BY <4>1, <4>2
      <3> QED
        BY <3>1, <3>2
    <2> QED
      BY <2>7, <2>8, <2>9, <2>11
  <1> QED
    BY <1>2, <1>3

\* A claim opens an attempt behind the ones there were.
LEMMA ClaimMoves ==
    ASSUME ExtractionInv, NEW s \in Sources, Present(s), Claimable(s),
           NEW last, last = Len(attempts[s]),
           NEW t \in TaskRow, t.status = "running", t.attempt = last + 1,
           task' = [task EXCEPT ![s] = t],
           attempts' = [attempts EXCEPT ![s] = Append(Abandoned(s, "failed"), NewAttempt)],
           UNCHANGED <<source, candidates, bill>>
    PROVE  /\ StoreTyped' /\ StoreInv' /\ LimitsInv' /\ StandAfter(Workers) /\ OnlyAt(s)
           /\ last \in Nat /\ last + 1 \in 1 .. Len(attempts'[s])
           /\ attempts'[s][last + 1] = NewAttempt /\ bill'[s][last + 1] = None
  <1>1. /\ FitsNow(s) /\ task[s].attempt = last /\ last \in Nat
        /\ attempts[s] \in Seq(AttemptRow) /\ source[s] = "live"
    BY DEF ExtractionInv, StoreInv, FitsNow, TaskFits, Present
  <1>2. last < MaxAttempts
    BY <1>1 DEF Claimable
  <1>3. PICK rows \in Seq(AttemptRow) :
              /\ rows = Abandoned(s, "failed")
              /\ Len(rows) = Len(attempts[s])
              /\ BillFits(rows, bill[s])
              /\ \A n \in 1 .. Len(rows) :
                    /\ RowFits(rows[n]) /\ rows[n].status # "running" /\ ~MayBeCharged(rows[n])
                    /\ Counted(rows[n]) = Counted(attempts[s][n])
                    /\ rows[n].effect = attempts[s][n].effect
                    /\ rows[n].resolved = attempts[s][n].resolved
                    /\ rows[n].cost = attempts[s][n].cost
    BY AbandonedRows
  <1> PICK new : new = Append(rows, NewAttempt)
    OBVIOUS
  <1>4. attempts' = [attempts EXCEPT ![s] = new]
    BY <1>3
  <1>5. NewAttempt \in AttemptRow
    BY DEF NewAttempt, AttemptRow
  <1>6. /\ new \in Seq(AttemptRow) /\ Len(new) = last + 1 /\ new[last + 1] = NewAttempt
        /\ \A m \in 1 .. last : new[m] = rows[m]
    BY ONLY <1>3, <1>5, new = Append(rows, NewAttempt), last = Len(attempts[s]), RowAdded
  <1>7. /\ StoreTyped' /\ OnlyAt(s) /\ task'[s] = t /\ attempts'[s] = new
        /\ \A x \in Sources : x # s => attempts'[x] = attempts[x]
    BY <1>4 DEF StoreTyped, OnlyAt, ExtractionInv
  <1>8. /\ RowFits(NewAttempt) /\ NewAttempt.status = "running" /\ ~MayBeCharged(NewAttempt)
        /\ ChargeFits(NewAttempt, None)
    BY DEF NewAttempt, RowFits, MayBeCharged, ChargeFits
  <1>9. TaskFits(t, new)
    <2>1. ASSUME NEW n \in 1 .. Len(new)
          PROVE  /\ RowFits(new[n])
                 /\ (new[n].status = "running") <=> (t.status = "running" /\ n = Len(new))
                 /\ (n < Len(new) \/ t.status = "queued") => ~MayBeCharged(new[n])
      <3>1. CASE n = last + 1
        BY <1>6, <1>8, <3>1
      <3>2. CASE n # last + 1
        <4>1. n \in 1 .. last /\ n \in 1 .. Len(rows) /\ n # Len(new)
          BY <1>1, <1>3, <1>6, <3>2
        <4> QED
          BY <1>3, <1>6, <4>1
      <3> QED
        BY <3>1, <3>2
    <2>2. last + 1 <= MaxAttempts /\ last + 1 # 0
      BY <1>1, <1>2, ExtractionAssumption
    <2> QED
      BY <1>6, <2>1, <2>2 DEF TaskFits
  <1>10. bill[s][last + 1] = None
    BY <1>1, <1>2, ExtractionAssumption DEF FitsNow, BillFits
  <1>11. BillFits(new, bill[s])
    <2>1. ASSUME NEW n \in 1 .. MaxAttempts
          PROVE  IF n <= Len(new) THEN ChargeFits(new[n], bill[s][n]) ELSE bill[s][n] = None
      <3>1. CASE n = last + 1
        BY <1>1, <1>6, <1>8, <1>10, <3>1
      <3>2. CASE n # last + 1
        <4>1. (n <= Len(new)) <=> (n <= Len(rows))
          BY <1>1, <1>3, <1>6, <3>2, ExtractionAssumption
        <4>2. n <= Len(rows) => new[n] = rows[n]
          BY <1>1, <1>3, <1>6, ExtractionAssumption
        <4> QED
          BY <1>3, <4>1, <4>2 DEF BillFits
      <3> QED
        BY <3>1, <3>2
    <2> QED
      BY <1>3, <2>1 DEF BillFits
  <1>12. candidates[s] = {}
    <2> SUFFICES ASSUME NEW c \in candidates[s] PROVE FALSE
      OBVIOUS
    <2>1. last > 0 /\ attempts[s][last].effect = "succeeded"
      BY <1>1 DEF FitsNow, StoreFits
    <2>2. last \in 1 .. Len(rows)
      BY <1>1, <1>3, <2>1
    <2>3. ~MayBeCharged(rows[last]) /\ rows[last].effect = "succeeded"
      BY <1>3, <2>1, <2>2
    <2> QED
      BY <2>3 DEF MayBeCharged
  <1>13. StoreFits(source[s], t, new, candidates[s])
    BY <1>1, <1>12 DEF StoreFits
  <1>14. FitsNow(s)'
    BY <1>7, <1>9, <1>11, <1>13 DEF FitsNow
  <1>15. StoreInv'
    BY <1>7, <1>14, StoreMoves DEF ExtractionInv
  <1>16. LimitsInv'
    <2>1. \A n \in 1 .. Len(rows) :
              /\ Counted(rows[n]) = Counted(attempts[s][n])
              /\ rows[n].resolved = attempts[s][n].resolved
              /\ rows[n].cost = attempts[s][n].cost
      BY <1>3
    <2>2. attempts'[s] = Append(rows, NewAttempt)
      BY <1>7
    <2> QED
      BY <1>3, <1>7, <1>15, <2>1, <2>2, ClaimLimits
  <1>17. Grows(attempts[s], attempts'[s], {})
    <2>1. ASSUME NEW n \in 1 .. Len(attempts[s]) PROVE Drifts(attempts[s][n], attempts'[s][n])
      <3>1. n \in 1 .. Len(rows) /\ attempts'[s][n] = rows[n]
        BY <1>3, <1>6, <1>7
      <3> QED
        BY <1>3, <3>1 DEF Drifts
    <2> QED
      BY <1>1, <1>6, <1>7, <2>1 DEF Grows
  <1>18. StandAfter(Workers)
    <2>1. StandAt(Workers)
      BY DEF ExtractionInv, WorkerInv, StandAt
    <2>2. Elsewhere(Workers, s, {})
      BY DEF Elsewhere
    <2> QED
      BY <1>7, <1>17, <2>1, <2>2, OthersStay DEF ExtractionInv
  <1>19. last + 1 \in 1 .. Len(attempts'[s])
    BY <1>1, <1>6, <1>7
  <1> QED
    BY <1>1, <1>6, <1>7, <1>10, <1>15, <1>16, <1>18, <1>19

\* A worker claims a source: it is the only one at the attempt it opens.
LEMMA ClaimKeeps ==
    ASSUME ExtractionInv, NEW w \in Workers, NEW s \in Sources, Claim(w, s)
    PROVE  ExtractionInv'
  <1> PICK last : last = Len(attempts[s])
    OBVIOUS
  <1>1. /\ worker[w].stage = "idle" /\ Present(s) /\ Claimable(s)
        /\ UNCHANGED <<source, candidates, outbox, bill, faults>>
    BY DEF Claim
  <1>2. task[s] \in TaskRow /\ task[s].attempt = last /\ last \in Nat
    BY DEF ExtractionInv, StoreInv, TaskFits
  <1> PICK t1 : t1 = [task[s] EXCEPT !.status = "running"]
    OBVIOUS
  <1> PICK t2 : t2 = [t1 EXCEPT !.attempt = last + 1]
    OBVIOUS
  <1> PICK t : t = [t2 EXCEPT !.lease = LeaseDuration]
    OBVIOUS
  <1>3. t1 \in TaskRow /\ t1.status = "running"
    BY <1>2 DEF TaskRow, TaskStatus
  <1> PICK n : n = last + 1
    OBVIOUS
  <1>a. n \in Nat /\ LeaseDuration \in 0 .. LeaseDuration
    BY <1>2, ExtractionAssumption
  <1>4. t2 \in TaskRow /\ t2.status = "running" /\ t2.attempt = n
    BY ONLY <1>3, <1>a, t2 = [t1 EXCEPT !.attempt = last + 1], n = last + 1 DEF TaskRow
  <1>5. t \in TaskRow /\ t.status = "running" /\ t.attempt = last + 1
    BY ONLY <1>4, <1>a, t = [t2 EXCEPT !.lease = LeaseDuration], n = last + 1 DEF TaskRow
  <1>6. task' = [task EXCEPT ![s] = t]
    BY <1>2 DEF Claim, ExtractionInv, StoreTyped
  <1>7. attempts' = [attempts EXCEPT ![s] = Append(Abandoned(s, "failed"), NewAttempt)]
    BY DEF Claim
  <1>8. /\ StoreTyped' /\ StoreInv' /\ LimitsInv' /\ StandAfter(Workers) /\ OnlyAt(s)
        /\ last + 1 \in 1 .. Len(attempts'[s])
        /\ attempts'[s][last + 1] = NewAttempt /\ bill'[s][last + 1] = None
    BY <1>1, <1>5, <1>6, <1>7, ClaimMoves
  <1> PICK k1 : k1 = [Idle EXCEPT !.stage = "load"]
    OBVIOUS
  <1> PICK k2 : k2 = [k1 EXCEPT !.source = s]
    OBVIOUS
  <1> PICK k : k = [k2 EXCEPT !.attempt = last + 1]
    OBVIOUS
  <1>9. k1 \in WorkerRow /\ k1.stage = "load"
    BY IdleStands DEF WorkerRow, Stages
  <1>10. k2 \in WorkerRow /\ k2.stage = "load" /\ k2.source = s
    BY <1>9 DEF WorkerRow
  <1>11. k \in WorkerRow /\ k.stage = "load" /\ k.source = s /\ k.attempt = last + 1
    BY ONLY <1>10, <1>a, k = [k2 EXCEPT !.attempt = last + 1], n = last + 1 DEF WorkerRow
  <1>12. worker' = [worker EXCEPT ![w] = k]
    BY <1>2 DEF Claim
  <1>13. worker'[w] = k /\ (\A v \in Workers : v # w => worker'[v] = worker[v])
         /\ worker' = [v \in Workers |-> worker'[v]]
    BY <1>12 DEF ExtractionInv, RestTyped
  <1>14. WorkerAt(k, attempts', bill')
    <2>1. WorkerFits(k, NewAttempt, None)
      BY <1>11 DEF WorkerFits, NewAttempt
    <2> QED
      BY <1>8, <1>11, <2>1 DEF WorkerAt
  <1>15. WorkerInv'
    BY <1>8, <1>13, <1>14 DEF WorkerInv, StandAfter
  <1>16. ASSUME NEW v \in Workers, v # w, worker[v].stage # "idle", worker[v].source = s
         PROVE  worker[v].attempt # last + 1
    <2>1. worker[v].attempt \in 1 .. last
      BY <1>16, WorkerIsTyped
    <2> QED
      BY <1>2, <2>1
  <1>17. OwnersInv'
    <2> SUFFICES ASSUME NEW v \in Workers, NEW x \in Workers, v # x,
                        worker'[v].stage # "idle", worker'[x].stage # "idle",
                        worker'[v].source = worker'[x].source
                 PROVE  worker'[v].attempt # worker'[x].attempt
      BY DEF OwnersInv
    <2>1. CASE v = w
      <3>1. worker[x].stage # "idle" /\ worker[x].source = s /\ worker'[x] = worker[x]
        BY <1>11, <1>13, <2>1
      <3>2. x # w
        BY <2>1
      <3>3. worker[x].attempt # last + 1
        BY <1>16, <3>1, <3>2
      <3>4. worker'[v].attempt = last + 1
        BY <1>11, <1>13, <2>1
      <3> QED
        BY <3>1, <3>3, <3>4
    <2>2. CASE x = w
      <3>1. worker[v].stage # "idle" /\ worker[v].source = s /\ worker'[v] = worker[v]
        BY <1>11, <1>13, <2>2
      <3>2. v # w
        BY <2>2
      <3>3. worker[v].attempt # last + 1
        BY <1>16, <3>1, <3>2
      <3>4. worker'[x].attempt = last + 1
        BY <1>11, <1>13, <2>2
      <3> QED
        BY <3>1, <3>3, <3>4
    <2>3. CASE v # w /\ x # w
      BY <1>13, <2>3 DEF ExtractionInv, OwnersInv
    <2> QED
      BY <2>1, <2>2, <2>3
  <1> PICK j1 : j1 = [job[s] EXCEPT !.state = "active"]
    OBVIOUS
  <1> PICK j : j = [j1 EXCEPT !.holder = w]
    OBVIOUS
  <1>18. job[s] \in JobRow
    BY DEF ExtractionInv, JobsInv, JobFits
  <1>19. j1 \in JobRow /\ j1.state = "active"
    BY <1>18 DEF JobRow, JobState
  <1>20. j \in JobRow /\ j.state = "active" /\ j.holder = w
    BY <1>19 DEF JobRow
  <1>21. job' = [job EXCEPT ![s] = j]
    BY DEF Claim, ExtractionInv, RestTyped
  <1>22. JobFits(source'[s], task'[s], attempts'[s], j)
    BY <1>20, ExtractionAssumption DEF JobFits
  <1>23. JobsStand(Sources \ {s})
    BY <1>8 DEF JobsStand, OnlyAt
  <1>24. JobsInv' /\ JobTyped'
    BY <1>1, <1>21, <1>22, <1>23, JobMoves
  <1>25. RestTyped'
    BY <1>1, <1>13, <1>24 DEF ExtractionInv, RestTyped, JobTyped
  <1> QED
    BY <1>8, <1>15, <1>17, <1>24, <1>25 DEF ExtractionInv

-----------------------------------------------------------------------------
(* The invariant.                                                           *)

\* Nothing counts for nothing.
LEMMA SumOfZeros ==
    ASSUME NEW f, NEW S, IsFiniteSet(S), \A x \in S : f[x] = 0
    PROVE  SumFunctionOnSet(f, S) = 0
  <1> DEFINE Wrong == {T \in SUBSET S : SumFunctionOnSet(f, T) # 0}
  <1> SUFFICES ASSUME Wrong # {}
               PROVE  FALSE
    OBVIOUS
  <1>1. PICK T \in Wrong : \A V \in Wrong : V \subseteq T => V = T
    <2>1. Wrong \in SUBSET (SUBSET S)
      OBVIOUS
    <2> HIDE DEF Wrong
    <2> QED
      BY <2>1, MinimalSet
  <1>2. T \in SUBSET S /\ IsFiniteSet(T)
    BY FS_Subset
  <1>3. T # {} => SumFunctionOnSet(f, T \ {First(T)}) = 0
    BY <1>1, FirstIsIn
  <1> QED
    BY <1>2, <1>3, SumUnfolds, FirstIsIn

\* Before anything happened no attempt counts for anything.
LEMMA NothingCounted ==
    ASSUME attempts = [s \in Sources |-> <<>>]
    PROVE  LimitsInv
  <1>1. RowsTotal(<<>>) = 0
    <2> DEFINE f == [n \in 1 .. Len(<<>>) |-> Counted(<<>>[n])]
    <2>1. <<>> \in Seq(AttemptRow) /\ 1 .. Len(<<>>) = {}
      OBVIOUS
    <2>2. RowsTotal(<<>>) = SumFunctionOnSet(f, 1 .. Len(<<>>)) /\ IsFiniteSet(1 .. Len(<<>>))
      BY <2>1, RowsTotalIs
    <2> HIDE DEF f
    <2> QED
      BY <2>1, <2>2, SumUnfolds
  <1> DEFINE g == [x \in Sources |-> RowsTotal(attempts[x])]
  <1>2. \A x \in Sources : RowsTotal(attempts[x]) = 0
    BY <1>1
  <1>3. DayOf(attempts) = SumFunctionOnSet(g, Sources)
    BY DEF DayOf, SumFunction
  <1>4. IsFiniteSet(Sources)
    BY ExtractionAssumption DEF Sources
  <1>5. \A x \in Sources : g[x] = 0
    BY <1>2
  <1> HIDE DEF g
  <1>6. DayOf(attempts) = 0
    BY <1>3, <1>4, <1>5, SumOfZeros
  <1> QED
    BY <1>2, <1>6, TotalsOfRows, BudgetAssumption DEF LimitsInv

\* The invariant holds before anything is published.
LEMMA InitialInv ==
    Init => ExtractionInv
  <1> SUFFICES ASSUME Init
               PROVE  ExtractionInv
    OBVIOUS
  <1>1. StoreTyped /\ RestTyped
    BY ExtractionAssumption DEF Init, StoreTyped, RestTyped
  <1>2. ASSUME NEW s \in Sources
        PROVE  /\ task[s] = NewTask /\ attempts[s] = <<>> /\ candidates[s] = {}
               /\ source[s] = "live" /\ outbox[s] = "pending" /\ job[s] = NewJob
               /\ bill[s] = [n \in 1 .. MaxAttempts |-> None]
    BY DEF Init
  <1>3. NewTask \in TaskRow /\ NewJob \in JobRow
    <2>1. 0 \in 0 .. LeaseDuration
      BY ExtractionAssumption
    <2> QED
      BY <2>1 DEF NewTask, TaskRow, TaskStatus, NewJob, JobRow, JobState
  <1>4. <<>> \in Seq(AttemptRow) /\ Len(<<>>) = 0
    OBVIOUS
  <1>5. StoreInv
    <2> SUFFICES ASSUME NEW s \in Sources
                 PROVE  FitsNow(s)
      BY DEF StoreInv, FitsNow
    <2>1. TaskFits(NewTask, <<>>)
      BY <1>3, <1>4, ExtractionAssumption DEF TaskFits, NewTask
    <2>2. BillFits(<<>>, [n \in 1 .. MaxAttempts |-> None])
      BY <1>4, ExtractionAssumption DEF BillFits
    <2>3. StoreFits("live", NewTask, <<>>, {})
      BY DEF StoreFits
    <2> QED
      BY <1>2, <2>1, <2>2, <2>3 DEF FitsNow
  <1>6. JobsInv
    BY <1>2, <1>3 DEF JobsInv, JobFits, NewJob
  <1>7. \A w \in Workers : worker[w] = Idle
    BY DEF Init
  <1>8. WorkerInv /\ OwnersInv
    <2>1. Idle.stage = "idle"
      BY DEF Idle
    <2>2. WorkerInv
      BY <1>7, IdleStands DEF WorkerInv
    <2> QED
      BY ONLY <1>7, <2>1, <2>2 DEF OwnersInv
  <1>9. LimitsInv
    BY NothingCounted DEF Init
  <1> QED
    BY <1>1, <1>5, <1>6, <1>8, <1>9 DEF ExtractionInv

\* Every step keeps it.
LEMMA StepKeepsInv ==
    ExtractionInv /\ [Next]_vars => ExtractionInv'
  <1> SUFFICES ASSUME ExtractionInv, [Next]_vars
               PROVE  ExtractionInv'
    OBVIOUS
  <1>1. ASSUME NEW s \in Sources, QueueStep(s)
        PROVE  ExtractionInv'
    BY <1>1, PublishKeeps, PublishFailsKeeps, StallKeeps, RedeliverKeeps, ClaimNothingKeeps,
       ClaimThrowsKeeps DEF QueueStep
  <1>2. ASSUME NEW s \in Sources, SourceStep(s)
        PROVE  ExtractionInv'
    BY <1>2, TickKeeps, FallDueKeeps, EraseKeeps, LookupKeeps, ReconcileKeeps DEF SourceStep
  <1>3. ASSUME NEW w \in Workers, WorkerStep(w)
        PROVE  ExtractionInv'
    BY <1>3, LoadKeeps, ReserveKeeps, AskKeeps, FinishKeeps, SubmitKeeps, CompleteKeeps,
       FailKeeps, CatchKeeps DEF WorkerStep
  <1>4. CASE UNCHANGED vars
    <2>1. Moved(Workers) /\ JobsInv' /\ JobTyped' /\ OutboxTyped' /\ faults' \in 0 .. MaxFaults
      BY <1>4, Unmoved, JobsSame, OutboxSame, NoFault DEF vars, Moved
    <2> QED
      BY <1>4, <2>1, WorkersRest DEF vars, OutboxTyped
  <1> QED
    BY <1>1, <1>2, <1>3, <1>4, HeartbeatKeeps, CrashKeeps, ClaimKeeps DEF Next

\* Tables, queue and workers fit together in every reachable state, and the budget
\* is kept (memory-extractions.ts, memory-reconciliations.ts, memory-extraction.ts).
THEOREM ExtractionInvariant == Spec => []ExtractionInv
  BY InitialInv, StepKeepsInv, PTL DEF Spec

-----------------------------------------------------------------------------
(* What it says of the properties of the runs.                              *)

\* Tasks, attempts, queue and workers fit together, and a delivery that was called
\* done left nothing to do.
THEOREM ExtractionIsConsistentHolds == Spec => []ExtractionIsConsistent
  <1>1. ExtractionInv => ExtractionIsConsistent
    <2> SUFFICES ASSUME ExtractionInv
                 PROVE  ExtractionTypeOK /\ DoneIsSettled
      BY DEF ExtractionIsConsistent
    <2>1. ASSUME NEW s \in Sources
          PROVE  /\ FitsNow(s) /\ JobFits(source[s], task[s], attempts[s], job[s])
                 /\ outbox[s] \in {"pending", "published", "failed"}
      BY DEF ExtractionInv, StoreInv, JobsInv, FitsNow
    <2>2. source \in [Sources -> {"live", "due", "gone"}]
      BY <2>1 DEF ExtractionInv, StoreTyped, FitsNow, StoreFits
    <2>3. ASSUME NEW s \in Sources
          PROVE  /\ task[s].status = "running" => Last(s).status = "running"
                 /\ task[s].status # "running" =>
                       \A n \in 1 .. Len(attempts[s]) : attempts[s][n].status # "running"
      <3>1. TaskFits(task[s], attempts[s])
        BY <2>1 DEF FitsNow
      <3>2. Len(attempts[s]) \in Nat /\ task[s].attempt = Len(attempts[s])
        BY <3>1 DEF TaskFits
      <3>3. task[s].status = "running" => Len(attempts[s]) \in 1 .. Len(attempts[s])
        BY <3>1, <3>2 DEF TaskFits
      <3> QED
        BY <3>1, <3>2, <3>3 DEF TaskFits, Last
    <2>4. \A w \in Workers : worker[w].stage \in Stages /\ worker[w].left \subseteq Slots
      BY WorkerIsTyped DEF WorkerRow
    <2>5. ExtractionTypeOK
      BY <2>1, <2>2, <2>3, <2>4 DEF ExtractionTypeOK, FitsNow, TaskFits, StoreFits, JobFits,
         ExtractionInv, RestTyped
    <2>6. DoneIsSettled
      BY <2>1 DEF DoneIsSettled, JobFits, FitsNow, TaskFits, Last
    <2> QED
      BY <2>5, <2>6
  <1> QED
    BY <1>1, ExtractionInvariant, PTL

\* ADR 0042: of the calls a source was charged for, all but the last were written
\* off by the owner.
THEOREM BilledOnceHolds == Spec => []BilledOnce
  <1>1. ExtractionInv => BilledOnce
    <2> SUFFICES ASSUME ExtractionInv, NEW s \in Sources
                 PROVE  Cardinality({n \in Billed(s) : ~WrittenOff(attempts[s][n])}) <= 1
      BY DEF BilledOnce
    <2> PICK last, Charged :
           /\ last = Len(attempts[s])
           /\ Charged = {n \in Billed(s) : ~WrittenOff(attempts[s][n])}
      OBVIOUS
    <2>1. /\ TaskFits(task[s], attempts[s]) /\ BillFits(attempts[s], bill[s])
          /\ attempts[s] \in Seq(AttemptRow) /\ last \in Nat /\ last <= MaxAttempts
      BY DEF ExtractionInv, StoreInv, TaskFits
    <2>2. ASSUME NEW n \in Charged, n # last
          PROVE  FALSE
      <3>1. /\ n \in 1 .. last /\ n < last /\ bill[s][n] # None
            /\ attempts[s][n] \in AttemptRow /\ ~WrittenOff(attempts[s][n])
        BY <2>1, <2>2 DEF Billed
      <3>2. ~MayBeCharged(attempts[s][n]) /\ RowFits(attempts[s][n])
        BY <2>1, <3>1 DEF TaskFits
      <3>3. ChargeFits(attempts[s][n], bill[s][n])
        BY <2>1, <3>1, ExtractionAssumption DEF BillFits
      <3>4. attempts[s][n].resolved \in ReconciliationRow
            /\ attempts[s][n].resolved # None
        BY <3>1, <3>2, <3>3 DEF ChargeFits, AttemptRow
      <3> QED
        BY <3>1, <3>2, <3>4 DEF RowFits, WrittenOff, MayBeCharged, ReconciliationRow
    <2>3. Charged \subseteq {last}
      BY <2>2
    <2>4. IsFiniteSet({last}) /\ Cardinality({last}) = 1
      BY FS_Singleton
    <2>5. IsFiniteSet(Charged) /\ Cardinality(Charged) <= Cardinality({last})
      BY <2>3, <2>4, FS_Subset
    <2> QED
      BY <2>4, <2>5
  <1> QED
    BY <1>1, ExtractionInvariant, PTL

\* ADR 0047: what is reserved stays within the limits of the source and of the day,
\* and covers every charge of at most the reserved cost.
THEOREM BudgetAlwaysHolds == Spec => []BudgetHolds
  <1>1. ExtractionInv => BudgetHolds
    <2> SUFFICES ASSUME ExtractionInv
                 PROVE  BudgetHolds
      OBVIOUS
    <2>1. LimitsInv
      BY DEF ExtractionInv
    <2>2. ASSUME NEW s \in Sources, NEW n \in Billed(s),
                 attempts[s][n].resolved = None, bill[s][n] <= Reservation
          PROVE  bill[s][n] <= Counted(attempts[s][n])
      <3>1. /\ BillFits(attempts[s], bill[s]) /\ attempts[s] \in Seq(AttemptRow)
            /\ Len(attempts[s]) \in Nat /\ Len(attempts[s]) <= MaxAttempts
        BY DEF ExtractionInv, StoreInv, TaskFits
      <3>2. n \in 1 .. Len(attempts[s]) /\ bill[s][n] # None
        BY DEF Billed
      <3>3. ChargeFits(attempts[s][n], bill[s][n]) /\ bill[s][n] \in Costs \cup {None}
        BY <3>1, <3>2, ExtractionAssumption DEF BillFits
      <3>4. MayBeCharged(attempts[s][n]) /\ bill[s][n] \in Nat
        BY <2>2, <3>2, <3>3, BudgetAssumption DEF ChargeFits
      <3>5. CASE attempts[s][n].effect = "succeeded"
        <4>1. attempts[s][n].cost = bill[s][n]
          BY <2>2, <3>3, <3>5 DEF ChargeFits
        <4>2. Counted(attempts[s][n]) = bill[s][n]
          BY <3>2, <3>5, <4>1 DEF Counted
        <4> QED
          BY <3>4, <4>2
      <3>6. CASE attempts[s][n].effect \in {"reserved", "uncertain"}
        BY <2>2, <3>6 DEF Counted
      <3> QED
        BY <3>4, <3>5, <3>6 DEF MayBeCharged
    <2> QED
      BY <2>1, <2>2 DEF BudgetHolds, LimitsInv
  <1> QED
    BY <1>1, ExtractionInvariant, PTL

\* A signal that was erased leaves nothing to extract and nothing extracted
\* (settleSignalExtractionErasure).
THEOREM ErasedLeavesNothingHolds == Spec => []ErasedLeavesNothing
  <1>1. ExtractionInv => ErasedLeavesNothing
    BY DEF ExtractionInv, StoreInv, StoreFits, ErasedLeavesNothing, Sources
  <1> QED
    BY <1>1, ExtractionInvariant, PTL

\* Every stored proposal comes from the one answer the journal says succeeded
\* (submitProposal, completeExtraction).
THEOREM StoredIsAccountedForHolds == Spec => []StoredIsAccountedFor
  <1>1. ExtractionInv => StoredIsAccountedFor
    BY DEF ExtractionInv, StoreInv, StoreFits, TaskFits, StoredIsAccountedFor, Last
  <1> QED
    BY <1>1, ExtractionInvariant, PTL
=============================================================================
