------------------------ MODULE JournalLedgerProofs ------------------------
(***************************************************************************)
(* For every set of requests, batches, periods and vouchers: the types of  *)
(* the ledger's state, that postings are whole, that period locks bind,    *)
(* and what a posting served alone leaves of its batch and totals.  For     *)
(* every chart of accounts and all that is posted: what the balance sheet   *)
(* is off by, when it agrees with profit and loss, and what the parent of   *)
(* an account suggests.  All of them rest on the lemmas about sums.         *)
(***************************************************************************)
EXTENDS JournalLedger, FinancialReports, FiniteSetTheorems, WellFoundedInduction, TLAPS

Operations == {"create", "update", "remove", "post", "statement", "upload", "drop"}

\* Which operations stand at which label.
Fits(op, label) ==
    \/ label \in {"done", "failed"} /\ op \in Operations
    \/ label = "finding" /\ op \in {"update", "remove", "post", "statement", "upload"}
    \/ label = "checking" /\ op \in {"create", "update", "remove", "post", "statement"}
    \/ label = "matching" /\ op = "update"
    \/ label \in {"validating", "inserting", "comparing", "committing"} /\ op = "post"
    \/ label = "creating" /\ op \in {"create", "statement"}
    \/ label \in {"saving", "writing"} /\ op \in {"update", "remove"}
    \/ label \in {"selecting", "deleting"} /\ op \in {"post", "statement", "upload", "drop"}
    \/ label \in {"resaving", "rewriting"} /\ op = "statement"
    \/ label \in {"charting", "filling", "finishing", "closing"} /\ op \in {"statement", "upload"}
    \/ label = "dropping" /\ op = "drop"

CallFits ==
    \A r \in Request :
        pc[r] # "idle" => call[r] \in Calls /\ Fits(call[r].op, pc[r])

\* A request that goes on to write its copy has read one, under its id.
CopyNeeded(r) ==
    \/ pc[r] = "checking" /\ call[r].op \in {"update", "remove", "post"}
    \/ pc[r] \in {"matching", "validating", "saving", "writing", "inserting", "comparing",
                  "committing", "resaving", "rewriting", "charting", "filling", "finishing",
                  "closing"}
    \/ pc[r] \in {"selecting", "deleting"} /\ call[r].op # "drop"

HasCopy(r, mem) ==
    /\ mem.copy \in BatchRow /\ mem.target \in BatchId
    /\ call[r].op # "statement" => mem.target = call[r].batch

CopyFits == \A r \in Request : CopyNeeded(r) => HasCopy(r, local[r])

\* Lines are drafted in a transaction only, all of them before it commits.
DraftFits(r, label, drafted) ==
    IF label \in {"inserting", "comparing", "committing"}
      THEN /\ drafted <= Len(call[r].lines)
           /\ label # "inserting" => drafted = Len(call[r].lines)
      ELSE drafted = 0

DraftsFit == \A r \in Request : DraftFits(r, pc[r], local[r].drafted)

TInv == TypeOK /\ CallFits /\ CopyFits /\ DraftsFit


----------------------------------------------------------------------------
(* Sums, and induction as the choice of a smallest counterexample *)

LEMMA SmallestSubset ==
    ASSUME NEW S, IsFiniteSet(S), NEW Bad \in SUBSET (SUBSET S), Bad # {}
    PROVE  \E X \in Bad : \A Y \in SUBSET X : Y # X => Y \notin Bad
<1>1. IsWellFoundedOn(StrictSubsetOrdering(S), SUBSET S)
  BY FS_StrictSubsetOrderingWellFounded, FS_FiniteSubsetsOfFinite
<1>2. PICK X \in Bad : \A Y \in Bad : ~ (<<Y, X>> \in StrictSubsetOrdering(S))
  BY <1>1, WFMin
<1>3. ASSUME NEW Y \in SUBSET X, Y # X, Y \in Bad
      PROVE  FALSE
  <2>1. <<Y, X>> \in StrictSubsetOrdering(S)
    BY <1>3 DEF StrictSubsetOrdering
  <2> QED
    BY <1>2, <1>3, <2>1
<1> QED
  BY <1>2, <1>3

\* The element the fold takes out.
First(s) == CHOOSE x \in s : TRUE

LEMMA FirstIn == ASSUME NEW s, s # {} PROVE First(s) \in s
BY DEF First

\* What the fold computes: the sums of all subsets.
Accumulates(sum, f, S) ==
    sum = [s \in SUBSET S |-> IF s = {} THEN 0 ELSE f[First(s)] + sum[s \ {First(s)}]]

Partial(f, S) == CHOOSE sum : Accumulates(sum, f, S)

LEMMA SumIsPartial == ASSUME NEW f, NEW S PROVE SumOver(f, S) = Partial(f, S)[S]
BY Zenon DEF SumOver, MapThenSumSet, MapThenFoldSet, Partial, Accumulates, First

LEMMA AccumulatedAt ==
    ASSUME NEW sum, NEW f, NEW S, Accumulates(sum, f, S)
    PROVE  \A s \in SUBSET S : sum[s] = IF s = {} THEN 0 ELSE f[First(s)] + sum[s \ {First(s)}]
<1>1. sum = [t \in SUBSET S |-> IF t = {} THEN 0 ELSE f[First(t)] + sum[t \ {First(t)}]]
  BY Zenon DEF Accumulates
<1> QED
  BY <1>1

Alike(f, g, s) == \A x \in s : f[x] = g[x]

\* Two accumulations agree where their summands do.
LEMMA SumsAgree ==
    ASSUME NEW f, NEW g, NEW S, NEW T, NEW s, IsFiniteSet(s), s \in SUBSET S, s \in SUBSET T,
           Alike(f, g, s),
           NEW sum, Accumulates(sum, f, S), NEW tum, Accumulates(tum, g, T)
    PROVE  sum[s] = tum[s]
<1> DEFINE Bad == {t \in SUBSET s : sum[t] # tum[t]}
<1> SUFFICES ASSUME Bad # {} PROVE FALSE
  OBVIOUS
<1>1. PICK X \in Bad : \A Y \in SUBSET X : Y # X => Y \notin Bad
  <2>1. Bad \in SUBSET (SUBSET s)
    OBVIOUS
  <2> HIDE DEF Bad
  <2> QED
    BY <2>1, SmallestSubset
<1>2. X \in SUBSET S /\ X \in SUBSET T /\ X \in SUBSET s /\ sum[X] # tum[X]
  OBVIOUS
<1>3. \A Y \in SUBSET X : Y # X => sum[Y] = tum[Y]
  BY <1>1, <1>2
<1> HIDE DEF Bad
<1>4. sum[X] = IF X = {} THEN 0 ELSE f[First(X)] + sum[X \ {First(X)}]
  BY <1>2, AccumulatedAt
<1>5. tum[X] = IF X = {} THEN 0 ELSE g[First(X)] + tum[X \ {First(X)}]
  BY <1>2, AccumulatedAt
<1>6. X # {}
  BY <1>2, <1>4, <1>5
<1>7. First(X) \in X /\ f[First(X)] = g[First(X)]
  BY <1>2, <1>6, FirstIn DEF Alike
<1>8. sum[X \ {First(X)}] = tum[X \ {First(X)}]
  BY <1>3, <1>7
<1> QED
  BY <1>2, <1>4, <1>5, <1>6, <1>7, <1>8

\* So do two accumulations of the same summands.
LEMMA PartsAgree ==
    ASSUME NEW f, NEW S, NEW T, IsFiniteSet(T), T \in SUBSET S,
           NEW sum, Accumulates(sum, f, S), NEW tum, Accumulates(tum, f, T)
    PROVE  sum[T] = tum[T]
<1>1. T \in SUBSET T /\ Alike(f, f, T)
  BY DEF Alike
<1> QED
  BY <1>1, SumsAgree

LEMMA SumsExist ==
    ASSUME NEW f, NEW S, IsFiniteSet(S)
    PROVE  Accumulates(Partial(f, S), f, S)
<1> DEFINE Bad == {t \in SUBSET S : ~ \E sum : Accumulates(sum, f, t)}
<1> SUFFICES ASSUME Bad # {} PROVE FALSE
  BY DEF Partial
<1>1. PICK X \in Bad : \A Y \in SUBSET X : Y # X => Y \notin Bad
  <2>1. Bad \in SUBSET (SUBSET S)
    OBVIOUS
  <2> HIDE DEF Bad
  <2> QED
    BY <2>1, SmallestSubset
<1>2. IsFiniteSet(X)
  BY FS_Subset
<1>3. \A Y \in SUBSET X : Y # X => Accumulates(Partial(f, Y), f, Y)
  BY <1>1 DEF Partial
<1> DEFINE rest(t) == t \ {First(t)}
            sum == [t \in SUBSET X |-> IF t = {} THEN 0
                                       ELSE f[First(t)] + Partial(f, rest(t))[rest(t)]]
<1>4. ASSUME NEW t \in SUBSET X, t # {}
      PROVE  sum[rest(t)] = Partial(f, rest(t))[rest(t)]
  <2> DEFINE u == rest(t)
  <2>1. u \in SUBSET X /\ u # X
    BY <1>4, FirstIn
  <2>2. Accumulates(Partial(f, u), f, u)
    BY <1>3, <2>1
  <2>3. Partial(f, u)[u] = IF u = {} THEN 0 ELSE f[First(u)] + Partial(f, u)[rest(u)]
    <3> HIDE DEF u
    <3> QED
      BY <2>2, AccumulatedAt
  <2>4. sum[u] = IF u = {} THEN 0 ELSE f[First(u)] + Partial(f, rest(u))[rest(u)]
    BY <2>1
  <2>5. ASSUME u # {}
          PROVE  Partial(f, u)[rest(u)] = Partial(f, rest(u))[rest(u)]
    <3> HIDE DEF u
    <3>1. First(u) \in u
      BY <2>5, FirstIn
    <3>2. Accumulates(Partial(f, rest(u)), f, rest(u))
      BY <1>3, <2>1, <3>1
    <3>3. IsFiniteSet(rest(u))
      BY <1>2, <2>1, FS_Subset
    <3>4. rest(u) \in SUBSET u
      OBVIOUS
    <3> HIDE DEF rest
    <3> QED
      BY <2>2, <3>2, <3>3, <3>4, PartsAgree
  <2> HIDE DEF u, sum, rest
  <2>6. sum[u] = Partial(f, u)[u]
    BY <2>3, <2>4, <2>5
  <2> QED
    BY <2>6 DEF u
<1>5. Accumulates(sum, f, X)
  <2>1. \A t \in SUBSET X : sum[t] = IF t = {} THEN 0 ELSE f[First(t)] + sum[rest(t)]
    BY <1>4
  <2>2. sum = [t \in SUBSET X |-> sum[t]]
    OBVIOUS
  <2> HIDE DEF sum
  <2> QED
    BY <2>1, <2>2 DEF Accumulates
<1> HIDE DEF sum
<1> QED
  BY <1>5

\* A sum depends on its summands alone.
LEMMA SameSum ==
    ASSUME NEW f, NEW g, NEW S, IsFiniteSet(S), \A x \in S : f[x] = g[x]
    PROVE  SumOver(f, S) = SumOver(g, S)
<1>1. Accumulates(Partial(f, S), f, S) /\ Accumulates(Partial(g, S), g, S)
  BY SumsExist
<1>2. S \in SUBSET S /\ Alike(f, g, S)
  BY DEF Alike
<1>3. Partial(f, S)[S] = Partial(g, S)[S]
  BY <1>1, <1>2, SumsAgree
<1> QED
  BY <1>3, SumIsPartial

LEMMA SumAsFolded ==
    ASSUME NEW f, NEW S, IsFiniteSet(S)
    PROVE  SumOver(f, S) = IF S = {} THEN 0 ELSE f[First(S)] + SumOver(f, S \ {First(S)})
<1> DEFINE R == S \ {First(S)}
<1>1. Accumulates(Partial(f, S), f, S)
  BY SumsExist
<1>2. IsFiniteSet(R) /\ R \in SUBSET S
  BY FS_Subset
<1>3. Partial(f, S)[S] = IF S = {} THEN 0 ELSE f[First(S)] + Partial(f, S)[R]
  BY <1>1, AccumulatedAt
<1> HIDE DEF R
<1>4. Accumulates(Partial(f, R), f, R)
  BY <1>2, SumsExist
<1>5. Partial(f, S)[R] = Partial(f, R)[R]
  BY <1>1, <1>2, <1>4, PartsAgree
<1>6. SumOver(f, S) = Partial(f, S)[S] /\ SumOver(f, R) = Partial(f, R)[R]
  BY SumIsPartial
<1> QED
  BY <1>3, <1>5, <1>6 DEF R

LEMMA SumIsInt ==
    ASSUME NEW f, NEW S, IsFiniteSet(S), \A x \in S : f[x] \in Int
    PROVE  SumOver(f, S) \in Int
<1> DEFINE Bad == {t \in SUBSET S : SumOver(f, t) \notin Int}
<1> SUFFICES ASSUME Bad # {} PROVE FALSE
  OBVIOUS
<1>1. PICK X \in Bad : \A Y \in SUBSET X : Y # X => Y \notin Bad
  <2>1. Bad \in SUBSET (SUBSET S)
    OBVIOUS
  <2> HIDE DEF Bad
  <2> QED
    BY <2>1, SmallestSubset
<1>2. IsFiniteSet(X)
  BY FS_Subset
<1>3. SumOver(f, X) = IF X = {} THEN 0 ELSE f[First(X)] + SumOver(f, X \ {First(X)})
  BY <1>2, SumAsFolded
<1>4. X # {} => First(X) \in X
  BY FirstIn
<1>5. X # {} => SumOver(f, X \ {First(X)}) \in Int
  BY <1>1, <1>4
<1> QED
  BY <1>3, <1>4, <1>5

\* Any summand may be taken out, not only the one the fold takes out.
LEMMA SumWithout ==
    ASSUME NEW f, NEW S, IsFiniteSet(S), \A x \in S : f[x] \in Int, NEW z \in S
    PROVE  SumOver(f, S) = f[z] + SumOver(f, S \ {z})
<1> DEFINE Out(t, y) == SumOver(f, t) = f[y] + SumOver(f, t \ {y})
            Bad == {t \in SUBSET S : \E y \in t : ~ Out(t, y)}
<1> SUFFICES ASSUME Bad # {} PROVE FALSE
  OBVIOUS
<1>1. PICK X \in Bad : \A Y \in SUBSET X : Y # X => Y \notin Bad
  <2>1. Bad \in SUBSET (SUBSET S)
    OBVIOUS
  <2> HIDE DEF Bad
  <2> QED
    BY <2>1, SmallestSubset
<1>2. PICK y \in X : ~ Out(X, y)
  OBVIOUS
<1> DEFINE p == First(X)
<1>3. p \in X
  BY FirstIn
<1>4. /\ IsFiniteSet(X) /\ IsFiniteSet(X \ {y}) /\ IsFiniteSet(X \ {p})
      /\ IsFiniteSet((X \ {p}) \ {y})
  BY FS_Subset
<1>5. SumOver(f, X) = f[p] + SumOver(f, X \ {p})
  BY <1>3, <1>4, SumAsFolded
<1>6. p # y
  BY <1>2, <1>5
<1>7. X \ {p} \notin Bad /\ X \ {y} \notin Bad
  BY <1>1, <1>2, <1>3
<1>8. Out(X \ {p}, y) /\ Out(X \ {y}, p)
  BY <1>2, <1>3, <1>6, <1>7
<1>9. (X \ {y}) \ {p} = (X \ {p}) \ {y}
  OBVIOUS
<1>10. f[p] \in Int /\ f[y] \in Int /\ SumOver(f, (X \ {p}) \ {y}) \in Int
  BY <1>3, <1>4, SumIsInt
<1>11. /\ SumOver(f, X) # f[y] + SumOver(f, X \ {y})
       /\ SumOver(f, X \ {p}) = f[y] + SumOver(f, (X \ {p}) \ {y})
       /\ SumOver(f, X \ {y}) = f[p] + SumOver(f, (X \ {p}) \ {y})
  BY <1>2, <1>8, <1>9
<1> HIDE DEF p, Bad, Out
<1> QED
  BY <1>5, <1>10, <1>11

LEMMA SumIsNat ==
    ASSUME NEW f, NEW S, IsFiniteSet(S), \A x \in S : f[x] \in Nat
    PROVE  SumOver(f, S) \in Nat
<1> DEFINE Bad == {t \in SUBSET S : SumOver(f, t) \notin Nat}
<1> SUFFICES ASSUME Bad # {} PROVE FALSE
  OBVIOUS
<1>1. PICK X \in Bad : \A Y \in SUBSET X : Y # X => Y \notin Bad
  <2>1. Bad \in SUBSET (SUBSET S)
    OBVIOUS
  <2> HIDE DEF Bad
  <2> QED
    BY <2>1, SmallestSubset
<1>2. IsFiniteSet(X)
  BY FS_Subset
<1>3. SumOver(f, X) = IF X = {} THEN 0 ELSE f[First(X)] + SumOver(f, X \ {First(X)})
  BY <1>2, SumAsFolded
<1>4. X # {} => First(X) \in X
  BY FirstIn
<1>5. X # {} => SumOver(f, X \ {First(X)}) \in Nat
  BY <1>1, <1>4
<1> QED
  BY <1>3, <1>4, <1>5

LEMMA ImageFinite ==
    ASSUME NEW D, IsFiniteSet(D), NEW m
    PROVE  /\ IsFiniteSet({m[i] : i \in D})
           /\ (\A i, j \in D : m[i] = m[j] => i = j)
                 => Cardinality({m[i] : i \in D}) = Cardinality(D)
<1> DEFINE T == {m[i] : i \in D}
           f == [i \in D |-> m[i]]
<1>1. f \in Surjection(D, T)
  BY DEF Surjection
<1>2. (\A i, j \in D : m[i] = m[j] => i = j) => f \in Injection(D, T)
  BY DEF Injection, IsInjective
<1> HIDE DEF f
<1> QED
  BY <1>1, <1>2, FS_Surjection

\* What is summed may be named otherwise.
LEMMA SumMoved ==
    ASSUME NEW D, IsFiniteSet(D), NEW m, \A i, j \in D : m[i] = m[j] => i = j,
           NEW g, \A i \in D : g[i] \in Int, NEW f, \A i \in D : f[m[i]] = g[i]
    PROVE  SumOver(f, {m[i] : i \in D}) = SumOver(g, D)
<1> DEFINE Image(t) == {m[i] : i \in t}
           Bad == {t \in SUBSET D : SumOver(f, Image(t)) # SumOver(g, t)}
<1> SUFFICES ASSUME Bad # {} PROVE FALSE
  OBVIOUS
<1>1. PICK X \in Bad : \A Y \in SUBSET X : Y # X => Y \notin Bad
  <2>1. Bad \in SUBSET (SUBSET D)
    OBVIOUS
  <2> HIDE DEF Bad
  <2> QED
    BY <2>1, SmallestSubset
<1>2. IsFiniteSet(X)
  BY FS_Subset
<1>3. IsFiniteSet(Image(X))
  BY <1>2, ImageFinite
<1>4. SumOver(g, X) = IF X = {} THEN 0 ELSE g[First(X)] + SumOver(g, X \ {First(X)})
  BY <1>2, SumAsFolded
<1>5. CASE X = {}
  <2>1. SumOver(f, {}) = 0 /\ SumOver(g, {}) = 0
    BY FS_EmptySet, SumAsFolded
  <2> QED
    BY <1>5, <2>1
<1>6. CASE X # {}
  <2>1. PICK p \in X : p = First(X)
    BY <1>6, FirstIn
  <2>2. SumOver(f, Image(X)) = f[m[p]] + SumOver(f, Image(X) \ {m[p]})
    <3>1. \A x \in Image(X) : f[x] \in Int
      OBVIOUS
    <3>2. m[p] \in Image(X)
      OBVIOUS
    <3> HIDE DEF Image
    <3> QED
      BY <1>3, <3>1, <3>2, SumWithout
  <2>3. Image(X) \ {m[p]} = Image(X \ {p})
    OBVIOUS
  <2>4. SumOver(f, Image(X \ {p})) = SumOver(g, X \ {p})
    BY <1>1
  <2> QED
    BY <1>4, <1>6, <2>1, <2>2, <2>3, <2>4
<1> QED
  BY <1>5, <1>6

(* Sums over parts, and of sums *)

\* Summing over a part is summing zeros besides.
LEMMA SumOfPart ==
    ASSUME NEW S, IsFiniteSet(S), NEW T \in SUBSET S, NEW f, \A x \in S : f[x] \in Int,
           NEW g, \A x \in S : g[x] = IF x \in T THEN f[x] ELSE 0
    PROVE  SumOver(g, S) = SumOver(f, T)
<1> DEFINE Bad == {t \in SUBSET S : SumOver(g, t) # SumOver(f, t \cap T)}
<1> SUFFICES ASSUME Bad # {} PROVE FALSE
  <2>1. S \cap T = T
    OBVIOUS
  <2> QED
    BY <2>1
<1>1. PICK X \in Bad : \A Y \in SUBSET X : Y # X => Y \notin Bad
  <2>1. Bad \in SUBSET (SUBSET S)
    OBVIOUS
  <2> HIDE DEF Bad
  <2> QED
    BY <2>1, SmallestSubset
<1>2. IsFiniteSet(X) /\ IsFiniteSet(X \cap T) /\ X \in SUBSET S
  BY FS_Subset
<1>3. CASE X = {}
  <2>1. X \cap T = {}
    BY <1>3
  <2>2. SumOver(f, {}) = 0 /\ SumOver(g, {}) = 0
    BY FS_EmptySet, SumAsFolded
  <2> QED
    BY <1>3, <2>1, <2>2
<1>4. CASE X # {}
  <2>1. PICK p \in X : TRUE
    BY <1>4
  <2>2. SumOver(g, X \ {p}) = SumOver(f, (X \ {p}) \cap T)
    BY <1>1
  <2>3. SumOver(g, X) = g[p] + SumOver(g, X \ {p})
    <3>1. \A x \in X : g[x] \in Int
      BY <1>2
    <3> QED
      BY <1>2, <3>1, SumWithout
  <2>4. CASE p \in T
    <3>1. \A x \in X \cap T : f[x] \in Int
      BY <1>2
    <3>2. SumOver(f, X \cap T) = f[p] + SumOver(f, (X \cap T) \ {p})
      BY <1>2, <2>4, <3>1, SumWithout
    <3>3. (X \cap T) \ {p} = (X \ {p}) \cap T
      OBVIOUS
    <3>4. g[p] = f[p]
      BY <1>2, <2>4
    <3> QED
      BY <2>2, <2>3, <3>2, <3>3, <3>4
  <2>5. CASE p \notin T
    <3>1. (X \ {p}) \cap T = X \cap T
      BY <2>5
    <3>2. g[p] = 0
      BY <1>2, <2>5
    <3>3. SumOver(f, X \cap T) \in Int
      BY <1>2, SumIsInt
    <3>4. SumOver(g, X) # SumOver(f, X \cap T)
      BY <1>1
    <3>5. SumOver(g, X \ {p}) = SumOver(f, X \cap T)
      BY <2>2, <3>1, Zenon
    <3> HIDE DEF Bad
    <3> QED
      BY <2>3, <3>2, <3>3, <3>4, <3>5
  <2> QED
    BY <2>4, <2>5
<1> QED
  BY <1>3, <1>4

LEMMA SumAdds ==
    ASSUME NEW S, IsFiniteSet(S), NEW f, \A x \in S : f[x] \in Int,
           NEW g, \A x \in S : g[x] \in Int, NEW h, \A x \in S : h[x] = f[x] + g[x]
    PROVE  SumOver(h, S) = SumOver(f, S) + SumOver(g, S)
<1> DEFINE Bad == {t \in SUBSET S : SumOver(h, t) # SumOver(f, t) + SumOver(g, t)}
<1> SUFFICES ASSUME Bad # {} PROVE FALSE
  OBVIOUS
<1>1. PICK X \in Bad : \A Y \in SUBSET X : Y # X => Y \notin Bad
  <2>1. Bad \in SUBSET (SUBSET S)
    OBVIOUS
  <2> HIDE DEF Bad
  <2> QED
    BY <2>1, SmallestSubset
<1>2. IsFiniteSet(X) /\ X \in SUBSET S
  BY FS_Subset
<1>3. CASE X = {}
  <2>1. SumOver(f, {}) = 0 /\ SumOver(g, {}) = 0 /\ SumOver(h, {}) = 0
    BY FS_EmptySet, SumAsFolded
  <2> QED
    BY <1>3, <2>1
<1>4. CASE X # {}
  <2>1. PICK p \in X : TRUE
    BY <1>4
  <2>2. SumOver(h, X \ {p}) = SumOver(f, X \ {p}) + SumOver(g, X \ {p})
    BY <1>1
  <2>3. \A x \in X : f[x] \in Int /\ g[x] \in Int /\ h[x] \in Int
    BY <1>2
  <2>4. SumOver(f, X) = f[p] + SumOver(f, X \ {p})
    BY <1>2, <2>3, SumWithout
  <2>5. SumOver(g, X) = g[p] + SumOver(g, X \ {p})
    BY <1>2, <2>3, SumWithout
  <2>6. SumOver(h, X) = h[p] + SumOver(h, X \ {p})
    BY <1>2, <2>3, SumWithout
  <2>7. SumOver(f, X \ {p}) \in Int /\ SumOver(g, X \ {p}) \in Int
    <3>1. IsFiniteSet(X \ {p})
      BY <1>2, FS_Subset
    <3> QED
      BY <2>3, <3>1, SumIsInt
  <2>8. f[p] \in Int /\ g[p] \in Int /\ h[p] = f[p] + g[p]
    BY <1>2, <2>1
  <2>9. SumOver(h, X) # SumOver(f, X) + SumOver(g, X)
    BY <1>1
  <2> HIDE DEF Bad
  <2> QED
    BY <2>2, <2>4, <2>5, <2>6, <2>7, <2>8, <2>9
<1> QED
  BY <1>3, <1>4

LEMMA SumSplit ==
    ASSUME NEW S, IsFiniteSet(S), NEW T \in SUBSET S, NEW f, \A x \in S : f[x] \in Int
    PROVE  SumOver(f, S) = SumOver(f, T) + SumOver(f, S \ T)
<1> DEFINE in == [x \in S |-> IF x \in T THEN f[x] ELSE 0]
           out == [x \in S |-> IF x \in S \ T THEN f[x] ELSE 0]
<1>1. SumOver(in, S) = SumOver(f, T)
  <2>1. \A x \in S : in[x] = IF x \in T THEN f[x] ELSE 0
    OBVIOUS
  <2> HIDE DEF in
  <2> QED
    BY <2>1, SumOfPart
<1>2. SumOver(out, S) = SumOver(f, S \ T)
  <2>1. \A x \in S : out[x] = IF x \in S \ T THEN f[x] ELSE 0
    OBVIOUS
  <2>2. S \ T \in SUBSET S
    OBVIOUS
  <2> HIDE DEF out
  <2> QED
    BY <2>1, <2>2, SumOfPart
<1>3. \A x \in S : in[x] \in Int /\ out[x] \in Int /\ f[x] = in[x] + out[x]
  OBVIOUS
<1> HIDE DEF in, out
<1>4. SumOver(f, S) = SumOver(in, S) + SumOver(out, S)
  BY <1>3, SumAdds
<1> QED
  BY <1>1, <1>2, <1>4

\* The members of the call sets have the fields of their operation.
LEMMA CallFields ==
    ASSUME NEW c \in Calls
    PROVE  /\ c.op \in Operations
           /\ c.op = "create" => c.period \in Period
           /\ c.op = "update" => /\ c.period \in Period \cup {Blank, Absent}
                                 /\ c.number \in Number \cup {Absent}
           /\ c.op \in {"update", "remove", "post", "upload"} => c.batch \in BatchId
           /\ c.op = "post" => c.je \in Int
           /\ c.op \in {"post", "statement", "upload"} =>
                 c.lines \in Seq(Amounts) /\ c.lines # <<>>
           /\ c.op = "statement" => c.number \in StatementNumber /\ c.number \in Number
BY ConstantAssumption DEF Calls, Operations

LEMMA FreshBatchRow == \A n \in Number, p \in Period : Fresh(n, p) \in BatchRow
BY DEF BatchRow, Fresh

LEMMA ForgottenLocals == Forgotten \in Locals
BY DEF Locals, Forgotten

\* Saving a copy with another period or number, other totals or the deleted mark.
LEMMA RowEdits ==
    ASSUME NEW x, x \in BatchRow
    PROVE  /\ \A p \in Period, n \in Number : [x EXCEPT !.period = p, !.number = n] \in BatchRow
           /\ [x EXCEPT !.isDeleted = TRUE] \in BatchRow
           /\ \A t \in Int, n \in Nat : [x EXCEPT !.total = t, !.count = n] \in BatchRow
           /\ \A t \in Int : [x EXCEPT !.total = t] \in BatchRow
BY DEF BatchRow

\* What save() makes of a row is a row, each column the entity's or the one it had.
LEMMA MergedRow ==
    ASSUME NEW x \in BatchRow, NEW seen \in BatchRow, NEW row \in BatchRow
    PROVE  /\ Merged(x, seen, row) \in BatchRow
           /\ Merged(x, seen, row).period
                = IF x.period # seen.period THEN x.period ELSE row.period
           /\ Merged(x, seen, row).total = IF x.total # seen.total THEN x.total ELSE row.total
           /\ Merged(x, seen, row).count = IF x.count # seen.count THEN x.count ELSE row.count
           /\ x = seen => Merged(x, seen, row) = row
<1> DEFINE new == Merged(x, seen, row)
<1>1. /\ new = [k \in DOMAIN row |-> IF x[k] # seen[k] THEN x[k] ELSE row[k]]
      /\ DOMAIN row = {"number", "period", "total", "count", "isDeleted"}
  BY DEF Merged, BatchRow
<1>2. /\ new.number = IF x.number # seen.number THEN x.number ELSE row.number
      /\ new.period = IF x.period # seen.period THEN x.period ELSE row.period
      /\ new.total = IF x.total # seen.total THEN x.total ELSE row.total
      /\ new.count = IF x.count # seen.count THEN x.count ELSE row.count
      /\ new.isDeleted = IF x.isDeleted # seen.isDeleted THEN x.isDeleted ELSE row.isDeleted
  BY <1>1
<1>3. new = [number |-> new.number, period |-> new.period, total |-> new.total,
             count |-> new.count, isDeleted |-> new.isDeleted]
  BY <1>1
<1>4. /\ new.number \in Number /\ new.period \in Period /\ new.total \in Int
      /\ new.count \in Nat /\ new.isDeleted \in BOOLEAN
  BY <1>2 DEF BatchRow
<1>5. x = seen => new = row
  BY <1>1 DEF BatchRow
<1> HIDE DEF new
<1>6. new \in BatchRow
  BY <1>3, <1>4 DEF BatchRow
<1> QED
  BY <1>2, <1>5, <1>6 DEF new

LEMMA LocalEdits ==
    ASSUME NEW x, x \in Locals
    PROVE  /\ \A b \in BatchId, c \in BatchRow \cup {Absent} :
                 [x EXCEPT !.target = b, !.copy = c] \in Locals
           /\ \A c \in BatchRow \cup {Absent} : [x EXCEPT !.seen = c] \in Locals
           /\ \A d \in SUBSET Lines : [x EXCEPT !.doomed = d] \in Locals
           /\ \A n \in Nat : [x EXCEPT !.drafted = n] \in Locals
           /\ \A t \in [total : Int, count : Nat] : [x EXCEPT !.tally = t] \in Locals
           /\ \A o \in SUBSET Period : [x EXCEPT !.open = o] \in Locals
           /\ \A o \in SUBSET Period, a \in BOOLEAN : [x EXCEPT !.open = o, !.alone = a] \in Locals
           /\ \A a \in BOOLEAN : [x EXCEPT !.alone = a] \in Locals
BY DEF Locals

LEMMA LocalFields ==
    ASSUME NEW x, x \in Locals, NEW v, NEW w
    PROVE  /\ LET y == [x EXCEPT !.target = w, !.copy = v] IN
              /\ y.target = w /\ y.copy = v /\ y.doomed = x.doomed /\ y.drafted = x.drafted
              /\ y.open = x.open /\ y.alone = x.alone
           /\ LET y == [x EXCEPT !.seen = v] IN
              /\ y.target = x.target /\ y.copy = x.copy /\ y.seen = v /\ y.doomed = x.doomed
              /\ y.drafted = x.drafted /\ y.tally = x.tally /\ y.open = x.open
              /\ y.alone = x.alone
           /\ LET y == [x EXCEPT !.doomed = v] IN
              /\ y.target = x.target /\ y.copy = x.copy /\ y.doomed = v /\ y.drafted = x.drafted
              /\ y.open = x.open /\ y.alone = x.alone
           /\ LET y == [x EXCEPT !.drafted = v] IN
              /\ y.target = x.target /\ y.copy = x.copy /\ y.doomed = x.doomed /\ y.drafted = v
              /\ y.open = x.open /\ y.alone = x.alone
           /\ LET y == [x EXCEPT !.tally = v] IN
              /\ y.target = x.target /\ y.copy = x.copy /\ y.doomed = x.doomed
              /\ y.drafted = x.drafted /\ y.tally = v /\ y.open = x.open /\ y.alone = x.alone
BY DEF Locals

LEMMA DivisionBounds ==
    ASSUME NEW n \in Int, NEW d \in Int, d > 0
    PROVE  /\ n \div d \in Int
           /\ d * (n \div d) <= n /\ n < d * (n \div d) + d
           /\ n >= 0 => n \div d >= 0
<1>1. PICK q \in Int : q = n \div d
  OBVIOUS
<1>2. d * q <= n /\ n < d * q + d
  BY <1>1
<1>3. n >= 0 => q >= 0
  BY <1>1
<1> QED
  BY <1>1, <1>2, <1>3

\* Rounding, for any scale: the nearest cent, half a cent going up.
LEMMA CentsBounds ==
    \A x \in Int : /\ Cents(x) \in Int
                   /\ 2 * (Scale * Cents(x)) <= 2 * x + Scale
                   /\ 2 * x < 2 * (Scale * Cents(x)) + Scale
                   /\ x >= 0 => Cents(x) >= 0
<1> SUFFICES ASSUME NEW x \in Int
             PROVE  /\ Cents(x) \in Int
                    /\ 2 * (Scale * Cents(x)) <= 2 * x + Scale
                    /\ 2 * x < 2 * (Scale * Cents(x)) + Scale
                    /\ x >= 0 => Cents(x) >= 0
  OBVIOUS
<1>1. Scale \in Nat /\ Scale > 0
  BY ConstantAssumption
<1>2. PICK d \in Int : d = 2 * Scale /\ d > 0
  BY <1>1
<1>3. PICK n \in Int : n = 2 * x + Scale
  BY <1>1
<1>4. PICK q \in Int : q = n \div d
  BY <1>2, <1>3, DivisionBounds
<1>5. d * q <= n /\ n < d * q + d /\ (n >= 0 => q >= 0)
  BY <1>2, <1>3, <1>4, DivisionBounds
<1>6. d * q = 2 * (Scale * q)
  BY <1>1, <1>2, <1>4
<1>7. PICK s \in Int : s = Scale * q
  BY <1>1, <1>4
<1>8. Cents(x) = q
  BY <1>2, <1>3, <1>4 DEF Cents
<1> QED
  BY <1>1, <1>2, <1>3, <1>5, <1>6, <1>7, <1>8

\* The lines of a posting are lines.
LEMMA LineType ==
    ASSUME NEW r \in Request, call[r] \in Calls,
           call[r].op \in {"post", "statement", "upload"},
           NEW i \in DOMAIN call[r].lines, NEW b \in BatchId
    PROVE  Line(r, i, b) \in Lines
<1>1. call[r].lines[i] \in Amounts /\ i \in Nat \ {0}
  BY CallFields
<1>2. \A x \in Int : Stored(x) \in Nat
  BY CentsBounds DEF Stored
<1>3. JeOf(r) \in Int
  BY CallFields DEF JeOf
<1> QED
  BY <1>1, <1>2, <1>3, CallFields DEF Line, Lines, Amounts

----------------------------------------------------------------------------
(* Type correctness *)

RowsOK == rows \in [BatchId -> BatchRow \cup {Absent}]

EntriesOK == entries \subseteq Lines /\ IsFiniteSet(entries)

\* A step of one request that moves it to a fitting label keeps the invariant.
LEMMA MoveKeepsTypes ==
    ASSUME TInv, NEW r \in Request, NEW label \in Labels, NEW mem,
           pc[r] # "idle", label # "idle",
           Fits(call[r].op, label),
           pc' = [pc EXCEPT ![r] = label],
           local' = [local EXCEPT ![r] = mem],
           call' = call,
           mem \in Locals,
           DraftFits(r, label, mem.drafted),
           CopyNeeded(r)' => HasCopy(r, mem),
           RowsOK', EntriesOK', locked' \subseteq Period
    PROVE  TInv'
<1>1. TypeOK'
  BY DEF TInv, TypeOK, RowsOK, EntriesOK
<1>2. CallFits'
  BY DEF TInv, TypeOK, CallFits
<1>3. CopyFits'
  <2> SUFFICES ASSUME NEW q \in Request, CopyNeeded(q)' PROVE HasCopy(q, local[q])'
    BY DEF CopyFits
  <2>1. CASE q = r
    <3>1. local'[q] = mem
      BY <2>1 DEF TInv, TypeOK
    <3> QED
      BY <2>1, <3>1 DEF HasCopy
  <2>2. CASE q # r
    <3>1. local'[q] = local[q] /\ CopyNeeded(q)
      BY <2>2 DEF CopyNeeded, TInv, TypeOK
    <3> QED
      BY <3>1 DEF TInv, CopyFits, HasCopy
  <2> QED
    BY <2>1, <2>2
<1>4. DraftsFit'
  BY DEF TInv, TypeOK, DraftsFit, DraftFits
<1> QED
  BY <1>1, <1>2, <1>3, <1>4 DEF TInv

\* In particular one that ends it.
LEMMA EndKeepsTypes ==
    ASSUME TInv, NEW r \in Request, NEW outcome \in {"done", "failed"},
           pc[r] # "idle", End(r, outcome), call' = call,
           RowsOK', EntriesOK', locked' \subseteq Period
    PROVE  TInv'
<1>1. Fits(call[r].op, outcome)
  BY CallFields DEF TInv, CallFits, Fits
<1>2. ~ CopyNeeded(r)'
  BY DEF End, Goto, TInv, TypeOK, CopyNeeded
<1> QED
  BY <1>1, <1>2, MoveKeepsTypes, ForgottenLocals
     DEF End, Goto, Labels, DraftFits, Forgotten

\* A step that keeps what the request holds.
LEMMA GotoKeepsTypes ==
    ASSUME TInv, NEW r \in Request, NEW label \in Labels,
           pc[r] # "idle", label # "idle",
           Fits(call[r].op, label),
           Goto(r, label), local' = local, call' = call,
           DraftFits(r, label, local[r].drafted),
           CopyNeeded(r)' => CopyNeeded(r),
           RowsOK', EntriesOK', locked' \subseteq Period
    PROVE  TInv'
<1>1. local' = [local EXCEPT ![r] = local[r]] /\ local[r] \in Locals
  BY DEF TInv, TypeOK
<1>2. CopyNeeded(r)' => HasCopy(r, local[r])
  BY DEF TInv, CopyFits
<1> QED
  BY <1>1, <1>2, MoveKeepsTypes DEF Goto

LEMMA InitTypes == Init => TInv
<1> SUFFICES ASSUME Init PROVE TInv
  OBVIOUS
<1>1. \A b \in BatchId : rows[b] # Absent => rows[b] \in BatchRow
  BY FreshBatchRow DEF Init
<1>2. TypeOK
  <2>1. rows \in [BatchId -> BatchRow \cup {Absent}] /\ IsFiniteSet(entries)
    BY <1>1, FS_EmptySet DEF Init
  <2> QED
    BY <2>1, ForgottenLocals DEF Init, TypeOK, Labels
<1> QED
  BY <1>2 DEF Init, TInv, CallFits, CopyFits, CopyNeeded, DraftsFit, DraftFits, Forgotten

LEMMA ArriveTypes ==
    ASSUME TInv, NEW r \in Request, NEW c \in Exercised, Arrive(r, c)
    PROVE  TInv'
<1>1. \A q \in Request : /\ local'[q] \in Locals
                          /\ local'[q].drafted = local[q].drafted
                          /\ local'[q].copy = local[q].copy
                          /\ local'[q].target = local[q].target
  <2> SUFFICES ASSUME NEW q \in Request
               PROVE  /\ local'[q] \in Locals
                      /\ local'[q].drafted = local[q].drafted
                      /\ local'[q].copy = local[q].copy
                      /\ local'[q].target = local[q].target
    OBVIOUS
  <2> DEFINE lone == \A o \in Request : ~ Active(o)
  <2>1. local[q] \in Locals /\ lone \in BOOLEAN
    BY DEF TInv, TypeOK
  <2>2. CASE q = r
    <3> DEFINE mem == [local[q] EXCEPT !.open = Period \ locked, !.alone = lone]
    <3>1. local'[q] = mem
      BY <2>2 DEF Arrive
    <3>2. mem \in Locals
      <4> HIDE DEF lone
      <4> QED
        BY <2>1, LocalEdits
    <3>3. mem.drafted = local[q].drafted /\ mem.copy = local[q].copy
          /\ mem.target = local[q].target
      BY <2>1 DEF Locals
    <3> QED
      BY <3>1, <3>2, <3>3
  <2>3. CASE q # r
    <3>1. local'[q] = [local[q] EXCEPT !.alone = FALSE]
      BY <2>3 DEF Arrive
    <3>2. [local[q] EXCEPT !.alone = FALSE] \in Locals
      BY <2>1, LocalEdits
    <3> QED
      BY <2>1, <3>1, <3>2 DEF Locals
  <2> QED
    BY <2>2, <2>3
<1>2. c \in Calls /\ c.op \in Operations
  BY CallFields, ConstantAssumption
<1>3. FirstStep(c.op) \in {"checking", "selecting", "finding"} /\ Fits(c.op, FirstStep(c.op))
      /\ (FirstStep(c.op) = "checking" => c.op \in {"create", "statement"})
      /\ (FirstStep(c.op) = "selecting" => c.op = "drop")
  BY <1>2 DEF FirstStep, Fits, Operations
<1>4. pc' = [pc EXCEPT ![r] = FirstStep(c.op)] /\ call' = [call EXCEPT ![r] = c]
      /\ rows' = rows /\ entries' = entries /\ locked' = locked
      /\ DOMAIN local' = Request /\ local' = [q \in Request |-> local'[q]]
  BY DEF Arrive, Goto
<1>5. TypeOK'
  BY <1>1, <1>3, <1>4 DEF TInv, TypeOK, Labels
<1>6. CallFits'
  BY <1>2, <1>3, <1>4 DEF TInv, TypeOK, CallFits
<1>7. CopyFits'
  <2> SUFFICES ASSUME NEW q \in Request, CopyNeeded(q)' PROVE HasCopy(q, local[q])'
    BY DEF CopyFits
  <2>1. q # r
    BY <1>3, <1>4 DEF CopyNeeded, TInv, TypeOK
  <2>2. CopyNeeded(q) /\ call'[q] = call[q]
    BY <1>4, <2>1 DEF CopyNeeded, TInv, TypeOK
  <2> QED
    BY <1>1, <2>2 DEF TInv, CopyFits, HasCopy
<1>8. DraftsFit'
  <2>1. FirstStep(c.op) \notin {"inserting", "comparing", "committing"}
    BY <1>3
  <2>2. call'[r] = c /\ pc'[r] = FirstStep(c.op)
        /\ \A q \in Request \ {r} : call'[q] = call[q] /\ pc'[q] = pc[q]
    BY <1>4 DEF TInv, TypeOK
  <2>3. local[r].drafted = 0
    <3>1. pc[r] = "idle"
      BY DEF Arrive
    <3> QED
      BY <3>1 DEF TInv, DraftsFit, DraftFits
  <2> QED
    BY <1>1, <2>1, <2>2, <2>3 DEF TInv, DraftsFit, DraftFits
<1> QED
  BY <1>5, <1>6, <1>7, <1>8 DEF TInv

LEMMA UnlockTypes ==
    ASSUME TInv, NEW p \in Period, UnlockPeriod(p)
    PROVE  TInv'
<1>1. \A r \in Request : /\ local'[r] \in Locals
                          /\ local'[r].copy = local[r].copy
                          /\ local'[r].target = local[r].target
                          /\ local'[r].drafted = local[r].drafted
  <2> SUFFICES ASSUME NEW r \in Request
               PROVE  /\ local'[r] \in Locals
                      /\ local'[r].copy = local[r].copy
                      /\ local'[r].target = local[r].target
                      /\ local'[r].drafted = local[r].drafted
    OBVIOUS
  <2>1. local[r] \in Locals
    BY DEF TInv, TypeOK
  <2>2. local[r].open \cup {p} \in SUBSET Period
    BY <2>1 DEF Locals
  <2>3. /\ [local[r] EXCEPT !.open = @ \cup {p}].copy = local[r].copy
        /\ [local[r] EXCEPT !.open = @ \cup {p}].target = local[r].target
        /\ [local[r] EXCEPT !.open = @ \cup {p}].drafted = local[r].drafted
    BY <2>1 DEF Locals
  <2> QED
    BY <2>1, <2>2, <2>3, LocalEdits DEF UnlockPeriod
<1>2. TypeOK'
  BY <1>1 DEF UnlockPeriod, TInv, TypeOK
<1> QED
  BY <1>1, <1>2
     DEF UnlockPeriod, TInv, CallFits, CopyFits, CopyNeeded, HasCopy, DraftsFit, DraftFits

----------------------------------------------------------------------------

\* What a request at work may rely on.
LEMMA AtWork ==
    ASSUME TInv, NEW r \in Request, pc[r] # "idle"
    PROVE  /\ call[r] \in Calls
           /\ Fits(call[r].op, pc[r])
           /\ local[r] \in Locals
           /\ CopyNeeded(r) => HasCopy(r, local[r])
           /\ call[r].op \in {"post", "statement", "upload"} =>
                 call[r].lines \in Seq(Amounts) /\ Len(call[r].lines) \in Nat
           /\ RowsOK /\ EntriesOK /\ locked \subseteq Period
           /\ DraftFits(r, pc[r], local[r].drafted) /\ local[r].drafted \in Nat
<1>1. call[r] \in Calls /\ Fits(call[r].op, pc[r]) /\ local[r] \in Locals
  BY DEF TInv, TypeOK, CallFits
<1> QED
  BY <1>1, CallFields DEF TInv, TypeOK, CopyFits, DraftsFit, RowsOK, EntriesOK, Locals

\* A write of one batch row.
LEMMA RowWrite ==
    ASSUME RowsOK, NEW b \in BatchId, NEW x, x \in BatchRow, rows' = [rows EXCEPT ![b] = x]
    PROVE  RowsOK'
BY DEF RowsOK

\* What save() may write: the row of the entity, which exists afterwards if it did before.
LEMMA RowAfterSave ==
    ASSUME RowsOK, NEW r \in Request, local[r] \in Locals, local[r].target \in BatchId,
           NEW x \in BatchRow
    PROVE  /\ Written(r, x) \in [BatchId -> BatchRow \cup {Absent}]
           /\ \A b \in BatchId : rows[b] # Absent => Written(r, x)[b] # Absent
           /\ \A b \in BatchId \ {local[r].target} : Written(r, x)[b] = rows[b]
           /\ local[r].seen # Absent /\ Kept(r) =>
                 Updated(r, x) \in BatchRow /\ Written(r, x)[local[r].target] = Updated(r, x)
<1> DEFINE b == local[r].target
<1>1. Absent \notin BatchRow /\ local[r].seen \in BatchRow \cup {Absent}
      /\ rows[b] \in BatchRow \cup {Absent}
  BY ConstantAssumption DEF Locals, RowsOK
<1>2. CASE local[r].seen = Absent
  BY <1>1, <1>2 DEF Written, RowsOK
<1>3. CASE local[r].seen # Absent /\ Kept(r)
  <2>1. rows[b] \in BatchRow /\ local[r].seen \in BatchRow
    BY <1>1, <1>3 DEF Kept, Present
  <2>2. PICK m \in BatchRow : m = Merged(x, local[r].seen, rows[b])
    BY <2>1, MergedRow
  <2>3. x.total \in Int /\ [m EXCEPT !.total = x.total] \in BatchRow
    BY DEF BatchRow
  <2>4. Updated(r, x) \in BatchRow
    BY <2>2, <2>3 DEF Updated
  <2>5. Written(r, x) = [rows EXCEPT ![b] = Updated(r, x)]
    BY <1>3 DEF Written
  <2> QED
    BY <1>1, <1>3, <2>4, <2>5 DEF RowsOK
<1>4. CASE local[r].seen # Absent /\ ~ Kept(r)
  BY <1>4 DEF Written, RowsOK
<1> QED
  BY <1>2, <1>3, <1>4

LEMMA SaveTypes ==
    ASSUME RowsOK, NEW r \in Request, local[r] \in Locals, local[r].target \in BatchId,
           NEW x \in BatchRow, rows' = rows \/ rows' = Written(r, x)
    PROVE  RowsOK'
<1>1. CASE rows' = rows
  BY <1>1 DEF RowsOK
<1>2. CASE rows' = Written(r, x)
  BY <1>2, RowAfterSave DEF RowsOK
<1> QED
  BY <1>1, <1>2

LEMMA LinesOfType ==
    ASSUME NEW r \in Request, call[r] \in Calls,
           call[r].op \in {"post", "statement", "upload"}, NEW b \in BatchId
    PROVE  LinesOf(r, b) \subseteq Lines /\ IsFiniteSet(LinesOf(r, b))
<1>1. IsFiniteSet(DOMAIN call[r].lines)
  BY CallFields, FS_Interval
<1>2. IsFiniteSet(LinesOf(r, b))
  <2> DEFINE m == [i \in DOMAIN call[r].lines |-> Line(r, i, b)]
  <2>1. LinesOf(r, b) = {m[i] : i \in DOMAIN call[r].lines}
    BY DEF LinesOf
  <2> HIDE DEF m
  <2> QED
    BY <1>1, <2>1, ImageFinite
<1> QED
  BY <1>2, LineType DEF LinesOf

\* The ledger with lines taken away, and with a posting.
LEMMA EntriesWrite ==
    ASSUME EntriesOK, NEW S \in SUBSET Lines, IsFiniteSet(S), entries' \subseteq entries \cup S
    PROVE  EntriesOK'
<1>1. IsFiniteSet(entries \cup S)
  BY FS_Union DEF EntriesOK
<1> QED
  BY <1>1, FS_Subset DEF EntriesOK

LEMMA EntriesFewer ==
    ASSUME EntriesOK, entries' \subseteq entries
    PROVE  EntriesOK'
BY FS_EmptySet, EntriesWrite

\* Totals are numbers.
LEMMA TotalsType ==
    ASSUME NEW S \in SUBSET Lines, IsFiniteSet(S)
    PROVE  TotalsOf(S) \in [total : Int, count : Nat]
<1>1. SumOver([e \in S |-> e.debit], S) \in Int
  <2>1. PICK f : f = [e \in S |-> e.debit]
    OBVIOUS
  <2>2. \A e \in S : f[e] \in Nat
    BY <2>1 DEF Lines
  <2>3. SumOver(f, S) \in Nat
    BY <2>2, SumIsNat
  <2> QED
    BY <2>1, <2>3
<1>2. Cardinality({e.je : e \in S}) \in Nat
  <2>1. PICK m : m = [e \in S |-> e.je]
    OBVIOUS
  <2>2. {e.je : e \in S} = {m[e] : e \in S}
    BY <2>1
  <2>3. IsFiniteSet({m[e] : e \in S})
    BY ImageFinite
  <2> QED
    BY <2>2, <2>3, FS_CardinalityType
<1> QED
  BY <1>1, <1>2 DEF TotalsOf

LEMMA SumsType ==
    ASSUME NEW lines \in Seq(Amounts)
    PROVE  /\ IsFiniteSet(DOMAIN lines)
           /\ Debits(lines) \in Int /\ Credits(lines) \in Int /\ Cents(Debits(lines)) \in Int
<1>1. IsFiniteSet(DOMAIN lines)
  BY FS_Interval
<1> DEFINE f == [i \in DOMAIN lines |-> lines[i].debit]
           g == [i \in DOMAIN lines |-> lines[i].credit]
<1>2. \A i \in DOMAIN lines : f[i] \in Int /\ g[i] \in Int
  <2>1. \A i \in DOMAIN lines : lines[i] \in Amounts
    OBVIOUS
  <2> QED
    BY <2>1 DEF Amounts
<1>3. Debits(lines) = SumOver(f, DOMAIN lines) /\ Credits(lines) = SumOver(g, DOMAIN lines)
  BY DEF Debits, Credits
<1> HIDE DEF f, g
<1>4. Debits(lines) \in Int /\ Credits(lines) \in Int
  BY <1>1, <1>2, <1>3, SumIsInt
<1> QED
  BY <1>1, <1>4, CentsBounds

LEMMA DraftType ==
    ASSUME NEW r \in Request, call[r] \in Calls,
           call[r].op \in {"post", "statement", "upload"}, local[r].target \in BatchId,
           local[r].drafted \in Nat, local[r].drafted <= Len(call[r].lines)
    PROVE  Draft(r) \subseteq Lines /\ IsFiniteSet(Draft(r))
<1>1. 1 .. local[r].drafted \subseteq DOMAIN call[r].lines
  BY CallFields
<1>2. Draft(r) \subseteq LinesOf(r, local[r].target)
  BY <1>1 DEF Draft, LinesOf
<1> QED
  BY <1>2, LinesOfType, FS_Subset

\* The entities that are saved are rows.
LEMMA EntitiesAreRows ==
    ASSUME TInv, NEW r \in Request, pc[r] # "idle", CopyNeeded(r)
    PROVE  /\ local[r].copy \in BatchRow /\ Totalled(r) \in BatchRow
           /\ call[r].op \in {"update", "remove"} => Amended(r) \in BatchRow
<1>1. local[r].copy \in BatchRow /\ local[r] \in Locals /\ call[r] \in Calls
  BY AtWork DEF HasCopy
<1>2. local[r].tally.total \in Int /\ local[r].tally.count \in Nat
  BY <1>1 DEF Locals
<1>3. ASSUME call[r].op \in {"update", "remove"} PROVE Amended(r) \in BatchRow
  <2>1. local[r].copy.period \in Period /\ local[r].copy.number \in Number
    BY <1>1 DEF BatchRow
  <2> QED
    BY <1>1, <1>3, <2>1, RowEdits DEF Amended, Chosen
<1> QED
  BY <1>1, <1>2, <1>3, RowEdits DEF Totalled

LEMMA FindTypes ==
    ASSUME TInv, NEW r \in Request, FindBatch(r)
    PROVE  TInv'
<1>1. call' = call /\ RowsOK' /\ EntriesOK' /\ locked' \subseteq Period
      /\ pc[r] = "finding" /\ local[r] \in Locals /\ call[r] \in Calls
      /\ Fits(call[r].op, "finding") /\ local[r].drafted = 0
  BY AtWork DEF FindBatch, TInv, TypeOK, RowsOK, EntriesOK, DraftFits
<1>2. CASE End(r, "failed")
  BY <1>1, <1>2, EndKeepsTypes
<1>3. CASE Goto(r, "creating") /\ UNCHANGED local /\ call[r].op = "statement"
  <2>1. ~ CopyNeeded(r)'
    BY <1>1, <1>3 DEF Goto, CopyNeeded, TInv, TypeOK
  <2> QED
    BY <1>1, <1>3, <2>1, GotoKeepsTypes DEF Fits, DraftFits, Labels
<1>4. ASSUME NEW label \in {"checking", "selecting"}, NEW b \in BatchId,
             ReadBatch(r, b, label), Present(b),
             Fits(call[r].op, label),
             call[r].op # "statement" => b = call[r].batch
      PROVE  TInv'
  <2> DEFINE mem == [local[r] EXCEPT !.target = b, !.copy = rows[b]]
  <2>1. rows[b] \in BatchRow
    BY <1>4 DEF Present, TInv, TypeOK
  <2>2. mem \in Locals
    BY <1>1, <2>1, LocalEdits
  <2>3. mem.copy = rows[b] /\ mem.target = b /\ mem.drafted = local[r].drafted
    BY <1>1, LocalFields
  <2>4. HasCopy(r, mem) /\ DraftFits(r, label, mem.drafted)
    BY <1>1, <1>4, <2>1, <2>3 DEF HasCopy, DraftFits
  <2>5. local' = [local EXCEPT ![r] = mem] /\ pc' = [pc EXCEPT ![r] = label]
    BY <1>4 DEF ReadBatch, Goto
  <2>6. label \in Labels /\ label # "idle" /\ pc[r] # "idle"
    BY <1>1, <1>4 DEF Labels
  <2> HIDE DEF mem
  <2> QED
    BY <1>1, <1>4, <2>2, <2>4, <2>5, <2>6, MoveKeepsTypes
<1>5. CASE call[r].op \in {"update", "remove", "post"}
  BY <1>1, <1>2, <1>4, <1>5, CallFields DEF FindBatch, Fits, Live
<1>6. CASE call[r].op = "upload"
  BY <1>1, <1>2, <1>4, <1>6, CallFields DEF FindBatch, Fits
<1>7. CASE call[r].op = "statement"
  BY <1>1, <1>3, <1>4, <1>7 DEF FindBatch, Fits
<1> QED
  BY <1>1, <1>5, <1>6, <1>7 DEF Fits

LEMMA ReadTypes ==
    ASSUME TInv, NEW r \in Request,
           CheckPeriod(r) \/ MatchNumber(r) \/ ValidateLines(r) \/ Compare(r)
    PROVE  TInv'
<1>1. CASE CheckPeriod(r)
  <2> USE <1>1
  <2>1. call' = call /\ RowsOK' /\ EntriesOK' /\ locked' \subseteq Period
        /\ pc[r] = "checking" /\ Fits(call[r].op, "checking") /\ local[r].drafted = 0
    BY AtWork DEF CheckPeriod, TInv, TypeOK, RowsOK, EntriesOK, DraftFits
  <2>2. CASE End(r, "failed")
    BY <2>1, <2>2, EndKeepsTypes
  <2>3. CASE Goto(r, AfterCheck(call[r].op)) /\ UNCHANGED local
    <3> DEFINE label == AfterCheck(call[r].op)
    <3>1. label \in Labels \ {"idle"} /\ Fits(call[r].op, label)
          /\ label \notin {"inserting", "comparing", "committing"}
      BY <2>1 DEF AfterCheck, Fits, Labels
    <3>2. CopyNeeded(r)' => CopyNeeded(r)
      BY <2>1, <2>3 DEF AfterCheck, Fits, Goto, CopyNeeded, TInv, TypeOK
    <3>3. DraftFits(r, label, local[r].drafted)
      BY <2>1, <3>1 DEF DraftFits
    <3> HIDE DEF label
    <3> QED
      BY <2>1, <2>3, <3>1, <3>2, <3>3, GotoKeepsTypes DEF label
  <2> QED
    BY <2>2, <2>3 DEF CheckPeriod
<1>2. CASE MatchNumber(r)
  <2> USE <1>2
  <2>1. call' = call /\ RowsOK' /\ EntriesOK' /\ locked' \subseteq Period
        /\ pc[r] = "matching" /\ Fits(call[r].op, "matching") /\ local[r].drafted = 0
    BY AtWork DEF MatchNumber, TInv, TypeOK, RowsOK, EntriesOK, DraftFits
  <2>2. CASE End(r, "failed")
    BY <2>1, <2>2, EndKeepsTypes
  <2>3. CASE Goto(r, "saving") /\ UNCHANGED local
    <3>1. Fits(call[r].op, "saving") /\ CopyNeeded(r)
      BY <2>1 DEF Fits, CopyNeeded
    <3> QED
      BY <2>1, <2>3, <3>1, GotoKeepsTypes DEF Labels, DraftFits
  <2> QED
    BY <2>2, <2>3 DEF MatchNumber
<1>3. CASE ValidateLines(r)
  <2> USE <1>3
  <2>1. call' = call /\ RowsOK' /\ EntriesOK' /\ locked' \subseteq Period
        /\ pc[r] = "validating" /\ Fits(call[r].op, "validating") /\ local[r].drafted = 0
    BY AtWork DEF ValidateLines, TInv, TypeOK, RowsOK, EntriesOK, DraftFits
  <2>2. CASE End(r, "failed")
    BY <2>1, <2>2, EndKeepsTypes
  <2>3. CASE Goto(r, "selecting") /\ UNCHANGED local
    <3>1. Fits(call[r].op, "selecting") /\ CopyNeeded(r)
      BY <2>1 DEF Fits, CopyNeeded
    <3> QED
      BY <2>1, <2>3, <3>1, GotoKeepsTypes DEF Labels, DraftFits
  <2> QED
    BY <2>2, <2>3 DEF ValidateLines
<1>4. CASE Compare(r)
  <2> DEFINE label == AfterCompare[pc[r]]
             mem == [local[r] EXCEPT !.seen = rows[local[r].target]]
  <2>1. call' = call /\ RowsOK' /\ EntriesOK' /\ locked' \subseteq Period
        /\ pc[r] \in {"saving", "resaving", "comparing", "finishing"} /\ pc[r] # "idle"
    BY <1>4, AtWork DEF Compare, AfterCompare, TInv, TypeOK, RowsOK, EntriesOK
  <2>2. /\ pc[r] = "saving" => label = "writing"
        /\ pc[r] = "resaving" => label = "rewriting"
        /\ pc[r] = "comparing" => label = "committing"
        /\ pc[r] = "finishing" => label = "closing"
    BY DEF AfterCompare
  <2>3. CopyNeeded(r)
    BY <2>1 DEF CopyNeeded
  <2>4. /\ Fits(call[r].op, pc[r]) /\ local[r] \in Locals /\ HasCopy(r, local[r])
        /\ DraftFits(r, pc[r], local[r].drafted)
    BY <2>1, <2>3, AtWork
  <2>5. rows[local[r].target] \in BatchRow \cup {Absent}
    BY <2>4 DEF HasCopy, TInv, TypeOK
  <2>6. mem \in Locals /\ mem.copy = local[r].copy /\ mem.target = local[r].target
        /\ mem.drafted = local[r].drafted
    <3>1. mem \in Locals
      BY <2>4, <2>5, LocalEdits
    <3> QED
      BY <2>4, <3>1 DEF Locals
  <2>7. HasCopy(r, mem)
    BY <2>4, <2>6 DEF HasCopy
  <2>8. label \in Labels /\ label # "idle" /\ Fits(call[r].op, label)
        /\ DraftFits(r, label, mem.drafted)
    BY <2>1, <2>2, <2>4, <2>6 DEF Labels, Fits, DraftFits
  <2>9. local' = [local EXCEPT ![r] = mem] /\ pc' = [pc EXCEPT ![r] = label]
    BY <1>4 DEF Compare, Goto
  <2> HIDE DEF label, mem
  <2> QED
    BY <2>1, <2>6, <2>7, <2>8, <2>9, MoveKeepsTypes
<1> QED
  BY <1>1, <1>2, <1>3, <1>4

LEMMA RowTypes ==
    ASSUME TInv, NEW r \in Request,
           CreateBatch(r) \/ CreateStatement(r) \/ SaveBatch(r) \/ ResaveStatement(r)
    PROVE  TInv'
<1>1. CASE CreateBatch(r)
  <2> USE <1>1
  <2>1. call' = call /\ EntriesOK' /\ locked' \subseteq Period
        /\ pc[r] = "creating" /\ call[r].period \in Period /\ RowsOK
    BY AtWork, CallFields DEF CreateBatch, EntriesOK
  <2>2. RowsOK'
    <3>1. CASE UNCHANGED rows
      BY <2>1, <3>1 DEF RowsOK
    <3>2. CASE ~ UNCHANGED rows
      <4>1. PICK n \in Number : rows' = [rows EXCEPT ![r] = Fresh(n, call[r].period)]
        BY <3>2 DEF CreateBatch
      <4>2. r \in BatchId
        BY DEF BatchId
      <4> QED
        BY <2>1, <4>1, <4>2, FreshBatchRow, RowWrite
    <3> QED
      BY <3>1, <3>2
  <2> QED
    BY <2>1, <2>2, EndKeepsTypes DEF CreateBatch
<1>2. CASE CreateStatement(r)
  <2> USE <1>2
  <2> DEFINE row == Fresh(call[r].number, StatementPeriod)
  <2>1. call' = call /\ EntriesOK' /\ locked' \subseteq Period
        /\ pc[r] = "creating" /\ call[r].op = "statement" /\ RowsOK
        /\ row \in BatchRow /\ local[r] \in Locals /\ r \in BatchId /\ local[r].drafted = 0
    BY AtWork, CallFields, FreshBatchRow, ConstantAssumption
       DEF CreateStatement, EntriesOK, BatchId, DraftFits
  <2> HIDE DEF row
  <2>2. CASE NumberUsed(call[r].number)
    <3>1. RowsOK' /\ End(r, "failed")
      BY <2>1, <2>2 DEF CreateStatement, RowsOK
    <3> QED
      BY <2>1, <3>1, EndKeepsTypes
  <2>3. CASE ~ NumberUsed(call[r].number)
    <3> DEFINE mem == [local[r] EXCEPT !.target = r, !.copy = row]
    <3>1. RowsOK'
      BY <2>1, <2>3, RowWrite DEF CreateStatement, row
    <3>2. mem \in Locals /\ HasCopy(r, mem) /\ DraftFits(r, "charting", mem.drafted)
      <4>1. mem \in Locals
        BY <2>1, LocalEdits
      <4>2. mem.copy = row /\ mem.target = r /\ mem.drafted = local[r].drafted
        BY <2>1, LocalFields
      <4> QED
        BY <2>1, <4>1, <4>2 DEF DraftFits, HasCopy
    <3>3. Fits(call[r].op, "charting")
      BY <2>1 DEF Fits
    <3>4. local' = [local EXCEPT ![r] = mem] /\ pc' = [pc EXCEPT ![r] = "charting"]
      BY <2>3 DEF CreateStatement, Goto, row
    <3> QED
      BY <2>1, <2>3, <3>1, <3>2, <3>3, <3>4, MoveKeepsTypes DEF Labels
  <2> QED
    BY <2>2, <2>3
<1>3. CASE SaveBatch(r)
  <2> USE <1>3
  <2>1. call' = call /\ EntriesOK' /\ locked' \subseteq Period
        /\ pc[r] = "writing" /\ call[r].op \in {"update", "remove"} /\ RowsOK
        /\ local[r] \in Locals /\ HasCopy(r, local[r]) /\ CopyNeeded(r)
    BY AtWork DEF SaveBatch, Fits, CopyNeeded, EntriesOK
  <2>2. Amended(r) \in BatchRow
    BY <2>1, EntitiesAreRows
  <2>3. RowsOK'
    BY <2>1, <2>2, SaveTypes DEF SaveBatch, SaveEntity, HasCopy
  <2> QED
    BY <2>1, <2>3, EndKeepsTypes DEF SaveBatch
<1>4. CASE ResaveStatement(r)
  <2> USE <1>4
  <2>1. call' = call /\ EntriesOK' /\ locked' \subseteq Period
        /\ pc[r] = "rewriting" /\ call[r].op = "statement" /\ RowsOK
        /\ local[r] \in Locals /\ HasCopy(r, local[r]) /\ CopyNeeded(r) /\ local[r].drafted = 0
    BY AtWork DEF ResaveStatement, Fits, CopyNeeded, EntriesOK, DraftFits
  <2>2. RowsOK'
    BY <2>1, SaveTypes DEF ResaveStatement, SaveEntity, HasCopy
  <2>3. CASE End(r, "failed")
    BY <2>1, <2>2, <2>3, EndKeepsTypes
  <2>4. CASE Goto(r, "charting") /\ UNCHANGED local
    BY <2>1, <2>2, <2>4, GotoKeepsTypes DEF Labels, Fits, DraftFits
  <2> QED
    BY <2>3, <2>4 DEF ResaveStatement
<1> QED
  BY <1>1, <1>2, <1>3, <1>4

LEMMA DeleteTypes ==
    ASSUME TInv, NEW r \in Request, SelectLines(r) \/ DeleteLines(r)
    PROVE  TInv'
<1>1. CASE SelectLines(r)
  <2> DEFINE mem == [local[r] EXCEPT !.doomed = Victims(r)]
  <2>1. call' = call /\ RowsOK' /\ EntriesOK' /\ locked' \subseteq Period
        /\ pc[r] = "selecting" /\ EntriesOK /\ Fits(call[r].op, "selecting")
        /\ local[r] \in Locals /\ local[r].drafted = 0
    BY <1>1, AtWork DEF SelectLines, TInv, TypeOK, RowsOK, EntriesOK, DraftFits
  <2>2. Victims(r) \in SUBSET Lines
    BY <2>1 DEF Victims, EntriesOK
  <2>3. mem \in Locals /\ mem.copy = local[r].copy /\ mem.target = local[r].target
        /\ mem.drafted = local[r].drafted
    <3>1. mem \in Locals
      BY <2>1, <2>2, LocalEdits
    <3> QED
      BY <2>1, <3>1 DEF Locals
  <2>4. Fits(call[r].op, "deleting") /\ (CopyNeeded(r)' => CopyNeeded(r))
    BY <1>1, <2>1 DEF Fits, CopyNeeded, SelectLines, Goto, TInv, TypeOK
  <2>5. CopyNeeded(r)' => HasCopy(r, mem)
    BY <2>1, <2>3, <2>4, AtWork DEF HasCopy
  <2>6. DraftFits(r, "deleting", mem.drafted)
    BY <2>1, <2>3 DEF DraftFits
  <2>7. local' = [local EXCEPT ![r] = mem] /\ pc' = [pc EXCEPT ![r] = "deleting"]
    BY <1>1 DEF SelectLines, Goto
  <2> HIDE DEF mem
  <2> QED
    BY <2>1, <2>3, <2>4, <2>5, <2>6, <2>7, MoveKeepsTypes DEF Labels
<1>2. CASE DeleteLines(r)
  <2> USE <1>2
  <2> DEFINE op == call[r].op
             label == IF op = "post" THEN "inserting" ELSE AfterDelete(op)
             left == IF op = "post" THEN local[r].doomed \cap entries ELSE {}
             mem == [local[r] EXCEPT !.doomed = left]
  <2>1. call' = call /\ RowsOK' /\ EntriesOK' /\ locked' \subseteq Period
        /\ pc[r] = "deleting" /\ local[r] \in Locals /\ Fits(op, "deleting")
        /\ local[r].drafted = 0
    BY AtWork, EntriesFewer DEF DeleteLines, TInv, TypeOK, RowsOK, EntriesOK, DraftFits
  <2>2. left \in SUBSET Lines
    BY <2>1 DEF Locals
  <2>3. mem \in Locals /\ mem.copy = local[r].copy /\ mem.target = local[r].target
        /\ mem.drafted = local[r].drafted
    <3>1. mem \in Locals
      BY <2>1, <2>2, LocalEdits
    <3> QED
      BY <2>1, <3>1 DEF Locals
  <2>4. op \in {"post", "statement", "upload", "drop"}
    BY <2>1 DEF Fits
  <2>5. Fits(op, label) /\ label \in Labels \ {"idle"}
        /\ (label = "dropping" <=> op = "drop") /\ (label = "inserting" => op = "post")
        /\ label \notin {"comparing", "committing", "checking"}
    BY <2>4 DEF Fits, AfterDelete, Labels
  <2>6. local' = [local EXCEPT ![r] = mem] /\ pc' = [pc EXCEPT ![r] = label]
    BY <2>1 DEF DeleteLines, Goto, TInv, TypeOK
  <2>7. CopyNeeded(r)' => CopyNeeded(r)
    BY <2>1, <2>4, <2>5, <2>6 DEF CopyNeeded, TInv, TypeOK
  <2>8. CopyNeeded(r)' => HasCopy(r, mem)
    BY <2>1, <2>3, <2>7, AtWork DEF HasCopy
  <2>9. DraftFits(r, label, mem.drafted)
    <3>1. label = "inserting" => Len(call[r].lines) \in Nat
      BY <2>1, <2>5, AtWork
    <3> QED
      BY <2>1, <2>3, <2>5, <3>1 DEF DraftFits
  <2> HIDE DEF mem, left, label
  <2> QED
    BY <2>1, <2>3, <2>5, <2>6, <2>8, <2>9, MoveKeepsTypes
<1> QED
  BY <1>1, <1>2

LEMMA PostingTypes ==
    ASSUME TInv, NEW r \in Request,
           InsertLine(r) \/ TallyBatch(r) \/ CommitPosting(r)
    PROVE  TInv'
<1>1. CASE InsertLine(r)
  <2> USE <1>1
  <2>1. call' = call /\ RowsOK' /\ EntriesOK' /\ locked' \subseteq Period
        /\ pc[r] = "inserting" /\ local[r] \in Locals /\ HasCopy(r, local[r])
        /\ Fits(call[r].op, pc[r]) /\ local[r].drafted \in Nat
    BY AtWork DEF InsertLine, TInv, TypeOK, RowsOK, EntriesOK, CopyNeeded
  <2>2. CASE End(r, "failed")
    BY <2>1, <2>2, EndKeepsTypes
  <2>3. CASE local' = [local EXCEPT ![r].drafted = @ + 1] /\ UNCHANGED pc
    <3> DEFINE mem == [local[r] EXCEPT !.drafted = local[r].drafted + 1]
    <3>1. mem \in Locals
      <4>1. local[r].drafted + 1 \in Nat
        BY <2>1
      <4>2. \A n \in Nat : [local[r] EXCEPT !.drafted = n] \in Locals
        BY <2>1, LocalEdits
      <4> QED
        BY <4>1, <4>2
    <3>2. mem.copy = local[r].copy /\ mem.target = local[r].target
          /\ mem.drafted = local[r].drafted + 1
      BY <2>1 DEF Locals
    <3>3. DraftFits(r, "inserting", mem.drafted)
      <4>1. Len(call[r].lines) \in Nat /\ local[r].drafted < Len(call[r].lines)
        BY <2>1, AtWork DEF Fits, InsertLine
      <4>2. local[r].drafted + 1 <= Len(call[r].lines)
        BY <2>1, <4>1
      <4> QED
        BY <3>2, <4>2 DEF DraftFits
    <3>4. pc' = [pc EXCEPT ![r] = "inserting"]
      BY <2>1, <2>3 DEF TInv, TypeOK
    <3>5. local' = [local EXCEPT ![r] = mem]
      BY <2>3
    <3>6. HasCopy(r, mem)
      BY <2>1, <3>2 DEF HasCopy
    <3>7. ~ (pc[r] = "idle") /\ Fits(call[r].op, "inserting")
      BY <2>1
    <3> HIDE DEF mem
    <3> QED
      BY <2>1, <3>1, <3>3, <3>4, <3>5, <3>6, <3>7, MoveKeepsTypes DEF Labels
  <2> QED
    BY <2>2, <2>3 DEF InsertLine
<1>2. CASE TallyBatch(r)
  <2> USE <1>2
  <2> DEFINE S == EntriesOf(call[r].batch, (entries \ local[r].doomed) \cup Draft(r))
             t == TotalsOf(S)
             mem == [local[r] EXCEPT !.tally = t]
  <2>1. call' = call /\ RowsOK' /\ EntriesOK' /\ locked' \subseteq Period
        /\ pc[r] = "inserting" /\ local[r] \in Locals /\ HasCopy(r, local[r])
        /\ call[r].op = "post" /\ call[r] \in Calls /\ local[r].drafted \in Nat
        /\ Len(call[r].lines) \in Nat /\ local[r].drafted = Len(call[r].lines)
    BY AtWork DEF TallyBatch, TInv, TypeOK, RowsOK, EntriesOK, CopyNeeded, Fits
  <2>2. local' = [local EXCEPT ![r] = mem] /\ pc' = [pc EXCEPT ![r] = "comparing"]
    BY DEF TallyBatch, Goto
  <2>3. t \in [total : Int, count : Nat]
    <3>1. Draft(r) \subseteq Lines /\ IsFiniteSet(Draft(r))
      BY <2>1, DraftType DEF HasCopy
    <3>2. S \subseteq entries \cup Draft(r)
      BY DEF EntriesOf
    <3>3. IsFiniteSet(entries \cup Draft(r)) /\ entries \cup Draft(r) \subseteq Lines
      BY <2>1, <3>1, AtWork, FS_Union DEF EntriesOK
    <3> HIDE DEF S
    <3> QED
      BY <3>2, <3>3, FS_Subset, TotalsType
  <2> HIDE DEF t
  <2>4. mem \in Locals
    BY <2>1, <2>3, LocalEdits
  <2>5. mem.copy = local[r].copy /\ mem.target = local[r].target
        /\ mem.drafted = local[r].drafted
    BY <2>1 DEF Locals
  <2>6. DraftFits(r, "comparing", mem.drafted) /\ HasCopy(r, mem)
    BY <2>1, <2>5 DEF DraftFits, HasCopy
  <2> HIDE DEF mem
  <2> QED
    BY <2>1, <2>2, <2>4, <2>6, MoveKeepsTypes DEF Labels, Fits
<1>3. CASE CommitPosting(r)
  <2> USE <1>3
  <2>1. call' = call /\ locked' \subseteq Period /\ pc[r] = "committing" /\ RowsOK /\ EntriesOK
        /\ local[r] \in Locals /\ HasCopy(r, local[r]) /\ CopyNeeded(r)
        /\ call[r].op = "post" /\ call[r] \in Calls /\ local[r].drafted \in Nat
        /\ local[r].drafted <= Len(call[r].lines)
    BY AtWork DEF CommitPosting, TInv, TypeOK, CopyNeeded, Fits, DraftFits
  <2>2. Totalled(r) \in BatchRow
    BY <2>1, EntitiesAreRows
  <2>3. RowsOK'
    BY <2>1, <2>2, SaveTypes DEF CommitPosting, SaveEntity, HasCopy
  <2>4. Draft(r) \subseteq Lines /\ IsFiniteSet(Draft(r))
    BY <2>1, DraftType DEF HasCopy
  <2>5. entries' \subseteq entries \cup Draft(r)
    BY DEF CommitPosting
  <2>6. EntriesOK'
    BY <2>1, <2>4, <2>5, EntriesWrite
  <2> QED
    BY <2>1, <2>3, <2>6, EndKeepsTypes DEF CommitPosting
<1> QED
  BY <1>1, <1>2, <1>3

LEMMA StatementTypes ==
    ASSUME TInv, NEW r \in Request,
           ChartAccounts(r) \/ FillBatch(r) \/ FinishBatch(r) \/ DropStatements(r) \/ Abort(r)
    PROVE  TInv'
<1>1. CASE ChartAccounts(r)
  <2> USE <1>1
  <2>1. call' = call /\ RowsOK' /\ EntriesOK' /\ locked' \subseteq Period
        /\ pc[r] = "charting" /\ call[r].op \in {"statement", "upload"} /\ CopyNeeded(r)
        /\ local[r].drafted = 0
    BY AtWork DEF ChartAccounts, TInv, TypeOK, RowsOK, EntriesOK, Fits, CopyNeeded, DraftFits
  <2>2. CASE End(r, "failed")
    BY <2>1, <2>2, EndKeepsTypes
  <2>3. CASE Goto(r, "filling") /\ UNCHANGED local
    BY <2>1, <2>3, GotoKeepsTypes DEF Labels, Fits, DraftFits
  <2> QED
    BY <2>2, <2>3 DEF ChartAccounts
<1>2. CASE FillBatch(r)
  <2> USE <1>2
  <2> DEFINE b == local[r].target
             t == [total |-> Cents(Debits(call[r].lines)), count |-> 1]
             mem == [local[r] EXCEPT !.tally = t]
  <2>1. call' = call /\ RowsOK' /\ locked' \subseteq Period /\ call[r] \in Calls
        /\ pc[r] = "filling" /\ call[r].op \in {"statement", "upload"} /\ CopyNeeded(r)
        /\ local[r] \in Locals /\ HasCopy(r, local[r]) /\ EntriesOK /\ local[r].drafted = 0
        /\ call[r].lines \in Seq(Amounts)
    BY AtWork
       DEF FillBatch, TInv, TypeOK, RowsOK, EntriesOK, Fits, CopyNeeded, DraftFits
  <2>2. EntriesOK'
    <3>1. LinesOf(r, b) \subseteq Lines /\ IsFiniteSet(LinesOf(r, b))
      BY <2>1, LinesOfType DEF HasCopy
    <3>2. entries' \subseteq entries \cup LinesOf(r, b)
      BY DEF FillBatch
    <3> QED
      BY <2>1, <3>1, <3>2, EntriesWrite
  <2>3. CASE End(r, "failed")
    BY <2>1, <2>2, <2>3, EndKeepsTypes
  <2>4. CASE local' = [local EXCEPT ![r].tally = t] /\ Goto(r, "finishing")
    <3>1. t \in [total : Int, count : Nat]
      BY <2>1, SumsType
    <3> HIDE DEF t
    <3>2. mem \in Locals
      BY <2>1, <3>1, LocalEdits
    <3>3. mem.copy = local[r].copy /\ mem.target = local[r].target
          /\ mem.drafted = local[r].drafted
      BY <2>1 DEF Locals
    <3>4. DraftFits(r, "finishing", mem.drafted) /\ HasCopy(r, mem)
      BY <2>1, <3>3 DEF DraftFits, HasCopy
    <3>5. local' = [local EXCEPT ![r] = mem] /\ pc' = [pc EXCEPT ![r] = "finishing"]
      BY <2>4 DEF Goto
    <3>6. Fits(call[r].op, "finishing")
      BY <2>1 DEF Fits
    <3> HIDE DEF mem
    <3> QED
      BY <2>1, <2>2, <3>2, <3>4, <3>5, <3>6, MoveKeepsTypes DEF Labels
  <2> QED
    BY <2>3, <2>4 DEF FillBatch
<1>3. CASE FinishBatch(r)
  <2> USE <1>3
  <2>1. call' = call /\ EntriesOK' /\ locked' \subseteq Period /\ RowsOK
        /\ pc[r] = "closing" /\ local[r] \in Locals /\ HasCopy(r, local[r]) /\ CopyNeeded(r)
    BY AtWork DEF FinishBatch, CopyNeeded, EntriesOK
  <2>2. Totalled(r) \in BatchRow
    BY <2>1, EntitiesAreRows
  <2>3. RowsOK'
    BY <2>1, <2>2, SaveTypes DEF FinishBatch, SaveEntity, HasCopy
  <2> QED
    BY <2>1, <2>3, EndKeepsTypes DEF FinishBatch
<1>4. CASE DropStatements(r)
  <2>1. call' = call /\ RowsOK' /\ EntriesOK' /\ locked' \subseteq Period
        /\ pc[r] = "dropping"
    BY <1>4, AtWork, EntriesFewer DEF DropStatements, TInv, TypeOK, RowsOK, EntriesOK
  <2> QED
    BY <1>4, <2>1, EndKeepsTypes DEF DropStatements
<1>5. CASE Abort(r)
  <2>1. call' = call /\ RowsOK' /\ EntriesOK' /\ locked' \subseteq Period
        /\ pc[r] # "idle"
    BY <1>5 DEF Abort, Active, TInv, TypeOK, RowsOK, EntriesOK
  <2> QED
    BY <1>5, <2>1, EndKeepsTypes DEF Abort
<1> QED
  BY <1>1, <1>2, <1>3, <1>4, <1>5

LEMMA NextTypes == TInv /\ [Next]_vars => TInv'
<1> SUFFICES ASSUME TInv, [Next]_vars PROVE TInv'
  OBVIOUS
<1>1. ASSUME NEW r \in Request, NEW c \in Exercised, Arrive(r, c) PROVE TInv'
  BY <1>1, ArriveTypes
<1>2. ASSUME NEW r \in Request, Step(r) PROVE TInv'
  BY <1>2, FindTypes, ReadTypes, RowTypes, DeleteTypes, PostingTypes, StatementTypes DEF Step
<1>3. ASSUME NEW r \in Request, Abort(r) PROVE TInv'
  BY <1>3, StatementTypes
<1>4. ASSUME NEW p \in Period, LockPeriod(p) PROVE TInv'
  BY <1>4
     DEF LockPeriod, TInv, TypeOK, CallFits, CopyFits, CopyNeeded, HasCopy, DraftsFit, DraftFits
<1>5. ASSUME NEW p \in Period, UnlockPeriod(p) PROVE TInv'
  BY <1>5, UnlockTypes
<1>6. CASE UNCHANGED vars
  BY <1>6
     DEF vars, TInv, TypeOK, CallFits, CopyFits, CopyNeeded, HasCopy, DraftsFit, DraftFits
<1> QED
  BY <1>1, <1>2, <1>3, <1>4, <1>5, <1>6 DEF Next

LEMMA TInvAlways == Spec => []TInv
BY InitTypes, NextTypes, PTL DEF Spec

\* In every state of every instance the ledger's variables have their types.
THEOREM TypeCorrect == Spec => []TypeOK
<1>1. TInv => TypeOK
  BY DEF TInv
<1> QED
  BY <1>1, TInvAlways, PTL

----------------------------------------------------------------------------
(* Postings are whole.  The ledger and every set of lines a DELETE holds    *)
(* consist of complete postings of requests that have written their lines;  *)
(* statements select, keep or remove lines by batch and entry number, which *)
(* all lines of a posting share.                                            *)

Landed(r) ==
    /\ pc[r] \in {"finishing", "closing", "done", "failed"}
    /\ call[r].op \in {"post", "statement", "upload"}

Whole(S) ==
    \A e \in S : /\ e.post \in Request /\ e \in LinesOf(e.post, e.batch)
                 /\ LinesOf(e.post, e.batch) \subseteq S

AllLanded(S) == \A e \in S : Landed(e.post)

Single(S) == \A e, f \in S : e.post = f.post => e.batch = f.batch

WInv ==
    /\ Whole(entries) /\ AllLanded(entries) /\ Single(entries)
    /\ \A q \in Request : Whole(local[q].doomed) /\ AllLanded(local[q].doomed)

LEMMA LineFields ==
    ASSUME NEW r, NEW b, NEW e \in LinesOf(r, b)
    PROVE  e.post = r /\ e.batch = b /\ e.je = JeOf(r)
BY DEF LinesOf, Line

LEMMA WholeClosed ==
    ASSUME NEW S, NEW T, Whole(S), Whole(T)
    PROVE  /\ Whole(S \ T)
           /\ Whole(S \cap T)
           /\ Whole(S \cup T)
<1>1. \A e \in S, f \in T : e \in LinesOf(f.post, f.batch) => e.post = f.post /\ e.batch = f.batch
  BY LineFields
<1>2. Whole(S \ T)
  <2> SUFFICES ASSUME NEW e \in S \ T, NEW f \in LinesOf(e.post, e.batch) PROVE f \notin T
    BY DEF Whole
  <2>1. f.post = e.post /\ f.batch = e.batch
    BY LineFields
  <2> QED
    BY <2>1 DEF Whole
<1> QED
  BY <1>2 DEF Whole

LEMMA WholeLines == \A r \in Request : \A b : Whole(LinesOf(r, b))
<1> SUFFICES ASSUME NEW r \in Request, NEW b, NEW e \in LinesOf(r, b)
             PROVE  e.post \in Request /\ e \in LinesOf(e.post, e.batch)
                    /\ LinesOf(e.post, e.batch) \subseteq LinesOf(r, b)
  BY DEF Whole
<1>1. e.post = r /\ e.batch = b
  BY LineFields
<1> QED
  BY <1>1

\* A selection by batch and entry number takes postings whole.
LEMMA WholeSelection ==
    ASSUME NEW S, NEW T, Whole(S), T \subseteq S,
           \A e \in T, f \in S : e.batch = f.batch /\ e.je = f.je => f \in T
    PROVE  Whole(T)
<1> SUFFICES ASSUME NEW e \in T, NEW f \in LinesOf(e.post, e.batch) PROVE f \in T
  BY DEF Whole
<1>1. e \in LinesOf(e.post, e.batch) /\ LinesOf(e.post, e.batch) \subseteq S
  BY DEF Whole
<1>2. f \in S /\ f.batch = e.batch /\ f.je = JeOf(e.post)
  BY <1>1, LineFields
<1>3. e.je = JeOf(e.post)
  BY <1>1, LineFields
<1> QED
  BY <1>2, <1>3

LEMMA WholeVictims ==
    ASSUME NEW r \in Request, Whole(entries)
    PROVE  Whole(Victims(r)) /\ Victims(r) \subseteq entries
<1>1. Victims(r) \subseteq entries
  BY DEF Victims
<1>2. \A e \in Victims(r), f \in entries :
          e.batch = f.batch /\ e.je = f.je => f \in Victims(r)
  BY DEF Victims
<1> HIDE DEF Victims
<1> QED
  BY <1>1, <1>2, WholeSelection

\* A step of one request leaves the others where they are, with what they hold.
LEMMA PcFrame ==
    ASSUME TInv, NEW r \in Request, NEW q \in Request \ {r}, Step(r) \/ Abort(r)
    PROVE  pc'[q] = pc[q] /\ local'[q] = local[q]
<1>8. FindBatch(r) => call[r].op \in {"update", "remove", "post", "statement", "upload"}
  BY AtWork DEF FindBatch, Fits
<1> USE DEF TInv, TypeOK, Goto, End
<1>1. CASE FindBatch(r)
  BY <1>1, <1>8 DEF FindBatch, ReadBatch
<1>2. CASE CheckPeriod(r) \/ MatchNumber(r) \/ ValidateLines(r) \/ ChartAccounts(r)
  BY <1>2 DEF CheckPeriod, MatchNumber, ValidateLines, ChartAccounts
<1>3. CASE CreateBatch(r) \/ CreateStatement(r) \/ SaveBatch(r) \/ ResaveStatement(r)
  BY <1>3 DEF CreateBatch, CreateStatement, SaveBatch, ResaveStatement
<1>4. CASE SelectLines(r) \/ DeleteLines(r)
  BY <1>4 DEF SelectLines, DeleteLines
<1>5. CASE InsertLine(r) \/ TallyBatch(r) \/ CommitPosting(r)
  BY <1>5 DEF InsertLine, TallyBatch, CommitPosting
<1>6. CASE FillBatch(r) \/ FinishBatch(r) \/ DropStatements(r) \/ Abort(r)
  BY <1>6 DEF FillBatch, FinishBatch, DropStatements, Abort
<1>7. CASE Compare(r)
  BY <1>7 DEF Compare
<1> QED
  BY <1>1, <1>2, <1>3, <1>4, <1>5, <1>6, <1>7 DEF Step

\* What a request asked for stays once it has arrived, and so do its lines.
LEMMA CallFrame ==
    ASSUME NEW r \in Request, Step(r) \/ Abort(r)
    PROVE  call' = call /\ locked' = locked /\ Active(r)
BY DEF Step, Abort, FindBatch, CheckPeriod, MatchNumber, ValidateLines, CreateBatch,
   CreateStatement, Compare, AfterCompare, SaveBatch, SelectLines, DeleteLines, InsertLine,
   TallyBatch, CommitPosting, ResaveStatement, ChartAccounts, FillBatch, FinishBatch,
   DropStatements, Active

\* What becomes of a request after its lines are in.
LEMMA LandedMoves ==
    ASSUME TInv, NEW r \in Request, Step(r) \/ Abort(r), Landed(r)
    PROVE  pc'[r] \in {"closing", "done", "failed"}
<1> USE DEF TInv, TypeOK, Goto, End
<1>1. pc[r] \in {"finishing", "closing", "done", "failed"}
  BY DEF Landed
<1>2. CASE Compare(r)
  BY <1>1, <1>2 DEF Compare, AfterCompare
<1>3. CASE FinishBatch(r) \/ Abort(r)
  BY <1>3 DEF FinishBatch, Abort
<1> QED
  BY <1>1, <1>2, <1>3
     DEF Step, FindBatch, CheckPeriod, MatchNumber, ValidateLines, CreateBatch,
         CreateStatement, SaveBatch, SelectLines, DeleteLines, InsertLine, TallyBatch,
         CommitPosting, ResaveStatement, ChartAccounts, FillBatch, DropStatements

\* Requests that have landed stay so, and what they asked for stays too.
LEMMA LandedStays ==
    ASSUME TInv, Next, NEW q \in Request, Landed(q)
    PROVE  Landed(q)' /\ call'[q] = call[q]
<1>1. ASSUME NEW r \in Request, NEW c \in Exercised, Arrive(r, c)
      PROVE  Landed(q)' /\ call'[q] = call[q]
  BY <1>1 DEF Arrive, Goto, Landed, TInv, TypeOK
<1>2. ASSUME NEW r \in Request, Step(r) \/ Abort(r)
      PROVE  Landed(q)' /\ call'[q] = call[q]
  <2>1. call' = call
    BY <1>2, CallFrame
  <2>2. CASE q = r
    BY <1>2, <2>1, <2>2, LandedMoves DEF Landed
  <2>3. CASE q # r
    <3>1. pc'[q] = pc[q]
      BY <1>2, <2>3, PcFrame
    <3> QED
      BY <2>1, <3>1 DEF Landed
  <2> QED
    BY <2>2, <2>3
<1>3. ASSUME NEW p \in Period, LockPeriod(p) \/ UnlockPeriod(p)
      PROVE  Landed(q)' /\ call'[q] = call[q]
  BY <1>3 DEF LockPeriod, UnlockPeriod, Landed
<1> QED
  BY <1>1, <1>2, <1>3 DEF Next

LEMMA SameLines ==
    ASSUME NEW q \in Request, call'[q] = call[q]
    PROVE  \A b : LinesOf(q, b)' = LinesOf(q, b)
BY DEF LinesOf, Line, JeOf

\* A complete set of landed postings stays one.
LEMMA WholeStays ==
    ASSUME TInv, Next, NEW S, Whole(S), AllLanded(S)
    PROVE  \A e \in S : /\ e.post \in Request /\ Landed(e.post)'
                        /\ call'[e.post] = call[e.post]
BY LandedStays DEF Whole, AllLanded

\* The lines a transaction writes are those of its voucher.
LEMMA DraftIsWhole ==
    ASSUME TInv, NEW r \in Request, pc[r] \in {"comparing", "committing"}
    PROVE  Draft(r) = LinesOf(r, local[r].target) /\ call[r].op = "post"
<1>1. call[r].op = "post" /\ call[r].lines \in Seq(Amounts)
      /\ local[r].drafted = Len(call[r].lines)
  BY AtWork DEF Fits, DraftFits
<1> QED
  BY <1>1 DEF Draft, LinesOf

\* Lines of a request that had none make no posting straddle two batches.
LEMMA SingleWithLines ==
    ASSUME NEW r \in Request, NEW b, NEW S, NEW T, Single(S), AllLanded(S), ~ Landed(r),
           T \subseteq S \cup LinesOf(r, b)
    PROVE  Single(T)
<1> SUFFICES ASSUME NEW e \in T, NEW f \in T, e.post = f.post PROVE e.batch = f.batch
  BY DEF Single
<1>1. \A x \in S : x.post # r
  BY DEF AllLanded
<1>2. \A x \in LinesOf(r, b) : x.post = r /\ x.batch = b
  BY LineFields
<1> QED
  BY <1>1, <1>2 DEF Single

\* What a step does to the ledger and to the lines requests hold.
LEMMA LedgerSteps ==
    ASSUME TInv, WInv, NEW r \in Request, Step(r) \/ Abort(r)
    PROVE  /\ Whole(entries') /\ Single(entries')
           /\ \/ AllLanded(entries')
              \/ \E b : entries' \subseteq entries \cup LinesOf(r, b) /\ Landed(r)'
           /\ Whole(local'[r].doomed) /\ AllLanded(local'[r].doomed)
<1>1. /\ Whole(entries) /\ AllLanded(entries) /\ Single(entries)
      /\ Whole(local[r].doomed) /\ AllLanded(local[r].doomed)
  BY DEF WInv
<1>2. Whole({}) /\ AllLanded({}) /\ Forgotten.doomed = {}
  BY DEF Whole, AllLanded, Forgotten
<1>3. CASE Abort(r)
  BY <1>1, <1>2, <1>3 DEF Abort, End, TInv, TypeOK
<1>4. CASE SelectLines(r)
  <2>1. Whole(Victims(r)) /\ AllLanded(Victims(r))
    BY <1>1, WholeVictims DEF AllLanded
  <2>2. entries' = entries /\ local'[r].doomed = Victims(r)
    BY <1>4 DEF SelectLines, TInv, TypeOK, Locals
  <2> QED
    BY <1>1, <2>1, <2>2
<1>5. CASE DeleteLines(r)
  <2>1. Whole(local[r].doomed \cap entries) /\ AllLanded(local[r].doomed \cap entries)
        /\ Whole(entries \ local[r].doomed) /\ AllLanded(entries \ local[r].doomed)
    BY <1>1, WholeClosed DEF AllLanded
  <2>2. CASE call[r].op = "post"
    <3>1. entries' = entries /\ local'[r].doomed = local[r].doomed \cap entries
      BY <1>5, <2>2 DEF DeleteLines, TInv, TypeOK, Locals
    <3> QED
      BY <1>1, <2>1, <3>1
  <2>3. CASE call[r].op # "post"
    <3>1. entries' = entries \ local[r].doomed /\ local'[r].doomed = {}
      BY <1>5, <2>3 DEF DeleteLines, TInv, TypeOK, Locals
    <3> QED
      BY <1>1, <1>2, <2>1, <3>1 DEF Single
  <2> QED
    BY <2>2, <2>3
<1>6. CASE CommitPosting(r)
  <2> DEFINE b == local[r].target
  <2>1. Draft(r) = LinesOf(r, b) /\ call[r].op = "post" /\ ~ Landed(r)
    BY <1>6, DraftIsWhole DEF CommitPosting, Landed
  <2>2. CASE End(r, "failed") /\ entries' = entries
    BY <1>1, <1>2, <2>2 DEF End, TInv, TypeOK
  <2>3. CASE End(r, "done") /\ entries' = (entries \ local[r].doomed) \cup Draft(r)
    <3>1. entries' = (entries \ local[r].doomed) \cup LinesOf(r, b)
      BY <2>1, <2>3
    <3>2. Whole(entries')
      BY <1>1, <3>1, WholeClosed, WholeLines
    <3>3. Landed(r)' /\ local'[r].doomed = {}
      BY <1>2, <1>6, <2>1, <2>3 DEF CommitPosting, End, Goto, Landed, TInv, TypeOK
    <3>4. Single(entries')
      BY <1>1, <2>1, <3>1, SingleWithLines
    <3> QED
      BY <1>2, <3>1, <3>2, <3>3, <3>4
  <2> QED
    BY <1>6, <2>2, <2>3 DEF CommitPosting
<1>7. CASE FillBatch(r)
  <2> DEFINE b == local[r].target
  <2>1. call[r].op \in {"statement", "upload"} /\ ~ Landed(r)
    BY <1>7, AtWork DEF FillBatch, Fits, Landed
  <2>2. CASE UNCHANGED entries /\ End(r, "failed")
    BY <1>1, <1>2, <2>2 DEF End, TInv, TypeOK
  <2>3. CASE entries' = entries \cup LinesOf(r, b) /\ Goto(r, "finishing")
    <3>1. Landed(r)'
      BY <1>7, <2>1, <2>3 DEF FillBatch, Goto, Landed, TInv, TypeOK
    <3>2. Whole(entries')
      BY <1>1, <2>3, WholeClosed, WholeLines
    <3>3. local'[r].doomed = local[r].doomed
      BY <1>7, <2>3 DEF FillBatch, End, Goto, TInv, TypeOK, Locals
    <3>4. Single(entries')
      BY <1>1, <2>1, <2>3, SingleWithLines
    <3> QED
      BY <1>1, <2>3, <3>1, <3>2, <3>3, <3>4
  <2> QED
    BY <1>7, <2>2, <2>3 DEF FillBatch
<1>8. CASE DropStatements(r)
  <2> DEFINE kept == {e \in entries : ~ OfStatement(e.batch)}
  <2>1. \A e \in kept, f \in entries : e.batch = f.batch /\ e.je = f.je => f \in kept
    OBVIOUS
  <2>2. kept \subseteq entries
    OBVIOUS
  <2>3. entries' = kept /\ local'[r].doomed = {}
    BY <1>2, <1>8 DEF DropStatements, End, TInv, TypeOK
  <2> HIDE DEF kept
  <2>4. Whole(kept) /\ AllLanded(kept) /\ Single(kept)
    BY <1>1, <2>1, <2>2, WholeSelection DEF AllLanded, Single
  <2> QED
    BY <1>2, <2>3, <2>4
<1>9. CASE FindBatch(r) \/ CheckPeriod(r) \/ MatchNumber(r) \/ ValidateLines(r)
           \/ CreateBatch(r) \/ CreateStatement(r) \/ Compare(r) \/ SaveBatch(r)
           \/ InsertLine(r) \/ TallyBatch(r)
           \/ ResaveStatement(r) \/ ChartAccounts(r) \/ FinishBatch(r)
  <2>1. entries' = entries
    BY <1>9 DEF FindBatch, CheckPeriod, MatchNumber, ValidateLines, CreateBatch,
       CreateStatement, Compare, SaveBatch, InsertLine, TallyBatch, ResaveStatement,
       ChartAccounts, FinishBatch
  <2>2. local'[r].doomed \in {local[r].doomed, {}}
    <3> USE <1>2 DEF TInv, TypeOK, Locals, End
    <3>1. CASE FindBatch(r)
      <4>1. call[r].op \in {"update", "remove", "post", "statement", "upload"}
        BY <3>1, AtWork DEF FindBatch, Fits
      <4>2. CASE End(r, "failed")
        BY <4>2
      <4>3. ASSUME NEW label, NEW b, ReadBatch(r, b, label)
            PROVE  local'[r].doomed = local[r].doomed
        BY <4>3, LocalFields DEF ReadBatch
      <4> QED
        BY <3>1, <4>1, <4>2, <4>3 DEF FindBatch
    <3>2. CASE CheckPeriod(r) \/ MatchNumber(r) \/ ValidateLines(r) \/ ChartAccounts(r)
               \/ FinishBatch(r)
      BY <3>2 DEF CheckPeriod, MatchNumber, ValidateLines, ChartAccounts, FinishBatch
    <3>3. CASE CreateBatch(r) \/ CreateStatement(r) \/ SaveBatch(r) \/ ResaveStatement(r)
      BY <3>3 DEF CreateBatch, CreateStatement, SaveBatch, ResaveStatement
    <3>4. CASE InsertLine(r) \/ TallyBatch(r) \/ Compare(r)
      BY <3>4 DEF InsertLine, TallyBatch, Compare
    <3> QED
      BY <1>9, <3>1, <3>2, <3>3, <3>4
  <2> QED
    BY <1>1, <1>2, <2>1, <2>2
<1> QED
  BY <1>3, <1>4, <1>5, <1>6, <1>7, <1>8, <1>9 DEF Step

\* The same lines, and the same requests landed, in the next state.
LEMMA WholeNext ==
    ASSUME TInv, Next, NEW S, Whole(S), AllLanded(S), NEW T, T = S
    PROVE  \A e \in T : /\ e.post \in Request /\ e \in LinesOf(e.post, e.batch)'
                        /\ LinesOf(e.post, e.batch)' \subseteq T /\ Landed(e.post)'
BY WholeStays, SameLines DEF Whole

LEMMA NextWhole == TInv /\ WInv /\ [Next]_vars => WInv'
<1> SUFFICES ASSUME TInv, WInv, Next PROVE WInv'
  BY DEF vars, WInv, Whole, AllLanded, Single, Landed, LinesOf, Line, JeOf
<1>1. SUFFICES
        /\ \A e \in entries' : /\ e.post \in Request /\ e \in LinesOf(e.post, e.batch)'
                               /\ LinesOf(e.post, e.batch)' \subseteq entries'
                               /\ Landed(e.post)'
        /\ Single(entries')
        /\ \A q \in Request : \A e \in local'[q].doomed :
              /\ e.post \in Request /\ e \in LinesOf(e.post, e.batch)'
              /\ LinesOf(e.post, e.batch)' \subseteq local'[q].doomed /\ Landed(e.post)'
  BY DEF WInv, Whole, AllLanded, Single
<1>2. Whole(entries) /\ AllLanded(entries) /\ Single(entries)
      /\ \A q \in Request : Whole(local[q].doomed) /\ AllLanded(local[q].doomed)
  BY DEF WInv
<1>3. ASSUME NEW r \in Request, NEW c \in Exercised, Arrive(r, c)
      PROVE  entries' = entries /\ \A q \in Request : local'[q].doomed = local[q].doomed
  BY <1>3 DEF Arrive, TInv, TypeOK, Locals
<1>4. ASSUME NEW p \in Period, LockPeriod(p) \/ UnlockPeriod(p)
      PROVE  entries' = entries /\ \A q \in Request : local'[q].doomed = local[q].doomed
  BY <1>4 DEF LockPeriod, UnlockPeriod, TInv, TypeOK, Locals
<1>5. CASE entries' = entries /\ \A q \in Request : local'[q].doomed = local[q].doomed
  BY <1>2, <1>5, WholeNext
<1>6. ASSUME NEW r \in Request, Step(r) \/ Abort(r)
      PROVE  /\ \A e \in entries' : /\ e.post \in Request /\ e \in LinesOf(e.post, e.batch)'
                                    /\ LinesOf(e.post, e.batch)' \subseteq entries'
                                    /\ Landed(e.post)'
             /\ Single(entries')
             /\ \A q \in Request : \A e \in local'[q].doomed :
                   /\ e.post \in Request /\ e \in LinesOf(e.post, e.batch)'
                   /\ LinesOf(e.post, e.batch)' \subseteq local'[q].doomed /\ Landed(e.post)'
  <2>1. Whole(local'[r].doomed) /\ AllLanded(local'[r].doomed) /\ Whole(entries')
        /\ Single(entries')
    BY <1>6, LedgerSteps
  <2>2. \A q \in Request \ {r} : local'[q] = local[q]
    BY <1>6, PcFrame
  <2>3. \A q \in Request : \A b : LinesOf(q, b)' = LinesOf(q, b)
    BY <1>6, CallFrame, SameLines
  <2>4. \A e \in entries' : Landed(e.post)'
    <3>1. CASE AllLanded(entries')
      BY <2>1, <3>1, WholeStays
    <3>2. ASSUME NEW b, entries' \subseteq entries \cup LinesOf(r, b), Landed(r)'
          PROVE  \A e \in entries' : Landed(e.post)'
      BY <1>2, <3>2, WholeStays, LineFields
    <3> QED
      BY <1>6, <3>1, <3>2, LedgerSteps
  <2>5. \A e \in entries' : /\ e.post \in Request /\ e \in LinesOf(e.post, e.batch)'
                            /\ LinesOf(e.post, e.batch)' \subseteq entries'
    BY <2>1, <2>3 DEF Whole
  <2>6. ASSUME NEW q \in Request
        PROVE  \A e \in local'[q].doomed :
                  /\ e.post \in Request /\ e \in LinesOf(e.post, e.batch)'
                  /\ LinesOf(e.post, e.batch)' \subseteq local'[q].doomed /\ Landed(e.post)'
    <3>1. Whole(local'[q].doomed) /\ AllLanded(local'[q].doomed)
      BY <1>2, <2>1, <2>2
    <3> QED
      BY <3>1, WholeNext
  <2> QED
    BY <2>1, <2>4, <2>5, <2>6
<1> QED
  BY <1>3, <1>4, <1>5, <1>6 DEF Next

\* A posting is in the ledger with all of its lines in one batch or with none, for any
\* number of requests, vouchers and entry numbers and any interleaving with crashes.
THEOREM PostingsAreWhole == Spec => []WholePostings
<1>1. Init => WInv
  BY DEF Init, WInv, Whole, AllLanded, Single, Forgotten
<1>2. TInv /\ WInv => WholePostings
  <2> SUFFICES ASSUME TInv, WInv, NEW r \in Request, PostedBy(r) # {}
               PROVE  \E b \in BatchId : PostedBy(r) = LinesOf(r, b)
    BY DEF WholePostings
  <2>1. PICK e \in entries : e.post = r
    BY DEF PostedBy
  <2>2. e.batch \in BatchId
    BY DEF TInv, TypeOK, Lines
  <2>3. LinesOf(r, e.batch) \subseteq PostedBy(r)
    BY <2>1, LineFields DEF WInv, Whole, PostedBy
  <2>4. ASSUME NEW f \in PostedBy(r) PROVE f \in LinesOf(r, e.batch)
    <3>1. f \in entries /\ f.post = r /\ f.batch = e.batch
      BY <2>1 DEF PostedBy, WInv, Single
    <3> QED
      BY <3>1 DEF WInv, Whole
  <2> QED
    BY <2>2, <2>3, <2>4
<1> QED
  BY <1>1, <1>2, NextWhole, TInvAlways, PTL DEF Spec

----------------------------------------------------------------------------
(* Every line has its batch row.  A transaction that has inserted lines pins *)
(* the row of its batch, and a posting deletes lines of its own batch only.  *)

EntriesHaveRows == \A e \in entries : rows[e.batch] # Absent

Pins(r) == InTransaction(r) /\ local[r].drafted > 0 => Kept(r)

Aimed(r) ==
    call[r].op = "post" /\ (pc[r] = "deleting" \/ InTransaction(r))
        => \A e \in local[r].doomed : e.batch = local[r].target

RInv == EntriesHaveRows /\ \A r \in Request : Pins(r) /\ Aimed(r)

\* Only the second statement of deleteAssociatedBatches removes rows.
LEMMA RowsStay ==
    ASSUME TInv, NEW r \in Request, Step(r) \/ Abort(r), ~ DropStatements(r),
           NEW b \in BatchId, rows[b] # Absent
    PROVE  rows'[b] # Absent
<1>1. RowsOK /\ EntriesOK /\ Absent \notin BatchRow /\ r \in BatchId
  BY ConstantAssumption DEF TInv, TypeOK, RowsOK, EntriesOK, BatchId
<1>2. CASE CreateBatch(r)
  <2>1. CASE UNCHANGED rows
    BY <2>1
  <2>2. CASE ~ UNCHANGED rows
    <3>1. PICK n \in Number : rows' = [rows EXCEPT ![r] = Fresh(n, call[r].period)]
      BY <1>2, <2>2 DEF CreateBatch
    <3>2. Fresh(n, call[r].period) \in BatchRow
      BY <1>2, AtWork, CallFields, FreshBatchRow DEF CreateBatch
    <3> QED
      BY <1>1, <3>1, <3>2 DEF RowsOK
  <2> QED
    BY <2>1, <2>2
<1>3. CASE CreateStatement(r)
  <2>1. Fresh(call[r].number, StatementPeriod) \in BatchRow
    BY <1>3, AtWork, CallFields, FreshBatchRow, ConstantAssumption DEF CreateStatement
  <2> QED
    BY <1>1, <1>3, <2>1 DEF CreateStatement, RowsOK
<1>4. CASE SaveBatch(r) \/ ResaveStatement(r) \/ CommitPosting(r) \/ FinishBatch(r)
  <2>1. pc[r] \in {"writing", "rewriting", "committing", "closing"} /\ CopyNeeded(r)
    BY <1>4 DEF SaveBatch, ResaveStatement, CommitPosting, FinishBatch, CopyNeeded
  <2>2. /\ local[r] \in Locals /\ local[r].target \in BatchId /\ local[r].copy \in BatchRow
        /\ Totalled(r) \in BatchRow
        /\ SaveBatch(r) => Amended(r) \in BatchRow
    BY <2>1, AtWork, EntitiesAreRows DEF HasCopy, Fits, SaveBatch
  <2>3. \/ rows' = rows \/ rows' = Written(r, Totalled(r)) \/ rows' = Written(r, local[r].copy)
        \/ SaveBatch(r) /\ rows' = Written(r, Amended(r))
    BY <1>4 DEF SaveBatch, ResaveStatement, CommitPosting, FinishBatch, SaveEntity
  <2> QED
    BY <1>1, <2>2, <2>3, RowAfterSave
<1>5. CASE \/ FindBatch(r) \/ CheckPeriod(r) \/ MatchNumber(r) \/ ValidateLines(r)
           \/ Compare(r) \/ SelectLines(r) \/ DeleteLines(r) \/ InsertLine(r)
           \/ TallyBatch(r) \/ ChartAccounts(r) \/ FillBatch(r) \/ Abort(r)
  BY <1>5 DEF FindBatch, CheckPeriod, MatchNumber, ValidateLines, Compare, SelectLines,
     DeleteLines, InsertLine, TallyBatch, ChartAccounts, FillBatch, Abort
<1> QED
  BY <1>2, <1>3, <1>4, <1>5 DEF Step

\* New lines go to the batch of the request that writes them, whose row exists.
LEMMA LinesAdded ==
    ASSUME TInv, RInv, NEW r \in Request, Step(r) \/ Abort(r), NEW e \in entries'
    PROVE  e \in entries \/ (e.batch = local[r].target /\ Kept(r))
<1>1. CASE CommitPosting(r)
  <2>1. Draft(r) = LinesOf(r, local[r].target) /\ call[r].op = "post"
    BY <1>1, DraftIsWhole DEF CommitPosting
  <2>2. InTransaction(r) /\ local[r].drafted > 0
    <3>1. /\ call[r].lines \in Seq(Amounts) /\ call[r].lines # <<>>
          /\ local[r].drafted = Len(call[r].lines)
      BY <1>1, <2>1, AtWork, CallFields DEF CommitPosting, DraftFits
    <3> QED
      BY <1>1, <3>1 DEF CommitPosting, InTransaction
  <2>3. Kept(r)
    BY <2>2 DEF RInv, Pins
  <2> QED
    BY <1>1, <2>1, <2>3, LineFields DEF CommitPosting
<1>2. CASE FillBatch(r)
  BY <1>2, LineFields DEF FillBatch
<1>3. CASE DeleteLines(r) \/ DropStatements(r)
  BY <1>3 DEF DeleteLines, DropStatements
<1>4. CASE \/ FindBatch(r) \/ CheckPeriod(r) \/ MatchNumber(r) \/ ValidateLines(r)
           \/ Compare(r) \/ CreateBatch(r) \/ CreateStatement(r) \/ SaveBatch(r)
           \/ SelectLines(r) \/ InsertLine(r) \/ TallyBatch(r) \/ ResaveStatement(r)
           \/ ChartAccounts(r) \/ FinishBatch(r) \/ Abort(r)
  BY <1>4 DEF FindBatch, CheckPeriod, MatchNumber, ValidateLines, Compare, CreateBatch,
     CreateStatement, SaveBatch, SelectLines, InsertLine, TallyBatch, ResaveStatement,
     ChartAccounts, FinishBatch, Abort
<1> QED
  BY <1>1, <1>2, <1>3, <1>4 DEF Step

LEMMA StepRows ==
    ASSUME TInv, RInv, NEW r \in Request, Step(r) \/ Abort(r)
    PROVE  EntriesHaveRows'
<1> SUFFICES ASSUME NEW e \in entries' PROVE rows'[e.batch] # Absent
  BY DEF EntriesHaveRows
<1>1. CASE DropStatements(r)
  BY <1>1 DEF DropStatements, TInv, TypeOK, Lines, RInv, EntriesHaveRows
<1>2. CASE ~ DropStatements(r)
  <2>1. CASE e \in entries
    <3>1. e.batch \in BatchId /\ rows[e.batch] # Absent
      BY <2>1 DEF TInv, TypeOK, Lines, RInv, EntriesHaveRows
    <3> QED
      BY <1>2, <3>1, RowsStay
  <2>2. CASE e.batch = local[r].target /\ Kept(r) /\ e \notin entries
    <3>1. CommitPosting(r) \/ FillBatch(r)
      BY <1>2, <2>2 DEF Step, Abort, FindBatch, CheckPeriod, MatchNumber, ValidateLines,
         Compare, CreateBatch, CreateStatement, SaveBatch, SelectLines, DeleteLines,
         InsertLine, TallyBatch, ResaveStatement, ChartAccounts, FinishBatch
    <3>2. local[r].target \in BatchId
      BY <3>1, AtWork DEF CommitPosting, FillBatch, CopyNeeded, HasCopy
    <3> QED
      BY <1>2, <2>2, <3>2, RowsStay DEF Kept, Present
  <2> QED
    BY <2>1, <2>2, LinesAdded
<1> QED
  BY <1>1, <1>2

\* What the request itself knows of its row and its lines.
LEMMA StepPins ==
    ASSUME TInv, RInv, NEW r \in Request, Step(r) \/ Abort(r)
    PROVE  Pins(r)' /\ Aimed(r)'
<1>1. pc \in [Request -> Labels] /\ local \in [Request -> Locals] /\ local[r] \in Locals
      /\ call' = call /\ Pins(r) /\ Aimed(r)
  BY CallFrame DEF TInv, TypeOK, RInv
<1>2. CASE InsertLine(r)
  <2>1. CASE End(r, "failed")
    BY <1>1, <2>1 DEF End, Goto, Pins, Aimed, InTransaction
  <2>2. CASE Kept(r) /\ local' = [local EXCEPT ![r].drafted = @ + 1] /\ UNCHANGED pc
    <3>1. rows' = rows /\ local'[r].target = local[r].target
          /\ local'[r].doomed = local[r].doomed /\ pc[r] = "inserting"
      BY <1>1, <1>2, <2>2 DEF InsertLine, Locals
    <3> QED
      BY <1>1, <2>2, <3>1 DEF Pins, Aimed, InTransaction, Kept, Present
  <2> QED
    BY <1>2, <2>1, <2>2 DEF InsertLine
<1>3. CASE TallyBatch(r) \/ Compare(r)
  <2>1. /\ rows' = rows /\ local'[r].target = local[r].target
        /\ local'[r].doomed = local[r].doomed /\ local'[r].drafted = local[r].drafted
    BY <1>1, <1>3 DEF TallyBatch, Compare, Locals
  <2>2. InTransaction(r)' => InTransaction(r)
    BY <1>1, <1>3 DEF TallyBatch, Compare, AfterCompare, Goto, InTransaction
  <2>3. pc'[r] # "deleting"
    BY <1>1, <1>3 DEF TallyBatch, Compare, AfterCompare, Goto
  <2> QED
    BY <1>1, <2>1, <2>2, <2>3 DEF Pins, Aimed, Kept, Present
<1>4. CASE SelectLines(r)
  <2>1. /\ local'[r].doomed = Victims(r) /\ local'[r].target = local[r].target
        /\ pc'[r] = "deleting"
    BY <1>1, <1>4 DEF SelectLines, Goto, Locals
  <2>2. call[r].op = "post" => \A e \in Victims(r) : e.batch = local[r].target
    BY DEF Victims
  <2> QED
    BY <1>1, <2>1, <2>2 DEF Pins, Aimed, InTransaction
<1>5. CASE DeleteLines(r)
  <2>1. CASE call[r].op = "post"
    <3>1. /\ local'[r].doomed \subseteq local[r].doomed /\ local'[r].target = local[r].target
          /\ pc'[r] = "inserting" /\ pc[r] = "deleting"
          /\ local'[r].drafted = local[r].drafted
      BY <1>1, <1>5, <2>1 DEF DeleteLines, Goto, Locals
    <3>2. local[r].drafted = 0
      BY <3>1, AtWork DEF DraftFits
    <3> QED
      BY <1>1, <3>1, <3>2 DEF Pins, Aimed, InTransaction
  <2>2. CASE call[r].op # "post"
    <3>1. pc'[r] \in {"resaving", "charting", "dropping"}
      BY <1>1, <1>5, <2>2 DEF DeleteLines, Goto, AfterDelete
    <3> QED
      BY <1>1, <2>2, <3>1 DEF Pins, Aimed, InTransaction
  <2> QED
    BY <2>1, <2>2
<1>6. CASE \/ FindBatch(r) \/ CheckPeriod(r) \/ MatchNumber(r) \/ ValidateLines(r)
           \/ CreateBatch(r) \/ CreateStatement(r) \/ SaveBatch(r) \/ CommitPosting(r)
           \/ ResaveStatement(r) \/ ChartAccounts(r) \/ FillBatch(r) \/ FinishBatch(r)
           \/ DropStatements(r) \/ Abort(r)
  <2>1. pc'[r] \in Labels \ {"deleting", "inserting", "comparing", "committing"}
    <3> USE DEF End, Goto, Labels
    <3>1. CASE FindBatch(r)
      <4>1. call[r].op \in {"update", "remove", "post", "statement", "upload"}
        BY <3>1, AtWork DEF FindBatch, Fits
      <4> QED
        BY <1>1, <3>1, <4>1 DEF FindBatch, ReadBatch
    <3>2. CASE CheckPeriod(r) \/ MatchNumber(r) \/ ValidateLines(r)
      BY <1>1, <3>2 DEF CheckPeriod, AfterCheck, MatchNumber, ValidateLines
    <3>3. CASE CreateBatch(r) \/ CreateStatement(r) \/ SaveBatch(r) \/ CommitPosting(r)
      BY <1>1, <3>3 DEF CreateBatch, CreateStatement, SaveBatch, CommitPosting
    <3>4. CASE ResaveStatement(r) \/ ChartAccounts(r) \/ FillBatch(r) \/ FinishBatch(r)
      BY <1>1, <3>4 DEF ResaveStatement, ChartAccounts, FillBatch, FinishBatch
    <3>5. CASE DropStatements(r) \/ Abort(r)
      BY <1>1, <3>5 DEF DropStatements, Abort
    <3> QED
      BY <1>6, <3>1, <3>2, <3>3, <3>4, <3>5
  <2> QED
    BY <2>1 DEF Pins, Aimed, InTransaction
<1> QED
  BY <1>2, <1>3, <1>4, <1>5, <1>6 DEF Step

LEMMA NextRows == TInv /\ RInv /\ [Next]_vars => RInv'
<1> SUFFICES ASSUME TInv, RInv, [Next]_vars PROVE RInv'
  OBVIOUS
<1>1. ASSUME NEW r \in Request, Step(r) \/ Abort(r) PROVE RInv'
  <2>1. EntriesHaveRows' /\ Pins(r)' /\ Aimed(r)'
    BY <1>1, StepRows, StepPins
  <2>2. ASSUME NEW q \in Request \ {r} PROVE Pins(q)' /\ Aimed(q)'
    <3>1. pc'[q] = pc[q] /\ local'[q] = local[q] /\ call' = call /\ Pins(q) /\ Aimed(q)
      BY <1>1, PcFrame, CallFrame DEF RInv
    <3>2. ASSUME InTransaction(q), local[q].drafted > 0 PROVE rows'[local[q].target] # Absent
      <4>1. CopyNeeded(q) /\ pc[q] # "idle"
        BY <3>2 DEF InTransaction, CopyNeeded
      <4>2. local[q].target \in BatchId /\ rows[local[q].target] # Absent
        BY <3>1, <3>2, <4>1, AtWork DEF HasCopy, Pins, Kept, Present
      <4>3. CASE DropStatements(r)
        <5>1. PinnedByOther(r, local[q].target)
          BY <2>2, <3>2 DEF PinnedByOther
        <5>2. ~ OfStatement(local[q].target)
          BY <4>2, <4>3, <5>1 DEF DropStatements
        <5> QED
          BY <4>2, <4>3, <5>2 DEF DropStatements
      <4> QED
        BY <1>1, <4>2, <4>3, RowsStay
    <3> QED
      BY <3>1, <3>2 DEF Pins, Aimed, InTransaction, Kept, Present
  <2> QED
    BY <2>1, <2>2 DEF RInv
<1>2. ASSUME rows' = rows, entries' = entries,
             \A q \in Request :
                 /\ local'[q].target = local[q].target /\ local'[q].doomed = local[q].doomed
                 /\ local'[q].drafted = local[q].drafted
                 /\ \/ pc'[q] = pc[q] /\ call'[q] = call[q]
                    \/ ~ InTransaction(q)' /\ pc'[q] # "deleting"
      PROVE  RInv'
  <2>1. EntriesHaveRows'
    BY <1>2 DEF RInv, EntriesHaveRows
  <2>2. ASSUME NEW q \in Request PROVE Pins(q)' /\ Aimed(q)'
    BY <1>2 DEF RInv, Pins, Aimed, InTransaction, Kept, Present
  <2> QED
    BY <2>1, <2>2 DEF RInv
<1>3. ASSUME NEW r \in Request, NEW c \in Exercised, Arrive(r, c) PROVE RInv'
  <2>1. FirstStep(c.op) \in {"checking", "selecting", "finding"}
    BY DEF FirstStep
  <2>2. /\ pc'[r] = FirstStep(c.op)
        /\ \A q \in Request \ {r} : pc'[q] = pc[q] /\ call'[q] = call[q]
        /\ rows' = rows /\ entries' = entries
    BY <1>3 DEF Arrive, Goto, TInv, TypeOK
  <2>3. ASSUME NEW q \in Request
        PROVE  /\ local'[q].target = local[q].target /\ local'[q].doomed = local[q].doomed
               /\ local'[q].drafted = local[q].drafted
    BY <1>3 DEF Arrive, TInv, TypeOK, Locals
  <2>4. ~ InTransaction(r)' /\ pc'[r] # "deleting"
    BY <2>1, <2>2 DEF InTransaction
  <2> QED
    BY <1>2, <2>2, <2>3, <2>4
<1>4. ASSUME NEW p \in Period, LockPeriod(p) \/ UnlockPeriod(p) PROVE RInv'
  <2>1. /\ rows' = rows /\ entries' = entries /\ pc' = pc /\ call' = call
    BY <1>4 DEF LockPeriod, UnlockPeriod
  <2>2. ASSUME NEW q \in Request
        PROVE  /\ local'[q].target = local[q].target /\ local'[q].doomed = local[q].doomed
               /\ local'[q].drafted = local[q].drafted
    BY <1>4 DEF LockPeriod, UnlockPeriod, TInv, TypeOK, Locals
  <2> QED
    BY <1>2, <2>1, <2>2
<1>5. CASE UNCHANGED vars
  BY <1>2, <1>5 DEF vars
<1> QED
  BY <1>1, <1>3, <1>4, <1>5 DEF Next

LEMMA RInvFirst == Init => RInv
BY DEF Init, RInv, EntriesHaveRows, Pins, Aimed, InTransaction

----------------------------------------------------------------------------
(* Period locks bind.  A request knows every period that has been unlocked  *)
(* since it arrived; once past its check, the period it means to write      *)
(* under is one of those, and nothing between the check and save() changes  *)
(* what it means to write.                                                  *)

Cleared(r) ==
    /\ call[r].op \in {"create", "update", "remove", "post"}
    /\ ~ Unchecked(r)
    /\ pc[r] \in {"creating", "matching", "saving", "writing", "validating", "selecting",
                  "deleting", "inserting", "comparing", "committing"}

LInv ==
    \A r \in Request :
        /\ Active(r) => Period \ locked \subseteq local[r].open
        /\ Cleared(r) => CheckedPeriod(r) \in local[r].open

\* A request keeps what it has cleared unless it reads its batch again.
LEMMA KeepsClearance ==
    ASSUME TInv, LInv, NEW r \in Request, call' = call, locked' = locked,
           \/ pc'[r] \in {"done", "failed"}
           \/ /\ pc[r] # "idle" /\ Active(r)
              /\ local'[r].open = local[r].open
              /\ Cleared(r)' => /\ Cleared(r)
                                /\ local'[r].copy = local[r].copy
    PROVE  /\ Active(r)' => Period \ locked' \subseteq local'[r].open
           /\ Cleared(r)' => CheckedPeriod(r)' \in local'[r].open
<1>1. CASE pc'[r] \in {"done", "failed"}
  BY <1>1 DEF Active, Cleared
<1>2. CASE /\ pc[r] # "idle" /\ Active(r)
           /\ local'[r].open = local[r].open
           /\ Cleared(r)' => Cleared(r) /\ local'[r].copy = local[r].copy
  <2>1. Cleared(r)' => CheckedPeriod(r)' = CheckedPeriod(r)
    BY <1>2 DEF CheckedPeriod
  <2> QED
    BY <1>2, <2>1 DEF LInv
<1> QED
  BY <1>1, <1>2

LEMMA StepClears ==
    ASSUME TInv, LInv, NEW r \in Request, Step(r) \/ Abort(r)
    PROVE  /\ Active(r)' => Period \ locked' \subseteq local'[r].open
           /\ Cleared(r)' => CheckedPeriod(r)' \in local'[r].open
<1>1. call' = call /\ locked' = locked /\ pc[r] # "idle" /\ Active(r)
  BY CallFrame DEF Active
<1>2. Fits(call[r].op, pc[r]) /\ local[r] \in Locals /\ call[r] \in Calls
  BY <1>1, AtWork
<1>3. ASSUME End(r, "done") \/ End(r, "failed")
      PROVE  pc'[r] \in {"done", "failed"}
  BY <1>3 DEF End, Goto, TInv, TypeOK
<1>4. CASE CheckPeriod(r)
  <2>1. CASE End(r, "failed")
    BY <1>1, <1>3, <2>1, KeepsClearance
  <2>2. CASE CheckedPeriod(r) \notin locked /\ Goto(r, AfterCheck(call[r].op)) /\ UNCHANGED local
    <3>1. Period \ locked \subseteq local[r].open
      BY <1>1 DEF LInv
    <3>2. CheckedPeriod(r)' = CheckedPeriod(r) /\ Unchecked(r)' = Unchecked(r)
      BY <1>1, <2>2 DEF CheckedPeriod, Unchecked
    <3>3. ~ Unchecked(r) => CheckedPeriod(r) \in Period
      <4>1. pc[r] = "checking"
        BY <1>4 DEF CheckPeriod
      <4>2. CASE call[r].op \in {"create", "statement"}
        BY <4>2, <1>2, CallFields, ConstantAssumption DEF CheckedPeriod
      <4>3. CASE call[r].op = "update" /\ call[r].period # Absent
        BY <4>3, <1>2, CallFields DEF CheckedPeriod, Unchecked
      <4>4. CASE call[r].op \in {"remove", "post"}
                 \/ (call[r].op = "update" /\ call[r].period = Absent)
        <5>1. local[r].copy \in BatchRow
          BY <4>1, <4>4, <1>1, AtWork DEF CopyNeeded, HasCopy
        <5> QED
          BY <4>4, <5>1 DEF CheckedPeriod, BatchRow
      <4> QED
        BY <1>2, <4>1, <4>2, <4>3, <4>4 DEF Fits
    <3> QED
      BY <1>1, <2>2, <3>1, <3>2, <3>3 DEF Cleared
  <2> QED
    BY <1>4, <2>1, <2>2 DEF CheckPeriod
<1>5. CASE FindBatch(r)
  <2>1. CASE End(r, "failed")
    BY <1>1, <1>3, <2>1, KeepsClearance
  <2>2. ASSUME NEW label, NEW b, ReadBatch(r, b, label),
               call[r].op \in {"update", "remove", "post"} => label = "checking"
        PROVE  local'[r].open = local[r].open /\ ~ Cleared(r)'
    <3>1. local'[r].open = local[r].open /\ pc'[r] = label
      BY <1>2, <2>2 DEF ReadBatch, Goto, TInv, TypeOK, Locals
    <3>2. call[r].op # "create"
      BY <1>2, <1>5 DEF FindBatch, Fits
    <3> QED
      BY <1>1, <2>2, <3>1, <3>2 DEF Cleared
  <2>3. ASSUME call[r].op = "statement", UNCHANGED local
        PROVE  local'[r].open = local[r].open /\ ~ Cleared(r)'
    BY <1>1, <2>3 DEF Cleared
  <2>4. \/ End(r, "failed")
        \/ call[r].op = "statement" /\ UNCHANGED local
        \/ \E label, b : /\ ReadBatch(r, b, label)
                         /\ call[r].op \in {"update", "remove", "post"} => label = "checking"
    BY <1>5 DEF FindBatch
  <2> QED
    BY <1>1, <2>1, <2>2, <2>3, <2>4, KeepsClearance
<1>6. CASE \/ MatchNumber(r) \/ ValidateLines(r) \/ SelectLines(r) \/ DeleteLines(r)
           \/ InsertLine(r) \/ TallyBatch(r) \/ Compare(r)
  <2>1. \/ pc'[r] \in {"done", "failed"}
        \/ local'[r].open = local[r].open /\ local'[r].copy = local[r].copy
    BY <1>2, <1>3, <1>6
       DEF MatchNumber, ValidateLines, SelectLines, DeleteLines, InsertLine, TallyBatch,
           Compare, TInv, TypeOK, Locals
  <2>2. pc[r] \in {"matching", "validating", "selecting", "deleting", "inserting", "saving",
                   "comparing", "resaving", "finishing"}
    BY <1>6 DEF MatchNumber, ValidateLines, SelectLines, DeleteLines, InsertLine,
       TallyBatch, Compare, AfterCompare
  <2>3. Cleared(r)' => Cleared(r)
    BY <1>1, <1>2, <2>2 DEF Cleared, Unchecked, Fits
  <2> QED
    BY <1>1, <2>1, <2>3, KeepsClearance
<1>7. CASE ResaveStatement(r) \/ ChartAccounts(r) \/ FillBatch(r) \/ CreateStatement(r)
  <2>1. call[r].op \in {"statement", "upload"}
    BY <1>2, <1>7 DEF ResaveStatement, ChartAccounts, FillBatch, CreateStatement, Fits
  <2>2. pc'[r] \in {"done", "failed"} \/ local'[r].open = local[r].open
    BY <1>2, <1>3, <1>7
       DEF ResaveStatement, ChartAccounts, FillBatch, CreateStatement, TInv, TypeOK, Locals
  <2> QED
    BY <1>1, <2>1, <2>2, KeepsClearance DEF Cleared
<1>8. CASE CreateBatch(r) \/ SaveBatch(r) \/ CommitPosting(r) \/ FinishBatch(r)
           \/ DropStatements(r) \/ Abort(r)
  <2>1. pc'[r] \in {"done", "failed"}
    BY <1>3, <1>8 DEF CreateBatch, SaveBatch, CommitPosting, FinishBatch, DropStatements, Abort
  <2> QED
    BY <1>1, <2>1, KeepsClearance
<1> QED
  BY <1>4, <1>5, <1>6, <1>7, <1>8 DEF Step

LEMMA NextClears == TInv /\ LInv /\ [Next]_vars => LInv'
<1> SUFFICES ASSUME TInv, LInv, Next, NEW r \in Request
             PROVE  /\ Active(r)' => Period \ locked' \subseteq local'[r].open
                    /\ Cleared(r)' => CheckedPeriod(r)' \in local'[r].open
  BY DEF vars, LInv, Active, Cleared, Unchecked, CheckedPeriod
<1>1. ASSUME NEW q \in Request, Step(q) \/ Abort(q)
      PROVE  /\ Active(r)' => Period \ locked' \subseteq local'[r].open
             /\ Cleared(r)' => CheckedPeriod(r)' \in local'[r].open
  <2>1. CASE q = r
    BY <1>1, <2>1, StepClears
  <2>2. CASE q # r
    <3>1. pc'[r] = pc[r] /\ local'[r] = local[r] /\ call' = call /\ locked' = locked
      BY <1>1, <2>2, PcFrame, CallFrame
    <3> QED
      BY <3>1 DEF LInv, Active, Cleared, Unchecked, CheckedPeriod
  <2> QED
    BY <2>1, <2>2
<1>2. ASSUME NEW q \in Request, NEW c \in Exercised, Arrive(q, c)
      PROVE  /\ Active(r)' => Period \ locked' \subseteq local'[r].open
             /\ Cleared(r)' => CheckedPeriod(r)' \in local'[r].open
  <2>1. CASE q = r
    <3>1. local'[r].open = Period \ locked /\ locked' = locked
      BY <1>2, <2>1 DEF Arrive, TInv, TypeOK, Locals
    <3>2. ~ Cleared(r)'
      <4>1. call'[r] = c /\ pc'[r] = FirstStep(c.op)
        BY <1>2, <2>1 DEF Arrive, Goto, TInv, TypeOK
      <4>2. FirstStep(c.op) \in {"checking", "finding"} \/ c.op = "drop"
        BY DEF FirstStep
      <4> QED
        BY <4>1, <4>2 DEF Cleared
    <3> QED
      BY <3>1, <3>2
  <2>2. CASE q # r
    <3>1. /\ pc'[r] = pc[r] /\ call'[r] = call[r] /\ locked' = locked
          /\ local'[r].open = local[r].open /\ local'[r].copy = local[r].copy
      BY <1>2, <2>2 DEF Arrive, Goto, TInv, TypeOK, Locals
    <3> QED
      BY <3>1 DEF LInv, Active, Cleared, Unchecked, CheckedPeriod
  <2> QED
    BY <2>1, <2>2
<1>3. ASSUME NEW p \in Period, LockPeriod(p)
      PROVE  /\ Active(r)' => Period \ locked' \subseteq local'[r].open
             /\ Cleared(r)' => CheckedPeriod(r)' \in local'[r].open
  BY <1>3 DEF LockPeriod, LInv, Active, Cleared, Unchecked, CheckedPeriod
<1>4. ASSUME NEW p \in Period, UnlockPeriod(p)
      PROVE  /\ Active(r)' => Period \ locked' \subseteq local'[r].open
             /\ Cleared(r)' => CheckedPeriod(r)' \in local'[r].open
  <2>1. CASE Active(r)
    <3>1. local'[r].open = local[r].open \cup {p} /\ local'[r].copy = local[r].copy
      BY <1>4, <2>1 DEF UnlockPeriod, TInv, TypeOK, Locals
    <3>2. CheckedPeriod(r)' = CheckedPeriod(r) /\ locked' = locked \ {p}
      BY <1>4, <3>1 DEF UnlockPeriod, CheckedPeriod
    <3>3. Active(r)' = Active(r) /\ Cleared(r)' = Cleared(r)
      BY <1>4 DEF UnlockPeriod, Active, Cleared, Unchecked
    <3> QED
      BY <2>1, <3>1, <3>2, <3>3 DEF LInv
  <2>2. CASE ~ Active(r)
    BY <1>4, <2>2 DEF UnlockPeriod, Active, Cleared
  <2> QED
    BY <2>1, <2>2
<1> QED
  BY <1>1, <1>2, <1>3, <1>4 DEF Next

\* A save that succeeds writes one row: under the period of the entity, or under the one
\* another request has given the row since save() looked.
LEMMA SaveRespects ==
    ASSUME TInv, NEW r \in Request, local[r] \in Locals, local[r].target \in BatchId,
           NEW x \in BatchRow, rows' = Written(r, x), x.period \in local[r].open,
           local[r].seen = Absent \/ Kept(r)
    PROVE  \/ rows'[local[r].target].period \in local[r].open
           \/ MovedMeanwhile(r, local[r].target)
<1> DEFINE b == local[r].target
<1>1. RowsOK /\ Absent \notin BatchRow /\ local[r].seen \in BatchRow \cup {Absent}
  BY ConstantAssumption DEF TInv, TypeOK, RowsOK, Locals
<1>2. CASE local[r].seen = Absent
  BY <1>1, <1>2 DEF Written, RowsOK
<1>3. CASE local[r].seen # Absent /\ Kept(r)
  <2>1. local[r].seen \in BatchRow /\ rows[b] \in BatchRow
    BY <1>1, <1>3 DEF Kept, Present, RowsOK
  <2>2. PICK m \in BatchRow : m = Merged(x, local[r].seen, rows[b])
    BY <2>1, MergedRow
  <2>3. m.period = IF x.period # local[r].seen.period THEN x.period ELSE rows[b].period
    BY <2>1, <2>2, MergedRow
  <2>4. rows'[b].period = m.period
    <3>1. rows'[b] = IF Computes(r) THEN [m EXCEPT !.total = x.total] ELSE m
      BY <1>1, <1>3, <2>2 DEF Written, Updated, RowsOK
    <3> QED
      BY <2>2, <3>1 DEF BatchRow
  <2> QED
    BY <1>3, <2>1, <2>3, <2>4 DEF MovedMeanwhile, Kept
<1> QED
  BY <1>1, <1>2, <1>3

\* Whatever the interleaving, the rows and lines that JournalEntriesService changes it
\* leaves under a period that has been unlocked since its request arrived, but for a batch
\* that is moved while its row is compared and written.
THEOREM LocksAreRespected == Spec => LockRespected
<1> DEFINE Respects ==
      \A r \in Request :
          Manual(r) /\ Finishes(r) /\ ~ Unchecked(r)
              => \A b \in BatchId : Changed(b) =>
                    rows'[b].period \in local[r].open \/ MovedMeanwhile(r, b)
<1>1. Init => LInv
  BY DEF Init, LInv, Active, Cleared
<1>2. TInv /\ RInv /\ LInv /\ [Next]_vars => [Respects]_vars
  <2> SUFFICES ASSUME TInv, RInv, LInv, Next, NEW r \in Request, Manual(r), Finishes(r),
                      ~ Unchecked(r), NEW b \in BatchId, Changed(b)
               PROVE  rows'[b].period \in local[r].open \/ MovedMeanwhile(r, b)
    OBVIOUS
  <2>1. CheckedPeriod(r) \in local[r].open
    BY DEF LInv, Cleared, Manual, Finishes
  <2>2. \E q \in Request : Step(q)
    BY DEF Next, Arrive, Abort, LockPeriod, UnlockPeriod, Changed, EntriesOf
  <2>3. Step(r)
    BY <2>2, PcFrame DEF Finishes
  <2>4. RowsOK /\ Absent \notin BatchRow
    BY ConstantAssumption DEF TInv, TypeOK, RowsOK
  <2>5. CASE CreateBatch(r)
    <3>1. PICK n \in Number : rows' = [rows EXCEPT ![r] = Fresh(n, call[r].period)]
      BY <2>5 DEF CreateBatch, Changed
    <3>2. rows'[b] = Fresh(n, call[r].period)
      BY <2>4, <2>5, <3>1 DEF CreateBatch, Changed, RowsOK, BatchId
    <3> QED
      BY <2>1, <2>5, <3>2 DEF Fresh, CheckedPeriod, CreateBatch
  <2>6. CASE SaveBatch(r)
    <3>1. SaveEntity(r, Amended(r)) /\ entries' = entries
      BY <2>6 DEF SaveBatch, Finishes, End, Goto, TInv, TypeOK
    <3>2. /\ local[r] \in Locals /\ local[r].copy \in BatchRow /\ local[r].target \in BatchId
          /\ call[r].op \in {"update", "remove"} /\ Amended(r) \in BatchRow
          /\ call[r] \in Calls
      BY <2>6, AtWork, EntitiesAreRows DEF SaveBatch, CopyNeeded, HasCopy, Fits
    <3>3. Amended(r).period = CheckedPeriod(r)
      <4>1. CASE call[r].op = "remove"
        BY <3>2, <4>1 DEF Amended, CheckedPeriod, BatchRow
      <4>2. CASE call[r].op = "update"
        <5>1. call[r].period \in Period \cup {Absent} /\ Absent \notin Period
          BY <3>2, <4>2, CallFields, ConstantAssumption DEF Unchecked
        <5> QED
          BY <3>2, <4>2, <5>1 DEF Amended, CheckedPeriod, Chosen, BatchRow
      <4> QED
        BY <3>2, <4>1, <4>2
    <3>4. b = local[r].target /\ (local[r].seen = Absent \/ Kept(r))
      <4>1. rows'[b] # rows[b] /\ rows' = Written(r, Amended(r))
        BY <3>1 DEF Changed, SaveEntity
      <4>2. b = local[r].target
        BY <2>4, <3>2, <4>1, RowAfterSave
      <4> QED
        BY <4>1, <4>2 DEF Written
    <3> QED
      BY <2>1, <3>1, <3>2, <3>3, <3>4, SaveRespects DEF SaveEntity
  <2>7. CASE CommitPosting(r)
    <3>1. /\ SaveEntity(r, Totalled(r))
          /\ entries' = (entries \ local[r].doomed) \cup Draft(r)
      BY <2>7 DEF CommitPosting, Finishes, End, Goto, TInv, TypeOK
    <3>2. /\ local[r] \in Locals /\ local[r].copy \in BatchRow /\ local[r].target \in BatchId
          /\ call[r].op = "post" /\ Totalled(r) \in BatchRow
      BY <2>7, AtWork, EntitiesAreRows DEF CommitPosting, CopyNeeded, HasCopy, Fits
    <3>3. Totalled(r).period = CheckedPeriod(r)
      BY <3>2 DEF Totalled, CheckedPeriod, BatchRow
    <3>4. Draft(r) = LinesOf(r, local[r].target)
      BY <2>7, DraftIsWhole DEF CommitPosting
    <3>5. b = local[r].target
      <4>1. rows' = Written(r, Totalled(r))
        BY <3>1 DEF SaveEntity
      <4>2. ASSUME b # local[r].target PROVE FALSE
        <5>1. rows'[b] = rows[b]
          BY <2>4, <3>2, <4>1, <4>2, RowAfterSave
        <5>2. \A e \in local[r].doomed : e.batch # b
          BY <2>7, <3>2, <4>2 DEF RInv, Aimed, CommitPosting, InTransaction
        <5>3. \A e \in Draft(r) : e.batch # b
          BY <3>4, <4>2, LineFields
        <5>4. EntriesOf(b, entries') = EntriesOf(b, entries)
          BY <3>1, <5>2, <5>3 DEF EntriesOf
        <5> QED
          BY <5>1, <5>4 DEF Changed
      <4> QED
        BY <4>2
    <3>6. Kept(r)
      <4>1. /\ call[r].lines \in Seq(Amounts) /\ call[r].lines # <<>>
            /\ local[r].drafted = Len(call[r].lines)
        BY <2>7, <3>2, AtWork, CallFields DEF CommitPosting, DraftFits
      <4> QED
        BY <2>7, <4>1 DEF CommitPosting, RInv, Pins, InTransaction
    <3> QED
      BY <2>1, <3>1, <3>2, <3>3, <3>5, <3>6, SaveRespects DEF SaveEntity
  <2>8. CASE CreateStatement(r)
    BY <2>8 DEF CreateStatement, Manual
  <2> QED
    BY <2>3, <2>5, <2>6, <2>7, <2>8
       DEF Finishes, Step, FindBatch, CheckPeriod, MatchNumber, ValidateLines, Compare,
           AfterCompare, SelectLines, DeleteLines, InsertLine, TallyBatch, ResaveStatement,
           ChartAccounts, FillBatch, FinishBatch, DropStatements
<1> QED
  BY <1>1, <1>2, RInvFirst, NextRows, NextClears, TInvAlways, PTL DEF Spec, LockRespected

----------------------------------------------------------------------------
(* What a posting served alone leaves *)

LEMMA Scaled == \A s, a, b \in Int : s * (a + b) = s * a + s * b
OBVIOUS

LEMMA ScaledLess == \A s, a, b \in Int : s > 0 /\ s * a < s * b => a < b
OBVIOUS

\* Amounts rounded one by one stay near their sum.
LEMMA RoundedSum ==
    ASSUME NEW D, IsFiniteSet(D), NEW f, \A i \in D : f[i] \in Int,
           NEW c, \A i \in D : /\ c[i] \in Int
                               /\ 2 * (Scale * c[i]) <= 2 * f[i] + Scale
                               /\ 2 * f[i] <= 2 * (Scale * c[i]) + Scale
    PROVE  /\ SumOver(f, D) \in Int /\ SumOver(c, D) \in Int /\ Cardinality(D) \in Nat
           /\ 2 * (Scale * SumOver(c, D)) <= 2 * SumOver(f, D) + Scale * Cardinality(D)
           /\ 2 * SumOver(f, D) <= 2 * (Scale * SumOver(c, D)) + Scale * Cardinality(D)
<1> DEFINE Near(t) ==
             /\ 2 * (Scale * SumOver(c, t)) <= 2 * SumOver(f, t) + Scale * Cardinality(t)
             /\ 2 * SumOver(f, t) <= 2 * (Scale * SumOver(c, t)) + Scale * Cardinality(t)
           Bad == {t \in SUBSET D : ~ Near(t)}
<1>1. Scale \in Int /\ Scale > 0
  BY ConstantAssumption
<1>2. ASSUME Bad # {} PROVE FALSE
  <2>1. PICK X \in Bad : \A Y \in SUBSET X : Y # X => Y \notin Bad
    <3>1. Bad \in SUBSET (SUBSET D)
      OBVIOUS
    <3> HIDE DEF Bad
    <3> QED
      BY <1>2, <3>1, SmallestSubset
  <2>2. X \in SUBSET D /\ ~ Near(X) /\ \A Y \in SUBSET X : Y # X => Near(Y)
    BY <2>1
  <2>3. IsFiniteSet(X) /\ Cardinality({}) = 0
    BY <2>2, FS_Subset, FS_EmptySet
  <2>4. /\ SumOver(f, X) = IF X = {} THEN 0 ELSE f[First(X)] + SumOver(f, X \ {First(X)})
        /\ SumOver(c, X) = IF X = {} THEN 0 ELSE c[First(X)] + SumOver(c, X \ {First(X)})
    BY <2>3, SumAsFolded
  <2>5. X # {}
    <3> SUFFICES ASSUME X = {} PROVE FALSE
      OBVIOUS
    <3>1. SumOver(f, X) = 0 /\ SumOver(c, X) = 0 /\ Cardinality(X) = 0
      BY <2>3, <2>4
    <3>2. Scale * 0 = 0
      BY <1>1
    <3>3. Near(X)
      BY <3>1, <3>2
    <3> QED
      BY <2>2, <3>3
  <2>6. PICK p \in X : p = First(X)
    BY <2>5, FirstIn
  <2>7. Near(X \ {p})
    BY <2>2, <2>6
  <2>8. PICK k \in Nat : IsFiniteSet(X \ {p}) /\ Cardinality(X) = k + 1 /\ Cardinality(X \ {p}) = k
    BY <2>3, FS_RemoveElement, FS_CardinalityType, FS_Subset
  <2>9. PICK a \in Int : a = SumOver(f, X \ {p})
    BY <2>2, <2>8, SumIsInt
  <2>10. PICK b \in Int : b = SumOver(c, X \ {p})
    BY <2>2, <2>8, SumIsInt
  <2>11. PICK v \in Int : v = f[p]
    BY <2>2
  <2>12. PICK w \in Int : w = c[p]
    BY <2>2
  <2>13. 2 * (Scale * w) <= 2 * v + Scale /\ 2 * v <= 2 * (Scale * w) + Scale
    BY <2>2, <2>11, <2>12
  <2>14. SumOver(f, X) = v + a /\ SumOver(c, X) = w + b
    BY <2>4, <2>5, <2>6, <2>9, <2>10, <2>11, <2>12
  <2>15. Scale * (w + b) = Scale * w + Scale * b /\ Scale * (k + 1) = Scale * k + Scale
    BY <1>1
  <2>16. PICK sw, sb, sk \in Int : sw = Scale * w /\ sb = Scale * b /\ sk = Scale * k
    BY <1>1
  <2>17. 2 * sb <= 2 * a + sk /\ 2 * a <= 2 * sb + sk
    BY <2>7, <2>8, <2>9, <2>10, <2>16
  <2>18. 2 * sw <= 2 * v + Scale /\ 2 * v <= 2 * sw + Scale
    BY <2>13, <2>16
  <2>19. /\ 2 * (sw + sb) <= 2 * (v + a) + (sk + Scale)
         /\ 2 * (v + a) <= 2 * (sw + sb) + (sk + Scale)
    BY <1>1, <2>17, <2>18
  <2>20. Near(X)
    <3> HIDE DEF Bad
    <3>1. Scale * SumOver(c, X) = sw + sb /\ Scale * Cardinality(X) = sk + Scale
      BY <2>8, <2>14, <2>15, <2>16
    <3> QED
      BY <2>14, <2>19, <3>1
  <2> QED
    BY <2>2, <2>20
<1>3. Near(D)
  BY <1>2
<1> QED
  BY <1>3, SumIsInt, FS_CardinalityType

LEMMA DifferenceSum ==
    ASSUME NEW D, IsFiniteSet(D), NEW f, NEW g, \A i \in D : f[i] \in Int /\ g[i] \in Int,
           NEW d, \A i \in D : d[i] = f[i] - g[i]
    PROVE  SumOver(d, D) = SumOver(f, D) - SumOver(g, D)
<1>1. \A i \in D : d[i] \in Int /\ f[i] = d[i] + g[i]
  OBVIOUS
<1>2. SumOver(f, D) = SumOver(d, D) + SumOver(g, D)
  BY <1>1, SumAdds
<1>3. SumOver(d, D) \in Int /\ SumOver(g, D) \in Int
  BY <1>1, SumIsInt
<1> QED
  BY <1>2, <1>3

\* The lines of a posting, one by one.
LEMMA PostedSums ==
    ASSUME NEW r \in Request, call[r].lines \in Seq(Amounts), NEW b
    PROVE  LET D == DOMAIN call[r].lines
               debit == [i \in D |-> Stored(call[r].lines[i].debit)]
               credit == [i \in D |-> Stored(call[r].lines[i].credit)]
               lines == LinesOf(r, b)
           IN  /\ Cardinality(lines) = Cardinality(D)
               /\ SumOver([e \in lines |-> e.debit], lines) = SumOver(debit, D)
               /\ SumOver([e \in lines |-> e.debit - e.credit], lines)
                     = SumOver(debit, D) - SumOver(credit, D)
<1>1. PICK D : D = DOMAIN call[r].lines
  OBVIOUS
<1>2. IsFiniteSet(D)
  BY <1>1, SumsType
<1>3. PICK debit : debit = [i \in D |-> Stored(call[r].lines[i].debit)]
  OBVIOUS
<1>4. PICK credit : credit = [i \in D |-> Stored(call[r].lines[i].credit)]
  OBVIOUS
<1>5. PICK m : m = [i \in D |-> Line(r, i, b)]
  OBVIOUS
<1>6. LinesOf(r, b) = {m[i] : i \in D}
  BY <1>1, <1>5 DEF LinesOf
<1>7. \A i \in D : /\ m[i].no = i /\ m[i].debit = debit[i] /\ m[i].credit = credit[i]
                   /\ debit[i] \in Int /\ credit[i] \in Int
  <2> SUFFICES ASSUME NEW i \in D
               PROVE  /\ m[i].no = i /\ m[i].debit = debit[i] /\ m[i].credit = credit[i]
                      /\ debit[i] \in Int /\ credit[i] \in Int
    OBVIOUS
  <2>1. call[r].lines[i].debit \in Int /\ call[r].lines[i].credit \in Int
    <3>1. call[r].lines[i] \in Amounts
      BY <1>1
    <3> QED
      BY <3>1 DEF Amounts
  <2>2. \A x \in Int : Stored(x) \in Int
    BY CentsBounds DEF Stored
  <2>3. debit[i] \in Int /\ credit[i] \in Int
    BY <1>3, <1>4, <2>1, <2>2
  <2> QED
    BY <1>1, <1>3, <1>4, <1>5, <2>3 DEF Line
<1>8. \A i, j \in D : m[i] = m[j] => i = j
  BY <1>7
<1>9. Cardinality(LinesOf(r, b)) = Cardinality(D)
  <2>1. Cardinality({m[i] : i \in D}) = Cardinality(D)
    BY <1>2, <1>8, ImageFinite
  <2> QED
    BY <1>6, <2>1
<1>10. PICK f : f = [e \in LinesOf(r, b) |-> e.debit]
  OBVIOUS
<1>11. PICK g : g = [e \in LinesOf(r, b) |-> e.debit - e.credit]
  OBVIOUS
<1>12. PICK d : d = [i \in D |-> debit[i] - credit[i]]
  OBVIOUS
<1>13. \A i \in D : f[m[i]] = debit[i] /\ g[m[i]] = d[i] /\ d[i] = debit[i] - credit[i]
  BY <1>6, <1>7, <1>10, <1>11, <1>12
<1>14. (\A i \in D : debit[i] \in Int) /\ (\A i \in D : d[i] \in Int)
  BY <1>7, <1>13
<1>15. SumOver(f, LinesOf(r, b)) = SumOver(debit, D)
  <2>1. \A i \in D : f[m[i]] = debit[i]
    BY <1>13
  <2>2. SumOver(f, {m[i] : i \in D}) = SumOver(debit, D)
    BY <1>2, <1>8, <1>14, <2>1, SumMoved
  <2> QED
    BY <1>6, <2>2
<1>16. SumOver(g, LinesOf(r, b)) = SumOver(d, D)
  <2>1. \A i \in D : g[m[i]] = d[i]
    BY <1>13
  <2>2. SumOver(g, {m[i] : i \in D}) = SumOver(d, D)
    BY <1>2, <1>8, <1>14, <2>1, SumMoved
  <2> QED
    BY <1>6, <2>2
<1>17. SumOver(d, D) = SumOver(debit, D) - SumOver(credit, D)
  BY <1>2, <1>7, <1>13, DifferenceSum
<1> QED
  BY <1>1, <1>3, <1>4, <1>9, <1>10, <1>11, <1>15, <1>16, <1>17

Above(x) == IF x > 0 THEN x ELSE 0

\* What is stored of an amount is near its positive part.
LEMMA StoredNear ==
    ASSUME NEW x \in Int
    PROVE  /\ Above(x) \in Int /\ Stored(x) \in Int
           /\ 2 * (Scale * Stored(x)) <= 2 * Above(x) + Scale
           /\ 2 * Above(x) <= 2 * (Scale * Stored(x)) + Scale
<1>1. Scale \in Int /\ Scale > 0 /\ Scale * 0 = 0
  BY ConstantAssumption
<1>2. CASE x > 0
  <2>1. Stored(x) = Cents(x) /\ Above(x) = x
    BY <1>2 DEF Stored, Above
  <2>2. PICK s \in Int : s = Scale * Cents(x)
    BY <1>1, CentsBounds
  <2>3. 2 * s <= 2 * x + Scale /\ 2 * x < 2 * s + Scale /\ Cents(x) \in Int
    BY <2>2, CentsBounds
  <2> QED
    BY <1>1, <2>1, <2>2, <2>3
<1>3. CASE ~ x > 0
  BY <1>1, <1>3 DEF Stored, Above
<1> QED
  BY <1>2, <1>3

\* Sums of the lines and of what is stored of them.
LEMMA SumsNear ==
    ASSUME NEW r \in Request, call[r].lines \in Seq(Amounts), NEW b
    PROVE  LET lines == LinesOf(r, b)
               n == Cardinality(lines)
               off == SumOver([e \in lines |-> e.debit - e.credit], lines)
               total == SumOver([e \in lines |-> e.debit], lines)
           IN  /\ n \in Nat
               /\ \E paid, owed, credits \in Int :
                     /\ total \in Int /\ off = total - credits
                     /\ 2 * (Scale * total) <= 2 * paid + Scale * n
                     /\ 2 * paid <= 2 * (Scale * total) + Scale * n
                     /\ 2 * (Scale * credits) <= 2 * owed + Scale * n
                     /\ 2 * owed <= 2 * (Scale * credits) + Scale * n
                     /\ Debits(call[r].lines) = paid + LeftOut(call[r].lines)
                     /\ LeftOut(call[r].lines) \in Int
                     /\ (\A i \in DOMAIN call[r].lines : ~ Negative(call[r].lines[i]))
                           => /\ Debits(call[r].lines) = paid
                              /\ Credits(call[r].lines) = owed
<1> DEFINE D == DOMAIN call[r].lines
           L == call[r].lines
<1>1. IsFiniteSet(D) /\ \A i \in D : L[i].debit \in Int /\ L[i].credit \in Int
  <2>1. \A i \in D : L[i] \in Amounts
    OBVIOUS
  <2> QED
    BY <2>1, SumsType DEF Amounts
<1>2. PICK all : all = [i \in D |-> L[i].debit]
  OBVIOUS
<1>3. PICK cred : cred = [i \in D |-> L[i].credit]
  OBVIOUS
<1>4. PICK up : up = [i \in D |-> Above(L[i].debit)]
  OBVIOUS
<1>5. PICK down : down = [i \in D |-> IF L[i].debit < 0 THEN L[i].debit ELSE 0]
  OBVIOUS
<1>6. PICK upc : upc = [i \in D |-> Above(L[i].credit)]
  OBVIOUS
<1>7. PICK debit : debit = [i \in D |-> Stored(L[i].debit)]
  OBVIOUS
<1>8. PICK credit : credit = [i \in D |-> Stored(L[i].credit)]
  OBVIOUS
<1>9. /\ Debits(L) = SumOver(all, D) /\ Credits(L) = SumOver(cred, D)
      /\ LeftOut(L) = SumOver(down, D)
  BY <1>2, <1>3, <1>5 DEF Debits, Credits, LeftOut
<1>10. PICK n : n = Cardinality(LinesOf(r, b))
  OBVIOUS
<1>11. PICK off : off = SumOver([e \in LinesOf(r, b) |-> e.debit - e.credit], LinesOf(r, b))
  OBVIOUS
<1>12. PICK total : total = SumOver([e \in LinesOf(r, b) |-> e.debit], LinesOf(r, b))
  OBVIOUS
<1>13. n = Cardinality(D) /\ total = SumOver(debit, D)
       /\ off = SumOver(debit, D) - SumOver(credit, D)
  BY <1>7, <1>8, <1>10, <1>11, <1>12, PostedSums
<1>14. \A i \in D : ~ Negative(L[i]) => all[i] = up[i] /\ cred[i] = upc[i]
  BY <1>1, <1>2, <1>3, <1>4, <1>6 DEF Negative, Above
<1> HIDE DEF D, L
<1>15. \A i \in D : /\ all[i] \in Int /\ up[i] \in Int /\ down[i] \in Int
                    /\ all[i] = up[i] + down[i]
  BY <1>1, <1>2, <1>4, <1>5 DEF Above
<1>16. \A i \in D : /\ up[i] \in Int /\ debit[i] \in Int
                    /\ 2 * (Scale * debit[i]) <= 2 * up[i] + Scale
                    /\ 2 * up[i] <= 2 * (Scale * debit[i]) + Scale
  BY <1>1, <1>4, <1>7, StoredNear
<1>17. \A i \in D : /\ upc[i] \in Int /\ credit[i] \in Int
                    /\ 2 * (Scale * credit[i]) <= 2 * upc[i] + Scale
                    /\ 2 * upc[i] <= 2 * (Scale * credit[i]) + Scale
  BY <1>1, <1>6, <1>8, StoredNear
<1>18. /\ SumOver(up, D) \in Int /\ SumOver(debit, D) \in Int /\ Cardinality(D) \in Nat
       /\ 2 * (Scale * SumOver(debit, D)) <= 2 * SumOver(up, D) + Scale * Cardinality(D)
       /\ 2 * SumOver(up, D) <= 2 * (Scale * SumOver(debit, D)) + Scale * Cardinality(D)
  BY <1>1, <1>16, RoundedSum
<1>19. /\ SumOver(upc, D) \in Int /\ SumOver(credit, D) \in Int
       /\ 2 * (Scale * SumOver(credit, D)) <= 2 * SumOver(upc, D) + Scale * Cardinality(D)
       /\ 2 * SumOver(upc, D) <= 2 * (Scale * SumOver(credit, D)) + Scale * Cardinality(D)
  BY <1>1, <1>17, RoundedSum
<1>20. SumOver(all, D) = SumOver(up, D) + SumOver(down, D)
  BY <1>1, <1>15, SumAdds
<1>21. SumOver(down, D) \in Int
  BY <1>1, <1>15, SumIsInt
<1>22. ASSUME \A i \in D : ~ Negative(L[i])
       PROVE  SumOver(all, D) = SumOver(up, D) /\ SumOver(cred, D) = SumOver(upc, D)
  BY <1>1, <1>14, <1>22, SameSum
<1>23. PICK paid \in Int : paid = SumOver(up, D)
  BY <1>18
<1>24. PICK owed \in Int : owed = SumOver(upc, D)
  BY <1>19
<1>25. PICK credits \in Int : credits = SumOver(credit, D)
  BY <1>19
<1>26. /\ total \in Int /\ off = total - credits
       /\ 2 * (Scale * total) <= 2 * paid + Scale * n
       /\ 2 * paid <= 2 * (Scale * total) + Scale * n
       /\ 2 * (Scale * credits) <= 2 * owed + Scale * n
       /\ 2 * owed <= 2 * (Scale * credits) + Scale * n
       /\ Debits(L) = paid + LeftOut(L) /\ LeftOut(L) \in Int
       /\ (\A i \in D : ~ Negative(L[i])) => Debits(L) = paid /\ Credits(L) = owed
  <2>1. total \in Int /\ off = total - credits /\ n = Cardinality(D)
    BY <1>13, <1>18, <1>25
  <2>2. /\ 2 * (Scale * total) <= 2 * paid + Scale * n
        /\ 2 * paid <= 2 * (Scale * total) + Scale * n
    BY <1>13, <1>18, <1>23
  <2>3. /\ 2 * (Scale * credits) <= 2 * owed + Scale * n
        /\ 2 * owed <= 2 * (Scale * credits) + Scale * n
    BY <1>13, <1>19, <1>24, <1>25
  <2>4. Debits(L) = paid + LeftOut(L) /\ LeftOut(L) \in Int
    BY <1>9, <1>20, <1>21, <1>23
  <2>5. (\A i \in D : ~ Negative(L[i])) => Debits(L) = paid /\ Credits(L) = owed
    BY <1>9, <1>22, <1>23, <1>24
  <2> QED
    BY <2>1, <2>2, <2>3, <2>4, <2>5
<1> QED
  BY <1>10, <1>11, <1>12, <1>13, <1>18, <1>26 DEF D, L

\* Debits and credits that agree once summed and rounded are this near line by line, and
\* the debits are this near their sum.
LEMMA PostedBounds ==
    ASSUME NEW r \in Request, call[r].lines \in Seq(Amounts), NEW b
    PROVE  LET lines == LinesOf(r, b)
               n == Cardinality(lines)
               off == SumOver([e \in lines |-> e.debit - e.credit], lines)
               excess == SumOver([e \in lines |-> e.debit], lines) - Cents(Debits(call[r].lines))
           IN  /\ /\ Balanced(call[r].lines)
                  /\ \A i \in DOMAIN call[r].lines : ~ Negative(call[r].lines[i])
                  => Abs(off) <= n
               /\ 2 * Abs(Scale * excess + LeftOut(call[r].lines)) <= Scale * (n + 1)
<1>1. PICK n : n = Cardinality(LinesOf(r, b))
  OBVIOUS
<1>2. PICK off : off = SumOver([e \in LinesOf(r, b) |-> e.debit - e.credit], LinesOf(r, b))
  OBVIOUS
<1>3. PICK total : total = SumOver([e \in LinesOf(r, b) |-> e.debit], LinesOf(r, b))
  OBVIOUS
<1>4. PICK out : out = LeftOut(call[r].lines)
  OBVIOUS
<1>5. PICK p : p = Debits(call[r].lines)
  OBVIOUS
<1>6. PICK q : q = Credits(call[r].lines)
  OBVIOUS
<1>7. n \in Nat
  BY <1>1, SumsNear
<1>8. PICK paid, owed, credits \in Int :
         /\ total \in Int /\ off = total - credits
         /\ 2 * (Scale * total) <= 2 * paid + Scale * n
         /\ 2 * paid <= 2 * (Scale * total) + Scale * n
         /\ 2 * (Scale * credits) <= 2 * owed + Scale * n
         /\ 2 * owed <= 2 * (Scale * credits) + Scale * n
         /\ p = paid + out /\ out \in Int
         /\ (\A i \in DOMAIN call[r].lines : ~ Negative(call[r].lines[i]))
                => p = paid /\ q = owed
  BY <1>1, <1>2, <1>3, <1>4, <1>5, <1>6, SumsNear
<1>9. Scale \in Int /\ Scale > 0
  BY ConstantAssumption
<1>10. PICK st \in Int : st = Scale * total
  BY <1>8, <1>9
<1>11. PICK sr \in Int : sr = Scale * credits
  BY <1>8, <1>9
<1>12. PICK sn \in Int : sn = Scale * n
  BY <1>7, <1>9
<1>13. /\ 2 * st <= 2 * paid + sn /\ 2 * paid <= 2 * st + sn
       /\ 2 * sr <= 2 * owed + sn /\ 2 * owed <= 2 * sr + sn
  BY <1>8, <1>10, <1>11, <1>12
<1>14. p \in Int /\ q \in Int
  BY <1>5, <1>6, SumsType
<1>15. PICK c \in Int : c = Cents(p)
  BY <1>14, CentsBounds
<1>16. PICK sc \in Int : sc = Scale * c
  BY <1>9
<1>17. 2 * sc <= 2 * p + Scale /\ 2 * p < 2 * sc + Scale
  BY <1>14, <1>15, <1>16, CentsBounds
<1>18. ASSUME Balanced(call[r].lines),
              \A i \in DOMAIN call[r].lines : ~ Negative(call[r].lines[i])
       PROVE  Abs(off) <= n
  <2>1. p = paid /\ q = owed /\ Cents(q) = c
    BY <1>5, <1>6, <1>8, <1>15, <1>18 DEF Balanced
  <2>2. 2 * sc <= 2 * q + Scale /\ 2 * q < 2 * sc + Scale
    BY <1>14, <1>16, <2>1, CentsBounds
  <2>3. st - sr < sn + Scale /\ sr - st < sn + Scale
    BY <1>9, <1>13, <1>17, <2>1, <2>2
  <2>4. /\ Scale * (total - credits) = st - sr /\ Scale * (credits - total) = sr - st
        /\ Scale * (n + 1) = sn + Scale
    BY <1>7, <1>8, <1>9, <1>10, <1>11, <1>12
  <2>5. total - credits < n + 1 /\ credits - total < n + 1
    <3>1. PICK x \in Int : x = total - credits
      BY <1>8
    <3>2. PICK y \in Int : y = credits - total
      BY <1>8
    <3>3. PICK m \in Int : m = n + 1
      BY <1>7
    <3>4. Scale * x < Scale * m /\ Scale * y < Scale * m
      BY <2>3, <2>4, <3>1, <3>2, <3>3
    <3> QED
      BY <1>9, <3>1, <3>2, <3>3, <3>4, ScaledLess
  <2> QED
    BY <1>7, <1>8, <2>5 DEF Abs
<1>19. 2 * Abs(Scale * (total - c) + out) <= Scale * (n + 1)
  <2>1. Scale * (total - c) = st - sc /\ Scale * (n + 1) = sn + Scale
    BY <1>7, <1>8, <1>9, <1>10, <1>12, <1>16
  <2>2. /\ 2 * (st - sc + out) <= sn + Scale
        /\ - (2 * (st - sc + out)) <= sn + Scale
    BY <1>8, <1>9, <1>13, <1>17
  <2>3. PICK z \in Int : z = st - sc + out
    BY <1>8
  <2>4. 2 * Abs(z) <= sn + Scale
    BY <2>2, <2>3 DEF Abs
  <2> QED
    BY <2>1, <2>3, <2>4
<1> QED
  BY <1>1, <1>2, <1>3, <1>4, <1>5, <1>15, <1>18, <1>19

(***************************************************************************)
(* A request that has not got beyond its look-up has made no batch yet.     *)
(* Nothing is posted that was not found in balance.  A request that has     *)
(* been alone since it arrived knows more: its copy is the row, the lines   *)
(* it is to delete are those it would select, and the totals it holds are   *)
(* those of the ledger it leaves.                                           *)
(***************************************************************************)

Unmade(r) ==
    pc[r] \in {"idle", "checking", "finding", "creating"}
        => rows[r] = Absent /\ \A q \in Request : local[q].target # r

UInv == \A r \in Request : Unmade(r)

PostLines(r) == {e \in entries : e.batch = local[r].target /\ e.je = JeOf(r)}

\* The row is the one this request has read.
Standing(r) ==
    /\ local[r].target \in BatchId /\ rows[local[r].target] # Absent
    /\ local[r].copy = rows[local[r].target]

HasRead(r) ==
    \/ /\ call[r].op = "post"
       /\ pc[r] \in {"checking", "validating", "selecting", "deleting", "inserting",
                     "comparing", "committing"}
    \/ /\ call[r].op \in {"statement", "upload"}
       /\ pc[r] \in {"selecting", "deleting", "resaving", "rewriting", "charting", "filling",
                     "finishing", "closing"}

Filled(r) == [total |-> Cents(Debits(call[r].lines)), count |-> 1]

\* The ledger as the request has left it so far, and what it has in hand.
InHand(r) ==
    /\ HasRead(r) => Standing(r)
    /\ pc[r] \in {"rewriting", "closing", "committing"} => local[r].seen = local[r].copy
    /\ pc[r] = "deleting" => local[r].doomed = Victims(r)
    /\ pc[r] \in {"inserting", "comparing", "committing"} => local[r].doomed = PostLines(r)
    /\ pc[r] \in {"comparing", "committing"} =>
          local[r].tally = TotalsOf(EntriesOf(local[r].target,
             (entries \ local[r].doomed) \cup LinesOf(r, local[r].target)))
    /\ pc[r] \in {"resaving", "rewriting", "charting", "filling"} =>
          EntriesOf(local[r].target, entries) = {}
    /\ pc[r] \in {"finishing", "closing"} =>
          /\ EntriesOf(local[r].target, entries) = LinesOf(r, local[r].target)
          /\ local[r].tally = Filled(r)

Weighed(r) ==
    /\ pc[r] \in {"selecting", "deleting", "inserting", "comparing", "committing"}
    /\ call[r].op = "post"
    => /\ Balanced(call[r].lines)
       /\ \A i \in DOMAIN call[r].lines : ~ Negative(call[r].lines[i])

Lone(r) == Active(r) /\ local[r].alone

PInv ==
    \A r \in Request :
        /\ Weighed(r)
        /\ Lone(r) => InHand(r) /\ \A q \in Request \ {r} : ~ Active(q)

\* Rows are made by creations, under the request's own id, and by saves of a copy.
LEMMA RowsMade ==
    ASSUME TInv, NEW r \in Request, Step(r) \/ Abort(r), NEW b \in BatchId, rows[b] = Absent
    PROVE  \/ rows'[b] = Absent
           \/ b = local[r].target
           \/ b = r /\ pc'[r] \in {"done", "charting"}
<1>1. RowsOK /\ r \in BatchId /\ pc \in [Request -> Labels]
  BY DEF TInv, TypeOK, RowsOK, BatchId
<1>2. CASE CreateBatch(r)
  <2>1. \/ rows' = rows
        \/ \E x : rows' = [rows EXCEPT ![r] = x] /\ pc'[r] = "done"
    BY <1>1, <1>2 DEF CreateBatch, End, Goto
  <2> QED
    BY <1>1, <2>1 DEF RowsOK
<1>3. CASE CreateStatement(r)
  <2>1. \/ rows' = rows
        \/ \E x : rows' = [rows EXCEPT ![r] = x] /\ pc'[r] = "charting"
    BY <1>1, <1>3 DEF CreateStatement, End, Goto
  <2> QED
    BY <1>1, <2>1 DEF RowsOK
<1>4. CASE SaveBatch(r) \/ ResaveStatement(r) \/ CommitPosting(r) \/ FinishBatch(r)
  <2>1. rows' = rows \/ \E x : rows' = Written(r, x)
    BY <1>4 DEF SaveBatch, ResaveStatement, CommitPosting, FinishBatch, SaveEntity
  <2>2. \A x : rows' = Written(r, x) =>
            rows' = rows \/ \E y : rows' = [rows EXCEPT ![local[r].target] = y]
    BY DEF Written
  <2> QED
    BY <1>1, <2>1, <2>2 DEF RowsOK
<1>5. CASE \/ FindBatch(r) \/ CheckPeriod(r) \/ MatchNumber(r) \/ ValidateLines(r)
           \/ Compare(r) \/ SelectLines(r) \/ DeleteLines(r) \/ InsertLine(r)
           \/ TallyBatch(r) \/ ChartAccounts(r) \/ FillBatch(r) \/ Abort(r)
  BY <1>5 DEF FindBatch, CheckPeriod, MatchNumber, ValidateLines, Compare, SelectLines,
     DeleteLines, InsertLine, TallyBatch, ChartAccounts, FillBatch, Abort
<1>6. CASE DropStatements(r)
  BY <1>6 DEF DropStatements
<1> QED
  BY <1>2, <1>3, <1>4, <1>5, <1>6 DEF Step

\* What a look-up that finds its row, or needs none, brings.
LEMMA FoundBatch ==
    ASSUME TInv, NEW r \in Request, FindBatch(r)
    PROVE  /\ pc[r] = "finding" /\ rows' = rows /\ entries' = entries
           /\ \/ pc'[r] = "failed" /\ local'[r] = Forgotten
              \/ /\ pc'[r] \in {"checking", "selecting"} /\ Standing(r)'
                 /\ local'[r].alone = local[r].alone
                 /\ pc'[r] = "checking" => call[r].op # "statement"
                 /\ pc'[r] = "selecting" => call[r].op # "post"
              \/ pc'[r] = "creating" /\ local' = local /\ call[r].op = "statement"
<1>1. /\ pc[r] = "finding" /\ rows' = rows /\ entries' = entries
      /\ local[r] \in Locals /\ pc \in [Request -> Labels] /\ local \in [Request -> Locals]
      /\ call[r] \in Calls
  BY AtWork DEF FindBatch, TInv, TypeOK
<1>2. ASSUME NEW b \in BatchId, NEW label, ReadBatch(r, b, label), Present(b)
      PROVE  pc'[r] = label /\ Standing(r)' /\ local'[r].alone = local[r].alone
  <2>1. local'[r].target = b /\ local'[r].copy = rows[b] /\ pc'[r] = label
        /\ local'[r].alone = local[r].alone
    BY <1>1, <1>2 DEF ReadBatch, Goto, Locals
  <2> QED
    BY <1>1, <1>2, <2>1 DEF Standing, Present
<1>3. ASSUME End(r, "failed") PROVE pc'[r] = "failed" /\ local'[r] = Forgotten
  BY <1>1, <1>3 DEF End, Goto
<1>4. CASE call[r].op \in {"update", "remove", "post"}
  <2>1. call[r].batch \in BatchId
    BY <1>1, <1>4, CallFields
  <2>2. CASE Live(call[r].batch)
    <3>1. ReadBatch(r, call[r].batch, "checking") /\ Present(call[r].batch)
      BY <1>4, <2>2 DEF FindBatch, Live
    <3> QED
      BY <1>1, <1>2, <1>4, <2>1, <3>1
  <2>3. CASE ~ Live(call[r].batch)
    <3>1. End(r, "failed")
      BY <1>4, <2>3 DEF FindBatch
    <3> QED
      BY <1>1, <1>3, <3>1
  <2> QED
    BY <2>2, <2>3
<1>5. CASE call[r].op = "upload"
  <2>1. call[r].batch \in BatchId
    BY <1>1, <1>5, CallFields
  <2>2. CASE Present(call[r].batch)
    <3>1. ReadBatch(r, call[r].batch, "selecting")
      BY <1>5, <2>2 DEF FindBatch
    <3> QED
      BY <1>1, <1>2, <1>5, <2>1, <2>2, <3>1
  <2>3. CASE ~ Present(call[r].batch)
    <3>1. End(r, "failed")
      BY <1>5, <2>3 DEF FindBatch
    <3> QED
      BY <1>1, <1>3, <3>1
  <2> QED
    BY <2>2, <2>3
<1>6. CASE call[r].op = "statement"
  <2>1. \/ Goto(r, "creating") /\ local' = local
        \/ \E b \in BatchId : Present(b) /\ ReadBatch(r, b, "selecting")
    BY <1>6 DEF FindBatch
  <2>2. CASE Goto(r, "creating") /\ local' = local
    BY <1>1, <1>6, <2>2 DEF Goto
  <2>3. CASE \E b \in BatchId : Present(b) /\ ReadBatch(r, b, "selecting")
    BY <1>1, <1>2, <1>6, <2>3
  <2> QED
    BY <2>1, <2>2, <2>3
<1> QED
  BY <1>1, <1>4, <1>5, <1>6, AtWork DEF Fits

\* A request aims at a row that is there, or at the one it has made.
LEMMA TargetsMade ==
    ASSUME TInv, NEW r \in Request, Step(r) \/ Abort(r)
    PROVE  \/ local'[r].target = local[r].target
           \/ local'[r].target = Absent
           \/ local'[r].target \in BatchId /\ rows[local'[r].target] # Absent
           \/ local'[r].target = r /\ pc'[r] = "charting"
<1>1. local[r] \in Locals /\ pc \in [Request -> Labels] /\ local \in [Request -> Locals]
  BY DEF TInv, TypeOK
<1>2. CASE FindBatch(r)
  BY <1>2, FoundBatch DEF Standing, Forgotten
<1>3. CASE CreateStatement(r)
  BY <1>1, <1>3 DEF CreateStatement, End, Goto, Forgotten, Locals
<1>4. CASE CheckPeriod(r) \/ MatchNumber(r) \/ ValidateLines(r) \/ Compare(r) \/ CreateBatch(r)
  BY <1>1, <1>4 DEF CheckPeriod, MatchNumber, ValidateLines, Compare, CreateBatch, End,
     Forgotten, Locals
<1>5. CASE \/ SaveBatch(r) \/ ResaveStatement(r) \/ CommitPosting(r) \/ FinishBatch(r)
           \/ DropStatements(r) \/ Abort(r)
  BY <1>1, <1>5 DEF SaveBatch, ResaveStatement, CommitPosting, FinishBatch, DropStatements,
     Abort, End, Forgotten
<1>6. CASE SelectLines(r) \/ DeleteLines(r)
  BY <1>1, <1>6 DEF SelectLines, DeleteLines, Locals
<1>7. CASE InsertLine(r) \/ TallyBatch(r) \/ ChartAccounts(r) \/ FillBatch(r)
  BY <1>1, <1>7 DEF InsertLine, TallyBatch, ChartAccounts, FillBatch, End, Forgotten, Locals
<1> QED
  BY <1>2, <1>3, <1>4, <1>5, <1>6, <1>7 DEF Step

\* No step goes back to before the creation.
LEMMA NoWayBack ==
    ASSUME TInv, NEW r \in Request, Step(r) \/ Abort(r),
           pc'[r] \in {"idle", "checking", "finding", "creating"}
    PROVE  pc[r] \in {"idle", "checking", "finding", "creating"}
<1> USE DEF TInv, TypeOK, Goto, End
<1>1. CASE FindBatch(r) \/ CheckPeriod(r)
  BY <1>1 DEF FindBatch, CheckPeriod
<1>2. CASE MatchNumber(r) \/ ValidateLines(r) \/ Compare(r) \/ SelectLines(r)
  BY <1>2 DEF MatchNumber, ValidateLines, Compare, AfterCompare, SelectLines
<1>3. CASE DeleteLines(r)
  BY <1>3 DEF DeleteLines, AfterDelete
<1>4. CASE CreateBatch(r) \/ CreateStatement(r)
  BY <1>4 DEF CreateBatch, CreateStatement
<1>5. CASE SaveBatch(r) \/ ResaveStatement(r) \/ CommitPosting(r) \/ FinishBatch(r)
  BY <1>5 DEF SaveBatch, ResaveStatement, CommitPosting, FinishBatch
<1>6. CASE \/ InsertLine(r) \/ TallyBatch(r) \/ ChartAccounts(r) \/ FillBatch(r)
           \/ DropStatements(r) \/ Abort(r)
  BY <1>6 DEF InsertLine, TallyBatch, ChartAccounts, FillBatch, DropStatements, Abort
<1> QED
  BY <1>1, <1>2, <1>3, <1>4, <1>5, <1>6 DEF Step

LEMMA UInvFirst == Init => UInv
<1> SUFFICES ASSUME Init, NEW r \in Request
             PROVE  rows[r] = Absent /\ \A q \in Request : local[q].target # r
  BY DEF UInv, Unmade
<1> QED
  BY ConstantAssumption DEF Init, Forgotten, BatchId

LEMMA NextUnmade == TInv /\ UInv /\ [Next]_vars => UInv'
<1> SUFFICES ASSUME TInv, UInv, [Next]_vars, NEW s \in Request,
                    pc'[s] \in {"idle", "checking", "finding", "creating"}
             PROVE  rows'[s] = Absent /\ \A q \in Request : local'[q].target # s
  BY DEF UInv, Unmade
<1>1. ASSUME NEW r \in Request, Step(r) \/ Abort(r)
      PROVE  rows'[s] = Absent /\ \A q \in Request : local'[q].target # s
  <2>1. pc[s] \in {"idle", "checking", "finding", "creating"}
    <3>1. CASE s = r
      BY <1>1, <3>1, NoWayBack
    <3>2. CASE s # r
      BY <1>1, <3>2, PcFrame
    <3> QED
      BY <3>1, <3>2
  <2>2. rows[s] = Absent /\ \A q \in Request : local[q].target # s
    BY <2>1 DEF UInv, Unmade
  <2>3. s \in BatchId /\ s # Absent
    BY ConstantAssumption DEF BatchId
  <2>4. rows'[s] = Absent
    BY <1>1, <2>2, <2>3, RowsMade
  <2>5. local'[r].target # s
    BY <1>1, <2>2, <2>3, TargetsMade
  <2>6. \A q \in Request \ {r} : local'[q] = local[q]
    BY <1>1, PcFrame
  <2> QED
    BY <2>2, <2>4, <2>5, <2>6
<1>2. ASSUME rows' = rows, \A q \in Request : local'[q].target = local[q].target,
             pc[s] \in {"idle", "checking", "finding", "creating"}
      PROVE  rows'[s] = Absent /\ \A q \in Request : local'[q].target # s
  BY <1>2 DEF UInv, Unmade
<1>3. ASSUME NEW r \in Request, NEW c \in Exercised, Arrive(r, c)
      PROVE  rows'[s] = Absent /\ \A q \in Request : local'[q].target # s
  <2>1. rows' = rows /\ pc[r] = "idle" /\ \A q \in Request \ {r} : pc'[q] = pc[q]
    BY <1>3 DEF Arrive, Goto, TInv, TypeOK
  <2>2. \A q \in Request : local'[q].target = local[q].target
    BY <1>3 DEF Arrive, TInv, TypeOK, Locals
  <2>3. pc[s] \in {"idle", "checking", "finding", "creating"}
    BY <2>1
  <2> QED
    BY <1>2, <2>1, <2>2, <2>3
<1>4. ASSUME NEW p \in Period, LockPeriod(p) \/ UnlockPeriod(p)
      PROVE  rows'[s] = Absent /\ \A q \in Request : local'[q].target # s
  <2>1. rows' = rows /\ pc' = pc
    BY <1>4 DEF LockPeriod, UnlockPeriod
  <2>2. \A q \in Request : local'[q].target = local[q].target
    BY <1>4 DEF LockPeriod, UnlockPeriod, TInv, TypeOK, Locals
  <2> QED
    BY <1>2, <2>1, <2>2
<1>5. CASE UNCHANGED vars
  BY <1>2, <1>5 DEF vars
<1> QED
  BY <1>1, <1>3, <1>4, <1>5 DEF Next

LEMMA StepWeighs ==
    ASSUME TInv, NEW r \in Request, Weighed(r), Step(r) \/ Abort(r)
    PROVE  Weighed(r)'
<1> USE DEF TInv, TypeOK, Goto, End
<1>1. call' = call
  BY CallFrame
<1>2. CASE FindBatch(r)
  BY <1>1, <1>2, FoundBatch DEF Weighed
<1>3. CASE CheckPeriod(r) \/ MatchNumber(r)
  BY <1>1, <1>3 DEF CheckPeriod, MatchNumber, AfterCheck, Weighed
<1>4. CASE ValidateLines(r)
  <2>1. pc'[r] \in {"selecting", "failed"}
        /\ (pc'[r] = "selecting" => /\ Balanced(call[r].lines)
                                    /\ \A i \in DOMAIN call[r].lines : ~ Negative(call[r].lines[i]))
    BY <1>4 DEF ValidateLines
  <2>2. call'[r] = call[r]
    BY <1>1
  <2> QED
    BY <2>1, <2>2 DEF Weighed, Balanced, Debits, Credits, Negative
<1>5. CASE CreateBatch(r) \/ CreateStatement(r) \/ SaveBatch(r) \/ ResaveStatement(r)
  BY <1>1, <1>5 DEF CreateBatch, CreateStatement, SaveBatch, ResaveStatement, Weighed
<1>6. CASE SelectLines(r) \/ DeleteLines(r) \/ InsertLine(r) \/ TallyBatch(r) \/ Compare(r)
  <2>1. /\ pc'[r] \in {"selecting", "deleting", "inserting", "comparing", "committing"}
           /\ call[r].op = "post"
        => pc[r] \in {"selecting", "deleting", "inserting", "comparing", "committing"}
    BY <1>6, AtWork DEF SelectLines, DeleteLines, AfterDelete, InsertLine, TallyBatch, Compare,
       AfterCompare, Fits
  <2>2. call'[r] = call[r]
    BY <1>1
  <2> QED
    BY <2>1, <2>2 DEF Weighed, Balanced, Debits, Credits, Negative
<1>7. CASE \/ ChartAccounts(r) \/ FillBatch(r) \/ FinishBatch(r) \/ DropStatements(r)
           \/ Abort(r) \/ CommitPosting(r)
  BY <1>1, <1>7 DEF ChartAccounts, FillBatch, FinishBatch, DropStatements, Abort, CommitPosting,
     Weighed
<1> QED
  BY <1>2, <1>3, <1>4, <1>5, <1>6, <1>7 DEF Step

\* Only an arrival makes a request lone.
LEMMA LoneBefore ==
    ASSUME TInv, NEW r \in Request, Step(r) \/ Abort(r), Lone(r)'
    PROVE  Lone(r) /\ pc'[r] \notin {"done", "failed"}
<1>1. /\ pc'[r] \notin {"done", "failed"} /\ local'[r].alone /\ Active(r)
  BY CallFrame DEF Lone, Active
<1>2. local'[r].alone = local[r].alone \/ local'[r] = Forgotten
  <2> USE DEF TInv, TypeOK, End, Locals
  <2>1. CASE FindBatch(r)
    BY <2>1, FoundBatch
  <2>2. CASE \/ CheckPeriod(r) \/ MatchNumber(r) \/ ValidateLines(r) \/ ChartAccounts(r)
             \/ Compare(r)
    BY <2>2 DEF CheckPeriod, MatchNumber, ValidateLines, ChartAccounts, Compare
  <2>3. CASE CreateBatch(r) \/ CreateStatement(r) \/ SaveBatch(r) \/ ResaveStatement(r)
    BY <2>3 DEF CreateBatch, CreateStatement, SaveBatch, ResaveStatement
  <2>4. CASE SelectLines(r) \/ DeleteLines(r)
    BY <2>4 DEF SelectLines, DeleteLines
  <2>5. CASE InsertLine(r) \/ TallyBatch(r) \/ CommitPosting(r)
    BY <2>5 DEF InsertLine, TallyBatch, CommitPosting
  <2>6. CASE FillBatch(r) \/ FinishBatch(r) \/ DropStatements(r) \/ Abort(r)
    BY <2>6 DEF FillBatch, FinishBatch, DropStatements, Abort
  <2> QED
    BY <2>1, <2>2, <2>3, <2>4, <2>5, <2>6 DEF Step
<1>3. local'[r] # Forgotten
  BY <1>1 DEF Forgotten
<1>4. local'[r].alone = local[r].alone
  BY <1>2, <1>3
<1>5. local[r].alone
  BY <1>1, <1>4
<1> QED
  BY <1>1, <1>5 DEF Lone

\* The lines a DELETE asks for.
LEMMA BatchLines ==
    ASSUME NEW r \in Request, call[r].op \in {"post", "statement", "upload"}
    PROVE  /\ call[r].op # "post" => Victims(r) = EntriesOf(local[r].target, entries)
           /\ call[r].op = "post" => Victims(r) = PostLines(r)
BY DEF Victims, EntriesOf, PostLines, JeOf

\* A step that writes neither rows nor lines and keeps what was read.
LEMMA StillStanding ==
    ASSUME NEW r \in Request, rows' = rows, local'[r].target = local[r].target,
           local'[r].copy = local[r].copy
    PROVE  Standing(r)' = Standing(r)
BY DEF Standing

LEMMA StepHands ==
    ASSUME TInv, RInv, UInv, NEW r \in Request, InHand(r), Step(r),
           pc'[r] \notin {"done", "failed"}
    PROVE  InHand(r)'
<1>1. call' = call
  BY CallFrame
<1>2. local[r] \in Locals /\ pc \in [Request -> Labels] /\ local \in [Request -> Locals]
  BY DEF TInv, TypeOK
<1>3. /\ \A b : LinesOf(r, b)' = LinesOf(r, b)
      /\ JeOf(r)' = JeOf(r) /\ Filled(r)' = Filled(r)
  BY <1>1, SameLines DEF JeOf, Filled
<1>4. CASE FindBatch(r)
  BY <1>1, <1>4, FoundBatch DEF InHand, HasRead
<1>5. CASE CheckPeriod(r)
  <2>1. /\ rows' = rows /\ local' = local /\ pc[r] = "checking"
        /\ pc'[r] = AfterCheck(call[r].op)
    BY <1>2, <1>5 DEF CheckPeriod, Goto, End
  <2>2. \/ pc'[r] \in {"creating", "finding", "matching", "saving"}
        \/ pc'[r] = "validating" /\ call[r].op = "post"
    BY <2>1 DEF AfterCheck
  <2> QED
    BY <1>1, <2>1, <2>2, StillStanding DEF InHand, HasRead
<1>6. CASE MatchNumber(r)
  <2>1. pc'[r] = "saving"
    BY <1>2, <1>6 DEF MatchNumber, Goto, End
  <2> QED
    BY <2>1 DEF InHand, HasRead
<1>7. CASE ValidateLines(r)
  <2>1. /\ rows' = rows /\ local' = local /\ pc[r] = "validating" /\ pc'[r] = "selecting"
    BY <1>2, <1>7 DEF ValidateLines, Goto, End
  <2>2. call[r].op = "post"
    BY <2>1, AtWork DEF Fits
  <2> QED
    BY <1>1, <2>1, <2>2, StillStanding DEF InHand, HasRead
<1>8. CASE SelectLines(r)
  <2>1. /\ rows' = rows /\ entries' = entries /\ pc[r] = "selecting" /\ pc'[r] = "deleting"
        /\ local'[r].copy = local[r].copy /\ local'[r].target = local[r].target
        /\ local'[r].doomed = Victims(r)
    BY <1>2, <1>8 DEF SelectLines, Goto, Locals
  <2>2. Victims(r)' = Victims(r)
    BY <1>1, <2>1 DEF Victims, OfStatement, Present
  <2> QED
    BY <1>1, <2>1, <2>2, StillStanding DEF InHand, HasRead
<1>9. CASE DeleteLines(r)
  <2>1. rows' = rows /\ pc[r] = "deleting" /\ local'[r].copy = local[r].copy
        /\ local'[r].target = local[r].target
    BY <1>2, <1>9 DEF DeleteLines, Goto, Locals
  <2>2. local[r].doomed = Victims(r)
    BY <2>1 DEF InHand
  <2>3. CASE call[r].op = "post"
    <3>1. /\ entries' = entries /\ pc'[r] = "inserting"
          /\ local'[r].doomed = local[r].doomed \cap entries
      BY <1>2, <1>9, <2>3 DEF DeleteLines, Goto, Locals
    <3>2. Standing(r)'
      BY <2>1, <2>3, StillStanding DEF InHand, HasRead
    <3>3. local'[r].doomed = PostLines(r)
      BY <2>2, <2>3, <3>1, BatchLines DEF PostLines
    <3>4. PostLines(r)' = PostLines(r)
      BY <1>3, <2>1, <3>1 DEF PostLines
    <3> QED
      BY <3>1, <3>2, <3>3, <3>4 DEF InHand
  <2>4. CASE call[r].op \in {"statement", "upload"}
    <3>1. entries' = entries \ local[r].doomed /\ pc'[r] \in {"resaving", "charting"}
      BY <1>2, <1>9, <2>4 DEF DeleteLines, Goto, AfterDelete
    <3>2. Standing(r)'
      BY <2>1, <2>4, StillStanding DEF InHand, HasRead
    <3>3. local[r].doomed = EntriesOf(local[r].target, entries)
      BY <2>2, <2>4, BatchLines
    <3>4. EntriesOf(local[r].target, entries)' = {}
      BY <2>1, <3>1, <3>3 DEF EntriesOf
    <3> QED
      BY <3>1, <3>2, <3>4 DEF InHand
  <2>5. CASE call[r].op = "drop"
    <3>1. pc'[r] = "dropping"
      BY <1>2, <1>9, <2>5 DEF DeleteLines, Goto, AfterDelete
    <3> QED
      BY <3>1 DEF InHand, HasRead
  <2> QED
    BY <2>1, <2>3, <2>4, <2>5, AtWork DEF Fits
<1>10. CASE InsertLine(r)
  <2>1. /\ rows' = rows /\ entries' = entries /\ pc[r] = "inserting" /\ pc'[r] = "inserting"
        /\ local'[r].copy = local[r].copy /\ local'[r].doomed = local[r].doomed
        /\ local'[r].target = local[r].target
    BY <1>2, <1>10 DEF InsertLine, Goto, End, Locals
  <2>2. PostLines(r)' = PostLines(r)
    BY <1>3, <2>1 DEF PostLines
  <2> QED
    BY <1>1, <2>1, <2>2, StillStanding DEF InHand, HasRead
<1>11. CASE TallyBatch(r)
  <2>1. /\ rows' = rows /\ entries' = entries /\ pc[r] = "inserting" /\ pc'[r] = "comparing"
        /\ local'[r].copy = local[r].copy /\ local'[r].doomed = local[r].doomed
        /\ local'[r].target = local[r].target
        /\ local'[r].tally =
              TotalsOf(EntriesOf(call[r].batch, (entries \ local[r].doomed) \cup Draft(r)))
    BY <1>2, <1>11 DEF TallyBatch, Goto, Locals
  <2>2. Draft(r) = LinesOf(r, local[r].target) /\ local[r].target = call[r].batch
    <3>1. /\ call[r].lines \in Seq(Amounts) /\ local[r].drafted = Len(call[r].lines)
          /\ local[r].target = call[r].batch
      BY <1>11, <2>1, AtWork DEF Fits, TallyBatch, CopyNeeded, HasCopy
    <3> QED
      BY <3>1 DEF Draft, LinesOf
  <2>3. PostLines(r)' = PostLines(r)
    BY <1>3, <2>1 DEF PostLines
  <2>4. HasRead(r)' => HasRead(r)
    BY <1>1, <2>1 DEF HasRead
  <2>5. Standing(r)' = Standing(r)
    BY <2>1, StillStanding
  <2>6. local'[r].tally = TotalsOf(EntriesOf(local'[r].target,
             (entries' \ local'[r].doomed) \cup LinesOf(r, local'[r].target)))
    BY <2>1, <2>2
  <2> QED
    BY <1>3, <2>1, <2>3, <2>4, <2>5, <2>6 DEF InHand
<1>12. CASE Compare(r)
  <2>1. /\ rows' = rows /\ entries' = entries /\ pc'[r] = AfterCompare[pc[r]]
        /\ local'[r].copy = local[r].copy /\ local'[r].doomed = local[r].doomed
        /\ local'[r].target = local[r].target /\ local'[r].tally = local[r].tally
        /\ local'[r].seen = rows[local[r].target]
        /\ pc[r] \in {"saving", "resaving", "comparing", "finishing"}
    BY <1>2, <1>12 DEF Compare, Goto, AfterCompare, Locals
  <2>2. Standing(r)' = Standing(r)
    BY <2>1, StillStanding
  <2>3. CASE pc[r] = "saving"
    BY <2>1, <2>3 DEF AfterCompare, InHand, HasRead
  <2>4. CASE pc[r] = "resaving"
    <3>1. pc'[r] = "rewriting" /\ call[r].op = "statement"
      BY <2>1, <2>4, AtWork DEF AfterCompare, Fits
    <3>2. Standing(r) /\ EntriesOf(local[r].target, entries) = {}
      BY <2>4, <3>1 DEF InHand, HasRead
    <3>3. local'[r].seen = local'[r].copy
      BY <2>1, <3>2 DEF Standing
    <3> QED
      BY <2>1, <2>2, <3>1, <3>2, <3>3 DEF InHand
  <2>5. CASE pc[r] = "comparing"
    <3>1. pc'[r] = "committing" /\ call[r].op = "post"
      BY <2>1, <2>5, AtWork DEF AfterCompare, Fits
    <3>2. Standing(r) /\ local[r].doomed = PostLines(r)
      BY <2>5, <3>1 DEF InHand, HasRead
    <3>3. local'[r].seen = local'[r].copy
      BY <2>1, <3>2 DEF Standing
    <3>4. PostLines(r)' = PostLines(r)
      BY <1>3, <2>1 DEF PostLines
    <3>5. local'[r].tally = TotalsOf(EntriesOf(local'[r].target,
               (entries' \ local'[r].doomed) \cup LinesOf(r, local'[r].target)))
      BY <2>1, <2>5 DEF InHand
    <3> QED
      BY <1>3, <2>1, <2>2, <3>1, <3>2, <3>3, <3>4, <3>5 DEF InHand
  <2>6. CASE pc[r] = "finishing"
    <3>1. pc'[r] = "closing" /\ call[r].op \in {"statement", "upload"}
      BY <2>1, <2>6, AtWork DEF AfterCompare, Fits
    <3>2. /\ Standing(r) /\ local[r].tally = Filled(r)
          /\ EntriesOf(local[r].target, entries) = LinesOf(r, local[r].target)
      BY <2>6, <3>1 DEF InHand, HasRead
    <3>3. local'[r].seen = local'[r].copy
      BY <2>1, <3>2 DEF Standing
    <3> QED
      BY <1>3, <2>1, <2>2, <3>1, <3>2, <3>3 DEF InHand
  <2> QED
    BY <2>1, <2>3, <2>4, <2>5, <2>6
<1>13. CASE CreateStatement(r)
  <2> DEFINE row == Fresh(call[r].number, StatementPeriod)
  <2>1. /\ entries' = entries /\ pc'[r] = "charting" /\ pc[r] = "creating"
        /\ rows' = [rows EXCEPT ![r] = row]
        /\ local'[r].target = r /\ local'[r].copy = row
    BY <1>2, <1>13 DEF CreateStatement, Goto, End, Locals
  <2>2. r \in BatchId /\ RowsOK /\ row \in BatchRow
    BY <1>13, AtWork, CallFields, FreshBatchRow, ConstantAssumption DEF CreateStatement, BatchId
  <2>3. rows'[r] = row /\ row # Absent
    BY <2>1, <2>2, ConstantAssumption DEF RowsOK
  <2>4. \A e \in entries : e.batch # r
    BY <2>1 DEF UInv, Unmade, RInv, EntriesHaveRows
  <2>5. Standing(r)'
    BY <2>1, <2>2, <2>3 DEF Standing
  <2>6. EntriesOf(local[r].target, entries)' = {}
    BY <2>1, <2>4 DEF EntriesOf
  <2> QED
    BY <2>1, <2>5, <2>6 DEF InHand
<1>14. CASE ResaveStatement(r)
  <2>1. /\ pc[r] = "rewriting" /\ pc'[r] = "charting" /\ local' = local /\ entries' = entries
        /\ rows' = Written(r, local[r].copy)
    BY <1>2, <1>14 DEF ResaveStatement, SaveEntity, Goto, End
  <2>2. call[r].op = "statement" /\ RowsOK /\ Absent \notin BatchRow
    BY <2>1, AtWork, ConstantAssumption DEF Fits
  <2>3. Standing(r) /\ local[r].seen = local[r].copy
    BY <2>1, <2>2 DEF InHand, HasRead
  <2>4. /\ local[r].target \in BatchId /\ rows[local[r].target] \in BatchRow
        /\ local[r].copy = rows[local[r].target] /\ Kept(r) /\ local[r].seen # Absent
    BY <2>2, <2>3 DEF Standing, RowsOK, Kept, Present
  <2>5. Updated(r, local[r].copy) = rows[local[r].target]
    BY <2>1, <2>3, <2>4, MergedRow DEF Updated, Computes
  <2>6. rows' = rows
    BY <2>1, <2>2, <2>4, <2>5 DEF Written, RowsOK
  <2>7. Standing(r)'
    BY <2>1, <2>3, <2>6 DEF Standing
  <2>8. EntriesOf(local[r].target, entries)' = {}
    BY <2>1 DEF InHand, EntriesOf
  <2> QED
    BY <2>1, <2>7, <2>8 DEF InHand
<1>15. CASE ChartAccounts(r)
  <2>1. /\ rows' = rows /\ entries' = entries /\ local' = local
        /\ pc[r] = "charting" /\ pc'[r] = "filling"
    BY <1>2, <1>15 DEF ChartAccounts, Goto, End
  <2>2. EntriesOf(local[r].target, entries)' = {}
    BY <2>1 DEF InHand, EntriesOf
  <2> QED
    BY <1>1, <2>1, <2>2, StillStanding DEF InHand, HasRead
<1>16. CASE FillBatch(r)
  <2>1. /\ rows' = rows /\ entries' = entries \cup LinesOf(r, local[r].target)
        /\ local'[r].target = local[r].target /\ local'[r].copy = local[r].copy
        /\ local'[r].tally = Filled(r)
        /\ pc[r] = "filling" /\ pc'[r] = "finishing"
    BY <1>2, <1>16 DEF FillBatch, Goto, End, Locals, Filled
  <2>2. EntriesOf(local[r].target, entries) = {}
    BY <2>1 DEF InHand
  <2>3. EntriesOf(local[r].target, entries') = LinesOf(r, local[r].target)
    BY <2>1, <2>2, LineFields DEF EntriesOf
  <2>4. Standing(r)' = Standing(r) /\ (HasRead(r)' => HasRead(r))
    BY <1>1, <2>1, StillStanding DEF HasRead
  <2> QED
    BY <1>3, <2>1, <2>3, <2>4 DEF InHand
<1>17. CASE \/ CreateBatch(r) \/ SaveBatch(r) \/ CommitPosting(r) \/ FinishBatch(r)
            \/ DropStatements(r)
  BY <1>2, <1>17 DEF CreateBatch, SaveBatch, CommitPosting, FinishBatch, DropStatements, End, Goto
<1> QED
  BY <1>4, <1>5, <1>6, <1>7, <1>8, <1>9, <1>10, <1>11, <1>12, <1>13, <1>14, <1>15, <1>16, <1>17
     DEF Step

LEMMA SameHands ==
    ASSUME NEW r \in Request, rows' = rows, entries' = entries, pc'[r] = pc[r],
           call'[r] = call[r], local'[r].copy = local[r].copy,
           local'[r].target = local[r].target, local'[r].seen = local[r].seen,
           local'[r].doomed = local[r].doomed, local'[r].tally = local[r].tally,
           local'[r].alone = local[r].alone
    PROVE  /\ Weighed(r) => Weighed(r)'
           /\ InHand(r) => InHand(r)'
           /\ Lone(r)' = Lone(r)
<1>1. /\ \A b : LinesOf(r, b)' = LinesOf(r, b)
      /\ JeOf(r)' = JeOf(r) /\ Filled(r)' = Filled(r)
  BY SameLines DEF JeOf, Filled
<1>2. Standing(r)' = Standing(r) /\ Victims(r)' = Victims(r) /\ PostLines(r)' = PostLines(r)
  BY <1>1 DEF Standing, Victims, PostLines, OfStatement, Present
<1>3. EntriesOf(local[r].target, entries)' = EntriesOf(local[r].target, entries)
  BY DEF EntriesOf
<1>4. InHand(r) => InHand(r)'
  BY <1>1, <1>2, <1>3 DEF InHand, HasRead
<1>5. Weighed(r) => Weighed(r)'
  BY DEF Weighed, Balanced, Debits, Credits, Negative
<1> QED
  BY <1>4, <1>5 DEF Lone, Active

LEMMA NextHands == TInv /\ RInv /\ UInv /\ PInv /\ [Next]_vars => PInv'
<1> SUFFICES ASSUME TInv, RInv, UInv, PInv, [Next]_vars PROVE PInv'
  OBVIOUS
<1> DEFINE Good(q) == /\ Weighed(q)
                      /\ Lone(q) => InHand(q) /\ \A p \in Request \ {q} : ~ Active(p)
<1>1. pc \in [Request -> Labels] /\ local \in [Request -> Locals]
      /\ call \in [Request -> Exercised \cup {Absent}] /\ Exercised \subseteq Calls
  BY ConstantAssumption DEF TInv, TypeOK
<1>2. \A q \in Request : Good(q)
  BY DEF PInv
<1> SUFFICES \A q \in Request : Good(q)'
  BY DEF PInv
<1>3. ASSUME NEW r \in Request, NEW c \in Exercised, Arrive(r, c)
      PROVE  \A q \in Request : Good(q)'
  <2>1. /\ rows' = rows /\ entries' = entries
        /\ \A q \in Request \ {r} : pc'[q] = pc[q] /\ call'[q] = call[q] /\ ~ local'[q].alone
    BY <1>1, <1>3 DEF Arrive, Goto, Locals
  <2>2. /\ call'[r] = c /\ pc'[r] = FirstStep(c.op)
        /\ local'[r].alone => \A o \in Request : ~ Active(o)
    BY <1>1, <1>3 DEF Arrive, Goto, Locals
  <2>3. pc'[r] \in {"checking", "selecting", "finding"}
        /\ (pc'[r] = "checking" => c.op \notin {"post"})
        /\ (pc'[r] = "selecting" => c.op = "drop")
    BY <2>2 DEF FirstStep
  <2>4. ASSUME NEW q \in Request \ {r} PROVE Good(q)'
    <3>1. Weighed(q)'
      BY <1>2, <2>1 DEF Weighed, Balanced, Debits, Credits, Negative
    <3> QED
      BY <2>1, <3>1 DEF Lone
  <2>5. Good(r)'
    <3>1. Weighed(r)' /\ InHand(r)'
      BY <2>2, <2>3 DEF Weighed, InHand, HasRead
    <3>2. Lone(r)' => \A q \in Request \ {r} : ~ Active(q)'
      BY <2>1, <2>2 DEF Lone, Active
    <3> QED
      BY <3>1, <3>2
  <2> QED
    BY <2>4, <2>5
<1>4. ASSUME NEW r \in Request, Step(r) \/ Abort(r)
      PROVE  \A q \in Request : Good(q)'
  <2>1. \A q \in Request \ {r} : pc'[q] = pc[q] /\ local'[q] = local[q] /\ call'[q] = call[q]
    BY <1>4, PcFrame, CallFrame
  <2>2. Active(r)
    BY <1>4, CallFrame
  <2>3. ASSUME NEW q \in Request \ {r} PROVE Good(q)'
    <3>1. ~ Lone(q)
      BY <1>2, <2>2
    <3>2. Weighed(q)'
      BY <1>2, <2>1 DEF Weighed, Balanced, Debits, Credits, Negative
    <3> QED
      BY <2>1, <3>1, <3>2 DEF Lone, Active
  <2>4. Weighed(r)'
    BY <1>2, <1>4, StepWeighs
  <2>5. ASSUME Lone(r)' PROVE InHand(r)' /\ \A q \in Request \ {r} : ~ Active(q)'
    <3>1. Lone(r) /\ pc'[r] \notin {"done", "failed"}
      BY <1>4, <2>5, LoneBefore
    <3>2. InHand(r) /\ \A q \in Request \ {r} : ~ Active(q)
      BY <1>2, <3>1
    <3>3. Step(r)
      BY <1>1, <1>4, <3>1 DEF Abort, End, Goto
    <3>4. InHand(r)'
      BY <3>1, <3>2, <3>3, StepHands
    <3> QED
      BY <2>1, <3>2, <3>4 DEF Active
  <2> QED
    BY <2>3, <2>4, <2>5
<1>5. ASSUME rows' = rows, entries' = entries, pc' = pc, call' = call,
             \A q \in Request :
                 /\ local'[q].copy = local[q].copy /\ local'[q].target = local[q].target
                 /\ local'[q].seen = local[q].seen /\ local'[q].doomed = local[q].doomed
                 /\ local'[q].tally = local[q].tally /\ local'[q].alone = local[q].alone,
             NEW q \in Request
      PROVE  Good(q)'
  <2>1. (Weighed(q) => Weighed(q)') /\ (InHand(q) => InHand(q)') /\ Lone(q)' = Lone(q)
    BY <1>5, SameHands
  <2>2. \A o \in Request : Active(o)' = Active(o)
    BY <1>5 DEF Active
  <2> QED
    BY <1>2, <2>1, <2>2
<1>6. ASSUME NEW p \in Period, LockPeriod(p) \/ UnlockPeriod(p)
      PROVE  \A q \in Request : Good(q)'
  <2>1. /\ rows' = rows /\ entries' = entries /\ pc' = pc /\ call' = call
    BY <1>6 DEF LockPeriod, UnlockPeriod
  <2>2. \A q \in Request :
           /\ local'[q].copy = local[q].copy /\ local'[q].target = local[q].target
           /\ local'[q].seen = local[q].seen /\ local'[q].doomed = local[q].doomed
           /\ local'[q].tally = local[q].tally /\ local'[q].alone = local[q].alone
    BY <1>1, <1>6 DEF LockPeriod, UnlockPeriod, Locals
  <2> QED
    BY <1>5, <2>1, <2>2
<1>7. CASE UNCHANGED vars
  BY <1>5, <1>7 DEF vars
<1> QED
  BY <1>3, <1>4, <1>6, <1>7 DEF Next

LEMMA LinesNotNone ==
    ASSUME NEW r \in Request, call[r] \in Calls, call[r].op \in {"post", "statement", "upload"},
           NEW b
    PROVE  LinesOf(r, b) # {}
<1>1. call[r].lines \in Seq(Amounts) /\ call[r].lines # <<>>
  BY CallFields
<1>2. 1 \in DOMAIN call[r].lines
  BY <1>1
<1> QED
  BY <1>2 DEF LinesOf

\* What the last step of a posting served alone leaves.
Settled(r) ==
    LET b == local[r].target
        t == TotalsOf(EntriesOf(b, entries'))
        posted == {e \in entries' : e.batch = b /\ e.je = JeOf(r)}
        off == SumOver([e \in posted |-> e.debit - e.credit], posted)
        excess == t.total - rows'[b].total
    IN  /\ posted = LinesOf(r, b)
        /\ rows'[b].count = t.count
        /\ call[r].op = "post" => Abs(off) <= Cardinality(posted) /\ excess = 0
        /\ call[r].op # "post"
              => 2 * Abs(Scale * excess + LeftOut(call[r].lines))
                   <= Scale * (Cardinality(posted) + 1)

\* The row a lone request saves its totals in.
LEMMA TotalsSaved ==
    ASSUME TInv, NEW r \in Request, pc[r] \in {"committing", "closing"}, InHand(r),
           SaveEntity(r, Totalled(r))
    PROVE  /\ rows'[local[r].target].total = local[r].tally.total
           /\ rows'[local[r].target].count = local[r].tally.count
<1>1. /\ RowsOK /\ Absent \notin BatchRow /\ local[r] \in Locals /\ Totalled(r) \in BatchRow
      /\ local[r].copy \in BatchRow
  BY AtWork, EntitiesAreRows, ConstantAssumption DEF CopyNeeded
<1>2. Standing(r) /\ local[r].seen = local[r].copy
  BY AtWork DEF InHand, HasRead, Fits
<1>3. /\ local[r].target \in BatchId /\ rows[local[r].target] = local[r].copy
      /\ local[r].seen # Absent /\ Kept(r)
  BY <1>1, <1>2 DEF Standing, Kept, Present
<1>4. Totalled(r).total = local[r].tally.total /\ Totalled(r).count = local[r].tally.count
  BY <1>1 DEF Totalled, BatchRow
<1>5. rows'[local[r].target] = Updated(r, Totalled(r))
  BY <1>1, <1>3, RowAfterSave DEF SaveEntity
<1>6. PICK m \in BatchRow : /\ m = Merged(Totalled(r), local[r].seen, rows[local[r].target])
                            /\ m.count = Totalled(r).count
  BY <1>1, <1>2, <1>3, MergedRow
<1>7. Updated(r, Totalled(r)) = [m EXCEPT !.total = Totalled(r).total]
  BY <1>6 DEF Updated, Computes
<1> QED
  BY <1>4, <1>5, <1>6, <1>7 DEF BatchRow

LEMMA CommitSettles ==
    ASSUME TInv, PInv, NEW r \in Request, CommitPosting(r), pc'[r] = "done", local[r].alone
    PROVE  Settled(r)
<1>1. Lone(r) /\ pc[r] = "committing"
  BY DEF CommitPosting, Lone, Active
<1>2. InHand(r) /\ Weighed(r)
  BY <1>1 DEF PInv
<1>3. /\ call[r].op = "post" /\ local[r].target \in BatchId /\ local[r] \in Locals
      /\ call[r].lines \in Seq(Amounts) /\ RowsOK /\ EntriesOK
  BY <1>1, AtWork DEF Fits, CopyNeeded, HasCopy
<1>4. PICK b \in BatchId : b = local[r].target
  BY <1>3
<1>5. Draft(r) = LinesOf(r, b)
  BY <1>1, <1>4, DraftIsWhole
<1>6. SaveEntity(r, Totalled(r)) /\ entries' = (entries \ local[r].doomed) \cup Draft(r)
  BY DEF CommitPosting, End, Goto, TInv, TypeOK
<1>7. /\ entries' = (entries \ PostLines(r)) \cup LinesOf(r, b)
      /\ local[r].tally = TotalsOf(EntriesOf(b, entries'))
  BY <1>1, <1>2, <1>4, <1>5, <1>6 DEF InHand
<1>8. PICK posted : posted = {e \in entries' : e.batch = b /\ e.je = JeOf(r)}
  OBVIOUS
<1>9. posted = LinesOf(r, b)
  BY <1>4, <1>7, <1>8, LineFields DEF PostLines
<1>10. PICK t : t = TotalsOf(EntriesOf(b, entries'))
  OBVIOUS
<1>11. rows'[b].total = t.total /\ rows'[b].count = t.count
  BY <1>1, <1>2, <1>4, <1>6, <1>7, <1>10, TotalsSaved
<1>12. t.total \in Int /\ t.total - rows'[b].total = 0
  BY <1>3, <1>7, <1>10, <1>11 DEF Locals
<1>13. Balanced(call[r].lines) /\ \A i \in DOMAIN call[r].lines : ~ Negative(call[r].lines[i])
  BY <1>1, <1>2, <1>3 DEF Weighed
<1>14. Abs(SumOver([e \in LinesOf(r, b) |-> e.debit - e.credit], LinesOf(r, b)))
         <= Cardinality(LinesOf(r, b))
  BY <1>3, <1>13, PostedBounds
<1> QED
  BY <1>3, <1>4, <1>8, <1>9, <1>10, <1>11, <1>12, <1>14 DEF Settled

LEMMA FinishSettles ==
    ASSUME TInv, PInv, NEW r \in Request, FinishBatch(r), pc'[r] = "done", local[r].alone
    PROVE  Settled(r)
<1>1. Lone(r) /\ pc[r] = "closing"
  BY DEF FinishBatch, Lone, Active
<1>2. InHand(r)
  BY <1>1 DEF PInv
<1>3. /\ call[r].op \in {"statement", "upload"} /\ call[r] \in Calls
      /\ local[r].target \in BatchId /\ call[r].lines \in Seq(Amounts)
  BY <1>1, AtWork DEF Fits, CopyNeeded, HasCopy
<1>4. PICK b \in BatchId : b = local[r].target
  BY <1>3
<1>5. /\ EntriesOf(b, entries) = LinesOf(r, b)
      /\ local[r].tally.total = Cents(Debits(call[r].lines)) /\ local[r].tally.count = 1
  BY <1>1, <1>2, <1>4 DEF InHand, Filled
<1>6. SaveEntity(r, Totalled(r)) /\ entries' = entries
  BY DEF FinishBatch, End, Goto, TInv, TypeOK
<1>7. JeOf(r) = 1
  BY <1>3 DEF JeOf
<1>8. PICK posted : posted = {e \in entries' : e.batch = b /\ e.je = JeOf(r)}
  OBVIOUS
<1>9. posted = LinesOf(r, b)
  BY <1>5, <1>6, <1>8, LineFields DEF EntriesOf
<1>10. /\ rows'[b].total = Cents(Debits(call[r].lines)) /\ rows'[b].count = 1
  BY <1>1, <1>2, <1>4, <1>5, <1>6, TotalsSaved
<1>11. PICK total : total = SumOver([e \in LinesOf(r, b) |-> e.debit], LinesOf(r, b))
  OBVIOUS
<1>12. EntriesOf(b, entries') = LinesOf(r, b)
  BY <1>5, <1>6
<1>13. TotalsOf(LinesOf(r, b)).total = total /\ TotalsOf(LinesOf(r, b)).count = 1
  <2>1. {e.je : e \in LinesOf(r, b)} = {1}
    BY <1>3, <1>7, LineFields, LinesNotNone
  <2>2. Cardinality({e.je : e \in LinesOf(r, b)}) = 1
    BY <2>1, FS_Singleton
  <2> QED
    BY <1>11, <2>2 DEF TotalsOf
<1>14. 2 * Abs(Scale * (total - Cents(Debits(call[r].lines))) + LeftOut(call[r].lines))
         <= Scale * (Cardinality(LinesOf(r, b)) + 1)
  BY <1>3, <1>11, PostedBounds
<1> QED
  BY <1>3, <1>4, <1>8, <1>9, <1>10, <1>12, <1>13, <1>14 DEF Settled

\* Whatever overlapping requests have left behind, a posting served alone leaves the
\* batch holding exactly its lines under its number, apart by a cent a line at the most,
\* whatever fractions of cents it was sent, and the batch totals those of all its lines.
THEOREM PostingsSettle == Spec => PostingSettles
<1> DEFINE Settle == \A r \in Request : Settles(r) => Settled(r)
<1>1. Init => PInv
  BY DEF Init, PInv, Weighed, Lone, Active
<1>2. TInv /\ PInv /\ [Next]_vars => [Settle]_vars
  <2> SUFFICES ASSUME TInv, PInv, Next, NEW r \in Request, Settles(r) PROVE Settled(r)
    OBVIOUS
  <2>1. \E q \in Request : Step(q) \/ Abort(q)
    BY DEF Settles, Next, Arrive, LockPeriod, UnlockPeriod, Goto, TInv, TypeOK, FirstStep
  <2>2. Step(r) \/ Abort(r)
    BY <2>1, PcFrame DEF Settles
  <2>3. CommitPosting(r) \/ FinishBatch(r)
    BY <2>2 DEF Settles, Step, Abort, End, Goto, TInv, TypeOK, FindBatch, CheckPeriod,
       MatchNumber, ValidateLines, CreateBatch, CreateStatement, Compare, AfterCompare,
       SaveBatch, SelectLines, DeleteLines, InsertLine, TallyBatch, ResaveStatement,
       ChartAccounts, FillBatch, DropStatements
  <2> QED
    BY <2>3, CommitSettles, FinishSettles DEF Settles
<1> QED
  BY <1>1, <1>2, NextHands, RInvFirst, NextRows, UInvFirst, NextUnmade, TInvAlways,
     PTL DEF Spec, PostingSettles, Settled

----------------------------------------------------------------------------
(* The reports: what is posted *)

Posted == journal \in SUBSET EntryRow /\ IsFiniteSet(journal)

LEMMA PostedFirst == BooksInit => Posted
BY FS_EmptySet DEF BooksInit, Posted

LEMMA PostedNext == Posted /\ [BooksNext]_booksVars => Posted'
<1> SUFFICES ASSUME Posted, [BooksNext]_booksVars PROVE Posted'
  OBVIOUS
<1>1. CASE UNCHANGED journal
  BY <1>1 DEF Posted
<1>2. ASSUME NEW p \in Posting, Post(p) PROVE Posted'
  <2>1. journal' = journal \cup p
    BY <1>2 DEF Post
  <2>2. p \subseteq EntryRow /\ IsFiniteSet(p)
    BY PostingAssumption
  <2>3. IsFiniteSet(journal \cup p)
    BY <2>2, FS_Union DEF Posted
  <2> QED
    BY <2>1, <2>2, <2>3 DEF Posted
<1>3. UNCHANGED booksVars => UNCHANGED journal
  BY DEF booksVars
<1> QED
  BY <1>1, <1>2, <1>3 DEF BooksNext

LEMMA EntryType ==
    ASSUME Posted, NEW e \in journal
    PROVE  /\ e.month \in Month /\ e.spelling \in Spelling
           /\ Movement(e) \in Int /\ Balance(e) \in Int
           /\ Balance(e) = IF Account(e).normal = "credit" THEN - Movement(e) ELSE Movement(e)
<1>1. e \in EntryRow
  BY DEF Posted
<1>2. e.debit \in Nat /\ e.credit \in Nat /\ e.month \in Month /\ e.spelling \in Spelling
  BY <1>1 DEF EntryRow
<1>3. Movement(e) \in Int
  BY <1>2 DEF Movement
<1> QED
  BY <1>2, <1>3 DEF Balance

----------------------------------------------------------------------------
(* The balance sheet *)

Classes == {"none", "asset", "liability", "equity", "revenue", "expense"}

LEMMA ClassType == ASSUME NEW e PROVE SheetClass(e) \in Classes
BY DEF SheetClass, IncomeClass, Classes

\* What an entry adds to a class, to what is left out, to what is contrary.
Part(T, g, S) == [e \in S |-> IF e \in T THEN g[e] ELSE 0]

LEMMA PartSums ==
    ASSUME NEW S, IsFiniteSet(S), NEW T \in SUBSET S, NEW g, \A x \in S : g[x] \in Int
    PROVE  /\ SumOver(Part(T, g, S), S) = SumOver(g, T)
           /\ \A x \in S : Part(T, g, S)[x] \in Int
           /\ SumOver(g, T) \in Int
<1>1. \A x \in S : Part(T, g, S)[x] = IF x \in T THEN g[x] ELSE 0
  BY DEF Part
<1>2. IsFiniteSet(T)
  BY FS_Subset
<1>3. \A x \in T : g[x] \in Int
  OBVIOUS
<1>4. SumOver(g, T) \in Int
  BY <1>2, <1>3, SumIsInt
<1>5. SumOver(Part(T, g, S), S) = SumOver(g, T)
  BY <1>1, SumOfPart
<1> QED
  BY <1>1, <1>4, <1>5

LEMMA SumsOfEntries ==
    ASSUME Posted, NEW S \in SUBSET journal, NEW b, \A e \in journal : b[e] = Balance(e),
           NEW mv, \A e \in journal : mv[e] = Movement(e)
    PROVE  IsFiniteSet(S) /\ Total(S) = SumOver(b, S) /\ Moved(S) = SumOver(mv, S)
<1>1. IsFiniteSet(S)
  BY FS_Subset DEF Posted
<1> DEFINE g == [e \in S |-> Balance(e)]
           h == [e \in S |-> Movement(e)]
<1>2. \A e \in S : g[e] = b[e] /\ h[e] = mv[e]
  OBVIOUS
<1>3. Total(S) = SumOver(g, S) /\ Moved(S) = SumOver(h, S)
  BY DEF Total, Moved
<1> HIDE DEF g, h
<1> QED
  BY <1>1, <1>2, <1>3, SameSum

LEMMA SheetIsOff ==
    ASSUME Posted, NEW month \in Month
    PROVE  Off(month) = Moved(UpTo(month)) - Moved(InClass(month, "none"))
                            - 2 * Moved({e \in UpTo(month) : Contrary(e)})
<1> DEFINE U == UpTo(month)
           K(class) == InClass(month, class)
           N == {e \in U : Contrary(e)}
           b == [e \in journal |-> Balance(e)]
           mv == [e \in journal |-> Movement(e)]
<1>1. U \in SUBSET journal /\ IsFiniteSet(U)
  <2>1. U \in SUBSET journal
    BY DEF UpTo
  <2> HIDE DEF U
  <2> QED
    BY <2>1, FS_Subset DEF Posted
<1>2. \A e \in journal : b[e] = Balance(e) /\ mv[e] = Movement(e)
  OBVIOUS
<1>3. \A e \in U : b[e] \in Int /\ mv[e] \in Int
  BY <1>1, EntryType
<1>4. /\ N \in SUBSET U
      /\ \A class : K(class) = {e \in U : SheetClass(e) = class}
  BY DEF InClass
<1>5. \A class : K(class) \in SUBSET U
  BY <1>4
<1> HIDE DEF U, K, N, b, mv
<1> DEFINE pa == Part(K("asset"), b, U)
           px == Part(K("expense"), b, U)
           pl == Part(K("liability"), b, U)
           pq == Part(K("equity"), b, U)
           pv == Part(K("revenue"), b, U)
           pn == Part(K("none"), mv, U)
           pk == Part(N, mv, U)
           \* What an entry adds to either side.
           s1 == [e \in U |-> pa[e] + px[e]]
           s2 == [e \in U |-> s1[e] + pn[e]]
           s3 == [e \in U |-> s2[e] + pk[e]]
           s4 == [e \in U |-> s3[e] + pk[e]]
           t1 == [e \in U |-> mv[e] + pl[e]]
           t2 == [e \in U |-> t1[e] + pq[e]]
           t3 == [e \in U |-> t2[e] + pv[e]]
<1>6. \A class : /\ Total(K(class)) = SumOver(Part(K(class), b, U), U)
                 /\ SumOver(Part(K(class), b, U), U) \in Int
                 /\ \A e \in U : Part(K(class), b, U)[e] \in Int
  BY <1>1, <1>2, <1>3, <1>5, PartSums, SumsOfEntries
<1>7. \A S \in SUBSET U : /\ Moved(S) = SumOver(Part(S, mv, U), U)
                          /\ SumOver(Part(S, mv, U), U) \in Int
                          /\ \A e \in U : Part(S, mv, U)[e] \in Int
  BY <1>1, <1>2, <1>3, PartSums, SumsOfEntries
<1>8. /\ \A e \in U : pa[e] \in Int /\ px[e] \in Int /\ pl[e] \in Int /\ pq[e] \in Int /\ pv[e] \in Int
      /\ SumOver(pa, U) \in Int /\ SumOver(px, U) \in Int /\ SumOver(pl, U) \in Int
      /\ SumOver(pq, U) \in Int /\ SumOver(pv, U) \in Int
      /\ Total(K("asset")) = SumOver(pa, U) /\ Total(K("expense")) = SumOver(px, U)
      /\ Total(K("liability")) = SumOver(pl, U) /\ Total(K("equity")) = SumOver(pq, U)
      /\ Total(K("revenue")) = SumOver(pv, U)
  BY <1>6
<1>9. /\ \A e \in U : pn[e] \in Int /\ pk[e] \in Int
      /\ SumOver(pn, U) \in Int /\ SumOver(pk, U) \in Int
      /\ Moved(K("none")) = SumOver(pn, U) /\ Moved(N) = SumOver(pk, U)
  BY <1>4, <1>5, <1>7
<1>10. Moved(U) = SumOver(mv, U) /\ SumOver(mv, U) \in Int
  BY <1>1, <1>2, <1>3, SumsOfEntries, SumIsInt
\* An entry adds to both sides alike.
<1>11. \A e \in U : s4[e] = t3[e]
  <2> SUFFICES ASSUME NEW e \in U PROVE s4[e] = t3[e]
    OBVIOUS
  <2> DEFINE of == SheetClass(e)
             m == mv[e]
             debited == Account(e).normal # "credit"
  <2>1. /\ pa[e] = IF of = "asset" THEN b[e] ELSE 0
        /\ px[e] = IF of = "expense" THEN b[e] ELSE 0
        /\ pl[e] = IF of = "liability" THEN b[e] ELSE 0
        /\ pq[e] = IF of = "equity" THEN b[e] ELSE 0
        /\ pv[e] = IF of = "revenue" THEN b[e] ELSE 0
        /\ pn[e] = IF of = "none" THEN m ELSE 0
        /\ pk[e] = IF Contrary(e) THEN m ELSE 0
    <3>1. \A class, g : Part(K(class), g, U)[e] = IF SheetClass(e) = class THEN g[e] ELSE 0
      BY <1>4 DEF Part
    <3>2. \A g : Part(N, g, U)[e] = IF Contrary(e) THEN g[e] ELSE 0
      <4>1. e \in N <=> Contrary(e)
        BY DEF N
      <4> QED
        BY <4>1 DEF Part
    <3> QED
      BY <3>1, <3>2
  <2>2. b[e] = (IF debited THEN m ELSE - m) /\ m \in Int
    BY <1>1, <1>2, <1>3, EntryType
  <2>3. Contrary(e) <=> of # "none" /\ (of \in {"asset", "expense"} <=> ~ debited)
    BY DEF Contrary, Natural
  <2>4. of \in {"none", "asset", "liability", "equity", "revenue", "expense"}
    BY ClassType DEF Classes
  <2>5. s4[e] = pa[e] + px[e] + pn[e] + pk[e] + pk[e] /\ t3[e] = mv[e] + pl[e] + pq[e] + pv[e]
    OBVIOUS
  <2> HIDE DEF pa, px, pl, pq, pv, pn, pk, s4, t3, of, m, debited
  <2>6. pa[e] + px[e] + pn[e] + pk[e] + pk[e] = m + pl[e] + pq[e] + pv[e]
    BY <2>1, <2>2, <2>3, <2>4
  <2> QED
    BY <2>5, <2>6 DEF m
<1>12. \A e \in U : /\ s1[e] \in Int /\ s2[e] \in Int /\ s3[e] \in Int /\ t1[e] \in Int /\ t2[e] \in Int
                    /\ s1[e] = pa[e] + px[e] /\ s2[e] = s1[e] + pn[e] /\ s3[e] = s2[e] + pk[e]
                    /\ s4[e] = s3[e] + pk[e] /\ t1[e] = mv[e] + pl[e] /\ t2[e] = t1[e] + pq[e]
                    /\ t3[e] = t2[e] + pv[e]
  <2> HIDE DEF pa, px, pl, pq, pv, pn, pk
  <2> QED
    BY <1>3, <1>8, <1>9
<1> HIDE DEF pa, px, pl, pq, pv, pn, pk, s1, s2, s3, s4, t1, t2, t3
<1>13. SumOver(s1, U) = SumOver(pa, U) + SumOver(px, U)
  BY <1>1, <1>8, <1>12, SumAdds
<1>14. SumOver(s2, U) = SumOver(s1, U) + SumOver(pn, U)
  BY <1>1, <1>9, <1>12, SumAdds
<1>15. SumOver(s3, U) = SumOver(s2, U) + SumOver(pk, U)
  BY <1>1, <1>9, <1>12, SumAdds
<1>16. SumOver(s4, U) = SumOver(s3, U) + SumOver(pk, U)
  BY <1>1, <1>9, <1>12, SumAdds
<1>17. SumOver(t1, U) = SumOver(mv, U) + SumOver(pl, U)
  BY <1>1, <1>3, <1>8, <1>12, SumAdds
<1>18. SumOver(t2, U) = SumOver(t1, U) + SumOver(pq, U)
  BY <1>1, <1>8, <1>12, SumAdds
<1>19. SumOver(t3, U) = SumOver(t2, U) + SumOver(pv, U)
  BY <1>1, <1>8, <1>12, SumAdds
<1>20. SumOver(s4, U) = SumOver(t3, U)
  BY <1>1, <1>11, SameSum
<1>21. Off(month) = Total(K("asset")) - Total(K("liability")) - Total(K("equity"))
                        - (Total(K("revenue")) - Total(K("expense")))
  BY DEF Off, RetainedEarnings, K
<1>22. Off(month) = Moved(U) - Moved(K("none")) - 2 * Moved(N)
  <2>1. Off(month) = SumOver(pa, U) - SumOver(pl, U) - SumOver(pq, U)
                         - (SumOver(pv, U) - SumOver(px, U))
    BY <1>8, <1>21
  <2>2. Off(month) = SumOver(mv, U) - SumOver(pn, U) - 2 * SumOver(pk, U)
    <3>1. /\ SumOver(pa, U) \in Int /\ SumOver(px, U) \in Int /\ SumOver(pl, U) \in Int
          /\ SumOver(pq, U) \in Int /\ SumOver(pv, U) \in Int /\ SumOver(pn, U) \in Int
          /\ SumOver(pk, U) \in Int /\ SumOver(mv, U) \in Int
      BY <1>8, <1>9, <1>10
    <3> QED
      BY <2>1, <3>1, <1>13, <1>14, <1>15, <1>16, <1>17, <1>18, <1>19, <1>20
  <2> QED
    BY <1>9, <1>10, <2>2
<1> QED
  BY <1>22, Zenon DEF K, N, U

----------------------------------------------------------------------------
(* Profit and loss *)

LEMMA IncomeIsRetained ==
    ASSUME Posted, \A e \in journal : /\ e.spelling # "other"
                                      /\ IncomeClass(e) # "none" => SheetClass(e) = IncomeClass(e)
    PROVE  \A month \in Month :
              SumOver([m \in Month |-> NetIncome(m, "name")], {m \in Month : m <= month})
                  = RetainedEarnings(month)
<1> DEFINE b == [e \in journal |-> Balance(e)]
           Class(S, class) == {e \in S : IncomeClass(e) = class}
           Income(S) == Total(Class(S, "revenue")) - Total(Class(S, "expense"))
           net == [m \in Month |-> NetIncome(m, "name")]
<1>1. \A e \in journal : \A class \in {"revenue", "expense"} :
         SheetClass(e) = class <=> IncomeClass(e) = class
  BY DEF SheetClass, IncomeClass
<1>2. \A month : RetainedEarnings(month) = Income(UpTo(month))
  <2> SUFFICES ASSUME NEW month PROVE RetainedEarnings(month) = Income(UpTo(month))
    OBVIOUS
  <2>2. UpTo(month) \in SUBSET journal
    BY DEF UpTo
  <2>3. InClass(month, "revenue") = Class(UpTo(month), "revenue")
    BY <1>1, <2>2 DEF InClass
  <2>4. InClass(month, "expense") = Class(UpTo(month), "expense")
    BY <1>1, <2>2 DEF InClass
  <2> QED
    BY <2>3, <2>4, Zenon DEF RetainedEarnings
<1>3. \A m \in Month : Of(m, "name") = {e \in journal : e.month = m}
  BY EntryType DEF Of, Spelling
<1>4. \A m \in Month : net[m] = Income(Of(m, "name"))
  BY DEF NetIncome
<1>5. \A m \in Month : Of(m, "name") \in SUBSET journal
  BY <1>3
<1>6. \A e \in journal : b[e] = Balance(e) /\ b[e] \in Int
  BY EntryType
\* The entries of a class, month by month.
<1>7. \A class : /\ Total(Class(UpTo(1), class)) = Total(Class(Of(1, "name"), class))
                 /\ Total(Class(UpTo(2), class)) = Total(Class(Of(1, "name"), class))
                                                   + Total(Class(Of(2, "name"), class))
                 /\ Total(Class(Of(1, "name"), class)) \in Int
                 /\ Total(Class(Of(2, "name"), class)) \in Int
  <2> SUFFICES ASSUME NEW class
               PROVE  /\ Total(Class(UpTo(1), class)) = Total(Class(Of(1, "name"), class))
                      /\ Total(Class(UpTo(2), class)) = Total(Class(Of(1, "name"), class))
                                                        + Total(Class(Of(2, "name"), class))
                      /\ Total(Class(Of(1, "name"), class)) \in Int
                      /\ Total(Class(Of(2, "name"), class)) \in Int
    OBVIOUS
  <2> DEFINE A == Class(UpTo(2), class)
             F == Class(Of(1, "name"), class)
             G == Class(Of(2, "name"), class)
  <2>1. \A e \in journal : e.month \in {1, 2}
    BY EntryType DEF Month
  <2>2. Class(UpTo(1), class) = F
    BY <1>3, <2>1 DEF UpTo, Month
  <2>3. A \in SUBSET journal /\ F \in SUBSET A /\ G = A \ F
    BY <1>3, <2>1 DEF UpTo, Month
  <2> HIDE DEF A, F, G, b
  <2>4. F \in SUBSET journal /\ G \in SUBSET journal
    BY <2>3
  <2> DEFINE mv == [e \in journal |-> Movement(e)]
  <2>5. \A e \in journal : mv[e] = Movement(e)
    OBVIOUS
  <2> HIDE DEF mv
  <2>6. /\ IsFiniteSet(A) /\ Total(A) = SumOver(b, A)
        /\ IsFiniteSet(F) /\ Total(F) = SumOver(b, F)
        /\ IsFiniteSet(G) /\ Total(G) = SumOver(b, G)
    BY <1>6, <2>3, <2>4, <2>5, SumsOfEntries
  <2>7. \A e \in A : b[e] \in Int
    BY <1>6, <2>3
  <2>8. SumOver(b, A) = SumOver(b, F) + SumOver(b, A \ F)
    BY <2>3, <2>6, <2>7, SumSplit
  <2>9. SumOver(b, F) \in Int /\ SumOver(b, G) \in Int
    BY <1>6, <2>4, <2>6, SumIsInt
  <2>10. SumOver(b, A) = SumOver(b, F) + SumOver(b, G)
    BY <2>3, <2>8, Zenon
  <2>11. Total(Class(UpTo(1), class)) = Total(F)
    BY <2>2, Zenon
  <2>12. Total(A) = Total(F) + Total(G) /\ Total(F) \in Int /\ Total(G) \in Int
    BY <2>6, <2>9, <2>10
  <2> QED
    BY <2>11, <2>12 DEF A, F, G
<1>8. /\ Income(UpTo(1)) = Income(Of(1, "name"))
      /\ Income(UpTo(2)) = Income(Of(1, "name")) + Income(Of(2, "name"))
      /\ Income(Of(1, "name")) \in Int /\ Income(Of(2, "name")) \in Int
  <2> HIDE DEF Class
  <2> QED
    BY <1>7
<1> HIDE DEF Income, Class, b
<1>9. net[1] \in Int /\ net[2] \in Int /\ net[1] = Income(Of(1, "name")) /\ net[2] = Income(Of(2, "name"))
  BY <1>4, <1>8 DEF Month
<1> HIDE DEF net
<1>10. SumOver(net, {1}) = net[1] /\ SumOver(net, {1, 2}) = net[1] + net[2]
  <2>1. IsFiniteSet({1}) /\ IsFiniteSet({2}) /\ IsFiniteSet({1, 2})
    <3>1. IsFiniteSet({1}) /\ IsFiniteSet({2})
      BY FS_Singleton
    <3>2. {1, 2} = {1} \cup {2}
      OBVIOUS
    <3> QED
      BY <3>1, <3>2, FS_Union
  <2>2. SumOver(net, {}) = 0
    BY FS_EmptySet, SumAsFolded
  <2>3. SumOver(net, {1}) = net[1] + SumOver(net, {1} \ {1})
    BY <1>9, <2>1, SumWithout
  <2>4. SumOver(net, {1, 2}) = net[2] + SumOver(net, {1, 2} \ {2})
    BY <1>9, <2>1, SumWithout
  <2>5. {1} \ {1} = {} /\ {1, 2} \ {2} = {1}
    OBVIOUS
  <2>6. SumOver(net, {1} \ {1}) = 0 /\ SumOver(net, {1, 2} \ {2}) = SumOver(net, {1})
    BY <2>2, <2>5, Zenon
  <2> QED
    BY <1>9, <2>3, <2>4, <2>6
<1>11. \A month \in Month : SumOver(net, {m \in Month : m <= month}) = Income(UpTo(month))
  <2>1. {m \in Month : m <= 1} = {1} /\ {m \in Month : m <= 2} = {1, 2}
    BY DEF Month
  <2>2. SumOver(net, {m \in Month : m <= 1}) = Income(UpTo(1))
    <3>1. SumOver(net, {m \in Month : m <= 1}) = SumOver(net, {1})
      BY <2>1, Zenon
    <3> QED
      BY <1>8, <1>9, <1>10, <3>1
  <2>3. SumOver(net, {m \in Month : m <= 2}) = Income(UpTo(2))
    <3>1. SumOver(net, {m \in Month : m <= 2}) = SumOver(net, {1, 2})
      BY <2>1, Zenon
    <3> QED
      BY <1>8, <1>9, <1>10, <3>1
  <2>4. \A month \in Month : month = 1 \/ month = 2
    BY DEF Month
  <2> QED
    BY <2>2, <2>3, <2>4
<1> QED
  BY <1>2, <1>11 DEF net

\* Whatever is posted, balanced or not, while the chart of accounts changes, the balance
\* sheet is off by what the entries are apart, less what it leaves out, and by accounts
\* whose normal balance is not that of their class (getBalanceSheet).
THEOREM SheetOff == BooksSpec => []SheetOffByMisfits
<1>1. Posted => SheetOffByMisfits
  BY SheetIsOff, Zenon DEF SheetOffByMisfits
<1> QED
  BY <1>1, PostedFirst, PostedNext, PTL DEF BooksSpec

\* The net incomes of the months add up to the retained earnings of the sheet, for
\* whatever is posted, where both class the accounts alike and find all batches
\* (getPLStatement, getBalanceSheet).
THEOREM IncomesAgree == BooksSpec => []IncomeAgrees
<1>1. Posted => IncomeAgrees
  BY IncomeIsRetained, Zenon DEF IncomeAgrees
<1> QED
  BY <1>1, PostedFirst, PostedNext, PTL DEF BooksSpec

----------------------------------------------------------------------------
(* The chart of accounts: types *)

ChartLabels == {"idle", "finding", "checking", "parenting", "saving", "raising",
                "counting", "loading", "done", "failed"}

Creates(r) == call[r] # None /\ call[r].op = "create"

\* Which operations reach a label, and what has been found by then.
ChartPath(r) ==
    /\ pc[r] = "idle" => call[r] = None /\ met[r] = {}
    /\ pc[r] # "idle" => call[r] # None
    /\ pc[r] = "idle" \/ (Creates(r) /\ pc[r] \in {"checking", "parenting", "saving"}) =>
          accounts[r] = None
    /\ pc[r] = "finding" => call[r].op \in {"update", "delete"}
    /\ pc[r] = "checking" => call[r].op \in {"create", "update"}
    /\ pc[r] = "parenting" => call[r].op \in {"create", "update"} /\ call[r].sent.parent # None
    /\ pc[r] \in {"counting", "loading"} => call[r].op = "delete"
    /\ pc[r] = "raising" => call[r].op = "create" /\ call[r].sent.parent # None /\ copy[r] # None
                            /\ Exists(call[r].sent.parent)
    /\ pc[r] = "saving" /\ call[r].op = "create" /\ call[r].sent.parent # None =>
          copy[r] # None /\ Exists(call[r].sent.parent)
    /\ pc[r] \in {"checking", "parenting", "saving", "counting", "loading"}
          /\ call[r].op \in {"update", "delete"} => copy[r] # None /\ Exists(call[r].id)
    /\ pc[r] \in {"raising", "done"} /\ Creates(r) => Exists(r)

ChartInv == ChartTypeOK /\ \A r \in Request : ChartPath(r)

LEMMA SentFields ==
    ASSUME NEW s \in Sent
    PROVE  /\ s.code = None \/ s.code \in Numbers
           /\ s.code # None => s.code + 1 \in Numbers
           /\ s.key \in Key \cup {None} /\ s.parent \in Id \cup {None}
           /\ s.isParent = None \/ s.isParent \in BOOLEAN
           /\ s.normal \in {"debit", "credit", None} /\ s.next \in Numbers \cup {None}
<1>1. s.code \in (1 .. MaxCode) \cup {None}
  BY DEF Sent
<1>2. MaxCode \in Nat
  BY AccountAssumption
<1>3. s.isParent \in BOOLEAN \cup {None}
  BY DEF Sent
<1> QED
  BY <1>1, <1>2, <1>3 DEF Sent, Numbers

LEMMA AccountCallFields ==
    ASSUME NEW c \in Call
    PROVE  /\ c # None
           /\ c.op \in {"create", "update", "delete"}
           /\ c.op \in {"create", "update"} => c.sent \in Sent
           /\ c.op = "create" => c.sent.code # None
           /\ c.op \in {"update", "delete"} => c.id \in Id
<1>1. /\ c # None
      /\ \/ c \in [op : {"create"}, sent : {s \in Sent : s.code # None}]
         \/ c \in [op : {"update"}, id : Id, sent : Sent]
         \/ c \in [op : {"delete"}, id : Id]
  BY AccountAssumption, Zenon DEF AccountCalls
<1> QED
  BY <1>1

LEMMA NewRowType ==
    ASSUME NEW s \in Sent, s.code # None
    PROVE  NewRow(s) \in AccountRow
<1>1. Given(s.isParent, FALSE) \in BOOLEAN
  BY SentFields DEF Given
<1> QED
  BY <1>1, SentFields DEF NewRow, AccountRow

LEMMA AmendedType ==
    ASSUME NEW row \in AccountRow, NEW s \in Sent
    PROVE  AmendedAccount(row, s) \in AccountRow
<1>1. row.isParent \in BOOLEAN /\ row.deleted \in BOOLEAN
  BY DEF AccountRow
<1>2. Given(s.isParent, row.isParent) \in BOOLEAN
  BY <1>1, SentFields DEF Given
<1>3. /\ Given(s.code, row.code) \in Numbers /\ Given(s.key, row.key) \in Key \cup {None}
      /\ Given(row.parent, s.parent) \in Id \cup {None}
      /\ Given(s.normal, row.normal) \in {"debit", "credit", None}
      /\ Given(s.next, row.next) \in Numbers \cup {None}
  BY SentFields DEF AccountRow, Given
<1> QED
  BY <1>1, <1>2, <1>3 DEF AmendedAccount, AccountRow

LEMMA AccountEdits ==
    ASSUME NEW row \in AccountRow
    PROVE  /\ [row EXCEPT !.deleted = TRUE] \in AccountRow
           /\ \A n \in Numbers : [row EXCEPT !.next = n] \in AccountRow
           /\ NextNumber(row) \in Int /\ row.code \in Int
<1>1. \A n \in Numbers : n \in Int
  BY DEF Numbers
<1> QED
  BY <1>1 DEF AccountRow, NextNumber, Given

LEMMA ChartFirst == ChartInit => ChartInv
<1> SUFFICES ASSUME ChartInit PROVE ChartInv
  OBVIOUS
<1>1. \A a \in Id : accounts[a] = IF a \in OldAccount THEN OldRow[a] ELSE None
  BY DEF ChartInit
<1>2. accounts \in [Id -> AccountRow \cup {None}]
  BY <1>1, AccountAssumption DEF ChartInit, Id
<1>3. \A r \in Request : accounts[r] = None
  BY <1>1, AccountAssumption DEF Id
<1> QED
  BY <1>2, <1>3 DEF ChartInit, ChartInv, ChartTypeOK, ChartPath, Creates

\* What a step of r leaves to the others.
ChartFrame(r) ==
    /\ call' = call /\ met' = met
    /\ \A q \in Request \ {r} : pc'[q] = pc[q] /\ copy'[q] = copy[q]
    /\ \A a \in Id : Exists(a) => accounts'[a] # None
    /\ \A q \in Request \ {r} : accounts[q] = None => accounts'[q] = None

LEMMA CallsMade ==
    ASSUME ChartInv, NEW q \in Request, call[q] # None
    PROVE  /\ call[q] \in Call /\ call[q].op \in {"create", "update", "delete"}
           /\ call[q].op \in {"create", "update"} => call[q].sent \in Sent
           /\ call[q].op = "create" => call[q].sent.code # None
           /\ call[q].op \in {"update", "delete"} => call[q].id \in Id
           /\ call[q].op \in {"create", "update"} => call[q].sent.parent \in Id \cup {None}
<1>1. call[q] \in Call
  BY DEF ChartInv, ChartTypeOK
<1> QED
  BY <1>1, AccountCallFields, SentFields

LEMMA ChartOthers ==
    ASSUME ChartInv, NEW r \in Request, ChartFrame(r), NEW q \in Request \ {r}
    PROVE  ChartPath(q)'
<1>1. ChartPath(q)
  BY DEF ChartInv
<1>2. /\ call'[q] = call[q] /\ met'[q] = met[q] /\ pc'[q] = pc[q] /\ copy'[q] = copy[q]
      /\ \A a \in Id : accounts[a] # None => accounts'[a] # None
      /\ accounts[q] = None => accounts'[q] = None
  BY DEF ChartFrame, Exists
<1>3. q \in Id
  BY DEF Id
<1> QED
  BY <1>1, <1>2, <1>3, CallsMade DEF ChartPath, Creates, Exists

LEMMA ChartMoves ==
    ASSUME ChartInv, NEW r \in Request, r \in InFlight, ChartFrame(r),
           NEW label \in ChartLabels, pc' = [pc EXCEPT ![r] = label],
           accounts' \in [Id -> AccountRow \cup {None}],
           copy' \in [Request -> AccountRow \cup {None}], ChartPath(r)'
    PROVE  ChartInv'
<1>1. \A q \in Request : ChartPath(q)'
  BY ChartOthers
<1>2. ChartTypeOK'
  BY DEF ChartInv, ChartTypeOK, ChartFrame, ChartLabels
<1> QED
  BY <1>1, <1>2 DEF ChartInv

\* A step that ends in failure or reads.
LEMMA ReadingMoves ==
    ASSUME ChartInv, NEW r \in Request, r \in InFlight,
           NEW label \in ChartLabels \ {"idle"}, Goto(r, label), UNCHANGED <<accounts, call, met>>,
           copy' \in [Request -> AccountRow \cup {None}],
           \A q \in Request \ {r} : copy'[q] = copy[q]
    PROVE  /\ ChartFrame(r) /\ ChartPath(r)' => ChartInv'
           /\ ChartFrame(r)
           /\ pc[r] \notin {"idle", "done", "failed"} /\ pc'[r] = label /\ call'[r] = call[r]
           /\ label = "failed" => ChartPath(r)'
<1>1. pc \in [Request -> ChartLabels]
  BY DEF ChartInv, ChartTypeOK, ChartLabels
<1>2. pc' = [pc EXCEPT ![r] = label]
  BY DEF Goto
<1>3. ChartFrame(r)
  BY <1>1, <1>2 DEF ChartFrame, Exists
<1>4. pc[r] \notin {"idle", "done", "failed"} /\ pc'[r] = label /\ call'[r] = call[r]
  BY <1>1, <1>2 DEF InFlight, Active
<1>5. ChartPath(r)' => ChartInv'
  <2>1. accounts' \in [Id -> AccountRow \cup {None}]
    BY DEF ChartInv, ChartTypeOK
  <2> QED
    BY <1>2, <1>3, <2>1, ChartMoves
<1>6. label = "failed" => ChartPath(r)'
  BY <1>4 DEF ChartInv, ChartPath, Creates
<1> QED
  BY <1>3, <1>4, <1>5, <1>6

LEMMA ChartArrives ==
    ASSUME ChartInv, NEW r \in Request, NEW c \in Call, ChartArrive(r, c)
    PROVE  ChartInv'
<1>1. pc \in [Request -> ChartLabels] /\ met \in [Request -> SUBSET Request]
  BY DEF ChartInv, ChartTypeOK, ChartLabels
<1> DEFINE label == IF c.op = "create" THEN "checking" ELSE "finding"
<1>2. /\ pc[r] = "idle" /\ pc' = [pc EXCEPT ![r] = label] /\ UNCHANGED <<accounts, copy>>
      /\ call' = [call EXCEPT ![r] = c] /\ met' = Meeting(r)
  BY DEF ChartArrive, Goto
<1>3. c # None /\ c.op \in {"create", "update", "delete"}
  BY AccountCallFields
<1>4. ChartTypeOK'
  <2>1. met' \in [Request -> SUBSET Request]
    BY <1>1, <1>2 DEF Meeting, InFlight
  <2> QED
    BY <1>2, <2>1 DEF ChartInv, ChartTypeOK
<1>5. ASSUME NEW q \in Request PROVE ChartPath(q)'
  <2>1. ChartPath(q) /\ ChartPath(r)
    BY DEF ChartInv
  <2>2. CASE q = r
    <3>1. pc'[r] = label /\ call'[r] = c
      BY <1>1, <1>2 DEF ChartInv, ChartTypeOK
    <3> QED
      BY <1>2, <1>3, <2>1, <2>2, <3>1 DEF ChartPath, Creates
  <2>3. CASE q # r
    <3>1. pc'[q] = pc[q] /\ call'[q] = call[q]
      BY <1>1, <1>2, <2>3 DEF ChartInv, ChartTypeOK
    <3>2. pc[q] = "idle" => met'[q] = met[q]
      BY <1>2, <2>3 DEF Meeting, InFlight, Active
    <3> QED
      BY <1>2, <2>1, <3>1, <3>2 DEF ChartPath, Creates, Exists
  <2> QED
    BY <2>2, <2>3
<1> QED
  BY <1>4, <1>5 DEF ChartInv

LEMMA ReadingSteps ==
    ASSUME ChartInv, NEW r \in Request,
           \/ Find(r) \/ Check(r) \/ FindParent(r) \/ CountChildren(r) \/ Load(r) \/ ChartAbort(r)
    PROVE  /\ r \in InFlight /\ UNCHANGED <<accounts, call, met>> /\ ChartInv'
           /\ \A q \in Request \ {r} : pc'[q] = pc[q] /\ copy'[q] = copy[q]
           /\ pc'[r] \notin {"idle", "raising", "done"}
<1>0. /\ pc \in [Request -> ChartLabels] /\ copy \in [Request -> AccountRow \cup {None}]
      /\ accounts \in [Id -> AccountRow \cup {None}]
      /\ ChartPath(r)
  BY DEF ChartInv, ChartTypeOK, ChartLabels
<1>1. r \in InFlight
  BY DEF Find, Check, FindParent, CountChildren, Load, ChartAbort, InFlight, Active
<1>2. UNCHANGED <<accounts, call, met>>
  BY DEF Find, Check, FindParent, CountChildren, Load, ChartAbort, Fail
<1>3. call[r] # None
  BY <1>0, <1>1 DEF ChartPath, InFlight, Active
<1>4. /\ call[r].op \in {"create", "update"} => call[r].sent.parent \in Id \cup {None}
      /\ call[r].op \in {"update", "delete"} => call[r].id \in Id
      /\ call[r].op \in {"create", "update", "delete"}
  BY <1>3, CallsMade
<1>5. CASE Fail(r)
  <2>1. Goto(r, "failed") /\ copy' = copy
    BY <1>5 DEF Fail
  <2>2. "failed" \in ChartLabels \ {"idle"}
    BY DEF ChartLabels
  <2>3. ChartFrame(r) /\ pc'[r] = "failed" /\ ChartPath(r)'
    BY <1>0, <1>1, <1>2, <2>1, <2>2, ReadingMoves
  <2>4. ChartInv'
    BY <1>0, <1>1, <1>2, <2>1, <2>2, <2>3, ReadingMoves
  <2> QED
    BY <1>1, <1>2, <2>1, <2>3, <2>4 DEF ChartFrame
<1>6. CASE Find(r) /\ ~ Fail(r)
  <2> DEFINE label == IF call[r].op = "delete" THEN "counting" ELSE "checking"
  <2>1. /\ Exists(call[r].id) /\ copy' = [copy EXCEPT ![r] = accounts[call[r].id]]
        /\ Goto(r, label) /\ call[r].op \in {"update", "delete"}
    BY <1>0, <1>6 DEF Find, ChartPath
  <2>2. copy' \in [Request -> AccountRow \cup {None}] /\ copy'[r] = accounts[call[r].id]
    BY <1>0, <1>4, <2>1
  <2>3. label \in ChartLabels \ {"idle"}
    BY DEF ChartLabels
  <2>4. \A q \in Request \ {r} : copy'[q] = copy[q]
    BY <1>0, <2>1
  <2> HIDE DEF label
  <2>5. pc'[r] = label /\ call'[r] = call[r] /\ pc[r] \notin {"idle", "done", "failed"} /\ ChartFrame(r)
    BY <1>1, <1>2, <2>1, <2>2, <2>3, <2>4, ReadingMoves
  <2>6. ChartPath(r)'
    BY <1>2, <1>3, <1>4, <2>1, <2>2, <2>5 DEF ChartPath, Creates, Exists, label
  <2>7. ChartInv'
    BY <1>1, <1>2, <2>1, <2>2, <2>3, <2>4, <2>6, ReadingMoves
  <2> QED
    BY <1>1, <1>2, <2>4, <2>5, <2>7 DEF label, ChartFrame
<1>7. CASE Check(r) /\ ~ Fail(r)
  <2> DEFINE label == IF call[r].sent.parent = None THEN "saving" ELSE "parenting"
  <2>1. /\ copy' = copy /\ Goto(r, label) /\ call[r].op \in {"create", "update"} /\ pc[r] = "checking"
    BY <1>0, <1>7 DEF Check, ChartPath
  <2>3. label \in ChartLabels \ {"idle"}
    BY DEF ChartLabels
  <2> HIDE DEF label
  <2>5. pc'[r] = label /\ call'[r] = call[r] /\ pc[r] \notin {"idle", "done", "failed"} /\ ChartFrame(r)
    BY <1>0, <1>1, <1>2, <2>1, <2>3, ReadingMoves
  <2>6. ChartPath(r)'
    BY <1>0, <1>2, <1>3, <1>4, <2>1, <2>5 DEF ChartPath, Creates, Exists, label
  <2>7. ChartInv'
    BY <1>0, <1>1, <1>2, <2>1, <2>3, <2>6, ReadingMoves
  <2> QED
    BY <1>1, <1>2, <2>1, <2>5, <2>7 DEF label, ChartFrame
<1>8. CASE FindParent(r) /\ ~ Fail(r)
  <2> DEFINE p == call[r].sent.parent
  <2>1. /\ Exists(p) /\ Goto(r, "saving") /\ pc[r] = "parenting" /\ p # None /\ p \in Id
        /\ call[r].op \in {"create", "update"}
        /\ copy' = IF call[r].op = "create" THEN [copy EXCEPT ![r] = accounts[p]] ELSE copy
    BY <1>0, <1>4, <1>8 DEF FindParent, ChartPath
  <2>2. /\ copy' \in [Request -> AccountRow \cup {None}]
        /\ copy'[r] = IF call[r].op = "create" THEN accounts[p] ELSE copy[r]
        /\ \A q \in Request \ {r} : copy'[q] = copy[q]
    BY <1>0, <2>1
  <2>5. pc'[r] = "saving" /\ call'[r] = call[r] /\ ChartFrame(r)
    BY <1>1, <1>2, <2>1, <2>2, ReadingMoves DEF ChartLabels
  <2>6. ChartPath(r)'
    BY <1>0, <1>2, <1>3, <1>4, <2>1, <2>2, <2>5 DEF ChartPath, Creates, Exists
  <2>7. ChartInv'
    BY <1>1, <1>2, <2>1, <2>2, <2>6, ReadingMoves DEF ChartLabels
  <2> QED
    BY <1>1, <1>2, <2>2, <2>5, <2>7 DEF ChartFrame
<1>9. CASE CountChildren(r) /\ ~ Fail(r)
  <2>1. copy' = copy /\ Goto(r, "loading") /\ pc[r] = "counting"
    BY <1>9 DEF CountChildren
  <2>5. pc'[r] = "loading" /\ call'[r] = call[r] /\ ChartFrame(r)
    BY <1>0, <1>1, <1>2, <2>1, ReadingMoves DEF ChartLabels
  <2>6. ChartPath(r)'
    BY <1>0, <1>2, <1>3, <1>4, <2>1, <2>5 DEF ChartPath, Creates, Exists
  <2>7. ChartInv'
    BY <1>0, <1>1, <1>2, <2>1, <2>6, ReadingMoves DEF ChartLabels
  <2> QED
    BY <1>1, <1>2, <2>1, <2>5, <2>7 DEF ChartFrame
<1>10. CASE Load(r)
  <2> DEFINE row == [accounts[call[r].id] EXCEPT !.deleted = TRUE]
  <2>1. copy' = [copy EXCEPT ![r] = row] /\ Goto(r, "saving") /\ pc[r] = "loading"
    BY <1>10 DEF Load
  <2>2. call[r].op = "delete" /\ Exists(call[r].id) /\ accounts[call[r].id] \in AccountRow
    BY <1>0, <1>4, <2>1 DEF ChartPath, Exists
  <2>3. row \in AccountRow /\ row # None
    <3>1. row \in AccountRow
      BY <2>2, AccountEdits
    <3> QED
      BY <3>1, AccountAssumption
  <2> HIDE DEF row
  <2>4. /\ copy' \in [Request -> AccountRow \cup {None}] /\ copy'[r] # None
        /\ \A q \in Request \ {r} : copy'[q] = copy[q]
    BY <1>0, <2>1, <2>3
  <2>5. pc'[r] = "saving" /\ call'[r] = call[r] /\ ChartFrame(r)
    BY <1>1, <1>2, <2>1, <2>4, ReadingMoves DEF ChartLabels
  <2>6. ChartPath(r)'
    BY <1>0, <1>2, <1>3, <1>4, <2>1, <2>2, <2>4, <2>5 DEF ChartPath, Creates, Exists
  <2>7. ChartInv'
    BY <1>1, <1>2, <2>1, <2>4, <2>6, ReadingMoves DEF ChartLabels
  <2> QED
    BY <1>1, <1>2, <2>4, <2>5, <2>7 DEF ChartFrame
<1> QED
  BY <1>5, <1>6, <1>7, <1>8, <1>9, <1>10 DEF ChartAbort

SavedId(r) == IF call[r].op = "create" THEN r ELSE call[r].id

SavedRow(r) ==
    CASE call[r].op = "create" -> NewRow(call[r].sent)
      [] call[r].op = "update" -> AmendedAccount(copy[r], call[r].sent)
      [] OTHER -> copy[r]

\* A creation whose number reaches the one its parent, as read, suggests.
Raises(r) ==
    /\ call[r].op = "create" /\ call[r].sent.parent # None
    /\ call[r].sent.code >= NextNumber(copy[r])

LEMMA SaveSteps ==
    ASSUME ChartInv, NEW r \in Request, Save(r)
    PROVE  /\ r \in InFlight /\ pc[r] = "saving" /\ UNCHANGED <<copy, call, met>> /\ ChartInv'
           /\ \A q \in Request \ {r} : pc'[q] = pc[q]
           /\ \/ pc'[r] = "failed" /\ accounts' = accounts
              \/ /\ accounts' = [accounts EXCEPT ![SavedId(r)] = SavedRow(r)]
                 /\ pc'[r] = IF Raises(r) THEN "raising" ELSE "done"
                 /\ SavedId(r) \in Id /\ SavedRow(r) \in AccountRow
                 /\ call[r].op # "create" => Exists(call[r].id) /\ copy[r] \in AccountRow
<1>0. /\ pc \in [Request -> ChartLabels] /\ copy \in [Request -> AccountRow \cup {None}]
      /\ accounts \in [Id -> AccountRow \cup {None}]
      /\ ChartPath(r) /\ r \in Id
  BY DEF ChartInv, ChartTypeOK, ChartLabels, Id
<1>1. r \in InFlight /\ pc[r] = "saving" /\ UNCHANGED <<copy, call, met>>
  BY DEF Save, InFlight, Active, Fail
<1>2. call[r] # None
  BY <1>0, <1>1 DEF ChartPath
<1>3. /\ call[r].op \in {"create", "update"} => call[r].sent \in Sent
      /\ call[r].op \in {"create", "update"} => call[r].sent.parent \in Id \cup {None}
      /\ call[r].op = "create" => call[r].sent.code # None
      /\ call[r].op \in {"update", "delete"} => call[r].id \in Id
      /\ call[r].op \in {"create", "update", "delete"}
  BY <1>2, CallsMade
<1>4. call[r].op # "create" => Exists(call[r].id) /\ copy[r] # None
  BY <1>0, <1>1, <1>3 DEF ChartPath
<1>5. SavedRow(r) \in AccountRow /\ SavedId(r) \in Id
  BY <1>0, <1>3, <1>4, NewRowType, AmendedType DEF SavedRow, SavedId
<1>6. CASE Fail(r)
  <2>1. Goto(r, "failed") /\ UNCHANGED accounts
    BY <1>6 DEF Fail
  <2>2. "failed" \in ChartLabels \ {"idle"}
    BY DEF ChartLabels
  <2>3. ChartFrame(r) /\ pc'[r] = "failed" /\ ChartPath(r)'
    BY <1>0, <1>1, <2>1, <2>2, ReadingMoves
  <2>4. ChartInv'
    BY <1>0, <1>1, <2>1, <2>2, <2>3, ReadingMoves
  <2> QED
    BY <1>1, <2>1, <2>3, <2>4 DEF ChartFrame
<1>7. CASE ~ Fail(r)
  <2> DEFINE label == IF Raises(r) THEN "raising" ELSE "done"
  <2>1. accounts' = [accounts EXCEPT ![SavedId(r)] = SavedRow(r)] /\ pc' = [pc EXCEPT ![r] = label]
    BY <1>7 DEF Save, SavedId, SavedRow, Raises, NewRow, Goto
  <2>2. /\ accounts' \in [Id -> AccountRow \cup {None}]
        /\ accounts'[SavedId(r)] = SavedRow(r) /\ SavedRow(r) # None
        /\ \A a \in Id \ {SavedId(r)} : accounts'[a] = accounts[a]
        /\ pc'[r] = label /\ label \in ChartLabels
        /\ \A q \in Request \ {r} : pc'[q] = pc[q]
    BY <1>0, <1>5, <2>1, AccountAssumption DEF ChartLabels
  <2>3. ChartFrame(r)
    <3>1. \A q \in Request \ {r} : accounts[q] = None => accounts'[q] = None
      BY <1>3, <1>4, <2>2 DEF SavedId, Exists, Id
    <3> QED
      BY <1>1, <2>2, <3>1 DEF ChartFrame, Exists
  <2>4. ChartPath(r)'
    <3>1. \A a \in Id : Exists(a) => accounts'[a] # None
      BY <2>3 DEF ChartFrame
    <3>2. call[r].op = "create" => accounts'[r] # None
      BY <2>2 DEF SavedId
    <3>3. call'[r] = call[r] /\ copy'[r] = copy[r] /\ pc'[r] \in {"raising", "done"}
      BY <1>1, <2>2
    <3>4. pc'[r] = "raising" => call[r].op = "create" /\ call[r].sent.parent # None
      BY <2>2 DEF Raises
    <3> QED
      BY <1>0, <1>1, <1>2, <1>3, <3>1, <3>2, <3>3, <3>4 DEF ChartPath, Creates, Exists
  <2> HIDE DEF label
  <2>5. ChartInv'
    BY <1>0, <1>1, <2>1, <2>2, <2>3, <2>4, ChartMoves
  <2> QED
    BY <1>0, <1>1, <1>4, <1>5, <2>1, <2>2, <2>5 DEF label
<1> QED
  BY <1>6, <1>7

RaisedRow(r) == [copy[r] EXCEPT !.next = call[r].sent.code + 1]

LEMMA RaiseSteps ==
    ASSUME ChartInv, NEW r \in Request, Raise(r)
    PROVE  /\ r \in InFlight /\ pc[r] = "raising" /\ UNCHANGED <<copy, call, met>> /\ ChartInv'
           /\ Creates(r) /\ call[r].sent.parent \in Id
           /\ \A q \in Request \ {r} : pc'[q] = pc[q]
           /\ \/ pc'[r] = "failed" /\ accounts' = accounts
              \/ /\ accounts' = [accounts EXCEPT ![call[r].sent.parent] = RaisedRow(r)]
                 /\ pc'[r] = "done" /\ RaisedRow(r) \in AccountRow
<1>0. /\ pc \in [Request -> ChartLabels] /\ copy \in [Request -> AccountRow \cup {None}]
      /\ accounts \in [Id -> AccountRow \cup {None}]
      /\ ChartPath(r) /\ r \in Id
  BY DEF ChartInv, ChartTypeOK, ChartLabels, Id
<1>1. r \in InFlight /\ pc[r] = "raising" /\ UNCHANGED <<copy, call, met>>
  BY DEF Raise, InFlight, Active, Fail
<1>2. /\ call[r] # None /\ call[r].op = "create" /\ call[r].sent.parent # None
      /\ copy[r] \in AccountRow /\ Exists(call[r].sent.parent)
  BY <1>0, <1>1 DEF ChartPath
<1>3. call[r].sent \in Sent /\ call[r].sent.parent \in Id /\ call[r].sent.code # None
  BY <1>2, CallsMade
<1>4. RaisedRow(r) \in AccountRow
  BY <1>2, <1>3, SentFields, AccountEdits DEF RaisedRow
<1>6. CASE Fail(r)
  <2>1. Goto(r, "failed") /\ UNCHANGED accounts
    BY <1>6 DEF Fail
  <2>2. "failed" \in ChartLabels \ {"idle"}
    BY DEF ChartLabels
  <2>3. ChartFrame(r) /\ pc'[r] = "failed" /\ ChartPath(r)'
    BY <1>0, <1>1, <2>1, <2>2, ReadingMoves
  <2>4. ChartInv'
    BY <1>0, <1>1, <2>1, <2>2, <2>3, ReadingMoves
  <2> QED
    BY <1>1, <1>2, <1>3, <2>1, <2>3, <2>4 DEF ChartFrame, Creates
<1>7. CASE ~ Fail(r)
  <2> DEFINE p == call[r].sent.parent
  <2>1. accounts' = [accounts EXCEPT ![p] = RaisedRow(r)] /\ pc' = [pc EXCEPT ![r] = "done"]
    BY <1>7 DEF Raise, RaisedRow, Goto
  <2>2. /\ accounts' \in [Id -> AccountRow \cup {None}]
        /\ accounts'[p] = RaisedRow(r) /\ RaisedRow(r) # None
        /\ \A a \in Id \ {p} : accounts'[a] = accounts[a]
        /\ pc'[r] = "done" /\ "done" \in ChartLabels
        /\ \A q \in Request \ {r} : pc'[q] = pc[q]
    BY <1>0, <1>3, <1>4, <2>1, AccountAssumption DEF ChartLabels
  <2>3. ChartFrame(r)
    BY <1>1, <1>2, <2>2 DEF ChartFrame, Exists, Id
  <2>4. ChartPath(r)'
    <3>1. Exists(r) /\ accounts'[r] # None
      BY <1>0, <1>1, <1>2, <2>3 DEF ChartPath, Creates, ChartFrame
    <3> QED
      BY <1>1, <1>2, <2>2, <3>1 DEF ChartPath, Creates, Exists
  <2>5. ChartInv'
    BY <1>0, <1>1, <2>1, <2>2, <2>3, <2>4, ChartMoves
  <2> QED
    BY <1>1, <1>2, <1>3, <1>4, <2>1, <2>2, <2>5 DEF Creates
<1> QED
  BY <1>6, <1>7

LEMMA ChartTypes == ChartInv /\ [ChartNext]_accountVars => ChartInv'
<1>1. ASSUME ChartInv, UNCHANGED accountVars PROVE ChartInv'
  BY <1>1 DEF accountVars, ChartInv, ChartTypeOK, ChartPath, Creates, Exists
<1>2. ASSUME ChartInv, NEW r \in Request, ChartStep(r) PROVE ChartInv'
  BY <1>2, ReadingSteps, SaveSteps, RaiseSteps DEF ChartStep
<1>3. ASSUME ChartInv, NEW r \in Request, ChartAbort(r) PROVE ChartInv'
  BY <1>3, ReadingSteps
<1> QED
  BY <1>1, <1>2, <1>3, ChartArrives DEF ChartNext

\* Accounts, and the rows requests have read, keep their types.
THEOREM ChartTypeCorrect == ChartSpec => []ChartTypeOK
<1>1. ChartInv => ChartTypeOK
  BY DEF ChartInv
<1> QED
  BY <1>1, ChartFirst, ChartTypes, PTL DEF ChartSpec

----------------------------------------------------------------------------
(* The numbers parents suggest *)

Parent(r) == call[r].sent.parent

\* The creations under a parent.
Kids(p) == {r \in Request : Creates(r) /\ Parent(r) = p}

\* Requests that write the parent or an account created under it.
Writers(p) ==
    {r \in Request :
        /\ call[r] # None
        /\ IF call[r].op = "create" THEN Parent(r) = p
             ELSE call[r].id = p \/ (call[r].id \in Kids(p) /\ Exists(call[r].id))}

\* Only creations, one after the other.
Quiet(p) == Writers(p) \subseteq Kids(p) /\ \A r \in Kids(p) : met[r] \cap Kids(p) = {}

\* Whose row a request holds.
Holding(w, a) ==
    \/ /\ pc[w] \in {"checking", "parenting", "saving", "counting", "loading"}
       /\ call[w].op \in {"update", "delete"} /\ call[w].id = a
    \/ pc[w] \in {"saving", "raising"} /\ Creates(w) /\ Parent(w) = a

\* An account created under a parent stays under it.
ParentKept(r) ==
    Creates(r) /\ Parent(r) # None =>
        /\ Exists(r) => accounts[r].parent = Parent(r)
        /\ \A w \in Request : Holding(w, r) => copy[w].parent = Parent(r)

\* What holds of a parent under which accounts are only created.
Suggests(p, r) ==
    /\ pc[r] = "done" => Exists(p) /\ call[r].sent.code < NextNumber(accounts[p])
    /\ pc[r] \in {"saving", "raising"} => Exists(p) /\ copy[r] = accounts[p]
    /\ pc[r] = "raising" => call[r].sent.code >= NextNumber(copy[r])
    /\ Exists(r) => accounts[r].code = call[r].sent.code
    /\ \A w \in Request : pc[w] \in {"saving", "raising"} /\ Creates(w) /\ Parent(w) = r =>
          copy[w].code = call[r].sent.code

ChartMet == \A r, q \in InFlight : r # q => q \in met[r]

NumberInv ==
    /\ ChartInv /\ ChartMet
    /\ \A r \in Request : ParentKept(r)
    /\ \A p \in Id : Quiet(p) => \A r \in Kids(p) : Suggests(p, r)

\* A step of a request in flight.
Working(w) == Find(w) \/ Check(w) \/ FindParent(w) \/ CountChildren(w) \/ Load(w) \/ ChartAbort(w)
              \/ Save(w) \/ Raise(w)

LEMMA ChartCases ==
    ASSUME [ChartNext]_accountVars
    PROVE  \/ UNCHANGED accountVars
           \/ \E w \in Request, c \in Call : ChartArrive(w, c)
           \/ \E w \in Request : Working(w)
BY DEF ChartNext, ChartStep, Working

LEMMA WorkFrame ==
    ASSUME ChartInv, NEW w \in Request, Working(w)
    PROVE  /\ w \in InFlight /\ UNCHANGED <<call, met>> /\ ChartInv'
           /\ \A q \in Request \ {w} : pc'[q] = pc[q] /\ copy'[q] = copy[q]
           /\ \A a \in Id : Exists(a) => Exists(a)'
           /\ InFlight' \subseteq InFlight
<1>1. CASE ~ (Save(w) \/ Raise(w))
  <2>1. Find(w) \/ Check(w) \/ FindParent(w) \/ CountChildren(w) \/ Load(w) \/ ChartAbort(w)
    BY <1>1 DEF Working
  <2>2. /\ w \in InFlight /\ UNCHANGED <<accounts, call, met>> /\ ChartInv'
        /\ \A q \in Request \ {w} : pc'[q] = pc[q] /\ copy'[q] = copy[q]
    BY <2>1, ReadingSteps
  <2> QED
    BY <2>2 DEF Exists, InFlight, Active
<1>2. CASE Save(w)
  <2>1. accounts \in [Id -> AccountRow \cup {None}]
    BY DEF ChartInv, ChartTypeOK
  <2>2. None \notin AccountRow
    BY AccountAssumption
  <2>3. \A a \in Id : Exists(a) => Exists(a)'
    BY <1>2, <2>1, <2>2, SaveSteps DEF Exists
  <2>4. /\ w \in InFlight /\ UNCHANGED <<copy, call, met>> /\ ChartInv'
        /\ \A q \in Request \ {w} : pc'[q] = pc[q]
    BY <1>2, SaveSteps
  <2> QED
    BY <2>3, <2>4 DEF InFlight, Active
<1>3. CASE Raise(w)
  <2>1. accounts \in [Id -> AccountRow \cup {None}]
    BY DEF ChartInv, ChartTypeOK
  <2>2. None \notin AccountRow
    BY AccountAssumption
  <2>3. \A a \in Id : Exists(a) => Exists(a)'
    BY <1>3, <2>1, <2>2, RaiseSteps DEF Exists
  <2>4. /\ w \in InFlight /\ UNCHANGED <<copy, call, met>> /\ ChartInv'
        /\ \A q \in Request \ {w} : pc'[q] = pc[q]
    BY <1>3, RaiseSteps
  <2> QED
    BY <2>3, <2>4 DEF InFlight, Active
<1> QED
  BY <1>1, <1>2, <1>3

LEMMA ArriveFrame ==
    ASSUME ChartInv, NEW w \in Request, NEW c \in Call, ChartArrive(w, c)
    PROVE  /\ pc[w] = "idle" /\ call[w] = None /\ accounts[w] = None
           /\ call'[w] = c /\ c # None /\ pc'[w] \in {"checking", "finding"}
           /\ c.op = "create" => pc'[w] = "checking"
           /\ c.op # "create" => pc'[w] = "finding"
           /\ UNCHANGED <<accounts, copy>>
           /\ \A q \in Request \ {w} : pc'[q] = pc[q] /\ call'[q] = call[q]
           /\ met'[w] = InFlight
           /\ \A q \in Request \ {w} : met'[q] = IF q \in InFlight THEN met[q] \cup {w} ELSE met[q]
           /\ InFlight' = InFlight \cup {w} /\ w \notin InFlight
<1>1. pc \in [Request -> ChartLabels] /\ call \in [Request -> Call \cup {None}] /\ ChartPath(w)
  BY DEF ChartInv, ChartTypeOK, ChartLabels
<1>2. /\ pc[w] = "idle" /\ UNCHANGED <<accounts, copy>>
      /\ pc' = [pc EXCEPT ![w] = IF c.op = "create" THEN "checking" ELSE "finding"]
      /\ call' = [call EXCEPT ![w] = c] /\ met' = Meeting(w)
  BY DEF ChartArrive, Goto
<1>3. c # None
  BY AccountCallFields
<1>4. call[w] = None /\ accounts[w] = None
  BY <1>1, <1>2 DEF ChartPath
<1>5. InFlight' = InFlight \cup {w} /\ w \notin InFlight
  BY <1>1, <1>2 DEF InFlight, Active
<1>6. /\ met'[w] = InFlight
      /\ \A q \in Request \ {w} : met'[q] = IF q \in InFlight THEN met[q] \cup {w} ELSE met[q]
  BY <1>2, <1>5 DEF Meeting
<1> QED
  BY <1>1, <1>2, <1>3, <1>4, <1>5, <1>6

LEMMA ChartMetStays ==
    ASSUME ChartInv, ChartMet, [ChartNext]_accountVars PROVE ChartMet'
<1>1. CASE UNCHANGED accountVars
  BY <1>1 DEF accountVars, ChartMet, InFlight, Active
<1>2. ASSUME NEW w \in Request, Working(w) PROVE ChartMet'
  <2>1. met' = met /\ InFlight' \subseteq InFlight
    BY <1>2, WorkFrame
  <2> QED
    BY <2>1 DEF ChartMet
<1>3. ASSUME NEW w \in Request, NEW c \in Call, ChartArrive(w, c) PROVE ChartMet'
  <2>1. InFlight \subseteq Request
    BY DEF InFlight
  <2>2. /\ met'[w] = InFlight /\ InFlight' = InFlight \cup {w} /\ w \notin InFlight
        /\ \A q \in Request \ {w} : met'[q] = IF q \in InFlight THEN met[q] \cup {w} ELSE met[q]
    BY <1>3, ArriveFrame
  <2>3. ASSUME NEW r \in InFlight', NEW q \in InFlight', r # q PROVE q \in met'[r]
    <3>1. CASE r = w
      BY <2>2, <2>3, <3>1
    <3>2. CASE r # w
      <4>1. r \in InFlight /\ met'[r] = met[r] \cup {w}
        BY <2>1, <2>2, <3>2
      <4> QED
        BY <2>2, <2>3, <4>1 DEF ChartMet
    <3> QED
      BY <3>1, <3>2
  <2> QED
    BY <2>3 DEF ChartMet
<1> QED
  BY <1>1, <1>2, <1>3, ChartCases

LEMMA QuietBefore ==
    ASSUME ChartInv, [ChartNext]_accountVars, NEW p \in Id, Quiet(p)'
    PROVE  Quiet(p)
<1>1. CASE UNCHANGED accountVars
  BY <1>1 DEF accountVars, Quiet, Writers, Kids, Creates, Parent, Exists
<1>2. ASSUME NEW w \in Request, Working(w) PROVE Quiet(p)
  <2>1. UNCHANGED <<call, met>> /\ \A a \in Id : Exists(a) => Exists(a)'
    BY <1>2, WorkFrame
  <2>2. Kids(p)' = Kids(p)
    BY <2>1 DEF Kids, Creates, Parent
  <2>3. Kids(p) \subseteq Id
    BY DEF Kids, Id
  <2>4. Writers(p) \subseteq Writers(p)'
    BY <2>1, <2>2, <2>3 DEF Writers, Parent
  <2> QED
    BY <2>1, <2>2, <2>4 DEF Quiet
<1>3. ASSUME NEW w \in Request, NEW c \in Call, ChartArrive(w, c) PROVE Quiet(p)
  <2>1. /\ call[w] = None /\ accounts' = accounts
        /\ \A q \in Request \ {w} : call'[q] = call[q] /\ met[q] \subseteq met'[q]
    BY <1>3, ArriveFrame
  <2>2. \A q \in Kids(p) : q # w /\ q \in Request /\ q \in Kids(p)'
    BY <2>1 DEF Kids, Creates, Parent
  <2>3. \A q \in Writers(p) : q # w /\ q \in Request /\ q \in Writers(p)'
    BY <2>1, <2>2 DEF Writers, Parent, Exists
  <2>4. \A q \in Request \ {w} : q \in Kids(p)' => q \in Kids(p)
    BY <2>1 DEF Kids, Creates, Parent
  <2> QED
    BY <2>1, <2>2, <2>3, <2>4 DEF Quiet
<1> QED
  BY <1>1, <1>2, <1>3, ChartCases

Reads(w) == Find(w) \/ Check(w) \/ FindParent(w) \/ CountChildren(w) \/ Load(w) \/ ChartAbort(w)

\* Where the row a request holds comes from.
LEMMA ReadsHold ==
    ASSUME ChartInv, NEW w \in Request, Reads(w), NEW a \in Id, Holding(w, a)'
    PROVE  \/ Holding(w, a) /\ copy'[w] = copy[w] /\ call[w].op # "create"
           \/ /\ Exists(a) /\ copy'[w].parent = accounts[a].parent
              /\ call[w].op = "create" => copy'[w] = accounts[a]
<1>1. /\ w \in InFlight /\ UNCHANGED <<accounts, call, met>>
      /\ pc'[w] \notin {"idle", "raising", "done"}
  BY ReadingSteps DEF Reads
<1>2. /\ pc \in [Request -> ChartLabels] /\ copy \in [Request -> AccountRow \cup {None}]
      /\ accounts \in [Id -> AccountRow \cup {None}] /\ ChartPath(w)
  BY DEF ChartInv, ChartTypeOK, ChartLabels
<1>3. call[w] # None
  BY <1>1, <1>2 DEF ChartPath, InFlight, Active
<1>4. call[w].op \in {"create", "update", "delete"} /\ a # None
  BY <1>3, CallsMade, AccountAssumption
<1>5. ~ Fail(w)
  <2>1. ASSUME Fail(w) PROVE pc'[w] = "failed"
    BY <1>2, <2>1 DEF Fail, Goto
  <2> QED
    BY <2>1 DEF Holding
<1>6. CASE Find(w)
  <2>1. /\ call[w].op \in {"update", "delete"} /\ Exists(call[w].id)
        /\ copy'[w] = accounts[call[w].id] /\ pc'[w] \in {"checking", "counting"}
    BY <1>2, <1>5, <1>6 DEF Find, ChartPath, Goto
  <2> QED
    BY <1>1, <2>1 DEF Holding, Creates
<1>7. CASE Check(w)
  <2>1. /\ pc[w] = "checking" /\ call[w].op \in {"create", "update"} /\ copy' = copy
        /\ pc'[w] = IF call[w].sent.parent = None THEN "saving" ELSE "parenting"
    BY <1>2, <1>5, <1>7 DEF Check, ChartPath, Goto
  <2> QED
    BY <1>1, <1>4, <2>1 DEF Holding, Creates, Parent
<1>8. CASE FindParent(w)
  <2>1. /\ pc[w] = "parenting" /\ call[w].op \in {"create", "update"} /\ Exists(Parent(w))
        /\ copy'[w] = (IF call[w].op = "create" THEN accounts[Parent(w)] ELSE copy[w])
        /\ pc'[w] = "saving"
    BY <1>2, <1>5, <1>8 DEF FindParent, ChartPath, Goto, Parent
  <2> QED
    BY <1>1, <1>4, <2>1 DEF Holding, Creates, Parent
<1>9. CASE CountChildren(w)
  <2>1. pc[w] = "counting" /\ call[w].op = "delete" /\ copy' = copy /\ pc'[w] = "loading"
    BY <1>2, <1>5, <1>9 DEF CountChildren, ChartPath, Goto
  <2> QED
    BY <1>1, <2>1 DEF Holding, Creates, Parent
<1>10. CASE Load(w)
  <2>1. /\ pc[w] = "loading" /\ call[w].op = "delete" /\ Exists(call[w].id)
        /\ copy'[w] = [accounts[call[w].id] EXCEPT !.deleted = TRUE]
    BY <1>2, <1>10 DEF Load, ChartPath, Goto
  <2>2. call[w].id \in Id
    BY <1>3, <2>1, CallsMade
  <2>3. accounts[call[w].id] \in AccountRow
    BY <1>2, <2>1, <2>2 DEF Exists
  <2>4. copy'[w].parent = accounts[call[w].id].parent
    BY <2>1, <2>3 DEF AccountRow
  <2>5. call[w].id = a
    BY <1>1, <2>1 DEF Holding, Creates
  <2> QED
    BY <2>1, <2>4, <2>5
<1>11. CASE ChartAbort(w)
  BY <1>5, <1>11 DEF ChartAbort
<1> QED
  BY <1>6, <1>7, <1>8, <1>9, <1>10, <1>11 DEF Reads

\* What holding a row is like, and what is saved of it.
LEMMA HeldSaves ==
    ASSUME ChartInv, NEW w \in Request, NEW a \in Id, Save(w) \/ Raise(w), accounts'[a] # accounts[a]
    PROVE  \/ a = w /\ Creates(w) /\ pc[w] = "saving" /\ accounts'[a] = NewRow(call[w].sent)
           \/ /\ Holding(w, a) /\ (copy[w].parent # None => accounts'[a].parent = copy[w].parent)
              /\ Creates(w) => pc[w] = "raising" /\ Parent(w) = a /\ accounts'[a] = RaisedRow(w)
              /\ copy[w] \in AccountRow
<1>1. /\ accounts \in [Id -> AccountRow \cup {None}] /\ w \in Id
      /\ copy \in [Request -> AccountRow \cup {None}] /\ ChartPath(w)
  BY DEF ChartInv, ChartTypeOK, Id
<1>2. CASE Save(w)
  <2>1. /\ pc[w] = "saving" /\ accounts' = [accounts EXCEPT ![SavedId(w)] = SavedRow(w)]
        /\ SavedId(w) \in Id
        /\ call[w].op # "create" => Exists(call[w].id) /\ copy[w] \in AccountRow
    BY <1>2, SaveSteps
  <2>2. a = SavedId(w) /\ accounts'[a] = SavedRow(w)
    BY <1>1, <2>1
  <2>3. call[w] # None
    BY <1>1, <2>1 DEF ChartPath
  <2>4. call[w].op \in {"create", "update", "delete"}
    BY <2>3, CallsMade
  <2>5. CASE call[w].op = "create"
    BY <2>1, <2>2, <2>3, <2>5 DEF SavedId, SavedRow, Creates
  <2>6. CASE call[w].op = "update"
    BY <2>1, <2>2, <2>6 DEF SavedId, SavedRow, Holding, AmendedAccount, Given, Creates
  <2>7. CASE call[w].op = "delete"
    BY <2>1, <2>2, <2>7 DEF SavedId, SavedRow, Holding, Creates
  <2> QED
    BY <2>4, <2>5, <2>6, <2>7
<1>3. CASE Raise(w)
  <2>1. /\ pc[w] = "raising" /\ accounts' = [accounts EXCEPT ![Parent(w)] = RaisedRow(w)]
        /\ Creates(w) /\ Parent(w) \in Id
    BY <1>3, RaiseSteps DEF Parent
  <2>2. a = Parent(w) /\ accounts'[a] = RaisedRow(w)
    BY <1>1, <2>1
  <2>3. copy[w] \in AccountRow
    BY <1>1, <2>1 DEF ChartPath
  <2>4. RaisedRow(w).parent = copy[w].parent
    BY <2>3 DEF RaisedRow, AccountRow
  <2> QED
    BY <2>1, <2>2, <2>3, <2>4 DEF Holding
<1> QED
  BY <1>2, <1>3

LEMMA ParentsStay ==
    ASSUME NumberInv, [ChartNext]_accountVars, NEW r \in Request
    PROVE  ParentKept(r)'
<1>1. ChartInv /\ ParentKept(r) /\ r \in Id
  BY DEF NumberInv, Id
<1>2. CASE UNCHANGED accountVars
  BY <1>1, <1>2 DEF accountVars, ParentKept, Holding, Creates, Parent, Exists
<1>3. ASSUME NEW w \in Request, NEW c \in Call, ChartArrive(w, c) PROVE ParentKept(r)'
  <2>1. /\ pc[w] = "idle" /\ call[w] = None /\ accounts[w] = None /\ call'[w] = c
        /\ pc'[w] \in {"checking", "finding"} /\ UNCHANGED <<accounts, copy>>
        /\ c.op = "create" => pc'[w] = "checking"
        /\ c.op # "create" => pc'[w] = "finding"
        /\ \A q \in Request \ {w} : pc'[q] = pc[q] /\ call'[q] = call[q]
    BY <1>1, <1>3, ArriveFrame
  <2>2. CASE r = w
    <3>1. ~ Exists(r)'
      BY <2>1, <2>2 DEF Exists
    <3>2. ASSUME NEW q \in Request, Holding(q, r)' PROVE FALSE
      <4>1. q # w
        BY <2>1, <3>2 DEF Holding, Creates
      <4>2. Holding(q, r)
        BY <2>1, <3>2, <4>1 DEF Holding, Creates, Parent
      <4>3. ChartPath(q) /\ call[q] # None /\ r # None
        BY <1>1, <4>2, AccountAssumption DEF ChartInv, ChartPath, Holding
      <4>4. Exists(r)
        BY <4>2, <4>3 DEF ChartPath, Holding, Creates, Parent
      <4> QED
        BY <2>1, <2>2, <4>4 DEF Exists
    <3> QED
      BY <3>1, <3>2 DEF ParentKept
  <2>3. CASE r # w
    <3>1. \A q \in Request : Holding(q, r)' => Holding(q, r)
      BY <2>1 DEF Holding, Creates, Parent
    <3> QED
      BY <1>1, <2>1, <2>3, <3>1 DEF ParentKept, Creates, Parent, Exists
  <2> QED
    BY <2>2, <2>3
<1>4. ASSUME NEW w \in Request, Working(w) PROVE ParentKept(r)'
  <2>1. /\ UNCHANGED <<call, met>> /\ \A a \in Id : Exists(a) => Exists(a)'
        /\ \A q \in Request \ {w} : pc'[q] = pc[q] /\ copy'[q] = copy[q]
    BY <1>1, <1>4, WorkFrame
  <2> SUFFICES ASSUME Creates(r), Parent(r) # None
               PROVE  /\ Exists(r)' => accounts'[r].parent = Parent(r)
                      /\ \A q \in Request : Holding(q, r)' => copy'[q].parent = Parent(r)
    BY <2>1 DEF ParentKept, Creates, Parent
  <2>2. /\ Exists(r) => accounts[r].parent = Parent(r)
        /\ \A q \in Request : Holding(q, r) => copy[q].parent = Parent(r)
    BY <1>1 DEF ParentKept
  <2>3. \A q \in Request \ {w} : Holding(q, r)' => Holding(q, r)
    BY <2>1 DEF Holding, Creates, Parent
  <2>4. CASE Reads(w)
    <3>1. accounts' = accounts
      BY <1>1, <2>4, ReadingSteps DEF Reads
    <3>2. Holding(w, r)' => copy'[w].parent = Parent(r)
      BY <1>1, <2>2, <2>4, ReadsHold
    <3> QED
      BY <2>1, <2>2, <2>3, <3>1, <3>2 DEF Exists
  <2>5. CASE Save(w) \/ Raise(w)
    <3>1. /\ copy' = copy
          /\ pc'[w] \in {"failed", "raising", "done"}
          /\ pc'[w] = "raising" => pc[w] = "saving" /\ Creates(w)
      <4>1. CASE Save(w)
        BY <1>1, <4>1, SaveSteps DEF Raises, Creates, ChartInv, ChartPath
      <4>2. CASE Raise(w)
        BY <1>1, <4>2, RaiseSteps
      <4> QED
        BY <2>5, <4>1, <4>2
    <3>2. Holding(w, r)' => Holding(w, r)
      BY <2>1, <3>1 DEF Holding, Creates, Parent
    <3>3. Exists(r)' => accounts'[r].parent = Parent(r)
      <4>1. CASE accounts'[r] = accounts[r]
        BY <2>2, <4>1 DEF Exists
      <4>2. CASE accounts'[r] # accounts[r]
        <5>1. \/ r = w /\ accounts'[r] = NewRow(call[w].sent)
              \/ Holding(w, r) /\ (copy[w].parent # None => accounts'[r].parent = copy[w].parent)
          BY <1>1, <2>5, <4>2, HeldSaves
        <5>2. NewRow(call[r].sent).parent = Parent(r)
          BY DEF NewRow, Parent
        <5> QED
          BY <2>2, <5>1, <5>2
      <4> QED
        BY <4>1, <4>2
    <3> QED
      BY <2>2, <2>3, <3>1, <3>2, <3>3
  <2> QED
    BY <1>4, <2>4, <2>5 DEF Working, Reads
<1> QED
  BY <1>2, <1>3, <1>4, ChartCases

LEMMA NumbersSuggested ==
    ASSUME NEW row \in AccountRow PROVE NextNumber(row) \in Int
<1>1. row.code \in Numbers /\ row.next \in Numbers \cup {None}
  BY DEF AccountRow
<1>2. MaxCode \in Nat
  BY AccountAssumption
<1> QED
  BY <1>1, <1>2 DEF NextNumber, Given, Numbers

LEMMA KidFacts ==
    ASSUME ChartInv, NEW p \in Id, NEW r \in Kids(p)
    PROVE  /\ r \in Request /\ r \in Id /\ Creates(r) /\ Parent(r) = p /\ p # None /\ r # None
           /\ call[r].sent.code \in Int
<1>1. r \in Request /\ Creates(r) /\ Parent(r) = p
  BY DEF Kids
<1>2. call[r].sent \in Sent /\ call[r].sent.code # None
  BY <1>1, CallsMade DEF Creates
<1>3. MaxCode \in Nat
  BY AccountAssumption
<1>4. call[r].sent.code \in Int
  BY <1>2, <1>3, SentFields DEF Numbers
<1> QED
  BY <1>1, <1>4, AccountAssumption DEF Id

\* Nobody but creations writes under a parent that is quiet.
LEMMA OnlyKidsWrite ==
    ASSUME ChartInv, NEW p \in Id, Quiet(p), NEW w \in Request, call[w] # None,
           call[w].op # "create"
    PROVE  call[w].id # p /\ \A r \in Kids(p) : call[w].id = r => ~ Exists(r)
<1>1. w \notin Kids(p)
  BY DEF Kids, Creates
<1>2. w \notin Writers(p)
  BY <1>1 DEF Quiet
<1> QED
  BY <1>2 DEF Writers

LEMMA KidsArrive ==
    ASSUME ChartInv, NEW p \in Id, \A q \in Kids(p) : Suggests(p, q),
           NEW w \in Request, NEW c \in Call, ChartArrive(w, c), NEW r \in Kids(p)'
    PROVE  Suggests(p, r)'
<1>1. /\ pc[w] = "idle" /\ call[w] = None /\ accounts[w] = None /\ call'[w] = c
      /\ pc'[w] \in {"checking", "finding"} /\ UNCHANGED <<accounts, copy>>
      /\ \A q \in Request \ {w} : pc'[q] = pc[q] /\ call'[q] = call[q]
  BY ArriveFrame
<1>2. r \in Request
  BY DEF Kids
<1>3. CASE r = w
  <2>1. ASSUME NEW x \in Request, pc'[x] \in {"saving", "raising"}, Creates(x)', Parent(x)' = r
        PROVE  FALSE
    <3>1. x # w
      BY <1>1, <2>1
    <3>2. pc[x] = pc'[x] /\ Creates(x) /\ Parent(x) = r
      BY <1>1, <2>1, <3>1 DEF Creates, Parent
    <3>3. r # None /\ ChartPath(x)
      BY <1>2, AccountAssumption DEF Id, ChartInv
    <3>4. Exists(r)
      BY <2>1, <3>2, <3>3 DEF ChartPath, Creates, Parent
    <3> QED
      BY <1>1, <1>3, <3>4 DEF Exists
  <2> QED
    BY <1>1, <1>3, <2>1 DEF Suggests, Exists
<1>4. CASE r # w
  <2>1. r \in Kids(p)
    BY <1>1, <1>2, <1>4 DEF Kids, Creates, Parent
  <2>2. Suggests(p, r)
    BY <2>1
  <2>3. pc'[r] = pc[r] /\ call'[r] = call[r] /\ accounts' = accounts /\ copy' = copy
    BY <1>1, <1>2, <1>4
  <2>4. ASSUME NEW x \in Request, pc'[x] \in {"saving", "raising"}, Creates(x)', Parent(x)' = r
        PROVE  copy'[x].code = call'[r].sent.code
    <3>1. x # w
      BY <1>1, <2>4
    <3>2. pc[x] = pc'[x] /\ Creates(x) /\ Parent(x) = r
      BY <1>1, <2>4, <3>1 DEF Creates, Parent
    <3> QED
      BY <2>2, <2>3, <2>4, <3>2 DEF Suggests
  <2> QED
    BY <2>2, <2>3, <2>4 DEF Suggests, Exists
<1> QED
  BY <1>3, <1>4

LEMMA KidsRead ==
    ASSUME ChartInv, NEW p \in Id, \A q \in Kids(p) : Suggests(p, q),
           NEW w \in Request, Reads(w), NEW r \in Kids(p)
    PROVE  Suggests(p, r)'
<1>1. /\ UNCHANGED <<accounts, call, met>>
      /\ \A q \in Request \ {w} : pc'[q] = pc[q] /\ copy'[q] = copy[q]
      /\ pc'[w] \notin {"idle", "raising", "done"}
  BY ReadingSteps DEF Reads
<1>2. /\ r \in Request /\ r \in Id /\ Creates(r) /\ Parent(r) = p /\ p # None /\ r # None
  BY KidFacts
<1>3. Suggests(p, r)
  OBVIOUS
<1>4. ASSUME NEW x \in Request, pc'[x] \in {"saving", "raising"}, Creates(x)', Parent(x)' = r
      PROVE  copy'[x].code = call'[r].sent.code
  <2>0. Creates(x) /\ Parent(x) = r
    BY <1>1, <1>4 DEF Creates, Parent
  <2>1. CASE x # w
    BY <1>1, <1>3, <1>4, <2>0, <2>1 DEF Suggests
  <2>2. CASE x = w
    <3>1. Holding(w, r)'
      BY <1>2, <1>4, <2>2 DEF Holding
    <3>2. call[w].op = "create"
      BY <2>0, <2>2 DEF Creates
    <3>3. Exists(r) /\ copy'[w] = accounts[r]
      BY <1>2, <3>1, <3>2, ReadsHold
    <3> QED
      BY <1>1, <1>3, <2>2, <3>3 DEF Suggests
  <2> QED
    BY <2>1, <2>2
<1>5. CASE r = w
  <2>1. ASSUME pc'[r] \in {"saving", "raising"} PROVE Exists(p) /\ copy'[r] = accounts[p]
    <3>1. Holding(w, p)'
      BY <1>1, <1>2, <1>5, <2>1 DEF Holding, Creates, Parent
    <3>2. call[w].op = "create"
      BY <1>2, <1>5 DEF Creates
    <3> QED
      BY <1>5, <3>1, <3>2, ReadsHold
  <2> QED
    BY <1>1, <1>3, <1>4, <1>5, <2>1 DEF Suggests, Exists
<1>6. CASE r # w
  <2>1. pc'[r] = pc[r] /\ copy'[r] = copy[r]
    BY <1>1, <1>2, <1>6
  <2> QED
    BY <1>1, <1>3, <1>4, <2>1 DEF Suggests, Exists
<1> QED
  BY <1>5, <1>6

LEMMA KidsSave ==
    ASSUME ChartInv, NEW p \in Id, Quiet(p), \A q \in Kids(p) : Suggests(p, q),
           NEW w \in Request, Save(w), NEW r \in Kids(p)
    PROVE  Suggests(p, r)'
<1>1. /\ pc[w] = "saving" /\ UNCHANGED <<copy, call, met>>
      /\ \A q \in Request \ {w} : pc'[q] = pc[q]
      /\ \/ pc'[w] = "failed" /\ accounts' = accounts
         \/ /\ accounts' = [accounts EXCEPT ![SavedId(w)] = SavedRow(w)]
            /\ pc'[w] = IF Raises(w) THEN "raising" ELSE "done"
  BY SaveSteps
<1>2. /\ r \in Request /\ r \in Id /\ Creates(r) /\ Parent(r) = p /\ p # None /\ r # None
      /\ call[r].sent.code \in Int
  BY KidFacts
<1>3. Suggests(p, r)
  OBVIOUS
<1>4. ChartPath(w) /\ call[w] # None /\ accounts \in [Id -> AccountRow \cup {None}] /\ w \in Id
  BY <1>1 DEF ChartInv, ChartTypeOK, ChartPath, Id
<1>5. pc'[w] = "raising" => Raises(w) /\ Creates(w)
  BY <1>1, <1>4 DEF Raises, Creates
<1>6. ASSUME NEW x \in Request, pc'[x] \in {"saving", "raising"}, Creates(x)', Parent(x)' = r
      PROVE  copy'[x].code = call'[r].sent.code
  <2>1. Creates(x) /\ Parent(x) = r
    BY <1>1, <1>6 DEF Creates, Parent
  <2>2. pc[x] \in {"saving", "raising"}
    BY <1>1, <1>6
  <2> QED
    BY <1>1, <1>3, <2>1, <2>2 DEF Suggests
<1>7. ASSUME NEW a \in Id, Holding(w, a), a = p \/ (a = r /\ Exists(r)), ~ Creates(w) PROVE FALSE
  <2>1. call[w].id = a /\ call[w].op # "create"
    BY <1>1, <1>4, <1>7 DEF Holding, Creates
  <2> QED
    BY <1>4, <1>7, <2>1, OnlyKidsWrite
<1>8. Exists(p) => accounts'[p] = accounts[p]
  <2>1. ASSUME Exists(p), accounts'[p] # accounts[p] PROVE FALSE
    <3>1. \/ p = w /\ Creates(w)
          \/ Holding(w, p) /\ (Creates(w) => pc[w] = "raising")
      BY <2>1, HeldSaves
    <3>2. CASE p = w /\ Creates(w)
      BY <1>1, <1>4, <2>1, <3>2 DEF ChartPath, Exists
    <3>3. CASE Holding(w, p) /\ ~ Creates(w)
      <4>1. call[w].op # "create" /\ call[w].id = p
        BY <1>1, <1>4, <3>3 DEF Holding, Creates
      <4> QED
        BY <1>4, <4>1, OnlyKidsWrite
    <3> QED
      BY <1>1, <3>1, <3>2, <3>3
  <2> QED
    BY <2>1
<1>9. Exists(r)' => accounts'[r].code = call[r].sent.code
  <2>1. CASE accounts'[r] = accounts[r]
    BY <1>3, <2>1 DEF Suggests, Exists
  <2>2. CASE accounts'[r] # accounts[r]
    <3>1. \/ r = w /\ accounts'[r] = NewRow(call[w].sent)
          \/ Holding(w, r) /\ (Creates(w) => pc[w] = "raising")
      BY <1>2, <2>2, HeldSaves
    <3>2. CASE r = w /\ accounts'[r] = NewRow(call[w].sent)
      BY <3>2 DEF NewRow
    <3>3. CASE Holding(w, r) /\ ~ Creates(w)
      <4>1. call[w].op \in {"update", "delete"} /\ call[w].id = r
        BY <1>1, <3>3 DEF Holding
      <4>2. Exists(r)
        BY <1>1, <1>4, <4>1 DEF ChartPath
      <4> QED
        BY <1>2, <1>7, <3>3, <4>2
    <3> QED
      BY <1>1, <3>1, <3>2, <3>3
  <2> QED
    BY <2>1, <2>2
<1>10. Exists(p) => Exists(p)'
  BY <1>8 DEF Exists
<1>11. CASE r # w
  <2>1. pc'[r] = pc[r]
    BY <1>1, <1>2, <1>11
  <2> QED
    BY <1>1, <1>3, <1>6, <1>8, <1>9, <1>10, <2>1 DEF Suggests
<1>12. CASE r = w
  <2>1. Exists(p) /\ copy[r] = accounts[p]
    BY <1>1, <1>3, <1>12 DEF Suggests
  <2>2. pc'[r] = "raising" => call[r].sent.code >= NextNumber(copy[r])
    BY <1>5, <1>12 DEF Raises
  <2>3. pc'[r] = "done" => call[r].sent.code < NextNumber(accounts[p])
    <3>1. NextNumber(accounts[p]) \in Int
      BY <1>4, <2>1, NumbersSuggested DEF Exists
    <3>2. pc'[r] = "done" => ~ Raises(r)
      BY <1>1, <1>12
    <3>3. call[r].op = "create" /\ call[r].sent.parent # None
      BY <1>2 DEF Creates, Parent
    <3>4. pc'[r] = "done" => ~ (call[r].sent.code >= NextNumber(copy[r]))
      BY <3>2, <3>3 DEF Raises
    <3> QED
      BY <1>2, <2>1, <3>1, <3>4
  <2>4. pc'[r] # "saving"
    BY <1>1, <1>12
  <2> QED
    BY <1>1, <1>6, <1>8, <1>9, <1>10, <2>1, <2>2, <2>3, <2>4 DEF Suggests
<1> QED
  BY <1>11, <1>12

LEMMA KidsRaise ==
    ASSUME ChartInv, ChartMet, NEW p \in Id, Quiet(p), \A q \in Kids(p) : Suggests(p, q),
           NEW w \in Request, Raise(w), NEW r \in Kids(p)
    PROVE  Suggests(p, r)'
<1>1. /\ w \in InFlight /\ pc[w] = "raising" /\ UNCHANGED <<copy, call, met>>
      /\ Creates(w) /\ Parent(w) \in Id
      /\ \A q \in Request \ {w} : pc'[q] = pc[q]
      /\ \/ pc'[w] = "failed" /\ accounts' = accounts
         \/ /\ accounts' = [accounts EXCEPT ![Parent(w)] = RaisedRow(w)]
            /\ pc'[w] = "done" /\ RaisedRow(w) \in AccountRow
  BY RaiseSteps DEF Parent
<1>2. /\ r \in Request /\ r \in Id /\ Creates(r) /\ Parent(r) = p /\ p # None /\ r # None
      /\ call[r].sent.code \in Int
  BY KidFacts
<1>3. Suggests(p, r)
  OBVIOUS
<1>4. /\ accounts \in [Id -> AccountRow \cup {None}] /\ copy[w] \in AccountRow /\ None \notin AccountRow
  BY <1>1, AccountAssumption DEF ChartInv, ChartTypeOK, ChartPath
<1>5. /\ RaisedRow(w).code = copy[w].code
      /\ NextNumber(RaisedRow(w)) = call[w].sent.code + 1
  <2>1. call[w].sent \in Sent /\ call[w].sent.code # None
    BY <1>1, CallsMade DEF Creates
  <2>2. call[w].sent.code + 1 # None
    BY <2>1, SentFields, AccountAssumption
  <2> QED
    BY <1>4, <2>2 DEF RaisedRow, AccountRow, NextNumber, Given
<1>6. ASSUME NEW x \in Request, pc'[x] \in {"saving", "raising"}, Creates(x)', Parent(x)' = r
      PROVE  copy'[x].code = call'[r].sent.code
  <2>1. Creates(x) /\ Parent(x) = r
    BY <1>1, <1>6 DEF Creates, Parent
  <2>2. pc[x] \in {"saving", "raising"}
    BY <1>1, <1>6
  <2> QED
    BY <1>1, <1>3, <2>1, <2>2 DEF Suggests
<1>7. Exists(r)' => accounts'[r].code = call[r].sent.code
  <2>1. CASE accounts'[r] = accounts[r]
    BY <1>3, <2>1 DEF Suggests, Exists
  <2>2. CASE accounts'[r] # accounts[r]
    <3>1. Parent(w) = r /\ accounts'[r] = RaisedRow(w)
      BY <1>1, <1>2, <1>4, <2>2
    <3>2. copy[w].code = call[r].sent.code
      BY <1>1, <1>3, <3>1 DEF Suggests
    <3> QED
      BY <1>5, <3>1, <3>2
  <2> QED
    BY <2>1, <2>2
<1>8. Exists(p) => Exists(p)'
  BY <1>1, <1>4 DEF Exists
<1>9. CASE Parent(w) # p \/ (pc'[w] = "failed" /\ accounts' = accounts)
  <2>1. accounts'[p] = accounts[p]
    BY <1>1, <1>4, <1>9
  <2>2. CASE r # w
    <3>1. pc'[r] = pc[r]
      BY <1>1, <1>2, <2>2
    <3> QED
      BY <1>1, <1>3, <1>6, <1>7, <1>8, <2>1, <3>1 DEF Suggests
  <2>3. CASE r = w
    <3>1. pc'[r] = "failed"
      BY <1>1, <1>2, <1>4, <1>9, <2>3
    <3> QED
      BY <1>1, <1>6, <1>7, <3>1 DEF Suggests
  <2> QED
    BY <2>2, <2>3
<1>10. CASE Parent(w) = p /\ pc'[w] # "failed"
  <2>1. w \in Kids(p)
    BY <1>1, <1>10 DEF Kids
  <2>2. /\ pc'[w] = "done" /\ accounts'[p] = RaisedRow(w)
    BY <1>1, <1>4, <1>10
  <2>3. Suggests(p, w)
    BY <2>1
  <2>4. copy[w] = accounts[p] /\ call[w].sent.code >= NextNumber(accounts[p]) /\ Exists(p)
    BY <1>1, <2>3 DEF Suggests
  <2>5. NextNumber(accounts[p]) \in Int /\ call[w].sent.code \in Int
    BY <1>4, <2>1, <2>4, KidFacts, NumbersSuggested
  <2>6. CASE r = w
    <3>1. call[r].sent.code < NextNumber(accounts'[p])
      BY <1>5, <2>2, <2>5, <2>6
    <3> QED
      BY <1>1, <1>6, <1>7, <1>8, <2>2, <2>4, <2>6, <3>1 DEF Suggests
  <2>7. CASE r # w
    <3>1. pc'[r] = pc[r]
      BY <1>1, <1>2, <2>7
    <3>2. pc[r] \notin {"saving", "raising"}
      <4>1. ASSUME pc[r] \in {"saving", "raising"} PROVE FALSE
        <5>1. r \in InFlight
          BY <1>2, <4>1 DEF InFlight, Active
        <5>2. r \in met[w]
          BY <1>1, <2>7, <5>1 DEF ChartMet
        <5> QED
          BY <2>1, <5>2 DEF Quiet
      <4> QED
        BY <4>1
    <3>3. ASSUME pc[r] = "done" PROVE call[r].sent.code < NextNumber(accounts'[p])
      <4>1. call[r].sent.code < NextNumber(accounts[p])
        BY <1>3, <3>3 DEF Suggests
      <4> QED
        BY <1>2, <1>5, <2>2, <2>4, <2>5, <4>1
    <3> QED
      BY <1>1, <1>6, <1>7, <1>8, <2>4, <3>1, <3>2, <3>3 DEF Suggests
  <2> QED
    BY <2>6, <2>7
<1> QED
  BY <1>1, <1>9, <1>10

\* Initially, and step by step.
LEMMA NumbersFirst == ChartInit => NumberInv
<1> SUFFICES ASSUME ChartInit PROVE NumberInv
  OBVIOUS
<1>1. ChartInv
  BY ChartFirst
<1>2. ChartMet /\ \A r \in Request : ~ Creates(r)
  BY DEF ChartInit, ChartMet, InFlight, Active, Creates
<1> QED
  BY <1>1, <1>2 DEF NumberInv, ParentKept, Kids

LEMMA NumbersKept == NumberInv /\ [ChartNext]_accountVars => NumberInv'
<1> SUFFICES ASSUME NumberInv, [ChartNext]_accountVars PROVE NumberInv'
  OBVIOUS
<1>1. ChartInv /\ ChartMet
  BY DEF NumberInv
<1>2. ChartInv' /\ ChartMet' /\ \A r \in Request : ParentKept(r)'
  BY <1>1, ChartTypes, ChartMetStays, ParentsStay
<1>3. ASSUME NEW p \in Id, Quiet(p)' PROVE \A r \in Kids(p)' : Suggests(p, r)'
  <2>1. Quiet(p)
    BY <1>1, <1>3, QuietBefore
  <2>2. \A q \in Kids(p) : Suggests(p, q)
    BY <2>1 DEF NumberInv
  <2>3. CASE UNCHANGED accountVars
    BY <2>2, <2>3 DEF accountVars, Kids, Suggests, Creates, Parent, Exists
  <2>4. ASSUME NEW w \in Request, NEW c \in Call, ChartArrive(w, c)
        PROVE  \A r \in Kids(p)' : Suggests(p, r)'
    BY <1>1, <2>2, <2>4, KidsArrive
  <2>5. ASSUME NEW w \in Request, Working(w) PROVE \A r \in Kids(p)' : Suggests(p, r)'
    <3>1. call' = call
      BY <1>1, <2>5, WorkFrame
    <3>2. Kids(p)' = Kids(p)
      BY <3>1 DEF Kids, Creates, Parent
    <3>3. CASE Reads(w)
      BY <1>1, <2>2, <3>2, <3>3, KidsRead
    <3>4. CASE Save(w)
      BY <1>1, <2>1, <2>2, <3>2, <3>4, KidsSave
    <3>5. CASE Raise(w)
      BY <1>1, <2>1, <2>2, <3>2, <3>5, KidsRaise
    <3> QED
      BY <2>5, <3>3, <3>4, <3>5 DEF Working, Reads
  <2> QED
    BY <2>3, <2>4, <2>5, ChartCases
<1> QED
  BY <1>2, <1>3 DEF NumberInv

\* Who touches an account are the requests counted here, and at least these.
LEMMA TouchingWrites ==
    ASSUME NumberInv, NEW p \in Id
    PROVE  /\ Writers(p) \subseteq Touching(p)
           /\ Kids(p) \subseteq Touching(p)
<1>1. Kids(p) \subseteq Touching(p)
  BY DEF Kids, Touching, Creates, Parent
<1>2. ASSUME NEW w \in Writers(p) PROVE w \in Touching(p)
  <2>1. w \in Request /\ call[w] # None
    BY DEF Writers
  <2>2. CASE call[w].op = "create"
    BY <2>1, <2>2 DEF Writers, Touching, Parent
  <2>3. CASE call[w].op # "create"
    <3>1. call[w].id = p \/ (call[w].id \in Kids(p) /\ Exists(call[w].id))
      BY <2>3 DEF Writers
    <3>2. CASE call[w].id \in Kids(p) /\ Exists(call[w].id)
      <4>1. accounts[call[w].id].parent = p
        BY <3>2, KidFacts DEF NumberInv, ParentKept
      <4> QED
        BY <2>1, <2>3, <3>2, <4>1 DEF Touching
    <3> QED
      BY <2>1, <2>3, <3>1, <3>2 DEF Touching
  <2> QED
    BY <2>2, <2>3
<1> QED
  BY <1>1, <1>2

LEMMA NumbersShow == NumberInv => NextNumberAhead
<1> SUFFICES ASSUME NumberInv, NEW p \in Id,
                    \A r \in Touching(p) : call[r].op = "create" /\ met[r] \cap Touching(p) = {},
                    NEW r \in Touching(p), pc[r] = "done"
             PROVE  accounts[r].code < NextNumber(accounts[p])
  BY DEF NextNumberAhead
<1>1. Writers(p) \subseteq Touching(p) /\ Kids(p) \subseteq Touching(p)
  BY TouchingWrites
<1>2. \A q \in Touching(p) : q \in Kids(p)
  BY DEF Touching, Kids, Creates, Parent
<1>3. Quiet(p)
  BY <1>1, <1>2 DEF Quiet
<1>4. Suggests(p, r) /\ Creates(r) /\ r \in Request
  BY <1>2, <1>3 DEF NumberInv, Kids
<1>5. Exists(r)
  BY <1>4 DEF NumberInv, ChartInv, ChartPath
<1> QED
  BY <1>4, <1>5 DEF Suggests

\* For every set of requests, calls and accounts: a parent under which children were only
\* added, one request after the other, suggests a number beyond theirs (create, update).
THEOREM NumbersAhead == BooksSpec => []NextNumberAhead
<1>1. BooksInit => NumberInv
  BY NumbersFirst DEF BooksInit
<1>2. [BooksNext]_booksVars => [ChartNext]_accountVars
  BY DEF BooksNext, Post, booksVars
<1>3. NumberInv /\ [BooksNext]_booksVars => NumberInv'
  BY <1>2, NumbersKept
<1> QED
  BY <1>1, <1>3, NumbersShow, PTL DEF BooksSpec
=============================================================================
