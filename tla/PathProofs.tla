------------------------------ MODULE PathProofs ------------------------------
(***************************************************************************)
(* advance_lifecycle_to finds a shortest legal path.  The argument uses of  *)
(* the successor table only that it is one: it holds for every table, and   *)
(* the table itself is looked at for the targets the engine passes.         *)
(***************************************************************************)
EXTENDS LifecyclePath, WellFoundedInduction, TLAPS

------------------------------------------------------------------------------
(* Induction over the naturals, for sets of them, and iteration of a function. *)

LEMMA SetInduction ==
    ASSUME NEW T \in SUBSET Nat, 0 \in T, \A n \in T : n + 1 \in T
    PROVE  T = Nat
  <1> DEFINE U == Nat \ T
  <1>1. SUFFICES ASSUME U # {} PROVE FALSE  OBVIOUS
  <1>2. PICK m \in U : \A n \in U : ~(<<n, m>> \in OpToRel(<, Nat))
    BY <1>1, NatLessThanWellFounded, WFMin
  <1>3. \A n \in Nat : n < m => n \in T  BY <1>2 DEF OpToRel
  <1>4. m \in Nat /\ m # 0  BY <1>2
  <1>5. m - 1 \in Nat /\ m - 1 < m  BY <1>4
  <1>6. m - 1 \in T  BY <1>3, <1>5
  <1>7. (m - 1) + 1 = m  BY <1>4
  <1> QED  BY <1>2, <1>6, <1>7

\* A function from a set to itself can be iterated.
LEMMA Iteration ==
    ASSUME NEW S, NEW z \in S, NEW f \in [S -> S]
    PROVE  \E g \in [Nat -> S] : g[0] = z /\ \A n \in Nat : g[n + 1] = f[g[n]]
  <1> DEFINE Upto(n) == {h \in [0..n -> S] :
                            h[0] = z /\ \A i \in 0..n : i # n => h[i + 1] = f[h[i]]}
             T == {n \in Nat : \E h \in Upto(n) : TRUE}
  <1>1. 0 \in T
    <2>1. [i \in 0..0 |-> z] \in Upto(0)  OBVIOUS
    <2> QED  BY <2>1
  <1>2. ASSUME NEW n \in T PROVE n + 1 \in T
    <2>1. PICK h \in Upto(n) : TRUE  OBVIOUS
    <2> DEFINE k == [i \in 0..(n + 1) |-> IF i = n + 1 THEN f[h[n]] ELSE h[i]]
    <2>2. k \in [0..(n + 1) -> S]  BY <2>1
    <2>3. k[0] = z  BY <2>1
    <2>4. ASSUME NEW i \in 0..(n + 1), i # n + 1 PROVE k[i + 1] = f[k[i]]
      <3>1. CASE i = n  BY <3>1
      <3>2. CASE i # n
        <4>1. i \in 0..n /\ i + 1 \in 0..n /\ i + 1 # n + 1  BY <2>4, <3>2
        <4>2. h[i + 1] = f[h[i]]  BY <2>1, <3>2, <4>1
        <4> QED  BY <2>4, <4>1, <4>2
      <3> QED  BY <3>1, <3>2
    <2> HIDE DEF k
    <2>5. k \in Upto(n + 1)  BY <2>2, <2>3, <2>4
    <2> QED  BY <2>5
  <1>3. T = Nat
    <2> HIDE DEF T
    <2>1. T \in SUBSET Nat  BY DEF T
    <2> QED  BY <1>1, <1>2, <2>1, SetInduction
  <1>4. ASSUME NEW n \in Nat, NEW m \in Nat, NEW h \in Upto(n), NEW k \in Upto(m), n <= m
        PROVE  \A i \in 0..n : h[i] = k[i]
    <2> DEFINE A == {i \in Nat : i <= n => h[i] = k[i]}
    <2>1. 0 \in A  OBVIOUS
    <2>2. ASSUME NEW i \in A PROVE i + 1 \in A
      <3>1. CASE i + 1 <= n
        <4>1. i \in 0..n /\ i # n /\ i \in 0..m /\ i # m  BY <1>4, <3>1
        <4>2. h[i] = k[i]  BY <4>1
        <4>3. h[i + 1] = f[h[i]] /\ k[i + 1] = f[k[i]]  BY <4>1
        <4> QED  BY <4>2, <4>3
      <3> QED  BY <3>1
    <2>3. A = Nat
      <3>1. A \in SUBSET Nat  OBVIOUS
      <3> HIDE DEF A
      <3> QED  BY <2>1, <2>2, <3>1, SetInduction
    <2>4. ASSUME NEW i \in 0..n PROVE h[i] = k[i]
      <3>1. i \in Nat /\ i <= n  OBVIOUS
      <3>2. i \in A
        <4> HIDE DEF A
        <4> QED  BY <2>3, <3>1
      <3> QED  BY <3>1, <3>2
    <2> QED  BY <2>4
  <1> DEFINE H(n) == CHOOSE h \in Upto(n) : TRUE
             g == [n \in Nat |-> H(n)[n]]
  <1>5. \A n \in Nat : H(n) \in Upto(n)
    <2>1. \A n \in Nat : \E h \in Upto(n) : TRUE  BY <1>3
    <2> HIDE DEF Upto
    <2> QED  BY <2>1
  <1>6. g \in [Nat -> S]
    <2> HIDE DEF H
    <2> QED  BY <1>5
  <1>7. g[0] = z
    <2> HIDE DEF H
    <2> QED  BY <1>5
  <1>8. ASSUME NEW n \in Nat PROVE g[n + 1] = f[g[n]]
    <2> HIDE DEF H
    <2>1. H(n) \in Upto(n) /\ H(n + 1) \in Upto(n + 1)  BY <1>5
    <2>2. H(n)[n] = H(n + 1)[n]
      <3>1. n \in 0..n /\ n + 1 \in Nat /\ n <= n + 1  OBVIOUS
      <3> HIDE DEF Upto
      <3> QED  BY <1>4, <2>1, <3>1
    <2>3. H(n + 1)[n + 1] = f[H(n + 1)[n]]  BY <2>1
    <2> QED  BY <2>2, <2>3
  <1> HIDE DEF g
  <1> QED  BY <1>6, <1>7, <1>8

------------------------------------------------------------------------------
(* The reference definition. *)

LEMMA OnwardType == \A X \in SUBSET LifecycleState : Onward(X) \in SUBSET LifecycleState
  BY DEF Onward

\* What the recursive definition of Within says.
LEMMA WithinDef ==
    /\ \A n \in Nat, st \in LifecycleState : Within[n][st] \in SUBSET LifecycleState
    /\ \A st \in LifecycleState : Within[0][st] = {st}
    /\ \A n \in Nat, st \in LifecycleState : Within[n + 1][st] = Onward(Within[n][st])
  <1> DEFINE S == [LifecycleState -> SUBSET LifecycleState]
             z == [st \in LifecycleState |-> {st}]
             f == [h \in S |-> [st \in LifecycleState |-> Onward(h[st])]]
             Satisfies(w) == w = [n \in Nat |-> [st \in LifecycleState |->
                                 IF n = 0 THEN {st} ELSE Onward(w[n - 1][st])]]
  <1>1. z \in S  OBVIOUS
  <1>2. f \in [S -> S]  BY OnwardType
  <1>3. PICK g \in [Nat -> S] : g[0] = z /\ \A n \in Nat : g[n + 1] = f[g[n]]
    <2> HIDE DEF S, z, f
    <2> QED  BY <1>1, <1>2, Iteration
  <1>4. Satisfies(g)
    <2>1. ASSUME NEW n \in Nat
          PROVE  g[n] = [st \in LifecycleState |->
                            IF n = 0 THEN {st} ELSE Onward(g[n - 1][st])]
      <3>1. CASE n = 0  BY <1>3, <3>1
      <3>2. CASE n # 0
        <4>1. n - 1 \in Nat /\ (n - 1) + 1 = n  BY <3>2
        <4>2. g[n] = f[g[n - 1]] /\ g[n - 1] \in S  BY <1>3, <4>1
        <4>3. f[g[n - 1]] = [st \in LifecycleState |-> Onward(g[n - 1][st])]  BY <4>2
        <4> QED  BY <3>2, <4>2, <4>3
      <3> QED  BY <3>1, <3>2
    <2>2. g = [n \in Nat |-> g[n]]  BY <1>3
    <2> QED  BY <2>1, <2>2
  <1>5. Satisfies(Within)
    <2>1. Within = CHOOSE w : Satisfies(w)  BY DEF Within
    <2> HIDE DEF Satisfies
    <2> QED  BY <1>4, <2>1
  <1>6. \A st \in LifecycleState : Within[0][st] = {st}  BY <1>5
  <1>7. ASSUME NEW n \in Nat, NEW st \in LifecycleState
        PROVE  Within[n + 1][st] = Onward(Within[n][st])
    <2>1. n + 1 \in Nat /\ n + 1 # 0 /\ (n + 1) - 1 = n  OBVIOUS
    <2>2. \A m \in Nat : Within[m] = [s \in LifecycleState |->
                                        IF m = 0 THEN {s} ELSE Onward(Within[m - 1][s])]
      BY <1>5
    <2>3. Within[n + 1] = [s \in LifecycleState |->
                              IF n + 1 = 0 THEN {s} ELSE Onward(Within[(n + 1) - 1][s])]
      BY <2>1, <2>2
    <2> QED  BY <2>1, <2>3
  <1>8. ASSUME NEW st \in LifecycleState
        PROVE  \A n \in Nat : Within[n][st] \in SUBSET LifecycleState
    <2> DEFINE T == {n \in Nat : Within[n][st] \in SUBSET LifecycleState}
    <2>1. T \in SUBSET Nat /\ 0 \in T  BY <1>6
    <2>2. ASSUME NEW n \in T PROVE n + 1 \in T  BY <1>7, OnwardType
    <2>3. T = Nat
      <3> HIDE DEF T
      <3> QED  BY <2>1, <2>2, SetInduction
    <2> QED  BY <2>3
  <1> QED  BY <1>6, <1>7, <1>8

LEMMA WithinMonotone ==
    ASSUME NEW st \in LifecycleState, NEW m \in Nat, NEW n \in Nat, m <= n
    PROVE  Within[m][st] \subseteq Within[n][st]
  <1> DEFINE T == {k \in Nat : Within[m][st] \subseteq Within[m + k][st]}
  <1>1. T \in SUBSET Nat /\ 0 \in T  OBVIOUS
  <1>2. ASSUME NEW k \in T PROVE k + 1 \in T
    <2>1. m + k \in Nat /\ m + (k + 1) = (m + k) + 1  OBVIOUS
    <2>2. Within[m + (k + 1)][st] = Onward(Within[m + k][st])  BY <2>1, WithinDef
    <2>3. Within[m][st] \subseteq Within[m + (k + 1)][st]  BY <2>2 DEF Onward
    <2> QED  BY <2>3
  <1>3. T = Nat
    <2> HIDE DEF T
    <2> QED  BY <1>1, <1>2, SetInduction
  <1>4. n - m \in Nat /\ m + (n - m) = n  OBVIOUS
  <1>5. n - m \in T  BY <1>3, <1>4
  <1> QED  BY <1>4, <1>5

\* X is left by no transition.
Closed(X) == \A from \in X, to \in LifecycleState : IsTransitionAllowed(from, to) => to \in X

LEMMA WithinClosed ==
    ASSUME NEW X, NEW st \in LifecycleState, st \in X, Closed(X)
    PROVE  \A n \in Nat : Within[n][st] \subseteq X
  <1> DEFINE T == {n \in Nat : Within[n][st] \subseteq X}
  <1>1. T \in SUBSET Nat /\ 0 \in T  BY WithinDef
  <1>2. ASSUME NEW n \in T PROVE n + 1 \in T
    <2>1. Within[n + 1][st] = Onward(Within[n][st])  BY WithinDef
    <2>2. Within[n + 1][st] \subseteq X  BY <2>1 DEF Onward, Closed
    <2> QED  BY <2>2
  <1>3. T = Nat
    <2> HIDE DEF T
    <2> QED  BY <1>1, <1>2, SetInduction
  <1> QED  BY <1>3

------------------------------------------------------------------------------
(* The table. *)

LEMMA TableType == Successors \in [LifecycleState -> Seq(LifecycleState)]
  <1>1. Successors = [st \in LifecycleState |-> Successors[st]]
    BY DEF Successors, LifecycleState
  <1>2. /\ Successors["REGISTERED"] \in Seq(LifecycleState)
        /\ Successors["VALIDATING"] \in Seq(LifecycleState)
        /\ Successors["PROMOTION_ELIGIBLE"] \in Seq(LifecycleState)
        /\ Successors["PROMOTION_BLOCKED"] \in Seq(LifecycleState)
        /\ Successors["CANARY_PENDING"] \in Seq(LifecycleState)
        /\ Successors["CANARY_ACTIVE"] \in Seq(LifecycleState)
        /\ Successors["CANARY_PASSED"] \in Seq(LifecycleState)
        /\ Successors["CANARY_FAILED"] \in Seq(LifecycleState)
        /\ Successors["ROLLOUT_ACTIVE"] \in Seq(LifecycleState)
        /\ Successors["PARTIALLY_PROMOTED"] \in Seq(LifecycleState)
        /\ Successors["CURRENT"] \in Seq(LifecycleState)
        /\ Successors["DRAINING"] \in Seq(LifecycleState)
        /\ Successors["ROLLBACK_PENDING"] \in Seq(LifecycleState)
        /\ Successors["ROLLING_BACK"] \in Seq(LifecycleState)
        /\ Successors["ROLLED_BACK"] \in Seq(LifecycleState)
        /\ Successors["RETIREMENT_PENDING"] \in Seq(LifecycleState)
        /\ Successors["RETIRED"] \in Seq(LifecycleState)
        /\ Successors["REVALIDATION_REQUIRED"] \in Seq(LifecycleState)
        /\ Successors["FAILED"] \in Seq(LifecycleState)
    BY DEF Successors, LifecycleState
  <1>3. \A st \in LifecycleState : Successors[st] \in Seq(LifecycleState)
    BY <1>2 DEF LifecycleState
  <1> QED  BY <1>1, <1>3

LEMMA TerminalRow == Successors["RETIRED"] = <<>>
  BY DEF Successors

\* An entry of a row other than the state itself is a legal transition.
LEMMA RowIsLegal ==
    ASSUME NEW st \in LifecycleState, NEW i \in 1..Len(Successors[st]),
           Successors[st][i] # st
    PROVE  IsTransitionAllowed(st, Successors[st][i])
  <1>1. Successors[st] \in Seq(LifecycleState)  BY TableType
  <1>2. i \in DOMAIN Successors[st]  BY <1>1
  <1>3. st # "RETIRED"
    <2>1. Len(<<>>) = 0  OBVIOUS
    <2>2. Len(Successors[st]) \in Nat  BY <1>1
    <2> QED  BY <2>1, <2>2, TerminalRow
  <1> QED  BY <1>2, <1>3 DEF IsTransitionAllowed, IsTerminal

\* A legal transition is an entry of the row.
LEMMA LegalIsInRow ==
    ASSUME NEW from \in LifecycleState, NEW to, IsTransitionAllowed(from, to)
    PROVE  \E i \in 1..Len(Successors[from]) : Successors[from][i] = to
  BY TableType DEF IsTransitionAllowed

\* The row of `from` has `to` at i.
Entry(from, i, to) == i \in DOMAIN Successors[from] /\ Successors[from][i] = to

LEMMA EntryIsLegal ==
    ASSUME NEW from, NEW i, NEW to, Entry(from, i, to), from # to, from # "RETIRED"
    PROVE  IsTransitionAllowed(from, to)
  BY DEF Entry, IsTransitionAllowed, IsTerminal

\* Every state but RETIRED leads to REVALIDATION_REQUIRED, FAILED by way of
\* RETIREMENT_PENDING.
LEMMA BackToRevalidation ==
    /\ \A st \in LifecycleState \ {"RETIRED", "REVALIDATION_REQUIRED", "FAILED"} :
            IsTransitionAllowed(st, "REVALIDATION_REQUIRED")
    /\ IsTransitionAllowed("FAILED", "RETIREMENT_PENDING")
  <1>1. /\ Entry("REGISTERED", 3, "REVALIDATION_REQUIRED")
        /\ Entry("VALIDATING", 3, "REVALIDATION_REQUIRED")
        /\ Entry("PROMOTION_ELIGIBLE", 4, "REVALIDATION_REQUIRED")
        /\ Entry("PROMOTION_BLOCKED", 3, "REVALIDATION_REQUIRED")
        /\ Entry("CANARY_PENDING", 4, "REVALIDATION_REQUIRED")
        /\ Entry("CANARY_ACTIVE", 3, "REVALIDATION_REQUIRED")
        /\ Entry("CANARY_PASSED", 6, "REVALIDATION_REQUIRED")
        /\ Entry("CANARY_FAILED", 5, "REVALIDATION_REQUIRED")
    BY DEF Entry, Successors
  <1>2. /\ Entry("ROLLOUT_ACTIVE", 4, "REVALIDATION_REQUIRED")
        /\ Entry("PARTIALLY_PROMOTED", 5, "REVALIDATION_REQUIRED")
        /\ Entry("CURRENT", 4, "REVALIDATION_REQUIRED")
        /\ Entry("DRAINING", 3, "REVALIDATION_REQUIRED")
        /\ Entry("ROLLBACK_PENDING", 4, "REVALIDATION_REQUIRED")
        /\ Entry("ROLLING_BACK", 2, "REVALIDATION_REQUIRED")
        /\ Entry("ROLLED_BACK", 3, "REVALIDATION_REQUIRED")
        /\ Entry("RETIREMENT_PENDING", 4, "REVALIDATION_REQUIRED")
        /\ Entry("FAILED", 1, "RETIREMENT_PENDING")
    BY DEF Entry, Successors
  <1> QED  BY <1>1, <1>2, EntryIsLegal DEF LifecycleState

\* And REVALIDATION_REQUIRED leads to every state but REGISTERED.
LEMMA OnwardEdges ==
    /\ IsTransitionAllowed("REVALIDATION_REQUIRED", "VALIDATING")
    /\ IsTransitionAllowed("REVALIDATION_REQUIRED", "PROMOTION_ELIGIBLE")
    /\ IsTransitionAllowed("REVALIDATION_REQUIRED", "PROMOTION_BLOCKED")
    /\ IsTransitionAllowed("REVALIDATION_REQUIRED", "DRAINING")
    /\ IsTransitionAllowed("REVALIDATION_REQUIRED", "ROLLBACK_PENDING")
    /\ IsTransitionAllowed("REVALIDATION_REQUIRED", "RETIREMENT_PENDING")
    /\ IsTransitionAllowed("REVALIDATION_REQUIRED", "FAILED")
    /\ IsTransitionAllowed("PROMOTION_ELIGIBLE", "CANARY_PENDING")
    /\ IsTransitionAllowed("CANARY_PENDING", "CANARY_ACTIVE")
    /\ IsTransitionAllowed("CANARY_PENDING", "CANARY_FAILED")
    /\ IsTransitionAllowed("CANARY_ACTIVE", "CANARY_PASSED")
    /\ IsTransitionAllowed("CANARY_PASSED", "ROLLOUT_ACTIVE")
    /\ IsTransitionAllowed("CANARY_PASSED", "PARTIALLY_PROMOTED")
    /\ IsTransitionAllowed("CANARY_PASSED", "CURRENT")
    /\ IsTransitionAllowed("ROLLBACK_PENDING", "ROLLING_BACK")
    /\ IsTransitionAllowed("ROLLBACK_PENDING", "ROLLED_BACK")
    /\ IsTransitionAllowed("RETIREMENT_PENDING", "RETIRED")
    /\ IsTransitionAllowed("RETIREMENT_PENDING", "REVALIDATION_REQUIRED")
  <1>1. /\ Entry("REVALIDATION_REQUIRED", 1, "VALIDATING")
        /\ Entry("REVALIDATION_REQUIRED", 2, "PROMOTION_ELIGIBLE")
        /\ Entry("REVALIDATION_REQUIRED", 3, "PROMOTION_BLOCKED")
        /\ Entry("REVALIDATION_REQUIRED", 4, "DRAINING")
        /\ Entry("REVALIDATION_REQUIRED", 5, "ROLLBACK_PENDING")
        /\ Entry("REVALIDATION_REQUIRED", 6, "RETIREMENT_PENDING")
        /\ Entry("REVALIDATION_REQUIRED", 7, "FAILED")
    BY DEF Entry, Successors
  <1>2. /\ Entry("PROMOTION_ELIGIBLE", 1, "CANARY_PENDING")
        /\ Entry("CANARY_PENDING", 1, "CANARY_ACTIVE")
        /\ Entry("CANARY_PENDING", 2, "CANARY_FAILED")
        /\ Entry("CANARY_ACTIVE", 1, "CANARY_PASSED")
        /\ Entry("CANARY_PASSED", 1, "ROLLOUT_ACTIVE")
        /\ Entry("CANARY_PASSED", 2, "PARTIALLY_PROMOTED")
        /\ Entry("CANARY_PASSED", 3, "CURRENT")
        /\ Entry("ROLLBACK_PENDING", 1, "ROLLING_BACK")
        /\ Entry("ROLLBACK_PENDING", 2, "ROLLED_BACK")
        /\ Entry("RETIREMENT_PENDING", 1, "RETIRED")
        /\ Entry("RETIREMENT_PENDING", 4, "REVALIDATION_REQUIRED")
    BY DEF Entry, Successors
  <1> QED  BY <1>1, <1>2, EntryIsLegal

\* A set left by no transition that holds a state other than RETIRED lacks at most
\* REGISTERED.
LEMMA ClosedHoldsAll ==
    ASSUME NEW X \in SUBSET LifecycleState, Closed(X), NEW st \in X, st # "RETIRED"
    PROVE  LifecycleState \ {"REGISTERED"} \subseteq X
  <1>1. \A from \in X, to \in LifecycleState : IsTransitionAllowed(from, to) => to \in X
    BY DEF Closed
  <1>2. {"RETIREMENT_PENDING", "REVALIDATION_REQUIRED"} \subseteq LifecycleState
    BY DEF LifecycleState
  <1>3. "REVALIDATION_REQUIRED" \in X
    <2>1. CASE st = "FAILED"
      <3>1. "RETIREMENT_PENDING" \in X  BY <1>1, <1>2, <2>1, BackToRevalidation
      <3> QED  BY <1>1, <1>2, <3>1, BackToRevalidation
    <2>2. CASE st = "REVALIDATION_REQUIRED"  BY <2>2
    <2>3. CASE st \notin {"FAILED", "REVALIDATION_REQUIRED"}
      BY <1>1, <1>2, <2>3, BackToRevalidation
    <2> QED  BY <2>1, <2>2, <2>3
  <1>4. /\ "VALIDATING" \in X /\ "PROMOTION_ELIGIBLE" \in X /\ "PROMOTION_BLOCKED" \in X
        /\ "DRAINING" \in X /\ "ROLLBACK_PENDING" \in X /\ "RETIREMENT_PENDING" \in X
        /\ "FAILED" \in X
    BY <1>1, <1>3, OnwardEdges DEF LifecycleState
  <1>5. "CANARY_PENDING" \in X  BY <1>1, <1>4, OnwardEdges DEF LifecycleState
  <1>6. "CANARY_ACTIVE" \in X /\ "CANARY_FAILED" \in X
    BY <1>1, <1>5, OnwardEdges DEF LifecycleState
  <1>7. "CANARY_PASSED" \in X  BY <1>1, <1>6, OnwardEdges DEF LifecycleState
  <1>8. "ROLLOUT_ACTIVE" \in X /\ "PARTIALLY_PROMOTED" \in X /\ "CURRENT" \in X
    BY <1>1, <1>7, OnwardEdges DEF LifecycleState
  <1>9. "ROLLING_BACK" \in X /\ "ROLLED_BACK" \in X /\ "RETIRED" \in X
    BY <1>1, <1>4, OnwardEdges DEF LifecycleState
  <1> QED
    BY <1>3, <1>4, <1>5, <1>6, <1>7, <1>8, <1>9 DEF LifecycleState

------------------------------------------------------------------------------
(* The inductive invariant. *)

\* The shortest way from the start to st has d transitions.
At(st, d) == \A n \in Nat : st \in Within[n][start] <=> d <= n

\* All successors of st are seen.
Expanded(st) == \A i \in 1..Len(Successors[st]) : Successors[st][i] \in seen

\* The states seen have a predecessor, one transition nearer to the start.
Tree ==
    /\ seen \subseteq LifecycleState /\ start \in seen
    /\ previous \subseteq seen \X seen
    /\ \A st \in seen : st = start \/ \E p \in seen : <<st, p>> \in previous
    /\ \A st \in seen, p \in seen : <<st, p>> \in previous =>
            /\ IsTransitionAllowed(p, st)
            /\ \E d \in Nat : At(p, d) /\ At(st, d + 1)

\* The queue holds the states at the distance d of the current one, and then those
\* found so far one transition further; what is at distance d or less is seen, and what
\* is seen and no longer queued is expanded.
Level(d, k) ==
    /\ At(current, d)
    /\ \A i \in 1..Len(frontier) : At(frontier[i], IF i <= k THEN d ELSE d + 1)
    /\ Within[d][start] \subseteq seen

Searching ==
    /\ Tree
    /\ target \notin seen
    /\ current \in seen /\ index \in Nat \ {0}
    /\ frontier \in Seq(seen)
    /\ \A i \in 1..Len(Row) : i < index => Row[i] \in seen
    /\ \A st \in seen :
            st = current \/ (\E i \in 1..Len(frontier) : frontier[i] = st) \/ Expanded(st)
    /\ \E d \in Nat, k \in Nat : Level(d, k)

\* p leads from st to the target over legal transitions.
Leads(st, p) ==
    /\ p \in Seq(LifecycleState)
    /\ p = <<>> => st = target
    /\ p # <<>> => IsTransitionAllowed(st, p[1]) /\ p[Len(p)] = target
    /\ \A i \in 1..Len(p) : i < Len(p) => IsTransitionAllowed(p[i], p[i + 1])

Rebuilding ==
    /\ Tree
    /\ cursor \in seen
    /\ Leads(cursor, path)
    /\ \E d \in Nat : At(cursor, d) /\ At(target, d + Len(path))

\* No sequence of transitions leads from the start to the target.
Separated ==
    \E X \in SUBSET LifecycleState : start \in X /\ target \notin X /\ Closed(X)

PathInv ==
    /\ start \in LifecycleState /\ target \in LifecycleState
    /\ pc \in {"search", "rebuild", "walk", "accepted", "rejected"}
    /\ pc \in {"search", "rebuild"} => state = start /\ steps = 0 /\ start # target
    /\ pc = "search" => Searching /\ path = <<>> /\ cursor = target
    /\ pc = "rebuild" => Rebuilding
    /\ pc = "walk" => /\ steps \in Nat /\ path # <<>> /\ state \in LifecycleState
                      /\ Leads(state, path) /\ At(target, steps + Len(path))
    /\ pc = "accepted" => steps \in Nat /\ state = target /\ At(target, steps)
    /\ pc = "rejected" => state = start /\ Separated

LEMMA StartAt ==
    ASSUME start \in LifecycleState
    PROVE  At(start, 0)
  <1>1. start \in Within[0][start]  BY WithinDef
  <1>2. \A n \in Nat : Within[0][start] \subseteq Within[n][start]  BY WithinMonotone
  <1> QED  BY <1>1, <1>2 DEF At

LEMMA AtUnique ==
    ASSUME NEW st, NEW d \in Nat, NEW e \in Nat, At(st, d), At(st, e)
    PROVE  d = e
  <1>1. st \in Within[d][start] /\ st \in Within[e][start]  BY DEF At
  <1>2. e <= d /\ d <= e  BY <1>1 DEF At
  <1> QED  BY <1>2

LEMMA TerminalSeparates ==
    ASSUME start \in LifecycleState, IsTerminal(start), start # target
    PROVE  Separated
  <1>1. Closed({start})  BY DEF Closed, IsTransitionAllowed
  <1> QED  BY <1>1 DEF Separated

LEMMA PathInit == Init => PathInv
  <1>1. SUFFICES ASSUME Init PROVE PathInv  OBVIOUS
  <1>2. At(start, 0)  BY <1>1, StartAt DEF Init
  <1>3. CASE pc = "accepted"
    <2>1. start = target /\ state = target /\ steps = 0  BY <1>1, <1>3 DEF Init
    <2> QED  BY <1>1, <1>2, <1>3, <2>1 DEF Init, PathInv
  <1>4. CASE pc = "rejected"
    <2>1. start # target /\ IsTerminal(start)  BY <1>1, <1>4 DEF Init
    <2>2. Separated  BY <1>1, <2>1, TerminalSeparates DEF Init
    <2> QED  BY <1>1, <1>4, <2>2 DEF Init, PathInv
  <1>5. CASE pc = "search"
    <2>1. start # target  BY <1>1, <1>5 DEF Init
    <2>2. Tree  BY <1>1 DEF Init, Tree
    <2>3. Level(0, 0)
      <3>1. Within[0][start] = {start}  BY <1>1, WithinDef DEF Init
      <3>2. Len(frontier) = 0  BY <1>1 DEF Init
      <3> QED  BY <1>1, <1>2, <3>1, <3>2 DEF Init, Level
    <2>4. Searching  BY <1>1, <2>1, <2>2, <2>3 DEF Init, Searching, Row
    <2> QED  BY <1>1, <1>5, <2>1, <2>4 DEF Init, PathInv
  <1> QED  BY <1>1, <1>3, <1>4, <1>5 DEF Init

------------------------------------------------------------------------------
(* The steps. *)

\* The tree depends on the start and on what the search has recorded, and on nothing else.
LEMMA TreeStays ==
    ASSUME start' = start, seen' = seen, previous' = previous
    PROVE  Tree' <=> Tree
  <1>1. ASSUME NEW p, NEW st
        PROVE  (\E d \in Nat : At(p, d) /\ At(st, d + 1))'
                  <=> \E d \in Nat : At(p, d) /\ At(st, d + 1)
    BY DEF At
  <1> QED  BY <1>1 DEF Tree

LEMMA SkipKeeps ==
    ASSUME PathInv, Skip
    PROVE  PathInv'
  <1>1. /\ Searching /\ Row[index] \in seen
        /\ pc = "search" /\ index' = index + 1
        /\ UNCHANGED <<start, target, pc, frontier, current, seen, previous, cursor, path,
                       state, steps>>
    BY DEF PathInv, Skip
  <1>2. Tree'  BY <1>1, TreeStays DEF Searching
  <1>3. PICK d \in Nat, k \in Nat : Level(d, k)  BY <1>1 DEF Searching
  <1>4. Level(d, k)'  BY <1>1, <1>3 DEF Level, At
  <1>5. \A i \in 1..Len(Row) : i < index + 1 => Row[i] \in seen  BY <1>1 DEF Searching
  <1>6. \A st \in seen : Expanded(st)' = Expanded(st)  BY <1>1 DEF Expanded
  <1>7. Searching'
    BY <1>1, <1>2, <1>4, <1>5, <1>6 DEF Searching, Row
  <1> QED  BY <1>1, <1>7 DEF PathInv

\* The state that Discover finds is one transition further than the current one.
LEMMA DiscoverFinds ==
    ASSUME PathInv, Discover
    PROVE  /\ Row[index] \in LifecycleState /\ Row[index] \notin seen
           /\ IsTransitionAllowed(current, Row[index])
           /\ \A d \in Nat, k \in Nat : Level(d, k) => At(Row[index], d + 1)
  <1> DEFINE n == Row[index]
  <1>1. Searching /\ n \notin seen /\ InRow /\ start \in LifecycleState
    BY DEF PathInv, Discover
  <1>2. current \in LifecycleState /\ current \in seen  BY <1>1 DEF Searching, Tree
  <1>3. Row \in Seq(LifecycleState)  BY <1>2, TableType DEF Row
  <1>4. index \in 1..Len(Row)  BY <1>1, <1>3 DEF Searching, InRow
  <1>5. n \in LifecycleState  BY <1>3, <1>4
  <1>6. IsTransitionAllowed(current, n)  BY <1>1, <1>2, <1>4, RowIsLegal DEF Row
  <1>7. ASSUME NEW d \in Nat, NEW k \in Nat, Level(d, k), NEW m \in Nat
        PROVE  n \in Within[m][start] <=> d + 1 <= m
    <2>1. current \in Within[d][start]  BY <1>7 DEF Level, At
    <2>2. n \in Within[d + 1][start]
      <3>1. Within[d + 1][start] = Onward(Within[d][start])  BY <1>1, WithinDef
      <3> QED  BY <1>5, <1>6, <2>1, <3>1 DEF Onward
    <2>3. CASE d + 1 <= m
      <3>1. d + 1 \in Nat  OBVIOUS
      <3>2. Within[d + 1][start] \subseteq Within[m][start]
        BY <1>1, <2>3, <3>1, WithinMonotone
      <3> QED  BY <2>2, <2>3, <3>2
    <2>4. CASE ~(d + 1 <= m)
      <3>1. m <= d  BY <2>4
      <3>2. Within[m][start] \subseteq Within[d][start]  BY <1>1, <3>1, WithinMonotone
      <3>3. Within[d][start] \subseteq seen  BY <1>7 DEF Level
      <3> QED  BY <1>1, <2>4, <3>2, <3>3
    <2> QED  BY <2>3, <2>4
  <1>8. \A d \in Nat, k \in Nat : Level(d, k) => At(n, d + 1)  BY <1>7 DEF At
  <1> QED  BY <1>1, <1>5, <1>6, <1>8

LEMMA DiscoverTree ==
    ASSUME PathInv, Discover
    PROVE  Tree'
  <1> DEFINE n == Row[index]
  <1>1. /\ Searching /\ Tree /\ current \in seen
        /\ seen' = seen \cup {n} /\ previous' = previous \cup {<<n, current>>}
        /\ start' = start
    BY DEF PathInv, Discover, Searching
  <1>2. PICK d \in Nat, k \in Nat : Level(d, k)  BY <1>1 DEF Searching
  <1>3. /\ n \in LifecycleState /\ n \notin seen /\ IsTransitionAllowed(current, n)
        /\ At(n, d + 1) /\ At(current, d)
    BY <1>2, DiscoverFinds DEF Level
  <1>4. \A st, e : At(st, e)' <=> At(st, e)  BY <1>1 DEF At
  <1> HIDE DEF n
  <1>5. ASSUME NEW st \in seen', NEW p \in seen', <<st, p>> \in previous'
        PROVE  IsTransitionAllowed(p, st) /\ \E e \in Nat : At(p, e)' /\ At(st, e + 1)'
    <2>1. CASE <<st, p>> = <<n, current>>
      <3>1. st = n /\ p = current  BY <2>1
      <3> QED  BY <1>3, <1>4, <3>1
    <2>2. CASE <<st, p>> \in previous /\ st \in seen /\ p \in seen
      BY <1>1, <1>4, <2>2 DEF Tree
    <2>3. CASE <<st, p>> \in previous /\ ~(st \in seen /\ p \in seen)
      <3>1. previous \subseteq seen \X seen  BY <1>1 DEF Tree
      <3> QED  BY <2>3, <3>1
    <2> QED  BY <1>1, <1>5, <2>1, <2>2, <2>3
  <1>6. \A st \in seen' : st = start' \/ \E p \in seen' : <<st, p>> \in previous'
    BY <1>1 DEF Tree
  <1>7. /\ seen' \subseteq LifecycleState /\ start' \in seen'
        /\ previous' \subseteq seen' \X seen'
    BY <1>1, <1>3 DEF Tree
  <1> QED  BY <1>5, <1>6, <1>7 DEF Tree

LEMMA DiscoverKeeps ==
    ASSUME PathInv, Discover
    PROVE  PathInv'
  <1> DEFINE n == Row[index]
  <1>1. /\ Searching /\ path = <<>> /\ cursor = target /\ start # target
        /\ start \in LifecycleState /\ target \in LifecycleState
        /\ state = start /\ steps = 0
        /\ seen' = seen \cup {n} /\ index' = index + 1
        /\ frontier' = IF n = target THEN frontier ELSE Append(frontier, n)
        /\ pc' = IF n = target THEN "rebuild" ELSE "search"
        /\ UNCHANGED <<start, target, current, cursor, path, state, steps>>
    BY DEF PathInv, Discover, Enqueued
  <1>2. Tree'  BY DiscoverTree
  <1>3. PICK d \in Nat, k \in Nat : Level(d, k)  BY <1>1 DEF Searching
  <1>4. n \in LifecycleState /\ n \notin seen /\ At(n, d + 1)  BY <1>3, DiscoverFinds
  <1>5. \A st, e : At(st, e)' <=> At(st, e)  BY <1>1 DEF At
  <1>6. \A st \in seen : Expanded(st) => Expanded(st)'  BY <1>1 DEF Expanded
  <1>7. CASE n = target
    <2>1. At(target, d + 1)' /\ d + 1 \in Nat  BY <1>1, <1>4, <1>5, <1>7
    <2>2. Leads(cursor, path)'  BY <1>1 DEF Leads
    <2>3. Len(path') = 0 /\ cursor' = target'  BY <1>1
    <2>4. At(cursor, d + 1)' /\ At(target, (d + 1) + Len(path))'
      <3>1. (d + 1) + Len(path') = d + 1  BY <2>3
      <3> QED  BY <2>1, <2>3, <3>1
    <2>5. cursor' \in seen'  BY <1>1, <1>7
    <2>6. Rebuilding'  BY <1>2, <2>1, <2>2, <2>4, <2>5 DEF Rebuilding
    <2> QED  BY <1>1, <1>7, <2>6 DEF PathInv
  <1>8. CASE n # target
    <2>1. frontier \in Seq(seen) /\ frontier' = Append(frontier, n)
      BY <1>1, <1>8 DEF Searching
    <2> HIDE DEF n
    <2>2. frontier \in Seq(seen') /\ n \in seen'
      <3>1. Len(frontier) \in Nat /\ \A i \in 1..Len(frontier) : frontier[i] \in seen'
        BY <1>1, <2>1
      <3>2. frontier = [i \in 1..Len(frontier) |-> frontier[i]]  BY <2>1
      <3> QED  BY <1>1, <3>1, <3>2
    <2>3. /\ frontier' \in Seq(seen') /\ Len(frontier') = Len(frontier) + 1
          /\ \A i \in 1..Len(frontier) : frontier'[i] = frontier[i]
          /\ frontier'[Len(frontier) + 1] = n
      BY <2>1, <2>2
    <2>4. Len(frontier) \in Nat  BY <2>1
    <2>5. PICK j \in Nat : j <= Len(frontier) /\ \A i \in 1..Len(frontier) : i <= k <=> i <= j
      <3>1. CASE k <= Len(frontier)  BY <2>4, <3>1
      <3>2. CASE ~(k <= Len(frontier))
        <4>1. \A i \in 1..Len(frontier) : i <= k  BY <2>4, <3>2
        <4> QED  BY <2>4, <4>1
      <3> QED  BY <3>1, <3>2
    <2>6. Level(d, j)'
      <3>1. \A i \in 1..Len(frontier) : At(frontier[i], IF i <= j THEN d ELSE d + 1)
        BY <1>3, <2>5 DEF Level
      <3>2. ASSUME NEW i \in 1..Len(frontier')
            PROVE  At(frontier'[i], IF i <= j THEN d ELSE d + 1)
        <4>1. CASE i \in 1..Len(frontier)
          <5>1. frontier'[i] = frontier[i]  BY <2>3, <4>1
          <5> QED  BY <3>1, <4>1, <5>1
        <4>2. CASE i = Len(frontier) + 1
          <5>1. frontier'[i] = n /\ ~(i <= j)  BY <2>3, <2>4, <2>5, <4>2
          <5> QED  BY <1>4, <5>1
        <4> QED  BY <2>3, <2>4, <4>1, <4>2
      <3>3. At(current, d)' /\ (Within[d][start])' \subseteq seen'
        BY <1>1, <1>3, <1>5 DEF Level
      <3> QED  BY <1>1, <3>2, <3>3 DEF Level, At
    <2>7. \A i \in 1..Len(Row') : i < index' => Row'[i] \in seen'
      BY <1>1 DEF Searching, Row, n
    <2>8. ASSUME NEW st \in seen'
          PROVE  st = current' \/ (\E i \in 1..Len(frontier') : frontier'[i] = st)
                    \/ Expanded(st)'
      <3>1. CASE st = n  BY <2>3, <2>4, <3>1
      <3>2. CASE st \in seen
        <4>1. st = current \/ (\E i \in 1..Len(frontier) : frontier[i] = st) \/ Expanded(st)
          BY <1>1, <3>2 DEF Searching
        <4>2. \A i \in 1..Len(frontier) : i \in 1..Len(frontier')  BY <2>3, <2>4
        <4> QED  BY <1>1, <1>6, <2>3, <3>2, <4>1, <4>2
      <3> QED  BY <1>1, <3>1, <3>2
    <2>9. target' \notin seen' /\ current' \in seen' /\ index' \in Nat \ {0}
      BY <1>1, <1>8 DEF Searching
    <2>10. \E e \in Nat, m \in Nat : Level(e, m)'
      BY <2>6
    <2>11. Searching'
      BY <1>2, <2>3, <2>7, <2>8, <2>9, <2>10 DEF Searching
    <2> QED  BY <1>1, <1>8, <2>11 DEF PathInv
  <1> QED  BY <1>7, <1>8

\* Once its row is exhausted the current state is expanded.
LEMMA RowExhausted ==
    ASSUME Searching, ~InRow
    PROVE  Expanded(current)
  <1>1. current \in LifecycleState  BY DEF Searching, Tree
  <1>2. Row \in Seq(LifecycleState)  BY <1>1, TableType DEF Row
  <1>3. \A i \in 1..Len(Row) : i < index  BY <1>2 DEF Searching, InRow
  <1> QED  BY <1>3 DEF Searching, Expanded, Row

LEMMA ExpandKeeps ==
    ASSUME PathInv, Expand
    PROVE  PathInv'
  <1>1. /\ Searching /\ ~InRow /\ frontier # <<>> /\ start \in LifecycleState
        /\ pc = "search" /\ current' = Head(frontier) /\ frontier' = Tail(frontier)
        /\ index' = 1
        /\ UNCHANGED <<start, target, pc, seen, previous, cursor, path, state, steps>>
    BY DEF PathInv, Expand, Popped
  <1>2. Tree'
    <2>1. Tree /\ start' = start /\ seen' = seen /\ previous' = previous
      BY <1>1 DEF Searching
    <2> QED  BY <2>1, TreeStays
  <1>3. \A st, e : At(st, e)' <=> At(st, e)  BY <1>1 DEF At
  <1>4. \A st \in seen : Expanded(st)' = Expanded(st)  BY <1>1 DEF Expanded
  <1>5. Expanded(current)  BY <1>1, RowExhausted
  <1>6. frontier \in Seq(seen)  BY <1>1 DEF Searching
  <1>7. /\ Len(frontier) \in Nat \ {0} /\ current' = frontier[1] /\ current' \in seen
        /\ frontier' \in Seq(seen) /\ Len(frontier') = Len(frontier) - 1
        /\ \A i \in 1..Len(frontier') : frontier'[i] = frontier[i + 1]
    BY <1>1, <1>6
  <1>8. ASSUME NEW st \in seen
        PROVE  st = current' \/ (\E i \in 1..Len(frontier') : frontier'[i] = st)
                  \/ Expanded(st)
    <2>1. CASE \E i \in 1..Len(frontier) : frontier[i] = st
      <3>1. PICK i \in 1..Len(frontier) : frontier[i] = st  BY <2>1
      <3>2. CASE i = 1  BY <1>7, <3>1, <3>2
      <3>3. CASE i # 1
        <4>1. i - 1 \in 1..Len(frontier') /\ (i - 1) + 1 = i  BY <1>7, <3>3
        <4> QED  BY <1>7, <3>1, <4>1
      <3> QED  BY <3>2, <3>3
    <2> QED  BY <1>1, <1>5, <2>1 DEF Searching
  <1>9. PICK d \in Nat, k \in Nat : Level(d, k)  BY <1>1 DEF Searching
  <1>10. \E e \in Nat, m \in Nat : Level(e, m)'
    <2>1. CASE k > 0
      <3>1. k - 1 \in Nat /\ 1 \in 1..Len(frontier) /\ 1 <= k  BY <1>7, <2>1
      <3>2. At(current, d)'  BY <1>3, <1>7, <1>9, <3>1 DEF Level, At
      <3>3. ASSUME NEW i \in 1..Len(frontier')
            PROVE  At(frontier[i], IF i <= k - 1 THEN d ELSE d + 1)'
        <4>1. i + 1 \in 1..Len(frontier) /\ (i + 1 <= k <=> i <= k - 1)  BY <1>7
        <4>2. At(frontier[i + 1], IF i + 1 <= k THEN d ELSE d + 1)  BY <1>9, <4>1 DEF Level
        <4>3. At(frontier'[i], IF i <= k - 1 THEN d ELSE d + 1)  BY <1>7, <4>1, <4>2
        <4> QED  BY <1>1, <4>3 DEF At
      <3>4. (Within[d][start])' \subseteq seen'  BY <1>1, <1>9 DEF Level
      <3>5. Level(d, k - 1)'  BY <3>2, <3>3, <3>4 DEF Level
      <3> QED  BY <3>1, <3>5
    <2>2. CASE k = 0
      <3>1. \A i \in 1..Len(frontier) : At(frontier[i], d + 1)  BY <1>9, <2>2 DEF Level
      <3>2. Within[d + 1][start] \subseteq seen
        <4>1. SUFFICES ASSUME NEW to \in Within[d + 1][start] PROVE to \in seen  OBVIOUS
        <4>2. Within[d + 1][start] = Onward(Within[d][start])  BY <1>1, WithinDef
        <4>3. CASE to \in Within[d][start]  BY <1>9, <4>3 DEF Level
        <4>4. CASE \E from \in Within[d][start] : IsTransitionAllowed(from, to)
          <5>1. PICK from \in Within[d][start] : IsTransitionAllowed(from, to)  BY <4>4
          <5>2. from \in seen /\ from \in LifecycleState
            BY <1>1, <1>9, <5>1 DEF Level, Searching, Tree
          <5>3. \A i \in 1..Len(frontier) : frontier[i] # from
            BY <3>1, <5>1 DEF At
          <5>4. Expanded(from)  BY <1>1, <1>5, <5>2, <5>3 DEF Searching
          <5> QED  BY <5>1, <5>2, <5>4, LegalIsInRow DEF Expanded
        <4> QED  BY <4>2, <4>3, <4>4 DEF Onward
      <3>3. At(current, d + 1)'
        <4>1. At(current', d + 1)  BY <1>7, <3>1
        <4> QED  BY <1>1, <4>1 DEF At
      <3>4. ASSUME NEW i \in 1..Len(frontier')
            PROVE  At(frontier[i], IF i <= Len(frontier) THEN d + 1 ELSE (d + 1) + 1)'
        <4>1. i + 1 \in 1..Len(frontier) /\ i <= Len(frontier')  BY <1>7
        <4>2. At(frontier'[i], d + 1)  BY <1>7, <3>1, <4>1
        <4> QED  BY <1>1, <4>1, <4>2 DEF At
      <3>5. d + 1 \in Nat /\ Len(frontier') \in Nat  BY <1>7
      <3>6. Level(d + 1, Len(frontier))'  BY <1>1, <3>2, <3>3, <3>4 DEF Level
      <3> QED  BY <3>5, <3>6
    <2> QED  BY <2>1, <2>2
  <1>11. \A i \in 1..Len(Row') : i < index' => Row'[i] \in seen'
    <2>1. Row' \in Seq(LifecycleState)
      BY <1>1, <1>7, TableType DEF Row, Searching, Tree
    <2> QED  BY <1>1, <2>1
  <1>12. Searching'
    BY <1>1, <1>2, <1>4, <1>7, <1>8, <1>10, <1>11 DEF Searching
  <1> QED  BY <1>1, <1>12 DEF PathInv

LEMMA NoPathKeeps ==
    ASSUME PathInv, NoPath
    PROVE  PathInv'
  <1>1. /\ Searching /\ ~InRow /\ frontier = <<>> /\ state = start
        /\ start \in LifecycleState /\ target \in LifecycleState
        /\ pc' = "rejected" /\ start' = start /\ target' = target /\ state' = state
    BY DEF PathInv, NoPath
  <1>2. \A st \in seen : Expanded(st)
    <2>1. Len(frontier) = 0  BY <1>1
    <2> QED  BY <1>1, <2>1, RowExhausted DEF Searching
  <1>3. Closed(seen)
    <2>1. seen \subseteq LifecycleState  BY <1>1 DEF Searching, Tree
    <2> QED  BY <1>2, <2>1, LegalIsInRow DEF Closed, Expanded
  <1>4. seen \in SUBSET LifecycleState /\ start \in seen /\ target \notin seen
    BY <1>1 DEF Searching, Tree
  <1>5. Separated  BY <1>3, <1>4 DEF Separated
  <1>6. Separated'  BY <1>1, <1>5 DEF Separated, Closed
  <1> QED  BY <1>1, <1>6 DEF PathInv

\* A transition in front of a path.
LEMMA LeadsOn ==
    ASSUME NEW st \in LifecycleState, NEW p, NEW from, Leads(st, p),
           IsTransitionAllowed(from, st), target \in LifecycleState
    PROVE  Leads(from, <<st>> \o p) /\ Len(<<st>> \o p) = Len(p) + 1
  <1> DEFINE q == <<st>> \o p
  <1>1. p \in Seq(LifecycleState) /\ <<st>> \in Seq(LifecycleState)  BY DEF Leads
  <1>2. /\ q \in Seq(LifecycleState) /\ Len(q) = Len(p) + 1 /\ q[1] = st
        /\ \A i \in 1..Len(p) : q[i + 1] = p[i]
    BY <1>1
  <1>3. Len(p) \in Nat /\ (p = <<>> <=> Len(p) = 0)  BY <1>1
  <1>4. q # <<>>  BY <1>2, <1>3
  <1>5. q[Len(q)] = target
    <2>1. CASE p = <<>>  BY <1>2, <1>3, <2>1 DEF Leads
    <2>2. CASE p # <<>>
      <3>1. Len(p) \in 1..Len(p)  BY <1>3, <2>2
      <3> QED  BY <1>2, <2>2, <3>1 DEF Leads
    <2> QED  BY <2>1, <2>2
  <1>6. ASSUME NEW i \in 1..Len(q), i < Len(q) PROVE IsTransitionAllowed(q[i], q[i + 1])
    <2>1. CASE i = 1
      <3>1. p # <<>> /\ 1 \in 1..Len(p)  BY <1>2, <1>3, <1>6, <2>1
      <3>2. q[1] = st /\ q[1 + 1] = p[1]  BY <1>2, <3>1
      <3>3. IsTransitionAllowed(st, p[1])  BY <3>1 DEF Leads
      <3> QED  BY <2>1, <3>2, <3>3
    <2>2. CASE i # 1
      <3>1. /\ i - 1 \in 1..Len(p) /\ i - 1 < Len(p) /\ i \in 1..Len(p)
            /\ (i - 1) + 1 = i
        BY <1>2, <1>3, <1>6, <2>2
      <3>2. q[i] = p[i - 1] /\ q[i + 1] = p[i]  BY <1>2, <3>1
      <3>3. IsTransitionAllowed(p[i - 1], p[(i - 1) + 1])  BY <3>1 DEF Leads
      <3> QED  BY <3>1, <3>2, <3>3
    <2> QED  BY <2>1, <2>2
  <1> HIDE DEF q
  <1>7. Leads(from, q)  BY <1>2, <1>4, <1>5, <1>6 DEF Leads
  <1> QED  BY <1>2, <1>7 DEF q

LEMMA RebuildKeeps ==
    ASSUME PathInv, Rebuild
    PROVE  PathInv'
  <1>1. /\ Rebuilding /\ Tree /\ cursor \in seen /\ cursor # start /\ pc = "rebuild"
        /\ start \in LifecycleState /\ target \in LifecycleState
        /\ state = start /\ steps = 0 /\ start # target
        /\ path' = <<cursor>> \o path
        /\ UNCHANGED <<start, target, seen, previous, state, steps>>
    BY DEF PathInv, Rebuild, Rebuilding, search
  <1>2. \E p \in seen : <<cursor, p>> \in previous  BY <1>1 DEF Tree
  <1>3. /\ pc' = pc /\ cursor' \in seen /\ <<cursor, cursor'>> \in previous
    BY <1>2 DEF Rebuild
  <1>4. IsTransitionAllowed(cursor', cursor)  BY <1>1, <1>3 DEF Tree
  <1>5. PICK e \in Nat : At(cursor', e) /\ At(cursor, e + 1)  BY <1>1, <1>3 DEF Tree
  <1>6. PICK d \in Nat : At(cursor, d) /\ At(target, d + Len(path))
    BY <1>1 DEF Rebuilding
  <1>7. d = e + 1
    <2>1. e + 1 \in Nat  OBVIOUS
    <2> QED  BY <1>5, <1>6, <2>1, AtUnique
  <1>8. Leads(cursor', path') /\ Len(path') = Len(path) + 1
    <2>1. Leads(cursor, path) /\ cursor \in LifecycleState  BY <1>1 DEF Rebuilding, Tree
    <2> QED  BY <1>1, <1>4, <2>1, LeadsOn
  <1>9. e + Len(path') = d + Len(path)
    <2>1. Len(path) \in Nat  BY <1>1 DEF Rebuilding, Leads
    <2> QED  BY <1>7, <1>8, <2>1
  <1>10. At(cursor, e)' /\ At(target, e + Len(path))'
    <2>1. At(target, e + Len(path'))  BY <1>6, <1>9
    <2> QED  BY <1>1, <1>5, <2>1 DEF At
  <1>11. Tree'  BY <1>1, TreeStays
  <1>12. Leads(cursor, path)'  BY <1>1, <1>8 DEF Leads
  <1>13. Rebuilding'  BY <1>1, <1>3, <1>10, <1>11, <1>12 DEF Rebuilding
  <1> QED  BY <1>1, <1>3, <1>13 DEF PathInv

LEMMA RebuiltKeeps ==
    ASSUME PathInv, Rebuilt
    PROVE  PathInv'
  <1>1. /\ Rebuilding /\ cursor = start
        /\ start \in LifecycleState /\ target \in LifecycleState
        /\ state = start /\ steps = 0 /\ start # target /\ pc' = "walk"
        /\ UNCHANGED <<start, target, cursor, path, state, steps>>
    BY DEF PathInv, Rebuilt
  <1>2. PICK d \in Nat : At(cursor, d) /\ At(target, d + Len(path))
    BY <1>1 DEF Rebuilding
  <1>3. d = 0  BY <1>1, <1>2, StartAt, AtUnique
  <1>4. Leads(state, path)  BY <1>1 DEF Rebuilding
  <1>5. path # <<>>  BY <1>1, <1>4 DEF Leads
  <1>6. At(target, steps + Len(path))  BY <1>1, <1>2, <1>3
  <1>7. Leads(state, path)' /\ At(target, steps + Len(path))'
    BY <1>1, <1>4, <1>6 DEF Leads, At
  <1> QED  BY <1>1, <1>5, <1>7 DEF PathInv

LEMMA WalkKeeps ==
    ASSUME PathInv, Walk
    PROVE  PathInv'
  <1>1. /\ path # <<>> /\ steps \in Nat /\ state \in LifecycleState
        /\ Leads(state, path) /\ At(target, steps + Len(path))
        /\ start \in LifecycleState /\ target \in LifecycleState
        /\ start' = start /\ target' = target
    BY DEF PathInv, Walk
  <1>2. path \in Seq(LifecycleState) /\ Head(path) = path[1]  BY <1>1 DEF Leads
  <1>3. IsTransitionAllowed(state, Head(path))  BY <1>1, <1>2 DEF Leads
  <1>4. /\ state' = path[1] /\ steps' = steps + 1 /\ path' = Tail(path)
        /\ pc' = IF Len(path) = 1 THEN "accepted" ELSE "walk"
    BY <1>2, <1>3 DEF Walk
  <1>5. /\ Len(path) \in Nat \ {0} /\ path' \in Seq(LifecycleState)
        /\ Len(path') = Len(path) - 1 /\ \A i \in 1..Len(path') : path'[i] = path[i + 1]
    BY <1>1, <1>2, <1>4
  <1>6. steps' \in Nat /\ state' \in LifecycleState  BY <1>1, <1>2, <1>4, <1>5
  <1>7. steps' + Len(path') = steps + Len(path)  BY <1>1, <1>4, <1>5
  <1>8. CASE Len(path) = 1
    <2>1. state' = target  BY <1>1, <1>4, <1>8 DEF Leads
    <2>2. steps' = steps + Len(path)  BY <1>4, <1>8
    <2>3. At(target, steps')  BY <1>1, <2>2
    <2>4. At(target, steps)'  BY <1>1, <2>3 DEF At
    <2> QED  BY <1>1, <1>4, <1>6, <1>8, <2>1, <2>4 DEF PathInv
  <1>9. CASE Len(path) # 1
    <2>1. path' # <<>> /\ 1 \in 1..Len(path') /\ Len(path') \in 1..Len(path')
      BY <1>5, <1>9
    <2>2. IsTransitionAllowed(state', path'[1])
      <3>1. path'[1] = path[1 + 1] /\ 1 \in 1..Len(path) /\ 1 < Len(path)
        BY <1>5, <1>9, <2>1
      <3> QED  BY <1>1, <1>4, <3>1 DEF Leads
    <2>3. path'[Len(path')] = target
      <3>1. path'[Len(path')] = path[Len(path') + 1] /\ Len(path') + 1 = Len(path)
        BY <1>5, <2>1
      <3> QED  BY <1>1, <3>1 DEF Leads
    <2>4. ASSUME NEW i \in 1..Len(path'), i < Len(path')
          PROVE  IsTransitionAllowed(path'[i], path'[i + 1])
      <3>1. i + 1 \in 1..Len(path') /\ i + 1 \in 1..Len(path) /\ i + 1 < Len(path)
        BY <1>5, <2>4
      <3>2. path'[i] = path[i + 1] /\ path'[i + 1] = path[(i + 1) + 1]  BY <1>5, <3>1
      <3> QED  BY <1>1, <3>1, <3>2 DEF Leads
    <2>5. Leads(state, path)'  BY <1>1, <1>5, <2>1, <2>2, <2>3, <2>4 DEF Leads
    <2>6. At(target, steps' + Len(path'))  BY <1>1, <1>7
    <2>7. At(target, steps + Len(path))'  BY <1>1, <2>6 DEF At
    <2> QED  BY <1>1, <1>4, <1>6, <1>9, <2>1, <2>5, <2>7 DEF PathInv
  <1> QED  BY <1>8, <1>9

LEMMA PathStep == PathInv /\ [Next]_vars => PathInv'
  <1>1. SUFFICES ASSUME PathInv, [Next]_vars PROVE PathInv'  OBVIOUS
  <1>2. CASE UNCHANGED vars
    <2>1. UNCHANGED <<start, target, pc, frontier, current, index, seen, previous, cursor,
                      path, state, steps>>
      BY <1>2 DEF vars, search
    <2>2. /\ \A st, d : At(st, d)' <=> At(st, d)
          /\ Tree' <=> Tree
          /\ Separated' <=> Separated
          /\ \A st : Expanded(st)' <=> Expanded(st)
      BY <2>1, TreeStays DEF At, Separated, Closed, Expanded
    <2>3. Searching' <=> Searching
      <3>1. Row' = Row  BY <2>1 DEF Row
      <3>2. ASSUME NEW d, NEW k PROVE Level(d, k)' <=> Level(d, k)
        BY <2>1 DEF Level, At
      <3>3. (\E d \in Nat, k \in Nat : Level(d, k))'
              <=> (\E d \in Nat, k \in Nat : Level(d, k))
        BY <3>2
      <3> QED  BY <2>1, <2>2, <3>1, <3>3 DEF Searching
    <2>4. Rebuilding' <=> Rebuilding  BY <2>1, <2>2 DEF Rebuilding, Leads, At
    <2>5. Leads(state, path)' <=> Leads(state, path)  BY <2>1 DEF Leads
    <2> QED  BY <1>1, <2>1, <2>2, <2>3, <2>4, <2>5 DEF PathInv, At
  <1> QED
    BY <1>1, <1>2, SkipKeeps, DiscoverKeeps, ExpandKeeps, NoPathKeeps, RebuildKeeps,
       RebuiltKeeps, WalkKeeps
    DEF Next

LEMMA PathAlways == Spec => []PathInv
  BY PathInit, PathStep, PTL DEF Spec

------------------------------------------------------------------------------
(* The theorems. *)

\* An accepted advance_lifecycle_to has taken the version to the target, over as few
\* transitions as lead there at all.  The rebuilding never fails, and no transition of the
\* path it found is refused.
THEOREM AcceptedOverShortestPath == Spec => []PathIsShortest
  <1>1. PathInv => PathIsShortest
    <2>1. SUFFICES ASSUME PathInv, pc = "accepted"
                   PROVE  /\ state = target /\ target \in Within[steps][start]
                          /\ steps > 0 => target \notin Within[steps - 1][start]
      BY DEF PathIsShortest
    <2>2. steps \in Nat /\ state = target /\ At(target, steps)  BY <2>1 DEF PathInv
    <2>3. target \in Within[steps][start]  BY <2>2 DEF At
    <2>4. ASSUME steps > 0 PROVE target \notin Within[steps - 1][start]
      <3>1. steps - 1 \in Nat /\ ~(steps <= steps - 1)  BY <2>2, <2>4
      <3> QED  BY <2>2, <3>1 DEF At
    <2> QED  BY <2>2, <2>3, <2>4
  <1> QED  BY <1>1, PathAlways, PTL

\* advance_lifecycle_to refuses only what no number of transitions reaches, and then it
\* leaves the version as it was.
THEOREM RefusedWithoutPath == Spec => []RejectedOnlyWithoutPath
  <1>1. PathInv => RejectedOnlyWithoutPath
    <2>1. SUFFICES ASSUME PathInv, pc = "rejected"
                   PROVE  state = start /\ target \notin Within[19][start]
      BY DEF RejectedOnlyWithoutPath
    <2>2. state = start /\ start \in LifecycleState /\ Separated  BY <2>1 DEF PathInv
    <2>3. PICK X \in SUBSET LifecycleState : start \in X /\ target \notin X /\ Closed(X)
      BY <2>2 DEF Separated
    <2>4. Within[19][start] \subseteq X  BY <2>2, <2>3, WithinClosed
    <2> QED  BY <2>2, <2>3, <2>4
  <1> QED  BY <1>1, PathAlways, PTL

\* A target the engine passes is reached from every state but RETIRED.  This is what
\* LifecycleEngine takes of the call, for every set of targets without REGISTERED.
THEOREM EngineTargetsReached == Spec => []EngineTargetsAlwaysReached
  <1>1. PathInv => EngineTargetsAlwaysReached
    <2>1. SUFFICES ASSUME PathInv, pc = "rejected", target \in EngineTargets,
                          start # "RETIRED"
                   PROVE  FALSE
      BY DEF EngineTargetsAlwaysReached
    <2>2. Separated  BY <2>1 DEF PathInv
    <2>3. PICK X \in SUBSET LifecycleState : start \in X /\ target \notin X /\ Closed(X)
      BY <2>2 DEF Separated
    <2>4. LifecycleState \ {"REGISTERED"} \subseteq X  BY <2>1, <2>3, ClosedHoldsAll
    <2>5. target \in LifecycleState \ {"REGISTERED"}  BY <2>1, EngineTargetsAssumption
    <2> QED  BY <2>3, <2>4, <2>5
  <1> QED  BY <1>1, PathAlways, PTL

==============================================================================
