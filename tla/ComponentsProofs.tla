-------------------------- MODULE ComponentsProofs --------------------------
(***************************************************************************)
(* Proofs about the components of Components, for any values of their      *)
(* constants.  Each has a section: its inductive invariant, a lemma for    *)
(* each of its steps, and what follows for its specification; the last one *)
(* takes all of that to SystemSpec.  Collection, Notifications and the two *)
(* ends of the event pipeline have proof modules of their own.             *)
(***************************************************************************)
EXTENDS Components, Functions, FiniteSetTheorems, WellFoundedInduction, TLAPS

(***************************************************************************)
(* Sums over finite sets.                                                  *)
(*                                                                         *)
(* SumFunctionOnSet is defined by a CHOOSE over functions that satisfy a   *)
(* recursion; that there is one, and that the order does not matter, is    *)
(* shown by looking at a smallest set for which it would fail.             *)
(***************************************************************************)
(* Induction over the subsets of a finite set: a family of them that is    *)
(* not empty has a member no other member is contained in.                 *)
LEMMA MinimalSubset ==
    ASSUME NEW S, IsFiniteSet(S), NEW T \in SUBSET (SUBSET S), T # {}
    PROVE  \E t \in T : \A u \in T : u \subseteq t => u = t
<1> DEFINE R == StrictSubsetOrdering(S)
<1>1. IsWellFoundedOn(R, SUBSET S)
  BY FS_StrictSubsetOrderingWellFounded, FS_FiniteSubsetsOfFinite
<1>2. \E t \in T : \A u \in T : <<u, t>> \notin R
  <2> HIDE DEF R
  <2> QED BY <1>1, WFMin
<1>3. \A t, u \in T : u \subseteq t /\ u # t => <<u, t>> \in R
  BY DEF StrictSubsetOrdering
<1> QED
  BY <1>2, <1>3

Pick(s) == CHOOSE x \in s : TRUE

(* g sums up f over the subsets of S, an element at a time. *)
IsSum(g, f, S) ==
    g = [s \in SUBSET S |-> IF s = {} THEN 0 ELSE f[Pick(s)] + g[s \ {Pick(s)}]]

SumOf(f, S) == CHOOSE g : IsSum(g, f, S)

LEMMA SumUnfolds ==
    ASSUME NEW f, NEW S
    PROVE  SumFunctionOnSet(f, S) = SumOf(f, S)[S]
BY DEF SumFunctionOnSet, FoldFunctionOnSet, MapThenFoldSet, SumOf, IsSum, Pick

(* There is such a function: up to n elements it is defined by that up to  *)
(* n - 1.                                                                  *)
LEMMA SumExists ==
    ASSUME NEW f, NEW S, IsFiniteSet(S)
    PROVE  IsSum(SumOf(f, S), f, S)
<1> DEFINE Step(g) ==
             [s \in SUBSET S |->
                 IF s = {} THEN 0 ELSE f[Pick(s)] + g[s \ {Pick(s)}]]
           SumsTo(g, n) ==
             \A s \in SUBSET S : Cardinality(s) <= n => g[s] = Step(g)[s]
           Bad == {n \in Nat : ~ \E g : SumsTo(g, n)}
<1>1. 0 \notin Bad
  <2>1. SumsTo([s \in SUBSET S |-> 0], 0)
    BY FS_EmptySet, FS_Subset, FS_CardinalityType
  <2> QED
    BY <2>1
<1>2. ASSUME NEW n \in Nat, n + 1 \in Bad PROVE n \in Bad
  <2> SUFFICES ASSUME NEW g, SumsTo(g, n) PROVE FALSE
    BY <1>2
  <2>1. ASSUME NEW s \in SUBSET S, Cardinality(s) <= n + 1, s # {}
        PROVE  Step(g)[s \ {Pick(s)}] = g[s \ {Pick(s)}]
    <3>1. Pick(s) \in s
      BY <2>1 DEF Pick
    <3>2. Cardinality(s \ {Pick(s)}) <= n
      BY <2>1, <3>1, FS_Subset, FS_RemoveElement, FS_CardinalityType
    <3> QED
      BY <3>2
  <2>2. SumsTo(Step(g), n + 1)
    BY <2>1
  <2> QED
    BY <1>2, <2>2
<1>3. Bad = {}
  <2> SUFFICES ASSUME Bad # {} PROVE FALSE
    OBVIOUS
  <2> HIDE DEF Bad
  <2>1. Bad \subseteq Nat
    BY DEF Bad
  <2>2. PICK n \in Bad : \A m \in Bad : <<m, n>> \notin OpToRel(<, Nat)
    BY <2>1, NatLessThanWellFounded, WFMin
  <2>3. \A m \in Bad : ~ (m < n)
    BY <2>1, <2>2 DEF OpToRel
  <2>4. n # 0
    BY <1>1
  <2>5. n - 1 \in Nat /\ (n - 1) + 1 \in Bad
    BY <2>1, <2>4
  <2>6. n - 1 \in Bad
    BY <1>2, <2>5
  <2> QED
    BY <2>1, <2>3, <2>6
<1>4. PICK g : SumsTo(g, Cardinality(S))
  BY <1>3, FS_CardinalityType
<1>5. \A s \in SUBSET S : Cardinality(s) <= Cardinality(S)
  BY FS_Subset
<1>6. IsSum(Step(g), f, S)
  <2>1. \A s \in SUBSET S : s # {} => s \ {Pick(s)} \in SUBSET S
    OBVIOUS
  <2>2. \A s \in SUBSET S : g[s] = Step(g)[s]
    BY <1>4, <1>5
  <2>3. \A s \in SUBSET S : Step(g)[s] = Step(Step(g))[s]
    BY <2>1, <2>2
  <2> QED
    BY <2>3 DEF IsSum
<1> QED
  BY <1>6 DEF SumOf

(* Functions that agree on a set have the same sum over it. *)
LEMMA SumsAgree ==
    ASSUME NEW f, NEW e, NEW S, NEW T, IsFiniteSet(S), IsFiniteSet(T),
           NEW t \in SUBSET (S \cap T), \A x \in t : f[x] = e[x]
    PROVE  SumOf(f, S)[t] = SumOf(e, T)[t]
<1> DEFINE g == SumOf(f, S)
           h == SumOf(e, T)
           Bad == {s \in SUBSET t : g[s] # h[s]}
<1>1. IsSum(g, f, S) /\ IsSum(h, e, T)
  BY SumExists
<1>2. \A s \in SUBSET t :
         /\ g[s] = IF s = {} THEN 0 ELSE f[Pick(s)] + g[s \ {Pick(s)}]
         /\ h[s] = IF s = {} THEN 0 ELSE e[Pick(s)] + h[s \ {Pick(s)}]
  <2> HIDE DEF g, h
  <2> QED BY <1>1 DEF IsSum
<1> HIDE DEF g, h
<1>3. Bad = {}
  <2> SUFFICES ASSUME Bad # {} PROVE FALSE
    OBVIOUS
  <2>1. Bad \in SUBSET (SUBSET t) /\ IsFiniteSet(t)
    BY FS_Subset
  <2>2. PICK s \in Bad : \A u \in Bad : u \subseteq s => u = s
    <3> HIDE DEF Bad
    <3> QED BY <2>1, MinimalSubset
  <2>3. s # {}
    BY <1>2, <2>2
  <2>4. Pick(s) \in s
    BY <2>3 DEF Pick
  <2>5. s \ {Pick(s)} \notin Bad
    BY <2>2, <2>4
  <2> QED
    BY <1>2, <2>2, <2>3, <2>4, <2>5
<1> QED
  BY <1>3 DEF g, h

LEMMA SumCongruence ==
    ASSUME NEW f, NEW e, NEW S, IsFiniteSet(S), \A x \in S : f[x] = e[x]
    PROVE  SumFunctionOnSet(f, S) = SumFunctionOnSet(e, S)
BY SumsAgree, SumUnfolds

LEMMA SumEmpty == \A f : SumFunctionOnSet(f, {}) = 0
<1> TAKE f
<1>1. IsSum(SumOf(f, {}), f, {})
  BY SumExists, FS_EmptySet
<1>2. SumOf(f, {})[{}] = 0
  BY <1>1 DEF IsSum
<1> QED
  BY <1>2, SumUnfolds

LEMMA SumPick ==
    ASSUME NEW f, NEW S, IsFiniteSet(S), S # {}
    PROVE  /\ Pick(S) \in S
           /\ SumFunctionOnSet(f, S) =
                f[Pick(S)] + SumFunctionOnSet(f, S \ {Pick(S)})
<1>1. Pick(S) \in S
  BY DEF Pick
<1>2. SumOf(f, S)[S] = f[Pick(S)] + SumOf(f, S)[S \ {Pick(S)}]
  <2> DEFINE g == SumOf(f, S)
  <2>1. IsSum(g, f, S)
    BY SumExists
  <2> HIDE DEF g
  <2>2. g[S] = f[Pick(S)] + g[S \ {Pick(S)}]
    BY <2>1 DEF IsSum
  <2> QED
    BY <2>2 DEF g
<1>3. SumOf(f, S)[S \ {Pick(S)}] = SumOf(f, S \ {Pick(S)})[S \ {Pick(S)}]
  BY SumsAgree, FS_RemoveElement
<1> QED
  BY <1>1, <1>2, <1>3, SumUnfolds

LEMMA SumType ==
    ASSUME NEW f, NEW S, IsFiniteSet(S), \A x \in S : f[x] \in Int
    PROVE  SumFunctionOnSet(f, S) \in Int
<1> DEFINE Bad == {s \in SUBSET S : SumFunctionOnSet(f, s) \notin Int}
<1> SUFFICES ASSUME Bad # {} PROVE FALSE
  OBVIOUS
<1>1. PICK s \in Bad : \A u \in Bad : u \subseteq s => u = s
  <2>1. Bad \in SUBSET (SUBSET S)
    OBVIOUS
  <2> HIDE DEF Bad
  <2> QED BY <2>1, MinimalSubset
<1>2. s # {}
  <2>1. s = {} => SumFunctionOnSet(f, s) = 0
    BY SumEmpty
  <2> QED
    BY <1>1, <2>1
<1>0. IsFiniteSet(s)
  BY <1>1, FS_Subset
<1>3. Pick(s) \in s /\ s \ {Pick(s)} \notin Bad
  BY <1>0, <1>1, <1>2, SumPick
<1> QED
  BY <1>0, <1>1, <1>2, <1>3, SumPick

(* Any element may be taken out first. *)
LEMMA SumRemove ==
    ASSUME NEW f, NEW S, IsFiniteSet(S), \A x \in S : f[x] \in Int,
           NEW x \in S
    PROVE  SumFunctionOnSet(f, S) = f[x] + SumFunctionOnSet(f, S \ {x})
<1> DEFINE Sum(s) == SumFunctionOnSet(f, s)
           Bad == {s \in SUBSET S :
                      \E y \in s : Sum(s) # f[y] + Sum(s \ {y})}
<1> SUFFICES ASSUME Bad # {} PROVE FALSE
  OBVIOUS
<1>1. PICK s \in Bad : \A u \in Bad : u \subseteq s => u = s
  <2>1. Bad \in SUBSET (SUBSET S)
    OBVIOUS
  <2> HIDE DEF Bad
  <2> QED BY <2>1, MinimalSubset
<1>2. PICK y \in s : Sum(s) # f[y] + Sum(s \ {y})
  BY <1>1
<1> DEFINE p == Pick(s)
           r == s \ {p, y}
<1>3. p \in s /\ Sum(s) = f[p] + Sum(s \ {p})
  BY <1>2, SumPick, FS_Subset
<1> HIDE DEF p
<1>4. p # y
  BY <1>2, <1>3
<1>5. Sum(s \ {p}) = f[y] + Sum(r)
  <2>1. s \ {p} \notin Bad /\ s \ {p} \in SUBSET S /\ y \in s \ {p}
    BY <1>1, <1>3, <1>4
  <2>2. (s \ {p}) \ {y} = r
    OBVIOUS
  <2> QED
    BY <2>1, <2>2
<1>6. Sum(s \ {y}) = f[p] + Sum(r)
  <2>1. s \ {y} \notin Bad /\ s \ {y} \in SUBSET S /\ p \in s \ {y}
    BY <1>1, <1>2, <1>3, <1>4
  <2>2. (s \ {y}) \ {p} = r
    OBVIOUS
  <2> QED
    BY <2>1, <2>2
<1>7. Sum(r) \in Int /\ f[p] \in Int /\ f[y] \in Int
  BY <1>3, SumType, FS_Subset
<1> HIDE DEF Sum
<1> QED
  BY <1>2, <1>3, <1>5, <1>6, <1>7

(* Of one element with another value. *)
LEMMA SumUpdate ==
    ASSUME NEW f, NEW e, NEW S, IsFiniteSet(S), NEW x \in S,
           \A y \in S : f[y] \in Int /\ e[y] \in Int,
           \A y \in S \ {x} : e[y] = f[y]
    PROVE  SumFunctionOnSet(e, S) = SumFunctionOnSet(f, S) - f[x] + e[x]
<1>1. IsFiniteSet(S \ {x})
  BY FS_RemoveElement
<1>2. SumFunctionOnSet(e, S \ {x}) = SumFunctionOnSet(f, S \ {x})
  BY <1>1, SumCongruence
<1>3. SumFunctionOnSet(f, S \ {x}) \in Int
  BY <1>1, SumType
<1> QED
  BY <1>2, <1>3, SumRemove

(* A sum of naturals is one, and no smaller than any of them. *)
LEMMA SumNat ==
    ASSUME NEW f, NEW S, IsFiniteSet(S), \A x \in S : f[x] \in Nat
    PROVE  SumFunctionOnSet(f, S) \in Nat
<1> DEFINE Bad == {s \in SUBSET S : SumFunctionOnSet(f, s) \notin Nat}
<1> SUFFICES ASSUME Bad # {} PROVE FALSE
  OBVIOUS
<1>1. PICK s \in Bad : \A u \in Bad : u \subseteq s => u = s
  <2>1. Bad \in SUBSET (SUBSET S)
    OBVIOUS
  <2> HIDE DEF Bad
  <2> QED BY <2>1, MinimalSubset
<1>2. s # {}
  <2>1. s = {} => SumFunctionOnSet(f, s) = 0
    BY SumEmpty
  <2> QED
    BY <1>1, <2>1
<1>0. IsFiniteSet(s)
  BY <1>1, FS_Subset
<1>3. Pick(s) \in s /\ s \ {Pick(s)} \notin Bad
  BY <1>0, <1>1, <1>2, SumPick
<1> QED
  BY <1>0, <1>1, <1>2, <1>3, SumPick

LEMMA SumZero ==
    ASSUME NEW f, NEW S, IsFiniteSet(S), \A x \in S : f[x] = 0
    PROVE  SumFunctionOnSet(f, S) = 0
<1> DEFINE Bad == {s \in SUBSET S : SumFunctionOnSet(f, s) # 0}
<1> SUFFICES ASSUME Bad # {} PROVE FALSE
  OBVIOUS
<1>1. PICK s \in Bad : \A u \in Bad : u \subseteq s => u = s
  <2>1. Bad \in SUBSET (SUBSET S)
    OBVIOUS
  <2> HIDE DEF Bad
  <2> QED BY <2>1, MinimalSubset
<1>2. s # {}
  <2>1. s = {} => SumFunctionOnSet(f, s) = 0
    BY SumEmpty
  <2> QED
    BY <1>1, <2>1
<1>0. IsFiniteSet(s)
  BY <1>1, FS_Subset
<1>3. Pick(s) \in s /\ s \ {Pick(s)} \notin Bad
  BY <1>0, <1>1, <1>2, SumPick
<1> QED
  BY <1>0, <1>1, <1>2, <1>3, SumPick

-----------------------------------------------------------------------------
(* Multiples. *)

(* Two multiples less than one step apart. *)
LEMMA Aligned ==
    ASSUME NEW a \in Nat, NEW b \in Nat, NEW W \in Nat \ {0},
           a % W = 0, b % W = 0, a < b + W
    PROVE  a <= b
<1>1. a = W * (a \div W) /\ b = W * (b \div W)
  OBVIOUS
<1> DEFINE p == a \div W
           q == b \div W
<1>2. p \in Nat /\ q \in Nat
  OBVIOUS
<1> HIDE DEF p, q
<1>3. W * p < W * (q + 1)
  BY <1>1, <1>2 DEF p, q
<1>4. p < q + 1
  BY <1>2, <1>3
<1>5. W * p <= W * q
  BY <1>2, <1>4
<1> QED BY <1>1, <1>5 DEF p, q

LEMMA Multiple ==
    ASSUME NEW k \in Nat, NEW W \in Nat \ {0}
    PROVE  (W * k) % W = 0
<1> DEFINE c == W * k
           q == c \div W
           r == c % W
<1>1. c \in Nat
  OBVIOUS
<1>2. q \in Int /\ r \in Int /\ 0 <= r /\ r < W /\ c = W * q + r
  BY <1>1
<1> DEFINE n == k - q
<1> HIDE DEF q, r
<1>3. n \in Int /\ r = W * n
  BY <1>2
<1> HIDE DEF c, n
<1>4. CASE n <= -1
  <2>1. W * n <= W * (-1)
    BY <1>3, <1>4
  <2> QED BY <1>2, <1>3, <2>1
<1>5. CASE n >= 1
  <2>1. W * 1 <= W * n
    BY <1>3, <1>5
  <2> QED BY <1>2, <1>3, <2>1
<1>6. CASE n = 0
  BY <1>3, <1>6 DEF r, c
<1> QED BY <1>3, <1>4, <1>5, <1>6

(* The next multiple. *)
LEMMA NextMultiple ==
    ASSUME NEW b \in Nat, NEW W \in Nat \ {0}, b % W = 0
    PROVE  (b + W) % W = 0
<1> DEFINE q == b \div W
<1>1. q \in Nat /\ b = W * q
  OBVIOUS
<1> HIDE DEF q
<1>2. b + W = W * (q + 1) /\ q + 1 \in Nat
  BY <1>1
<1> QED BY <1>2, Multiple

LEMMA ZeroMultiple ==
    ASSUME NEW W \in Nat \ {0}
    PROVE  0 % W = 0
OBVIOUS

-----------------------------------------------------------------------------
(***************************************************************************)
(* Numbering.                                                              *)
(*                                                                         *)
(* What a transaction decides under the sequence's lock - the next value,  *)
(* or an expired reservation to take over - is still true when it commits: *)
(* no other transaction writes numbers of the entity, and whoever confirms *)
(* a reservation holds a row that no recycler has chosen.                  *)
(***************************************************************************)
Has(e, n) == \E r \in issued : r.entity = e /\ r.number = n

(* Numbers are exactly those up to the counter, each in one row. *)
Dense == \A e \in Entities, n \in Nat : Has(e, n) <=> n \in 1 .. counter[e]

NumbersUnique ==
    \A r, s \in issued : r.entity = s.entity /\ r.number = s.number => r = s

KeysUnique == \A r, s \in issued : r.key = s.key => r = s

LockExclusive ==
    \A v, w \in Workers :
        pc[v] = "record" /\ pc[w] = "record" /\ req[v].entity = req[w].entity
            => v = w

(* Worker w has chosen row r to recycle; it has locked it to confirm it. *)
Chosen(w, r) ==
    /\ pc[w] = "record" /\ recycled[w]
    /\ r.entity = req[w].entity /\ r.number = number[w]

Held(w, r) == pc[w] = "confirm" /\ r.key = req[w].key

(* What is to be recorded is the next value or a row that is there. *)
NextInHand ==
    \A w \in Workers :
        pc[w] = "record" =>
            IF recycled[w] THEN Has(req[w].entity, number[w])
                           ELSE number[w] = counter[req[w].entity] + 1

ChosenExpired ==
    \A w \in Workers, r \in issued : Chosen(w, r) => r.status = "expired"

HeldExists == \A w \in Workers : pc[w] = "confirm" => \E r \in issued : Held(w, r)

ChosenNotHeld ==
    \A v, w \in Workers, r \in issued : ~ (Chosen(v, r) /\ Held(w, r))

NumberInv ==
    /\ TypeOK /\ Dense /\ NumbersUnique /\ KeysUnique /\ LockExclusive
    /\ NextInHand /\ ChosenExpired /\ HeldExists /\ ChosenNotHeld

-----------------------------------------------------------------------------
(* The steps, one lemma for each.                                          *)

LEMMA NumberInit == Init => NumberInv
BY DEF Init, NumberInv, TypeOK, Dense, Has, NumbersUnique, KeysUnique,
       LockExclusive, NextInHand, ChosenExpired, HeldExists, ChosenNotHeld,
       Chosen, Held, Places, Statuses, Row

(* The request is only taken in: no lock is held yet. *)
LEMMA AskInv ==
    ASSUME NumberInv, NEW w \in Workers, NEW q \in Request,
           \/ Ask(w, q)
           \/ NoSequence(w)
    PROVE  NumberInv'
<1>1. TypeOK'
  BY DEF Ask, NoSequence, Goto, NumberInv, TypeOK, Places
<1>2. /\ UNCHANGED <<counter, issued, number, recycled>>
      /\ pc'[w] \notin {"record", "confirm"}
      /\ \A v \in Workers \ {w} : pc'[v] = pc[v] /\ req'[v] = req[v]
  BY DEF Ask, NoSequence, Goto, NumberInv, TypeOK
<1> QED
  BY <1>1, <1>2 DEF NumberInv, Dense, Has, NumbersUnique, KeysUnique,
     LockExclusive, NextInHand, ChosenExpired, HeldExists, ChosenNotHeld,
     Chosen, Held

LEMMA RecycleInv ==
    ASSUME NumberInv, NEW w \in Workers, Recycle(w)
    PROVE  NumberInv'
<1> DEFINE e == req[w].entity
<1>1. PICK r \in issued : /\ r.entity = e /\ r.status = "expired"
                          /\ ~RowLocked(r)
                          /\ number' = [number EXCEPT ![w] = r.number]
  BY DEF Recycle, Recyclable
<1>2. r \in Row
  BY DEF NumberInv, TypeOK
<1>3. TypeOK'
  BY <1>1, <1>2 DEF Recycle, Goto, NumberInv, TypeOK, Places, Row
<1>4. /\ UNCHANGED <<counter, issued, req>>
      /\ pc[w] = "lock" /\ pc'[w] = "record"
      /\ recycled'[w] = TRUE /\ number'[w] = r.number
      /\ \A v \in Workers \ {w} :
           /\ pc'[v] = pc[v] /\ number'[v] = number[v]
           /\ recycled'[v] = recycled[v]
  BY <1>1 DEF Recycle, Goto, NumberInv, TypeOK
<1>5. LockExclusive'
  BY <1>4 DEF Recycle, SequenceLocked, NumberInv, LockExclusive
<1>6. NextInHand'
  BY <1>1, <1>4 DEF NumberInv, NextInHand, Has
<1>7. \A s \in issued : Chosen(w, s)' => s = r
  BY <1>1, <1>4 DEF Chosen, NumberInv, NumbersUnique
<1>8. ChosenExpired' /\ ChosenNotHeld'
  BY <1>1, <1>4, <1>7
  DEF NumberInv, ChosenExpired, ChosenNotHeld, Chosen, Held, RowLocked
<1> QED
  BY <1>3, <1>4, <1>5, <1>6, <1>8
  DEF NumberInv, Dense, Has, NumbersUnique, KeysUnique, HeldExists, Held

LEMMA AdvanceInv ==
    ASSUME NumberInv, NEW w \in Workers, Advance(w)
    PROVE  NumberInv'
<1>1. req[w].entity \in Entities
  BY DEF Advance, NumberInv, TypeOK, Request
<1>2. TypeOK'
  BY <1>1 DEF Advance, Goto, NumberInv, TypeOK, Places
<1>3. /\ UNCHANGED <<counter, issued, req>>
      /\ pc'[w] = "record" /\ recycled'[w] = FALSE
      /\ number'[w] = counter[req[w].entity] + 1
      /\ \A v \in Workers \ {w} :
           /\ pc'[v] = pc[v] /\ number'[v] = number[v]
           /\ recycled'[v] = recycled[v]
  BY DEF Advance, Goto, NumberInv, TypeOK
<1>4. LockExclusive'
  BY <1>3 DEF Advance, SequenceLocked, NumberInv, LockExclusive
<1> QED
  BY <1>2, <1>3, <1>4
  DEF NumberInv, Dense, Has, NumbersUnique, KeysUnique, NextInHand,
      ChosenExpired, HeldExists, ChosenNotHeld, Chosen, Held

(* The row that is written, and the ones that stay. *)
LEMMA RecordInv ==
    ASSUME NumberInv, NEW w \in Workers, Record(w)
    PROVE  NumberInv'
<1> DEFINE e == req[w].entity
           new == [entity |-> e, number |-> number[w], key |-> req[w].key,
                   status |-> IF IsGapFree(w) THEN "reserved" ELSE "confirmed"]
           old == IF recycled[w]
                  THEN {r \in issued : ~(r.entity = e /\ r.number = number[w])}
                  ELSE issued
<1>1. /\ pc[w] = "record" /\ req[w] \in Request /\ e \in Entities
      /\ number[w] \in Nat /\ counter[e] \in Nat
  BY DEF Record, NumberInv, TypeOK, Request
<1>2. /\ issued' = old \cup {new}
      /\ \A r \in issued : r.key # req[w].key
      /\ counter' = [counter EXCEPT ![e] = IF recycled[w] THEN @ ELSE number[w]]
      /\ gapFree' = [gapFree EXCEPT ![e] = IsGapFree(w)]
  BY DEF Record
<1>3. /\ pc'[w] = "idle"
      /\ \A v \in Workers \ {w} :
           /\ pc'[v] = pc[v] /\ req'[v] = req[v]
           /\ number'[v] = number[v] /\ recycled'[v] = recycled[v]
  BY DEF Record, Finish, Goto, NumberInv, TypeOK
<1>4. /\ recycled[w] => Has(e, number[w])
      /\ ~recycled[w] => number[w] = counter[e] + 1
  BY <1>1 DEF NumberInv, NextInHand
<1>5. number[w] \in Nat \ {0}
  <2>1. CASE recycled[w]
    BY <1>1, <1>4, <2>1 DEF NumberInv, Dense
  <2> QED BY <1>1, <1>4, <2>1
<1>6. new \in Row /\ old \subseteq issued
  BY <1>1, <1>5 DEF Row, Statuses, Request
<1>7. TypeOK'
  <2>1. issued' \in SUBSET Row
    BY <1>2, <1>6 DEF NumberInv, TypeOK
  <2>2. counter' \in [Entities -> Nat]
    BY <1>1, <1>2 DEF NumberInv, TypeOK
  <2>3. IsGapFree(w) \in BOOLEAN
    BY <1>1 DEF IsGapFree, NumberInv, TypeOK, Request
  <2>4. gapFree' \in [Entities -> BOOLEAN]
    BY <1>2, <2>3 DEF NumberInv, TypeOK
  <2> QED
    BY <2>1, <2>2, <2>4 DEF Record, Finish, Goto, NumberInv, TypeOK, Places
<1>8. \A r \in old : ~(r.entity = e /\ r.number = number[w])
  BY <1>1, <1>4 DEF NumberInv, Dense, Has
<1>9. Dense'
  <2> SUFFICES ASSUME NEW f \in Entities, NEW n \in Nat
               PROVE  Has(f, n)' <=> n \in 1 .. counter'[f]
    BY DEF Dense
  <2>1. Has(f, n) <=> n \in 1 .. counter[f]
    BY DEF NumberInv, Dense
  <2>2. Has(f, n)' <=> Has(f, n) \/ (f = e /\ n = number[w])
    <3>1. new \in issued' /\ new.entity = e /\ new.number = number[w]
      BY <1>2
    <3>2. ASSUME Has(f, n), ~(f = e /\ n = number[w])  PROVE Has(f, n)'
      BY <1>2, <3>2 DEF Has
    <3>3. ASSUME Has(f, n)' PROVE Has(f, n) \/ (f = e /\ n = number[w])
      BY <1>2, <1>6, <3>3 DEF Has
    <3>4. ASSUME f = e, n = number[w] PROVE Has(f, n)'
      BY <3>1, <3>4 DEF Has
    <3> QED BY <3>2, <3>3, <3>4
  <2>3. CASE f # e
    BY <1>1, <1>2, <2>1, <2>2, <2>3 DEF NumberInv, TypeOK
  <2>4. CASE f = e /\ recycled[w]
    <3>1. counter'[f] = counter[f]
      BY <1>1, <1>2, <2>4 DEF NumberInv, TypeOK
    <3> QED BY <1>4, <2>1, <2>2, <2>4, <3>1
  <2>5. CASE f = e /\ ~recycled[w]
    <3>1. counter'[f] = counter[f] + 1 /\ number[w] = counter[f] + 1
      BY <1>1, <1>2, <1>4, <2>5 DEF NumberInv, TypeOK
    <3> QED BY <1>1, <2>1, <2>2, <2>5, <3>1
  <2> QED BY <2>3, <2>4, <2>5
<1>10. NumbersUnique'
  BY <1>2, <1>6, <1>8 DEF NumberInv, NumbersUnique
<1>11. KeysUnique'
  BY <1>2, <1>6 DEF NumberInv, KeysUnique
<1>12. LockExclusive'
  BY <1>3 DEF NumberInv, LockExclusive
(* Another one that records is about another entity. *)
<1>13. \A v \in Workers : pc'[v] = "record" =>
          v # w /\ pc[v] = "record" /\ req[v].entity # e
  BY <1>1, <1>3 DEF NumberInv, LockExclusive
<1>14. NextInHand'
  <2> SUFFICES ASSUME NEW v \in Workers, pc'[v] = "record"
               PROVE  IF recycled'[v] THEN Has(req[v].entity, number[v])'
                      ELSE number'[v] = counter'[req'[v].entity] + 1
    BY <1>3, <1>13 DEF NextInHand, Has
  <2>1. v # w /\ pc[v] = "record" /\ req[v].entity # e
    BY <1>13
  <2>2. req[v].entity \in Entities
    BY <2>1 DEF NumberInv, TypeOK, Request
  <2>3. counter'[req[v].entity] = counter[req[v].entity]
    BY <1>1, <1>2, <2>1, <2>2 DEF NumberInv, TypeOK
  <2>4. Has(req[v].entity, number[v]) => Has(req[v].entity, number[v])'
    BY <1>2, <1>3, <2>1 DEF Has
  <2> QED BY <1>3, <2>1, <2>3, <2>4 DEF NumberInv, NextInHand
<1>15. ChosenExpired'
  BY <1>2, <1>3, <1>6, <1>13 DEF NumberInv, ChosenExpired, Chosen
(* A row locked to be confirmed is not the one that is taken over. *)
<1>16. HeldExists'
  <2> SUFFICES ASSUME NEW v \in Workers, pc'[v] = "confirm"
               PROVE  \E r \in issued' : Held(v, r)'
    BY DEF HeldExists
  <2>1. v # w /\ pc[v] = "confirm" /\ req'[v] = req[v]
    BY <1>3
  <2>2. PICK r \in issued : Held(v, r)
    BY <2>1 DEF NumberInv, HeldExists
  <2>3. r \in old
    BY <1>1, <2>2 DEF NumberInv, ChosenNotHeld, Chosen
  <2> QED BY <1>2, <1>3, <2>1, <2>2, <2>3 DEF Held
<1>17. ChosenNotHeld'
  <2> SUFFICES ASSUME NEW u \in Workers, NEW v \in Workers, NEW r \in issued',
                      Chosen(u, r)', Held(v, r)'
               PROVE  FALSE
    BY DEF ChosenNotHeld
  <2>1. u # w /\ v # w /\ Chosen(u, r) /\ Held(v, r)
    BY <1>3 DEF Chosen, Held
  <2>2. r \in issued
    BY <1>2, <1>6, <1>13, <2>1 DEF Chosen
  <2> QED BY <2>1, <2>2 DEF NumberInv, ChosenNotHeld
<1> QED
  BY <1>7, <1>9, <1>10, <1>11, <1>12, <1>14, <1>15, <1>16, <1>17 DEF NumberInv

(* An aborted transaction gives its locks back and leaves no row. *)
LEMMA AbortInv ==
    ASSUME NumberInv, NEW w \in Workers, Abort(w)
    PROVE  NumberInv'
<1>1. TypeOK'
  BY DEF Abort, Finish, Goto, NumberInv, TypeOK, Places
<1>2. /\ UNCHANGED <<counter, issued>>
      /\ pc'[w] = "idle"
      /\ \A v \in Workers \ {w} :
           /\ pc'[v] = pc[v] /\ req'[v] = req[v]
           /\ number'[v] = number[v] /\ recycled'[v] = recycled[v]
  BY DEF Abort, Finish, Goto, NumberInv, TypeOK
<1> QED
  BY <1>1, <1>2 DEF NumberInv, Dense, Has, NumbersUnique, KeysUnique,
     LockExclusive, NextInHand, ChosenExpired, HeldExists, ChosenNotHeld,
     Chosen, Held

(* The row that is locked is one no recycler has chosen. *)
LEMMA FindReservationInv ==
    ASSUME NumberInv, NEW w \in Workers, NEW q \in Request,
           FindReservation(w, q)
    PROVE  NumberInv'
<1>1. PICK r \in issued : r.key = q.key /\ ~RowLocked(r)
  BY DEF FindReservation
<1>2. TypeOK'
  BY DEF FindReservation, Goto, NumberInv, TypeOK, Places
<1>3. /\ UNCHANGED <<counter, issued, number, recycled>>
      /\ pc'[w] = "confirm" /\ req'[w] = q
      /\ \A v \in Workers \ {w} : pc'[v] = pc[v] /\ req'[v] = req[v]
  BY DEF FindReservation, Goto, NumberInv, TypeOK
<1>4. \A s \in issued : Held(w, s)' => s = r
  BY <1>1, <1>3 DEF Held, NumberInv, KeysUnique
<1>5. HeldExists'
  BY <1>1, <1>3 DEF NumberInv, HeldExists, Held
<1>6. ChosenNotHeld'
  BY <1>1, <1>3, <1>4 DEF NumberInv, ChosenNotHeld, Chosen, Held, RowLocked
<1> QED
  BY <1>2, <1>3, <1>5, <1>6
  DEF NumberInv, Dense, Has, NumbersUnique, KeysUnique, LockExclusive,
      NextInHand, ChosenExpired, Chosen

(* A set of rows some of which change their status only. *)
LEMMA StatusOnly ==
    ASSUME NumberInv, issued' \in SUBSET Row, UNCHANGED counter,
           \A r \in issued' : \E s \in issued :
               s.entity = r.entity /\ s.number = r.number /\ s.key = r.key,
           \A s \in issued : \E r \in issued' :
               s.entity = r.entity /\ s.number = r.number /\ s.key = r.key,
           \A r, s \in issued' : r.key = s.key => r = s
    PROVE  Dense' /\ NumbersUnique' /\ KeysUnique'
<1>1. Dense'
  BY DEF NumberInv, Dense, Has
<1>2. NumbersUnique'
  <2> SUFFICES ASSUME NEW r \in issued', NEW s \in issued',
                      r.entity = s.entity, r.number = s.number
               PROVE  r = s
    BY DEF NumbersUnique
  <2>1. PICK a \in issued :
          a.entity = r.entity /\ a.number = r.number /\ a.key = r.key
    OBVIOUS
  <2>2. PICK b \in issued :
          b.entity = s.entity /\ b.number = s.number /\ b.key = s.key
    OBVIOUS
  <2>3. a = b
    BY <2>1, <2>2 DEF NumberInv, NumbersUnique
  <2> QED BY <2>1, <2>2, <2>3
<1> QED BY <1>1, <1>2 DEF KeysUnique

(* The row confirmed is not the one another transaction takes over. *)
LEMMA ConfirmInv ==
    ASSUME NumberInv, NEW w \in Workers, Confirm(w)
    PROVE  NumberInv'
<1> DEFINE Now(r) == IF r.key = req[w].key
                     THEN [r EXCEPT !.status = "confirmed"] ELSE r
<1>1. /\ pc[w] = "confirm" /\ UNCHANGED <<counter, gapFree>>
      /\ issued' = {Now(r) : r \in issued}
      /\ pc'[w] = "idle"
      /\ \A v \in Workers \ {w} :
           /\ pc'[v] = pc[v] /\ req'[v] = req[v]
           /\ number'[v] = number[v] /\ recycled'[v] = recycled[v]
  BY DEF Confirm, Finish, Goto, NumberInv, TypeOK
<1>2. \A r \in issued :
        /\ Now(r) \in Row /\ Now(r).entity = r.entity
        /\ Now(r).number = r.number /\ Now(r).key = r.key
        /\ r.key # req[w].key => Now(r) = r
  BY DEF NumberInv, TypeOK, Row, Statuses
<1> HIDE DEF Now
<1>3. issued' \in SUBSET Row
  BY <1>1, <1>2
<1>4. TypeOK'
  BY <1>1, <1>3 DEF Confirm, Finish, Goto, NumberInv, TypeOK, Places
<1>5. Dense' /\ NumbersUnique' /\ KeysUnique'
  <2>1. \A r, s \in issued' : r.key = s.key => r = s
    BY <1>1, <1>2 DEF NumberInv, KeysUnique
  <2>2. \A r \in issued' : \E s \in issued :
          s.entity = r.entity /\ s.number = r.number /\ s.key = r.key
    BY <1>1, <1>2
  <2>3. \A s \in issued : \E r \in issued' :
          s.entity = r.entity /\ s.number = r.number /\ s.key = r.key
    BY <1>1, <1>2
  <2> QED BY <1>1, <1>3, <2>1, <2>2, <2>3, StatusOnly
<1>6. LockExclusive'
  BY <1>1 DEF NumberInv, LockExclusive
<1>7. NextInHand'
  <2> SUFFICES ASSUME NEW v \in Workers, pc'[v] = "record"
               PROVE  IF recycled'[v] THEN Has(req[v].entity, number[v])'
                      ELSE number'[v] = counter'[req'[v].entity] + 1
    BY <1>1 DEF NextInHand, Has
  <2>1. v \in Workers \ {w} /\ pc[v] = "record"
    BY <1>1
  <2>2. req'[v] = req[v] /\ number'[v] = number[v] /\ recycled'[v] = recycled[v]
    BY <1>1, <2>1
  <2>3. Has(req[v].entity, number[v]) => Has(req[v].entity, number[v])'
    BY <1>1, <1>2, <2>2 DEF Has
  <2> QED BY <1>1, <2>1, <2>2, <2>3 DEF NumberInv, NextInHand
<1>8. \A v \in Workers, r \in issued : Chosen(v, r) => Now(r) = r
  BY <1>1, <1>2 DEF NumberInv, ChosenNotHeld, Held
<1>9. ChosenExpired'
  <2> SUFFICES ASSUME NEW v \in Workers, NEW r \in issued,
                      pc'[v] = "record", recycled'[v],
                      Now(r).entity = req'[v].entity,
                      Now(r).number = number'[v]
               PROVE  Now(r).status = "expired"
    BY <1>1 DEF ChosenExpired, Chosen
  <2>1. Chosen(v, r)
    BY <1>1, <1>2 DEF Chosen
  <2> QED BY <1>8, <2>1 DEF NumberInv, ChosenExpired
<1>10. HeldExists'
  <2> SUFFICES ASSUME NEW v \in Workers, pc'[v] = "confirm"
               PROVE  \E r \in issued' : Held(v, r)'
    BY DEF HeldExists
  <2>1. pc[v] = "confirm" /\ req'[v] = req[v]
    BY <1>1
  <2>2. PICK r \in issued : Held(v, r)
    BY <2>1 DEF NumberInv, HeldExists
  <2> QED BY <1>1, <1>2, <2>1, <2>2 DEF Held
<1>11. ChosenNotHeld'
  <2> SUFFICES ASSUME NEW u \in Workers, NEW v \in Workers, NEW r \in issued,
                      pc'[u] = "record", recycled'[u],
                      Now(r).entity = req'[u].entity,
                      Now(r).number = number'[u],
                      pc'[v] = "confirm", Now(r).key = req'[v].key
               PROVE  FALSE
    BY <1>1 DEF ChosenNotHeld, Chosen, Held
  <2>1. Chosen(u, r) /\ Held(v, r)
    BY <1>1, <1>2 DEF Chosen, Held
  <2> QED BY <2>1 DEF NumberInv, ChosenNotHeld
<1> QED
  BY <1>4, <1>5, <1>6, <1>7, <1>9, <1>10, <1>11 DEF NumberInv

(* Time passes for a reservation nobody has confirmed. *)
LEMMA ExpireInv ==
    ASSUME NumberInv, NEW r \in issued, Expire(r)
    PROVE  NumberInv'
<1> DEFINE late == [r EXCEPT !.status = "expired"]
<1>1. /\ r \in Row /\ late \in Row
      /\ late.entity = r.entity /\ late.number = r.number
      /\ late.key = r.key /\ late.status = "expired"
  BY DEF NumberInv, TypeOK, Row, Statuses
<1>2. /\ issued' = (issued \ {r}) \cup {late}
      /\ UNCHANGED <<counter, gapFree, pc, req, number, recycled>>
  BY DEF Expire
<1> HIDE DEF late
<1>3. issued' \in SUBSET Row
  BY <1>1, <1>2 DEF NumberInv, TypeOK
<1>4. TypeOK'
  BY <1>2, <1>3 DEF NumberInv, TypeOK
<1>5. Dense' /\ NumbersUnique' /\ KeysUnique'
  <2>1. \A a, b \in issued' : a.key = b.key => a = b
    BY <1>1, <1>2 DEF NumberInv, KeysUnique
  <2>2. \A a \in issued' : \E s \in issued :
          s.entity = a.entity /\ s.number = a.number /\ s.key = a.key
    BY <1>1, <1>2
  <2>3. \A s \in issued : \E a \in issued' :
          s.entity = a.entity /\ s.number = a.number /\ s.key = a.key
    BY <1>1, <1>2
  <2> QED BY <1>2, <1>3, <2>1, <2>2, <2>3, StatusOnly
<1>6. \A v \in Workers :
        Has(req[v].entity, number[v]) => Has(req[v].entity, number[v])'
  BY <1>1, <1>2 DEF Has
<1>7. NextInHand'
  <2> SUFFICES ASSUME NEW v \in Workers, pc'[v] = "record"
               PROVE  IF recycled'[v] THEN Has(req[v].entity, number[v])'
                      ELSE number'[v] = counter'[req'[v].entity] + 1
    BY <1>2 DEF NextInHand, Has
  <2> QED BY <1>2, <1>6 DEF NumberInv, NextInHand
<1>8. ChosenExpired'
  BY <1>1, <1>2 DEF NumberInv, ChosenExpired, Chosen
<1>9. HeldExists'
  BY <1>1, <1>2 DEF NumberInv, HeldExists, Held
<1>10. ChosenNotHeld'
  BY <1>1, <1>2 DEF NumberInv, ChosenNotHeld, Chosen, Held
<1> QED
  BY <1>2, <1>4, <1>5, <1>7, <1>8, <1>9, <1>10 DEF NumberInv, LockExclusive

-----------------------------------------------------------------------------
(* The theorems.                                                           *)

LEMMA NumberStep == NumberInv /\ [Next]_vars => NumberInv'
<1> SUFFICES ASSUME NumberInv, [Next]_vars PROVE NumberInv'
  OBVIOUS
<1>1. CASE UNCHANGED vars
  BY <1>1 DEF vars, NumberInv, TypeOK, Dense, Has, NumbersUnique, KeysUnique,
     LockExclusive, NextInHand, ChosenExpired, HeldExists, ChosenNotHeld,
     Chosen, Held
<1>2. ASSUME NEW w \in Workers, WorkerStep(w) PROVE NumberInv'
  <2>1. CASE \E q \in Request : Ask(w, q) \/ FindReservation(w, q)
    BY <2>1, AskInv, FindReservationInv
  <2>2. CASE NoSequence(w)
    <3>1. PICK q : q \in Request /\ q = req[w]
      BY <2>2 DEF NoSequence, NumberInv, TypeOK
    <3> QED BY <2>2, <3>1, AskInv
  <2>3. CASE Recycle(w) \/ Advance(w) \/ Record(w) \/ Confirm(w) \/ Abort(w)
    BY <2>3, RecycleInv, AdvanceInv, RecordInv, ConfirmInv, AbortInv
  <2> QED BY <1>2, <2>1, <2>2, <2>3 DEF WorkerStep
<1>3. CASE \E r \in issued : Expire(r)
  BY <1>3, ExpireInv
<1> QED BY <1>1, <1>2, <1>3 DEF Next

(* Every variable has its type: a recorded number is never 0, a request in *)
(* progress never missing.                                                 *)
LEMMA NumberingTyped == Spec => []TypeOK
<1>1. NumberInv => TypeOK
  BY DEF NumberInv
<1> QED BY <1>1, NumberInit, NumberStep, PTL DEF Spec

(* However allocations, confirmations, expiries and failures interleave, an *)
(* entity's numbers are 1 .. current_value and each is issued once: the     *)
(* sequence's lock suffices, no unique index on numbers is needed.          *)
LEMMA NumbersDense == Spec => []NoGapNoDuplicate
<1>1. NumberInv => NoGapNoDuplicate
  <2> SUFFICES ASSUME NumberInv, NEW e \in Entities
               PROVE  /\ {r.number : r \in {s \in issued : s.entity = e}}
                            = 1 .. counter[e]
                      /\ \A r, s \in issued :
                           r.entity = e /\ s.entity = e
                             /\ r.number = s.number => r = s
    BY DEF NoGapNoDuplicate
  <2>1. \A r \in issued : r.number \in Nat
    BY DEF NumberInv, TypeOK, Row
  <2>2. counter[e] \in Nat
    BY DEF NumberInv, TypeOK
  <2>3. \A n \in Nat : Has(e, n) <=> n \in 1 .. counter[e]
    BY DEF NumberInv, Dense
  <2>4. \A n : n \in {r.number : r \in {s \in issued : s.entity = e}}
                <=> n \in Nat /\ Has(e, n)
    BY <2>1 DEF Has
  <2>5. 1 .. counter[e] \subseteq Nat
    BY <2>2
  <2>6. {r.number : r \in {s \in issued : s.entity = e}} = 1 .. counter[e]
    BY <2>3, <2>4, <2>5
  <2> QED BY <2>6 DEF NumberInv, NumbersUnique
<1> QED BY <1>1, NumberInit, NumberStep, PTL DEF Spec

(* No step changes or removes a confirmed number: a recycler that chose its *)
(* row would have found it expired and kept it locked.                      *)
LEMMA NumbersKept == Spec => ConfirmedKept
<1> DEFINE Kept == \A r \in issued : r.status = "confirmed" => r \in issued'
<1>1. NumberInv /\ [Next]_vars => [Kept]_vars
  <2> SUFFICES ASSUME NumberInv, Next, NEW r \in issued, r.status = "confirmed"
               PROVE  r \in issued'
    OBVIOUS
  <2>1. ASSUME NEW w \in Workers, Record(w) PROVE r \in issued'
    <3>1. ~ (recycled[w] /\ r.entity = req[w].entity /\ r.number = number[w])
      BY <2>1 DEF Record, NumberInv, ChosenExpired, Chosen
    <3> QED BY <2>1, <3>1 DEF Record
  <2>2. ASSUME NEW w \in Workers, Confirm(w) PROVE r \in issued'
    <3>1. r \in Row
      BY DEF NumberInv, TypeOK
    <3>2. [r EXCEPT !.status = "confirmed"] = r
      BY <3>1 DEF Row
    <3> QED BY <2>2, <3>2 DEF Confirm
  <2>3. ASSUME NEW s \in issued, Expire(s) PROVE r \in issued'
    BY <2>3 DEF Expire
  <2>4. ASSUME NEW w \in Workers,
               \/ \E q \in Request : Ask(w, q) \/ FindReservation(w, q)
               \/ NoSequence(w) \/ Recycle(w) \/ Advance(w) \/ Abort(w)
        PROVE  r \in issued'
    BY <2>4 DEF Ask, FindReservation, NoSequence, Recycle, Advance, Abort
  <2> QED BY <2>1, <2>2, <2>3, <2>4 DEF Next, WorkerStep
<1> QED BY <1>1, NumberInit, NumberStep, PTL DEF Spec, ConfirmedKept

-----------------------------------------------------------------------------
(***************************************************************************)
(* Inventory.                                                              *)
(*                                                                         *)
(* Who writes quantity_reserved has locked the item's row since it checked *)
(* the stock, and whoever consumes layers has locked them; a reservation   *)
(* is compensated at most once, or its rows say so.                        *)
(***************************************************************************)
LEMMA StockSum ==
    \A f, S : Stock!SumFunctionOnSet(f, S) = SumFunctionOnSet(f, S)
BY DEF Stock!SumFunctionOnSet, Stock!FoldFunctionOnSet,
       Stock!MapThenFoldSet, SumFunctionOnSet, FoldFunctionOnSet,
       MapThenFoldSet

(* A reservation about to commit is covered, a compensation gives back no  *)
(* more than was reserved, an issue takes no more than the layers have.    *)
StockJob(w) ==
    /\ clerk[w] # "idle" => job[w].quantity > 0
    /\ clerk[w] = "reserve" =>
          /\ job[w].of = job[w].key
          /\ reserved + job[w].quantity <= onHand
    /\ clerk[w] \in {"release", "fulfill"} =>
          job[w].quantity <= primary[job[w].of]
    /\ clerk[w] = "issue" =>
          job[w].quantity <= job[w].seen /\ job[w].seen <= layers

(* The two locks. *)
OneAt(place) ==
    \A v, w \in Workers : clerk[v] = place /\ clerk[w] = place => v = w

StockRow(k) ==
    /\ primary[k] > 0 => k \in stored
    /\ compensated[k] > 0 => primary[k] > 0
    /\ compensated[k] = 0 => returned[k] = 0
    /\ compensated[k] <= 1 => returned[k] <= primary[k]

StockInv ==
    /\ Stock!TypeOK
    /\ \A w \in Workers : StockJob(w)
    /\ OneAt("reserve") /\ OneAt("issue")
    /\ \A k \in StockKeys : StockRow(k)
    /\ Stock!ReservedIsSumOfRows

HeldBy == [k \in StockKeys |-> primary[k] - returned[k]]

LEMMA HeldByType ==
    ASSUME Stock!TypeOK
    PROVE  \A k \in StockKeys : HeldBy[k] \in Int
BY DEF Stock!TypeOK, HeldBy

LEMMA StockInit == Stock!Init => StockInv
<1> SUFFICES ASSUME Stock!Init PROVE StockInv
  OBVIOUS
<1>1. Stock!TypeOK
  BY DEF Stock!Init, Stock!TypeOK, Stock!Places
<1>2. SumFunctionOnSet(HeldBy, StockKeys) = 0
  <2>1. \A k \in StockKeys : HeldBy[k] = 0
    BY DEF Stock!Init, HeldBy
  <2> QED
    BY <2>1, SumZero, SystemAssumption
<1> QED
  BY <1>1, <1>2, StockSum DEF StockInv, StockJob, OneAt, StockRow,
     Stock!Init, Stock!ReservedIsSumOfRows, HeldBy

(* What leaves the rows alone leaves their sum alone. *)
LEMMA SameRows ==
    ASSUME StockInv, UNCHANGED <<reserved, primary, compensated, returned>>
    PROVE  Stock!ReservedIsSumOfRows'
BY DEF StockInv, Stock!ReservedIsSumOfRows

LEMMA StockReceive ==
    ASSUME StockInv, NEW n \in Stock!Quantities, Stock!Receive(n)
    PROVE  StockInv'
<1>1. n \in Nat
  BY SystemAssumption DEF Stock!Quantities
<1>2. Stock!TypeOK'
  BY <1>1 DEF StockInv, Stock!TypeOK, Stock!Receive, Stock!rowVars
<1>3. Stock!ReservedIsSumOfRows'
  BY SameRows DEF Stock!Receive, Stock!rowVars
<1>4. /\ UNCHANGED <<reserved, primary, compensated, returned, stored, clerk, job>>
      /\ onHand' >= onHand /\ layers' >= layers
      /\ \A w \in Workers : clerk[w] # "reserve"
  BY <1>1 DEF StockInv, Stock!TypeOK, Stock!Receive, Stock!rowVars, Stock!RowLocked
<1>5. ASSUME NEW w \in Workers PROVE StockJob(w)'
  <2>1. clerk[w] = "issue" => job[w].seen \in Nat
    BY DEF StockInv, Stock!TypeOK, Stock!Job
  <2> QED
    BY <1>2, <1>4, <2>1 DEF StockInv, StockJob, Stock!TypeOK
<1> QED
  BY <1>2, <1>3, <1>4, <1>5 DEF StockInv, OneAt, StockRow

(* A request looks at the tables and takes its lock. *)
LEMMA StockRequest ==
    ASSUME StockInv, NEW w \in Workers, Stock!Request(w)
    PROVE  StockInv'
<1>1. PICK k \in StockKeys, n \in Stock!Quantities :
          \/ Stock!CheckAvailable(w, k, n)
          \/ Stock!CheckLayers(w, k, n)
          \/ \E r \in StockKeys, place \in {"release", "fulfill"} :
               Stock!CheckOpen(w, k, r, place, n)
  BY DEF Stock!Request
<1>2. n \in Nat /\ n > 0
  BY SystemAssumption DEF Stock!Quantities
<1> DEFINE Asked ==
             /\ UNCHANGED <<layers, onHand, reserved, primary, compensated,
                            returned, stored, received>>
             /\ clerk[w] = "idle" /\ clerk' = [clerk EXCEPT ![w] = clerk'[w]]
             /\ job' = [job EXCEPT ![w] = job'[w]]
             /\ clerk'[w] \in Stock!Places /\ job'[w] \in Stock!Job
             /\ StockJob(w)'
             /\ clerk'[w] = "reserve" => \A v \in Workers : clerk[v] # "reserve"
             /\ clerk'[w] = "issue" => \A v \in Workers : clerk[v] # "issue"
<1>3. Asked
  <2>1. CASE Stock!CheckAvailable(w, k, n)
    BY <1>2, <2>1 DEF StockInv, Stock!TypeOK, Stock!CheckAvailable,
       Stock!Begin, Stock!RowLocked, Stock!stockVars, Stock!rowVars,
       Stock!Places, Stock!Job, StockJob
  <2>2. CASE Stock!CheckLayers(w, k, n)
    BY <1>2, <2>2 DEF StockInv, Stock!TypeOK, Stock!CheckLayers,
       Stock!Begin, Stock!LayersLocked, Stock!stockVars, Stock!rowVars,
       Stock!Places, Stock!Job, StockJob
  <2>3. ASSUME NEW r \in StockKeys, NEW place \in {"release", "fulfill"},
               Stock!CheckOpen(w, k, r, place, n)
        PROVE  Asked
    BY <1>2, <2>3 DEF StockInv, Stock!TypeOK, Stock!CheckOpen,
       Stock!Begin, Stock!stockVars, Stock!rowVars,
       Stock!Places, Stock!Job, StockJob
  <2> QED
    BY <1>1, <2>1, <2>2, <2>3
<1>4. Stock!TypeOK'
  BY <1>3 DEF StockInv, Stock!TypeOK
<1>5. Stock!ReservedIsSumOfRows'
  BY <1>3, SameRows
<1>6. \A v \in Workers \ {w} : clerk'[v] = clerk[v] /\ job'[v] = job[v]
  BY <1>3 DEF StockInv, Stock!TypeOK
<1>7. \A v \in Workers : StockJob(v)'
  BY <1>3, <1>6 DEF StockInv, StockJob
<1>8. OneAt("reserve")' /\ OneAt("issue")'
  BY <1>3, <1>6 DEF StockInv, OneAt
<1> QED
  BY <1>3, <1>4, <1>5, <1>7, <1>8 DEF StockInv, StockRow

(* The request is over: nothing depends on its worker any more. *)
LEMMA StockFinish ==
    ASSUME StockInv, NEW w \in Workers, Stock!Finish(w)
    PROVE  /\ clerk' \in [Workers -> Stock!Places]
           /\ job' \in [Workers -> Stock!Job \cup {Stock!NoJob}]
           /\ \A v \in Workers : clerk'[v] # "idle" => job'[v] \in Stock!Job
           /\ clerk'[w] = "idle"
           /\ \A v \in Workers \ {w} : clerk'[v] = clerk[v] /\ job'[v] = job[v]
           /\ OneAt("reserve")' /\ OneAt("issue")'
BY DEF StockInv, Stock!TypeOK, Stock!Finish, Stock!Places, OneAt

LEMMA StockAbort ==
    ASSUME StockInv, NEW w \in Workers, Stock!Abort(w)
    PROVE  StockInv'
<1>1. Stock!Finish(w) /\ UNCHANGED <<layers, onHand, reserved, primary,
                                     compensated, returned, stored, received>>
  BY DEF Stock!Abort, Stock!stockVars, Stock!rowVars
<1> QED
  BY <1>1, StockFinish, SameRows
  DEF StockInv, Stock!TypeOK, StockJob, StockRow

LEMMA StockReserve ==
    ASSUME StockInv, NEW w \in Workers, Stock!Reserve(w)
    PROVE  StockInv' /\ reserved' <= onHand'
<1> DEFINE k == job[w].key
           q == job[w].quantity
<1>1. /\ k \in StockKeys /\ q \in Nat \ {0} /\ job[w].of = k
      /\ k \notin stored /\ primary[k] = 0 /\ compensated[k] = 0 /\ returned[k] = 0
      /\ reserved + q <= onHand
  BY DEF StockInv, StockJob, StockRow, Stock!TypeOK, Stock!Reserve,
     Stock!StoreKey, Stock!Job
<1>2. /\ primary' = [primary EXCEPT ![k] = q] /\ reserved' = reserved + q
      /\ stored' = stored \cup {k}
      /\ Stock!Finish(w)
      /\ UNCHANGED <<layers, onHand, compensated, returned, received>>
  BY <1>1 DEF Stock!Reserve, Stock!StoreKey
<1>3. Stock!TypeOK'
  BY <1>1, <1>2, StockFinish DEF StockInv, Stock!TypeOK
<1>4. \A r \in StockKeys : StockRow(r)'
  BY <1>1, <1>2 DEF StockInv, Stock!TypeOK, StockRow
<1>5. \A v \in Workers \ {w} : clerk[v] # "reserve"
  BY DEF StockInv, OneAt, Stock!Reserve
<1>6. ASSUME NEW v \in Workers PROVE StockJob(v)'
  <2>1. CASE v = w
    BY <1>2, <2>1, StockFinish DEF StockJob
  <2>2. CASE v # w
    <3>1. clerk'[v] = clerk[v] /\ job'[v] = job[v] /\ StockJob(v)
      BY <1>2, <2>2, StockFinish DEF StockInv
    <3>2. clerk[v] # "idle" => job[v].of \in StockKeys /\ job[v].quantity \in Nat
      BY DEF StockInv, Stock!TypeOK, Stock!Job
    <3>3. clerk[v] \in {"release", "fulfill"} =>
             job[v].quantity <= primary'[job[v].of]
      BY <1>1, <1>2, <3>1, <3>2 DEF StockInv, Stock!TypeOK, StockJob
    <3> QED
      BY <1>2, <1>5, <2>2, <3>1, <3>3 DEF StockJob
  <2> QED
    BY <2>1, <2>2
<1>7. Stock!ReservedIsSumOfRows'
  <2>1. SumFunctionOnSet(HeldBy', StockKeys) = SumFunctionOnSet(HeldBy, StockKeys) + q
    <3>1. \A r \in StockKeys : HeldBy[r] \in Int /\ HeldBy'[r] \in Int
      BY <1>3, HeldByType DEF StockInv, HeldBy, Stock!TypeOK
    <3>2. HeldBy[k] = 0 /\ HeldBy'[k] = q /\ \A r \in StockKeys \ {k} : HeldBy'[r] = HeldBy[r]
      BY <1>1, <1>2 DEF StockInv, Stock!TypeOK, HeldBy
    <3>3. SumFunctionOnSet(HeldBy', StockKeys) =
             SumFunctionOnSet(HeldBy, StockKeys) - HeldBy[k] + HeldBy'[k]
      BY <1>1, <3>1, <3>2, SumUpdate, SystemAssumption
    <3>4. SumFunctionOnSet(HeldBy, StockKeys) \in Int
      BY <3>1, SumType, SystemAssumption
    <3> QED
      BY <1>1, <3>2, <3>3, <3>4
  <2> QED
    BY <1>1, <1>2, <2>1, StockSum DEF StockInv, Stock!ReservedIsSumOfRows, HeldBy
<1> QED
  BY <1>1, <1>2, <1>3, <1>4, <1>6, <1>7, StockFinish DEF StockInv

(* A release or a fulfilment gives back what the reservation holds: the    *)
(* floor under quantity_reserved is not reached as long as nothing is      *)
(* compensated twice.                                                      *)
LEMMA StockCompensate ==
    ASSUME StockInv, NEW w \in Workers, clerk[w] \in {"release", "fulfill"},
           Stock!Compensate(w), UNCHANGED <<layers, primary, received>>,
           onHand' \in Nat
    PROVE  StockInv'
<1> DEFINE r == job[w].of
           q == job[w].quantity
<1>1. /\ r \in StockKeys /\ q \in Nat \ {0} /\ primary[r] \in Nat
      /\ q <= primary[r]
      /\ stored \subseteq stored' /\ stored' \in SUBSET StockKeys
      /\ compensated' = [compensated EXCEPT ![r] = @ + 1]
      /\ returned' = [returned EXCEPT ![r] = @ + q]
      /\ reserved' = Stock!Floor(reserved - q)
      /\ Stock!Finish(w)
      /\ \A v \in Workers : clerk[v] # "reserve"
  BY DEF StockInv, StockJob, Stock!TypeOK, Stock!Job, Stock!Compensate,
     Stock!StoreKey, Stock!RowLocked
<1>2. Stock!TypeOK'
  <2>1. reserved' \in Nat
    BY <1>1 DEF StockInv, Stock!TypeOK, Stock!Floor
  <2> QED
    BY <1>1, <2>1, StockFinish DEF StockInv, Stock!TypeOK
<1>3. ASSUME NEW k \in StockKeys PROVE StockRow(k)'
  <2>1. primary[k] \in Nat /\ compensated[k] \in Nat /\ returned[k] \in Nat
    BY DEF StockInv, Stock!TypeOK
  <2>2. StockRow(k)
    BY DEF StockInv
  <2>3. CASE k = r
    BY <1>1, <2>1, <2>2, <2>3 DEF StockInv, Stock!TypeOK, StockRow
  <2>4. CASE k # r
    BY <1>1, <2>1, <2>2, <2>4 DEF StockInv, Stock!TypeOK, StockRow
  <2> QED
    BY <2>3, <2>4
<1>4. ASSUME NEW v \in Workers PROVE StockJob(v)'
  <2>1. CASE v = w
    BY <1>1, <2>1, StockFinish DEF StockJob
  <2>2. CASE v # w
    BY <1>1, <2>2, StockFinish DEF StockInv, StockJob
  <2> QED
    BY <2>1, <2>2
<1>5. Stock!ReservedIsSumOfRows'
  <2> SUFFICES ASSUME \A k \in StockKeys : compensated'[k] <= 1
               PROVE  reserved' = SumFunctionOnSet(HeldBy', StockKeys)
    BY StockSum DEF Stock!ReservedIsSumOfRows, HeldBy
  <2>1. /\ compensated[r] = 0 /\ returned[r] = 0
        /\ \A k \in StockKeys : compensated[k] <= 1
    <3>1. compensated \in [StockKeys -> Nat] /\ StockRow(r)
      BY <1>1 DEF StockInv, Stock!TypeOK
    <3>2. \A k \in StockKeys : compensated'[k] =
             IF k = r THEN compensated[k] + 1 ELSE compensated[k]
      BY <1>1, <3>1
    <3> QED
      BY <1>1, <3>1, <3>2 DEF StockRow
  <2>2. reserved = SumFunctionOnSet(HeldBy, StockKeys)
    BY <2>1, StockSum DEF StockInv, Stock!ReservedIsSumOfRows, HeldBy
  <2>3. /\ \A k \in StockKeys : HeldBy[k] \in Nat /\ HeldBy'[k] \in Int
        /\ HeldBy[r] = primary[r] /\ HeldBy'[r] = primary[r] - q
        /\ \A k \in StockKeys \ {r} : HeldBy'[k] = HeldBy[k]
    <3>1. \A k \in StockKeys : HeldBy[k] \in Nat
      BY <2>1 DEF StockInv, Stock!TypeOK, StockRow, HeldBy
    <3>2. \A k \in StockKeys : HeldBy'[k] \in Int
      BY <1>2, HeldByType DEF HeldBy, Stock!TypeOK
    <3> QED
      BY <1>1, <2>1, <3>1, <3>2 DEF StockInv, Stock!TypeOK, HeldBy
  <2>4. SumFunctionOnSet(HeldBy', StockKeys) = reserved - q
    <3>1. SumFunctionOnSet(HeldBy', StockKeys) =
             SumFunctionOnSet(HeldBy, StockKeys) - HeldBy[r] + HeldBy'[r]
      BY <1>1, <2>3, SumUpdate, SystemAssumption
    <3> QED
      BY <1>1, <2>2, <2>3, <3>1 DEF StockInv, Stock!TypeOK
  <2>5. q <= reserved
    <3>1. SumFunctionOnSet(HeldBy, StockKeys) =
             HeldBy[r] + SumFunctionOnSet(HeldBy, StockKeys \ {r})
      BY <1>1, <2>3, SumRemove, SystemAssumption
    <3>2. SumFunctionOnSet(HeldBy, StockKeys \ {r}) \in Nat
      BY <2>3, SumNat, FS_RemoveElement, SystemAssumption
    <3> QED
      BY <1>1, <2>2, <2>3, <3>1, <3>2
  <2> QED
    BY <1>1, <2>4, <2>5 DEF StockInv, Stock!TypeOK, Stock!Floor
<1> QED
  BY <1>1, <1>2, <1>3, <1>4, <1>5, StockFinish DEF StockInv

LEMMA StockIssue ==
    ASSUME StockInv, NEW w \in Workers, Stock!Issue(w)
    PROVE  StockInv'
<1>1. /\ job[w].quantity \in Nat /\ job[w].seen \in Nat
      /\ job[w].quantity <= job[w].seen /\ job[w].seen <= layers
      /\ layers' = layers - job[w].quantity
      /\ onHand' = job[w].seen - job[w].quantity
      /\ stored \subseteq stored' /\ stored' \in SUBSET StockKeys
      /\ Stock!Finish(w)
      /\ UNCHANGED <<reserved, primary, compensated, returned, received>>
      /\ \A v \in Workers : clerk[v] # "reserve"
      /\ \A v \in Workers \ {w} : clerk[v] # "issue"
  BY DEF StockInv, StockJob, OneAt, Stock!TypeOK, Stock!Job, Stock!Issue,
     Stock!StoreKey, Stock!RowLocked, Stock!rowVars
<1>2. Stock!TypeOK'
  BY <1>1, StockFinish DEF StockInv, Stock!TypeOK
<1>3. ASSUME NEW v \in Workers PROVE StockJob(v)'
  <2>1. CASE v = w
    BY <1>1, <2>1, StockFinish DEF StockJob
  <2>2. CASE v # w
    BY <1>1, <2>2, StockFinish DEF StockInv, StockJob
  <2> QED
    BY <2>1, <2>2
<1>4. \A k \in StockKeys : StockRow(k)'
  BY <1>1 DEF StockInv, StockRow
<1> QED
  BY <1>1, <1>2, <1>3, <1>4, SameRows, StockFinish DEF StockInv

LEMMA StockStep ==
    StockInv /\ [Stock!Next]_(Stock!vars) =>
        /\ StockInv'
        /\ \A k \in StockKeys :
              primary[k] = 0 /\ primary'[k] > 0 => reserved' <= onHand'
<1> SUFFICES ASSUME StockInv, [Stock!Next]_(Stock!vars)
             PROVE  /\ StockInv'
                    /\ primary' = primary \/ reserved' <= onHand'
  BY DEF StockInv, Stock!TypeOK
<1>1. CASE \E n \in Stock!Quantities : Stock!Receive(n)
  BY <1>1, StockReceive DEF Stock!Receive, Stock!rowVars
<1>2. ASSUME NEW w \in Workers, Stock!Request(w)
      PROVE  StockInv' /\ primary' = primary
  BY <1>2, StockRequest DEF Stock!Request, Stock!CheckAvailable,
     Stock!CheckLayers, Stock!CheckOpen, Stock!rowVars
<1>3. ASSUME NEW w \in Workers, Stock!Abort(w)
      PROVE  StockInv' /\ primary' = primary
  BY <1>3, StockAbort DEF Stock!Abort, Stock!rowVars
<1>4. ASSUME NEW w \in Workers, Stock!Reserve(w)
      PROVE  StockInv' /\ reserved' <= onHand'
  BY <1>4, StockReserve
<1>5. ASSUME NEW w \in Workers, Stock!Release(w)
      PROVE  StockInv' /\ primary' = primary
  BY <1>5, StockCompensate DEF Stock!Release, StockInv, Stock!TypeOK
<1>6. ASSUME NEW w \in Workers, Stock!Fulfill(w)
      PROVE  StockInv' /\ primary' = primary
  <2>1. onHand' \in Nat
    BY <1>6 DEF Stock!Fulfill, Stock!Floor, StockInv, Stock!TypeOK, Stock!Job
  <2> QED
    BY <1>6, <2>1, StockCompensate DEF Stock!Fulfill
<1>7. ASSUME NEW w \in Workers, Stock!Issue(w)
      PROVE  StockInv' /\ primary' = primary
  BY <1>7, StockIssue DEF Stock!Issue, Stock!rowVars
<1>8. CASE UNCHANGED Stock!vars
  BY <1>8 DEF Stock!vars, Stock!stockVars, Stock!rowVars, StockInv, StockJob,
     OneAt, StockRow, Stock!TypeOK, Stock!ReservedIsSumOfRows
<1> QED
  BY <1>1, <1>2, <1>3, <1>4, <1>5, <1>6, <1>7, <1>8 DEF Stock!Next

(* In every state, and in every step that grants a reservation. *)
LEMMA StockSpec == Stock!Spec => []StockInv /\ Stock!ReservationCovered
<1>1. StockInv /\ [Stock!Next]_(Stock!vars) => StockInv'
  BY StockStep
<1>2. /\ StockInv
      /\ [Stock!Next]_(Stock!vars)
      => [\A k \in StockKeys :
            primary[k] = 0 /\ primary'[k] > 0 => reserved' <= onHand']_(Stock!vars)
  BY StockStep
<1> QED
  BY <1>1, <1>2, StockInit, PTL DEF Stock!Spec, Stock!ReservationCovered

-----------------------------------------------------------------------------
(***************************************************************************)
(* Session leases.                                                         *)
(*                                                                         *)
(* The tenant's advisory lock keeps the count true until the lease is      *)
(* created; what other requests do to leases in the meantime frees seats,  *)
(* except that a lapsed lease may be revived by a refresh, and those are   *)
(* not counted.                                                            *)
(***************************************************************************)
LEMMA Image ==
    ASSUME NEW S, IsFiniteSet(S), NEW f
    PROVE  /\ IsFiniteSet({f[x] : x \in S})
           /\ Cardinality({f[x] : x \in S}) <= Cardinality(S)
<1> DEFINE T == {f[x] : x \in S}
           g == [x \in S |-> f[x]]
<1>1. g \in Surjection(S, T)
  BY DEF Surjection
<1> QED
  BY <1>1, FS_Surjection

LEMMA SeatsCardinality ==
    \A S : Seats!Cardinality(S) = Cardinality(S)
BY DEF Seats!Cardinality, Seats!IsFiniteSet, Cardinality, IsFiniteSet

(* The leases that were counted. *)
Occupied == {l \in leases : l.live /\ l.recent /\ ~l.revived}

(* A lease belongs to the user of its token, and so does a request. *)
LeaseOfUser == \A l \in leases : \E t \in tokens : t.id = l.session /\ t.user = l.user
TokenOfUser == \A t, u \in tokens : t.id = u.id => t.user = u.user
AboutUser(w) ==
    /\ session[w] # "idle" => about[w].user \in Users
    /\ about[w].id <= lastToken
    /\ \A t \in tokens : t.id = about[w].id => t.user = about[w].user

LockHeld(w) == session[w] \in {"locked", "counted"}

SeatInv ==
    /\ Seats!TypeOK
    /\ IsFiniteSet(leases)
    /\ LeaseOfUser /\ TokenOfUser
    /\ \A w \in Workers : AboutUser(w)
    /\ \A v, w \in Workers : LockHeld(v) /\ LockHeld(w) => v = w
    /\ Cardinality(Occupied) <= SeatLimit
    /\ \A w \in Workers :
          session[w] = "counted" => Cardinality(Occupied) < SeatLimit

LEMMA SeatsInit == Seats!Init => SeatInv
<1> SUFFICES ASSUME Seats!Init PROVE SeatInv
  OBVIOUS
<1>1. Seats!TypeOK
  BY SystemAssumption DEF Seats!Init, Seats!TypeOK, Seats!Places, Seats!None
<1>2. Occupied = {}
  BY DEF Seats!Init, Occupied
<1>3. IsFiniteSet({}) /\ Cardinality({}) = 0
  BY FS_EmptySet
<1> QED
  BY <1>1, <1>2, <1>3, SystemAssumption DEF Seats!Init, SeatInv, LeaseOfUser,
     TokenOfUser, AboutUser, LockHeld, Seats!None

(* Where the leases counted become no more, the count stays good. *)
LEMMA FewerSeats ==
    ASSUME SeatInv, IsFiniteSet(leases'), NEW w \in Workers,
           Occupied' \subseteq Occupied,
           \A v \in Workers \ {w} : session'[v] = session[v],
           ~LockHeld(w)'
    PROVE  /\ \A u, v \in Workers : LockHeld(u)' /\ LockHeld(v)' => u = v
           /\ Cardinality(Occupied') <= SeatLimit
           /\ \A v \in Workers :
                 session'[v] = "counted" => Cardinality(Occupied') < SeatLimit
<1>1. IsFiniteSet(Occupied)
  BY FS_Subset DEF SeatInv, Occupied
<1>2. Cardinality(Occupied') <= Cardinality(Occupied)
  BY <1>1, FS_Subset
<1>3. Cardinality(Occupied) \in Nat /\ Cardinality(Occupied') \in Nat
  BY <1>1, FS_Subset, FS_CardinalityType
<1> QED
  BY <1>2, <1>3, SystemAssumption DEF SeatInv, LockHeld

LEMMA SeatsFinish ==
    ASSUME Seats!TypeOK, NEW w \in Workers, Seats!Finish(w)
    PROVE  /\ session' \in [Workers -> Seats!Places]
           /\ about' \in [Workers ->
                  [id : 0 .. MaxTokens, user : Users \cup {"none"}]]
           /\ session'[w] = "idle" /\ about'[w].id = 0
           /\ \A v \in Workers \ {w} :
                 session'[v] = session[v] /\ about'[v] = about[v]
<1>1. Seats!None \in [id : 0 .. MaxTokens, user : Users \cup {"none"}]
  BY SystemAssumption DEF Seats!None
<1> QED
  BY <1>1 DEF Seats!TypeOK, Seats!Finish, Seats!Places, Seats!None

(* A request that goes on, or ends, and writes nothing. *)
LEMMA SeatsQuiet ==
    ASSUME SeatInv, NEW w \in Workers, Seats!Finish(w),
           UNCHANGED <<tokens, leases, lastToken>>
    PROVE  SeatInv'
<1>1. Seats!TypeOK'
  BY SeatsFinish DEF SeatInv, Seats!TypeOK
<1>2. \A v \in Workers : AboutUser(v)'
  BY DEF SeatInv, Seats!TypeOK, Seats!Finish, Seats!None, Seats!Token, Seats!Ids, AboutUser
<1> QED
  BY <1>1, <1>2, FewerSeats DEF SeatInv, Seats!TypeOK, Seats!Finish, LockHeld,
     LeaseOfUser, TokenOfUser, Occupied

(* A request begins: what it is about is a token's or a user's. *)
LEMMA SeatsBegin ==
    ASSUME SeatInv, NEW w \in Workers, NEW place \in Seats!Places,
           NEW r \in [id : 0 .. MaxTokens, user : Users],
           Seats!Begin(w, place, r), UNCHANGED <<leases, lastToken>>,
           r.id <= lastToken,
           \A t \in tokens : t.id = r.id => t.user = r.user,
           tokens' \in SUBSET Seats!Token,
           \A t \in tokens' : \E u \in tokens : t.id = u.id /\ t.user = u.user,
           \A t \in tokens : \E u \in tokens' : t.id = u.id /\ t.user = u.user,
           place # "counted",
           place = "locked" => \A v \in Workers : ~LockHeld(v)
    PROVE  SeatInv'
<1>1. /\ session' = [session EXCEPT ![w] = place]
      /\ about' = [about EXCEPT ![w] = r]
      /\ session \in [Workers -> Seats!Places]
      /\ about \in [Workers ->
            [id : 0 .. MaxTokens, user : Users \cup {"none"}]]
      /\ r \in [id : 0 .. MaxTokens, user : Users \cup {"none"}]
  BY DEF SeatInv, Seats!TypeOK, Seats!Begin
<1>2. Seats!TypeOK'
  <2>1. \A l \in leases : \E t \in tokens' : t.id = l.session
    BY DEF SeatInv, Seats!TypeOK
  <2>2. \A t \in tokens' : t.id <= lastToken
    BY DEF SeatInv, Seats!TypeOK
  <2> QED
    BY <1>1, <2>1, <2>2 DEF SeatInv, Seats!TypeOK
<1>3. LeaseOfUser' /\ TokenOfUser'
  BY DEF SeatInv, LeaseOfUser, TokenOfUser
<1>4. ASSUME NEW v \in Workers PROVE AboutUser(v)'
  <2>1. CASE v = w
    BY <1>1, <2>1 DEF AboutUser
  <2>2. CASE v # w
    BY <1>1, <2>2 DEF SeatInv, AboutUser
  <2> QED
    BY <2>1, <2>2
<1>5. Occupied' = Occupied
  BY DEF Occupied
<1> QED
  BY <1>1, <1>2, <1>3, <1>4, <1>5 DEF SeatInv, LockHeld

LEMMA SeatsRequest ==
    ASSUME SeatInv, NEW w \in Workers, Seats!Request(w)
    PROVE  SeatInv'
<1>1. ASSUME NEW u \in Users, Seats!AcquireTenantLock(w, u)
      PROVE  SeatInv'
  <2> DEFINE r == [id |-> 0, user |-> u]
  <2>1. r \in [id : 0 .. MaxTokens, user : Users] /\ r.id <= lastToken
    BY SystemAssumption DEF SeatInv, Seats!TypeOK
  <2>2. \A t \in tokens : t.id # r.id
    BY DEF SeatInv, Seats!TypeOK, Seats!Token, Seats!Ids
  <2>3. Seats!Begin(w, "locked", r) /\ UNCHANGED <<tokens, leases, lastToken>>
    BY <1>1 DEF Seats!AcquireTenantLock
  <2>4. \A v \in Workers : ~LockHeld(v)
    BY <1>1 DEF Seats!AcquireTenantLock, Seats!TenantLocked, LockHeld
  <2> HIDE DEF r
  <2> QED
    BY <2>1, <2>2, <2>3, <2>4, SeatsBegin DEF SeatInv, Seats!TypeOK, Seats!Places
<1>2. ASSUME NEW u \in Users, Seats!ResetPassword(w, u)
      PROVE  SeatInv'
  <2> DEFINE r == [id |-> 0, user |-> u]
  <2>1. r \in [id : 0 .. MaxTokens, user : Users] /\ r.id <= lastToken
    BY SystemAssumption DEF SeatInv, Seats!TypeOK
  <2>2. \A t \in tokens : t.id # r.id
    BY DEF SeatInv, Seats!TypeOK, Seats!Token, Seats!Ids
  <2>3. Seats!Begin(w, "unseat", r) /\ UNCHANGED <<tokens, leases, lastToken>>
    BY <1>2 DEF Seats!ResetPassword
  <2> HIDE DEF r
  <2> QED
    BY <2>1, <2>2, <2>3, SeatsBegin DEF SeatInv, Seats!TypeOK, Seats!Places
<1> DEFINE About(t) == [id |-> t.id, user |-> t.user]
<1>3. ASSUME NEW t \in tokens
      PROVE  /\ About(t) \in [id : 0 .. MaxTokens, user : Users]
             /\ About(t).id <= lastToken
             /\ \A u \in tokens : u.id = About(t).id => u.user = About(t).user
  BY SystemAssumption DEF SeatInv, Seats!TypeOK, Seats!Token, Seats!Ids, TokenOfUser
<1>4. ASSUME NEW t \in tokens, Seats!ReadToken(w, t)
      PROVE  SeatInv'
  <2>1. Seats!Begin(w, "rotate", About(t)) /\ UNCHANGED <<tokens, leases, lastToken>>
    BY <1>4 DEF Seats!ReadToken
  <2>2. tokens \in SUBSET Seats!Token
    BY DEF SeatInv, Seats!TypeOK
  <2> HIDE DEF About
  <2> QED
    BY <1>3, <2>1, <2>2, SeatsBegin DEF Seats!Places
<1>5. ASSUME NEW t \in tokens, Seats!RevokeToken(w, t)
      PROVE  SeatInv'
  <2> DEFINE u == [t EXCEPT !.live = FALSE]
  <2>1. u \in Seats!Token /\ u.id = t.id /\ u.user = t.user
    BY DEF SeatInv, Seats!TypeOK, Seats!Token
  <2>2. /\ Seats!Begin(w, "unlease", About(t)) /\ UNCHANGED <<leases, lastToken>>
        /\ tokens' = (tokens \ {t}) \cup {u}
    BY <1>5 DEF Seats!RevokeToken
  <2> HIDE DEF u
  <2>3. /\ tokens' \in SUBSET Seats!Token
        /\ \A x \in tokens' : \E y \in tokens : x.id = y.id /\ x.user = y.user
        /\ \A x \in tokens : \E y \in tokens' : x.id = y.id /\ x.user = y.user
    BY <2>1, <2>2 DEF SeatInv, Seats!TypeOK
  <2> HIDE DEF About
  <2> QED
    BY <1>3, <2>2, <2>3, SeatsBegin DEF Seats!Places
<1> QED
  BY <1>1, <1>2, <1>4, <1>5 DEF Seats!Request

LEMMA SeatsCount ==
    ASSUME SeatInv, NEW w \in Workers, Seats!CountLeases(w)
    PROVE  SeatInv'
<1>1. CASE Seats!Finish(w)
  BY <1>1, SeatsQuiet DEF Seats!CountLeases
<1>2. CASE Cardinality(Seats!Active) < SeatLimit /\ Seats!Goto(w, "counted")
  <2>1. /\ session' = [session EXCEPT ![w] = "counted"] /\ session[w] = "locked"
        /\ UNCHANGED <<tokens, leases, lastToken, about>>
    BY <1>2 DEF Seats!CountLeases, Seats!Goto
  <2>2. Seats!TypeOK'
    BY <2>1 DEF SeatInv, Seats!TypeOK, Seats!Places
  <2>3. Cardinality(Occupied) < SeatLimit
    <3>1. IsFiniteSet(Seats!Active) /\ Occupied \subseteq Seats!Active
      BY FS_Subset DEF SeatInv, Seats!Active, Occupied
    <3>2. /\ Cardinality(Occupied) <= Cardinality(Seats!Active)
          /\ Cardinality(Occupied) \in Nat /\ Cardinality(Seats!Active) \in Nat
      BY <3>1, FS_Subset, FS_CardinalityType
    <3> QED
      BY <1>2, <3>2, SystemAssumption
  <2>4. \A u, v \in Workers : LockHeld(u)' /\ LockHeld(v)' => u = v
    BY <2>1 DEF SeatInv, Seats!TypeOK, LockHeld
  <2> QED
    BY <2>1, <2>2, <2>3, <2>4 DEF SeatInv, Seats!TypeOK, LeaseOfUser,
       TokenOfUser, AboutUser, Occupied
<1> QED
  BY <1>1, <1>2, SeatsCardinality DEF Seats!CountLeases

(* The new token, which no request can be about yet. *)
LEMMA SeatsNewToken ==
    ASSUME SeatInv, Seats!Issue, NEW u \in Users, NEW kept \in SUBSET Seats!Token,
           \A t \in kept : \E x \in tokens : x.id = t.id /\ x.user = t.user,
           tokens' = kept \cup {Seats!NewToken(u)}
    PROVE  /\ lastToken' = lastToken + 1 /\ lastToken' \in 1 .. MaxTokens
           /\ tokens' \in SUBSET Seats!Token
           /\ \A t \in tokens' : t.id <= lastToken'
           /\ \E t \in tokens' : t.id = lastToken' /\ t.user = u
           /\ TokenOfUser'
           /\ \A v \in Workers, t \in tokens' :
                 t.id = about[v].id => t.user = about[v].user
<1>1. /\ lastToken \in Nat /\ lastToken < MaxTokens /\ lastToken' = lastToken + 1
      /\ lastToken' \in 1 .. MaxTokens
  BY SystemAssumption DEF SeatInv, Seats!TypeOK, Seats!Issue
<1> DEFINE n == Seats!NewToken(u)
<1>2. n \in Seats!Token /\ n.id = lastToken + 1 /\ n.user = u
  BY <1>1 DEF Seats!NewToken, Seats!Token, Seats!Ids
<1> HIDE DEF n
<1>3. \A t \in kept : t.id \in Int /\ t.id <= lastToken
  BY DEF SeatInv, Seats!TypeOK, Seats!Token, Seats!Ids
<1>4. \A v \in Workers : about[v].id \in Int /\ about[v].id <= lastToken
  BY DEF SeatInv, Seats!TypeOK, AboutUser
<1>5. \A t, x \in kept : t.id = x.id => t.user = x.user
  BY DEF SeatInv, TokenOfUser
<1>6. tokens' = kept \cup {n}
  BY DEF n
<1>7. TokenOfUser'
  BY <1>1, <1>2, <1>3, <1>5, <1>6 DEF TokenOfUser
<1>8. ASSUME NEW v \in Workers, NEW t \in tokens', t.id = about[v].id
      PROVE  t.user = about[v].user
  BY <1>1, <1>2, <1>3, <1>4, <1>6, <1>8 DEF SeatInv, AboutUser
<1> QED
  BY <1>1, <1>2, <1>3, <1>6, <1>7, <1>8

LEMMA SeatsCreate ==
    ASSUME SeatInv, NEW w \in Workers, Seats!CreateLease(w)
    PROVE  SeatInv'
<1> DEFINE u == about[w].user
           l == [session |-> lastToken + 1, user |-> u,
                 live |-> TRUE, recent |-> TRUE, revived |-> FALSE]
<1>1. /\ session[w] = "counted" /\ u \in Users
      /\ Seats!Issue /\ Seats!Finish(w)
      /\ tokens' = tokens \cup {Seats!NewToken(u)}
      /\ leases' = leases \cup {l}
  BY DEF SeatInv, AboutUser, Seats!CreateLease
<1>2. /\ lastToken' = lastToken + 1 /\ lastToken' \in 1 .. MaxTokens
      /\ tokens' \in SUBSET Seats!Token
      /\ \A t \in tokens' : t.id <= lastToken'
      /\ \E t \in tokens' : t.id = lastToken' /\ t.user = u
      /\ TokenOfUser'
      /\ \A v \in Workers, t \in tokens' :
            t.id = about[v].id => t.user = about[v].user
  <2>1. tokens \in SUBSET Seats!Token
    BY DEF SeatInv, Seats!TypeOK
  <2> HIDE DEF u
  <2> QED
    BY <1>1, <2>1, SeatsNewToken
<1>3. l \in Seats!Lease /\ l.session = lastToken' /\ l.user = u
  BY <1>1, <1>2 DEF Seats!Lease, Seats!Ids
<1> HIDE DEF l
<1>4. LeaseOfUser'
  BY <1>1, <1>2, <1>3 DEF SeatInv, LeaseOfUser
<1>5. Seats!TypeOK'
  <2>1. \A x \in leases' : \E t \in tokens' : t.id = x.session
    BY <1>4 DEF LeaseOfUser
  <2>2. leases' \in SUBSET Seats!Lease
    BY <1>1, <1>3 DEF SeatInv, Seats!TypeOK
  <2> QED
    BY <1>1, <1>2, <2>1, <2>2, SeatsFinish DEF SeatInv, Seats!TypeOK
<1>6. ASSUME NEW v \in Workers PROVE AboutUser(v)'
  <2>1. CASE v = w
    BY <1>1, <1>2, <2>1, SeatsFinish DEF SeatInv, AboutUser, Seats!Token, Seats!Ids
  <2>2. CASE v # w
    BY <1>1, <1>2, <2>2, SeatsFinish DEF SeatInv, AboutUser, Seats!TypeOK
  <2> QED
    BY <2>1, <2>2
<1>7. /\ IsFiniteSet(leases')
      /\ Cardinality(Occupied') <= SeatLimit
  <2>1. IsFiniteSet(Occupied)
    BY FS_Subset DEF SeatInv, Occupied
  <2>2. Occupied' \subseteq Occupied \cup {l}
    BY <1>1 DEF Occupied
  <2>3. /\ IsFiniteSet(Occupied \cup {l})
        /\ Cardinality(Occupied \cup {l}) <= Cardinality(Occupied) + 1
    <3>1. /\ IsFiniteSet(Occupied \cup {l})
          /\ Cardinality(Occupied \cup {l}) =
                IF l \in Occupied THEN Cardinality(Occupied)
                                 ELSE Cardinality(Occupied) + 1
      BY <2>1, FS_AddElement
    <3>2. Cardinality(Occupied) \in Nat
      BY <2>1, FS_CardinalityType
    <3> QED
      BY <3>1, <3>2
  <2>4. /\ Cardinality(Occupied') <= Cardinality(Occupied \cup {l})
        /\ Cardinality(Occupied) \in Nat /\ Cardinality(Occupied') \in Nat
        /\ Cardinality(Occupied \cup {l}) \in Nat
    BY <2>1, <2>2, <2>3, FS_Subset, FS_CardinalityType
  <2>5. Cardinality(Occupied) < SeatLimit
    BY <1>1 DEF SeatInv
  <2> QED
    BY <1>1, <2>3, <2>4, <2>5, FS_AddElement, SystemAssumption DEF SeatInv
<1>8. \A v \in Workers : ~LockHeld(v)'
  BY <1>1, <1>5, SeatsFinish DEF SeatInv, Seats!TypeOK, LockHeld
<1> QED
  BY <1>2, <1>4, <1>5, <1>6, <1>7, <1>8 DEF SeatInv, LockHeld

(* A refresh moves leases to the new token; none is counted that was not.  *)
LEMMA SeatsRotate ==
    ASSUME SeatInv, NEW w \in Workers, Seats!RotateLease(w)
    PROVE  SeatInv'
<1> DEFINE u == about[w].user
           old == about[w].id
           kept == {IF t.id = old THEN [t EXCEPT !.live = FALSE] ELSE t
                       : t \in tokens}
           move == [l \in leases |-> Seats!Rotated(l, old)]
<1>1. /\ session[w] = "rotate" /\ u \in Users
      /\ Seats!Issue /\ Seats!Finish(w)
      /\ tokens' = kept \cup {Seats!NewToken(u)}
      /\ leases' = {move[l] : l \in leases}
  BY DEF SeatInv, AboutUser, Seats!RotateLease
<1>2. /\ kept \in SUBSET Seats!Token
      /\ \A t \in kept : \E x \in tokens : x.id = t.id /\ x.user = t.user
      /\ \A t \in tokens : \E x \in kept : x.id = t.id /\ x.user = t.user
  <2>1. ASSUME NEW t \in tokens
        PROVE  LET x == IF t.id = old THEN [t EXCEPT !.live = FALSE] ELSE t IN
               x \in Seats!Token /\ x.id = t.id /\ x.user = t.user
    BY DEF SeatInv, Seats!TypeOK, Seats!Token
  <2> QED
    BY <2>1
<1> HIDE DEF kept
<1>3. /\ lastToken' = lastToken + 1 /\ lastToken' \in 1 .. MaxTokens
      /\ tokens' \in SUBSET Seats!Token
      /\ \A t \in tokens' : t.id <= lastToken'
      /\ \E t \in tokens' : t.id = lastToken' /\ t.user = u
      /\ TokenOfUser'
      /\ \A v \in Workers, t \in tokens' :
            t.id = about[v].id => t.user = about[v].user
  <2> HIDE DEF u
  <2> QED
    BY <1>1, <1>2, SeatsNewToken
<1>4. ASSUME NEW l \in leases
      PROVE  /\ move[l] \in Seats!Lease /\ move[l].user = l.user
             /\ \/ move[l].session = l.session
                \/ move[l].session = lastToken' /\ l.session = old
             /\ move[l].live /\ move[l].recent /\ ~move[l].revived
                => l.live /\ l.recent /\ ~l.revived
  <2>1. l \in Seats!Lease /\ lastToken + 1 \in Seats!Ids
    BY <1>3 DEF SeatInv, Seats!TypeOK, Seats!Ids
  <2>2. CASE l.session = old /\ l.live
    <3> DEFINE r == [l EXCEPT !.session = lastToken + 1, !.recent = TRUE,
                              !.revived = @ \/ ~l.recent]
    <3>1. /\ r \in Seats!Lease /\ r.user = l.user /\ r.session = lastToken + 1
          /\ r.revived = (l.revived \/ ~l.recent)
      BY <2>1 DEF Seats!Lease
    <3>2. move[l] = r
      BY <2>2 DEF Seats!Rotated
    <3> HIDE DEF r, move
    <3> QED
      BY <1>3, <2>2, <3>1, <3>2
  <2>3. CASE ~ (l.session = old /\ l.live)
    BY <2>1, <2>3 DEF Seats!Rotated
  <2> QED
    BY <2>2, <2>3
<1>5. LeaseOfUser'
  <2> SUFFICES ASSUME NEW l \in leases
               PROVE  \E t \in tokens' : t.id = move[l].session /\ t.user = move[l].user
    BY <1>1 DEF LeaseOfUser
  <2>1. PICK t \in tokens : t.id = l.session /\ t.user = l.user
    BY DEF SeatInv, LeaseOfUser
  <2>2. CASE move[l].session = l.session
    BY <1>1, <1>2, <1>4, <2>1, <2>2
  <2>3. CASE move[l].session = lastToken' /\ l.session = old
    <3>1. l.user = u
      BY <2>1, <2>3 DEF SeatInv, AboutUser
    <3> QED
      BY <1>3, <1>4, <2>3, <3>1
  <2> QED
    BY <1>4, <2>2, <2>3
<1>6. Seats!TypeOK'
  <2>1. leases' \in SUBSET Seats!Lease
    BY <1>1, <1>4
  <2>2. \A x \in leases' : \E t \in tokens' : t.id = x.session
    BY <1>5 DEF LeaseOfUser
  <2> QED
    BY <1>1, <1>3, <2>1, <2>2, SeatsFinish DEF SeatInv, Seats!TypeOK
<1>7. ASSUME NEW v \in Workers PROVE AboutUser(v)'
  <2>1. CASE v = w
    BY <1>1, <1>3, <2>1, SeatsFinish DEF SeatInv, AboutUser, Seats!Token, Seats!Ids
  <2>2. CASE v # w
    BY <1>1, <1>3, <2>2, SeatsFinish DEF SeatInv, AboutUser, Seats!TypeOK
  <2> QED
    BY <2>1, <2>2
<1>8. /\ IsFiniteSet(leases')
      /\ Cardinality(Occupied') <= Cardinality(Occupied)
      /\ Cardinality(Occupied) \in Nat /\ Cardinality(Occupied') \in Nat
  <2> HIDE DEF move
  <2>1. IsFiniteSet(leases') /\ IsFiniteSet(Occupied)
    BY <1>1, Image, FS_Subset DEF SeatInv, Occupied
  <2>2. Occupied' \subseteq {move[l] : l \in Occupied}
    BY <1>1, <1>4 DEF Occupied
  <2>3. /\ IsFiniteSet({move[l] : l \in Occupied})
        /\ Cardinality({move[l] : l \in Occupied}) <= Cardinality(Occupied)
    BY <2>1, Image
  <2>4. /\ Cardinality(Occupied') <= Cardinality({move[l] : l \in Occupied})
        /\ IsFiniteSet(Occupied')
    BY <2>2, <2>3, FS_Subset
  <2> QED
    BY <2>1, <2>3, <2>4, FS_CardinalityType
<1>9. /\ \A v \in Workers \ {w} : session'[v] = session[v]
      /\ session'[w] = "idle"
  BY <1>1, SeatsFinish DEF SeatInv
<1> QED
  BY <1>3, <1>5, <1>6, <1>7, <1>8, <1>9, SystemAssumption DEF SeatInv, LockHeld

(* Leases and tokens go, or are written without becoming counted. *)
LEMMA SeatsLess ==
    ASSUME SeatInv, NEW w \in Workers, UNCHANGED lastToken,
           Seats!TypeOK', IsFiniteSet(leases'), Occupied' \subseteq Occupied,
           LeaseOfUser', tokens' \subseteq tokens,
           \A v \in Workers \ {w} : session'[v] = session[v] /\ about'[v] = about[v],
           session'[w] \in {"idle", "forget"},
           about'[w].id \in {0, about[w].id}, 
           session'[w] # "idle" => session[w] # "idle" /\ about'[w] = about[w],
           about'[w].id # 0 => about'[w] = about[w]
    PROVE  SeatInv'
<1>1. ASSUME NEW v \in Workers PROVE AboutUser(v)'
  <2>1. \A t \in tokens : t.id # 0
    BY DEF SeatInv, Seats!TypeOK, Seats!Token, Seats!Ids
  <2>2. lastToken \in Nat
    BY DEF SeatInv, Seats!TypeOK
  <2> QED
    BY <2>1, <2>2 DEF SeatInv, AboutUser
<1>2. TokenOfUser'
  BY DEF SeatInv, TokenOfUser
<1> QED
  BY <1>1, <1>2, FewerSeats DEF SeatInv, LockHeld

LEMMA SeatsRevoke ==
    ASSUME SeatInv, NEW w \in Workers, Seats!RevokeLease(w)
    PROVE  SeatInv'
<1> DEFINE revoke == [l \in leases |->
                        IF l.session = about[w].id
                        THEN [l EXCEPT !.live = FALSE] ELSE l]
<1>1. /\ leases' = {revoke[l] : l \in leases}
      /\ Seats!Finish(w) /\ UNCHANGED <<tokens, lastToken>>
  BY DEF Seats!RevokeLease
<1>2. ASSUME NEW l \in leases
      PROVE  /\ revoke[l] \in Seats!Lease
             /\ revoke[l].session = l.session /\ revoke[l].user = l.user
             /\ revoke[l].live => revoke[l] = l
  BY DEF SeatInv, Seats!TypeOK, Seats!Lease
<1> HIDE DEF revoke
<1>3. LeaseOfUser'
  BY <1>1, <1>2 DEF SeatInv, LeaseOfUser
<1>4. Seats!TypeOK'
  <2>1. \A l \in leases' : \E t \in tokens : t.id = l.session
    BY <1>1, <1>3 DEF LeaseOfUser
  <2>2. leases' \in SUBSET Seats!Lease
    BY <1>1, <1>2
  <2> QED
    BY <1>1, <2>1, <2>2, SeatsFinish DEF SeatInv, Seats!TypeOK
<1>5. IsFiniteSet(leases') /\ Occupied' \subseteq Occupied
  BY <1>1, <1>2, Image DEF SeatInv, Occupied
<1> QED
  BY <1>1, <1>3, <1>4, <1>5, SeatsFinish, SeatsLess DEF SeatInv

LEMMA SeatsDelete ==
    ASSUME SeatInv, NEW w \in Workers,
           Seats!DeleteLeases(w) \/ Seats!DeleteTokens(w)
    PROVE  SeatInv'
<1>1. /\ leases' = {l \in leases : l.user # about[w].user}
      /\ UNCHANGED lastToken
  BY DEF Seats!DeleteLeases, Seats!DeleteTokens
<1>2. IsFiniteSet(leases') /\ Occupied' \subseteq Occupied
  BY <1>1, FS_Subset DEF SeatInv, Occupied
<1>3. CASE Seats!DeleteLeases(w)
  <2>1. /\ session' = [session EXCEPT ![w] = "forget"] /\ session[w] = "unseat"
        /\ UNCHANGED <<about, tokens>>
    BY <1>3 DEF Seats!DeleteLeases, Seats!Goto
  <2>2. Seats!TypeOK'
    BY <1>1, <2>1 DEF SeatInv, Seats!TypeOK, Seats!Places
  <2>3. LeaseOfUser'
    BY <1>1, <2>1 DEF SeatInv, LeaseOfUser
  <2> QED
    BY <1>1, <1>2, <2>1, <2>2, <2>3, SeatsLess DEF SeatInv, Seats!TypeOK
<1>4. CASE Seats!DeleteTokens(w)
  <2>1. /\ tokens' = {t \in tokens : t.user # about[w].user}
        /\ Seats!Finish(w)
    BY <1>4 DEF Seats!DeleteTokens
  <2>2. LeaseOfUser'
    BY <1>1, <2>1 DEF SeatInv, LeaseOfUser
  <2>3. Seats!TypeOK'
    <3>1. \A l \in leases' : \E t \in tokens' : t.id = l.session
      BY <2>2 DEF LeaseOfUser
    <3> QED
      BY <1>1, <2>1, <3>1, SeatsFinish DEF SeatInv, Seats!TypeOK
  <2> QED
    BY <1>1, <1>2, <2>1, <2>2, <2>3, SeatsFinish, SeatsLess DEF SeatInv
<1> QED
  BY <1>3, <1>4

LEMMA SeatsLapse ==
    ASSUME SeatInv, NEW l \in leases, Seats!Lapse(l)
    PROVE  SeatInv'
<1> DEFINE k == [l EXCEPT !.recent = FALSE]
<1>1. /\ leases' = (leases \ {l}) \cup {k}
      /\ UNCHANGED <<tokens, lastToken, session, about>>
  BY DEF Seats!Lapse
<1>2. /\ k \in Seats!Lease /\ k.session = l.session /\ k.user = l.user
      /\ ~k.recent
  BY DEF SeatInv, Seats!TypeOK, Seats!Lease
<1> HIDE DEF k
<1>3. LeaseOfUser'
  BY <1>1, <1>2 DEF SeatInv, LeaseOfUser
<1>4. Seats!TypeOK'
  BY <1>1, <1>2 DEF SeatInv, Seats!TypeOK
<1>5. IsFiniteSet(leases')
  BY <1>1, FS_RemoveElement, FS_AddElement DEF SeatInv
<1>6. Occupied' \subseteq Occupied
  BY <1>1, <1>2 DEF Occupied
<1>7. /\ IsFiniteSet(Occupied)
      /\ Cardinality(Occupied') <= Cardinality(Occupied)
      /\ Cardinality(Occupied) \in Nat /\ Cardinality(Occupied') \in Nat
  <2>1. IsFiniteSet(Occupied)
    BY FS_Subset DEF SeatInv, Occupied
  <2> QED
    BY <1>6, <2>1, FS_Subset, FS_CardinalityType
<1> QED
  BY <1>1, <1>3, <1>4, <1>5, <1>7, SystemAssumption
  DEF SeatInv, LockHeld, TokenOfUser, AboutUser

LEMMA SeatsStep == SeatInv /\ [Seats!Next]_(Seats!vars) => SeatInv'
<1> SUFFICES ASSUME SeatInv, [Seats!Next]_(Seats!vars) PROVE SeatInv'
  OBVIOUS
<1>1. ASSUME NEW w \in Workers, Seats!Abort(w) PROVE SeatInv'
  BY <1>1, SeatsQuiet DEF Seats!Abort
<1>2. ASSUME NEW w \in Workers,
             \/ Seats!Request(w) \/ Seats!CountLeases(w)
             \/ Seats!CreateLease(w) \/ Seats!RotateLease(w)
             \/ Seats!RevokeLease(w) \/ Seats!DeleteLeases(w)
             \/ Seats!DeleteTokens(w)
      PROVE  SeatInv'
  BY <1>2, SeatsRequest, SeatsCount, SeatsCreate, SeatsRotate, SeatsRevoke,
     SeatsDelete
<1>3. ASSUME NEW l \in leases, Seats!Lapse(l) PROVE SeatInv'
  BY <1>3, SeatsLapse
<1>4. CASE UNCHANGED Seats!vars
  BY <1>4 DEF Seats!vars, SeatInv, Seats!TypeOK, LeaseOfUser, TokenOfUser,
     AboutUser, LockHeld, Occupied
<1> QED
  BY <1>1, <1>2, <1>3, <1>4 DEF Seats!Next

(* The leases that count are never more than the tenant's limit. *)
LEMMA SeatsSpec == Seats!Spec => [](Seats!TypeOK /\ SeatsNotOversold)
<1>1. SeatInv => Seats!TypeOK /\ SeatsNotOversold
  <2>1. {l \in Seats!Active : ~l.revived} = Occupied
    BY DEF Seats!Active, Occupied
  <2> QED
    BY <2>1, SeatsCardinality DEF SeatInv, SeatsNotOversold, Seats!SeatsNotOversold
<1> QED
  BY <1>1, SeatsInit, SeatsStep, PTL DEF Seats!Spec

-----------------------------------------------------------------------------
(***************************************************************************)
(* Bill runs.                                                              *)
(*                                                                         *)
(* The gate of a month stays shut from the first attempt on, so that the   *)
(* run that opened it is alone with the subscription until it is done or   *)
(* has failed, and only it can move the date on.                           *)
(***************************************************************************)
LEMMA BillSum ==
    \A f, S : Subscriptions!SumFunctionOnSet(f, S) = SumFunctionOnSet(f, S)
BY DEF Subscriptions!SumFunctionOnSet, Subscriptions!FoldFunctionOnSet,
       Subscriptions!MapThenFoldSet, SumFunctionOnSet, FoldFunctionOnSet,
       MapThenFoldSet

Subscribed == Monthly \cup Weekly
Dates == 0 .. LastDate
Month(d) == Subscriptions!CycleKey(d)

(* The dates a subscription can be billed for. *)
OnSchedule(s, d) == s \in Monthly => d % WeeksPerMonth = 0

(* Run r is past the gate with its current subscription. *)
Past(r) ==
    runAt[r] \in {"create", "finalize", "record", "fail", "advance"}

(* The gate of a month is open only while there is no invoice in it. *)
GateShut(s) ==
    \A d \in Dates : cycle[s][Month(d)] = "none" => invoiced[s][d] = 0

(* Every date behind the next one was billed, and its month's gate shut. *)
BilledUpTo(s) ==
    \A d \in Dates :
        d < nextBill[s] /\ OnSchedule(s, d) =>
            /\ cycle[s][Month(d)] # "none"
            /\ invoiced[s][d] = 1 /\ d \in finalized[s]

(* What a run has still to do is no later than the next date. *)
DueSoon(r) ==
    \A d \in dueLeft[r] :
        d.date <= nextBill[d.of] /\ OnSchedule(d.of, d.date)

(* A run past the gate is at the next date of its subscription, and what   *)
(* it has done so far is what accounts receivable has.                     *)
AtNextDate(r) ==
    LET s == subscription[r].of
        d == subscription[r].date IN
    Past(r) =>
        /\ subscription[r] \in Subscriptions!Due
        /\ d = nextBill[s] /\ cycle[s][Month(d)] # "none"
        /\ runAt[r] = "create" =>
              \A e \in Dates : Month(e) = Month(d) => invoiced[s][e] = 0
        /\ runAt[r] \in {"finalize", "record", "advance"} => invoiced[s][d] = 1
        /\ runAt[r] \in {"record", "advance"} => d \in finalized[s]

OneRunEach ==
    \A q, r \in BillRunIds :
        Past(q) /\ Past(r) /\ subscription[q].of = subscription[r].of => q = r

Behind(s) == GateShut(s) /\ BilledUpTo(s) /\ OnSchedule(s, nextBill[s])

BillInv ==
    /\ Subscriptions!TypeOK
    /\ \A s \in Subscribed : Behind(s)
    /\ \A r \in BillRunIds : DueSoon(r) /\ AtNextDate(r)
    /\ OneRunEach
    /\ Subscriptions!InvoicedOncePerCycle

LEMMA MonthType == \A d \in Dates : Month(d) \in Subscriptions!Months
BY DEF Subscriptions!Months, Month, Dates, Subscriptions!Dates

LEMMA FiniteDates == \A S \in SUBSET Dates : IsFiniteSet(S)
<1>1. 0 \in Int /\ LastDate \in Int
  BY SystemAssumption
<1>2. IsFiniteSet(Dates)
  BY <1>1, FS_Interval DEF Dates
<1> QED
  BY <1>2, FS_Subset

(* The invoices of a month are no more than one. *)
LEMMA OncePerCycle ==
    Subscriptions!InvoicedOncePerCycle <=>
        \A s \in Subscribed, m \in Subscriptions!Months :
            SumFunctionOnSet(invoiced[s], {d \in Dates : Month(d) = m}) <= 1
BY BillSum DEF Subscriptions!InvoicedOncePerCycle, Subscribed, Dates, Month,
   Subscriptions!Subscriptions, Subscriptions!Dates

LEMMA BillInit == Subscriptions!Init => BillInv
<1> SUFFICES ASSUME Subscriptions!Init PROVE BillInv
  OBVIOUS
<1>1. Subscriptions!TypeOK
  BY DEF Subscriptions!Init, Subscriptions!TypeOK, Subscriptions!Statuses,
     Subscriptions!Places
<1>2. Subscriptions!InvoicedOncePerCycle
  <2> SUFFICES ASSUME NEW s \in Subscribed, NEW m \in Subscriptions!Months
               PROVE  SumFunctionOnSet(invoiced[s], {d \in Dates : Month(d) = m}) <= 1
    BY OncePerCycle
  <2> DEFINE D == {d \in Dates : Month(d) = m}
  <2>1. \A d \in D : invoiced[s][d] = 0
    BY DEF Subscriptions!Init, Subscribed, Dates, Subscriptions!Subscriptions,
       Subscriptions!Dates
  <2>2. IsFiniteSet(D)
    BY FiniteDates
  <2> QED
    BY <2>1, <2>2, SumZero
<1>3. ASSUME NEW s \in Subscribed PROVE Behind(s)
  <2>1. nextBill[s] = 0 /\ \A d \in Dates : invoiced[s][d] = 0
    BY DEF Subscriptions!Init, Subscribed, Dates, Subscriptions!Subscriptions,
       Subscriptions!Dates
  <2>2. 0 % WeeksPerMonth = 0
    BY SystemAssumption
  <2> QED
    BY <2>1, <2>2 DEF Behind, GateShut, BilledUpTo, OnSchedule, Dates
<1> QED
  BY <1>1, <1>2, <1>3 DEF Subscriptions!Init, BillInv, DueSoon, AtNextDate,
     OneRunEach, Past

(* A run that leaves what was billed alone and is past no gate it was not  *)
(* past before.                                                            *)
LEMMA RunOnly ==
    ASSUME BillInv, Subscriptions!TypeOK',
           UNCHANGED <<nextBill, cycle, invoiced, finalized>>,
           \A q \in BillRunIds :
              /\ dueLeft'[q] \subseteq dueLeft[q]
              /\ Past(q)' => /\ runAt'[q] = runAt[q]
                             /\ subscription'[q] = subscription[q]
    PROVE  BillInv'
<1>1. \A s \in Subscribed : Behind(s)'
  BY DEF BillInv, Behind, GateShut, BilledUpTo, OnSchedule, Month, Dates,
     Subscriptions!CycleKey
<1>2. \A q \in BillRunIds : DueSoon(q)'
  BY DEF BillInv, DueSoon, OnSchedule
<1>3. \A q \in BillRunIds : Past(q)' => Past(q)
  BY DEF Past
<1>4. \A q \in BillRunIds : AtNextDate(q)'
  BY <1>3 DEF BillInv, AtNextDate, Month, Subscriptions!CycleKey, Dates
<1>5. OneRunEach'
  BY <1>3 DEF BillInv, OneRunEach
<1>6. Subscriptions!InvoicedOncePerCycle'
  BY DEF BillInv, Subscriptions!InvoicedOncePerCycle
<1> QED
  BY <1>1, <1>2, <1>4, <1>5, <1>6 DEF BillInv

LEMMA BillStart ==
    ASSUME BillInv, NEW r \in BillRunIds, NEW date \in Dates,
           Subscriptions!Start(r, date)
    PROVE  BillInv'
<1> DEFINE T == {[of |-> s, date |-> nextBill[s]] :
                    s \in {x \in Subscribed : nextBill[x] <= date}}
<1>1. /\ runAt[r] = "new" /\ runAt' = [runAt EXCEPT ![r] = "gate"]
      /\ dueLeft' = [dueLeft EXCEPT ![r] = T]
      /\ UNCHANGED <<nextBill, cycle, invoiced, finalized, subscription>>
  BY DEF Subscriptions!Start, Subscribed, Subscriptions!Subscriptions
<1>2. \A x \in Subscribed : nextBill[x] \in Nat
  BY DEF BillInv, Subscriptions!TypeOK, Subscribed, Subscriptions!Subscriptions
<1>3. T \in SUBSET Subscriptions!Due
  <2> SUFFICES ASSUME NEW s \in Subscribed, nextBill[s] <= date
               PROVE  [of |-> s, date |-> nextBill[s]] \in Subscriptions!Due
    OBVIOUS
  <2>1. nextBill[s] \in 0 .. LastDate
    BY <1>2, SystemAssumption DEF Dates
  <2> QED
    BY <2>1 DEF Subscriptions!Due, Subscribed, Subscriptions!Subscriptions,
       Subscriptions!Dates
<1>4. \A t \in T : t.date <= nextBill[t.of] /\ OnSchedule(t.of, t.date)
  BY <1>2 DEF BillInv, Behind, OnSchedule
<1> HIDE DEF T
<1>5. Subscriptions!TypeOK'
  BY <1>1, <1>3 DEF BillInv, Subscriptions!TypeOK, Subscriptions!Places
<1>6. \A s \in Subscribed : Behind(s)'
  BY <1>1 DEF BillInv, Behind, GateShut, BilledUpTo, OnSchedule, Month, Dates,
     Subscriptions!CycleKey
<1>7. ASSUME NEW q \in BillRunIds PROVE DueSoon(q)'
  <2>1. CASE q = r
    <3>1. dueLeft'[q] = T
      BY <1>1, <2>1 DEF BillInv, Subscriptions!TypeOK
    <3> QED
      BY <1>1, <1>4, <3>1 DEF DueSoon, OnSchedule
  <2>2. CASE q # r
    <3>1. dueLeft'[q] = dueLeft[q]
      BY <1>1, <2>2 DEF BillInv, Subscriptions!TypeOK
    <3> QED
      BY <1>1, <3>1 DEF BillInv, DueSoon, OnSchedule
  <2> QED
    BY <2>1, <2>2
<1>8. \A q \in BillRunIds : Past(q)' => Past(q) /\ runAt'[q] = runAt[q]
  BY <1>1 DEF BillInv, Subscriptions!TypeOK, Past
<1>9. \A q \in BillRunIds : AtNextDate(q)'
  BY <1>1, <1>8 DEF BillInv, AtNextDate, Month, Subscriptions!CycleKey, Dates
<1>10. OneRunEach' /\ Subscriptions!InvoicedOncePerCycle'
  BY <1>1, <1>8 DEF BillInv, OneRunEach, Subscriptions!InvoicedOncePerCycle
<1> QED
  BY <1>5, <1>6, <1>7, <1>9, <1>10 DEF BillInv

(* An open gate is that of the next date. *)
LEMMA OpenGate ==
    ASSUME BillInv, NEW r \in BillRunIds, NEW d \in dueLeft[r],
           cycle[d.of][Month(d.date)] = "none"
    PROVE  /\ d \in Subscriptions!Due /\ d.of \in Subscribed /\ d.date \in Dates
           /\ d.date = nextBill[d.of]
           /\ \A q \in BillRunIds : Past(q) => subscription[q].of # d.of
           /\ \A e \in Dates : Month(e) = Month(d.date) => invoiced[d.of][e] = 0
<1>1. d \in Subscriptions!Due /\ d.of \in Subscribed /\ d.date \in Dates
  BY DEF BillInv, Subscriptions!TypeOK, Subscriptions!Due, Subscribed, Dates,
     Subscriptions!Subscriptions, Subscriptions!Dates
<1>2. nextBill[d.of] \in Nat
  BY <1>1 DEF BillInv, Subscriptions!TypeOK, Subscribed,
     Subscriptions!Subscriptions
<1>3. d.date <= nextBill[d.of] /\ ~(d.date < nextBill[d.of])
  BY <1>1 DEF BillInv, DueSoon, Behind, BilledUpTo
<1>4. d.date = nextBill[d.of]
  BY <1>1, <1>2, <1>3 DEF Dates
<1>5. \A q \in BillRunIds : Past(q) => subscription[q].of # d.of
  BY <1>4 DEF BillInv, AtNextDate
<1>6. \A e \in Dates : Month(e) = Month(d.date) => invoiced[d.of][e] = 0
  BY <1>1 DEF BillInv, Behind, GateShut
<1> QED
  BY <1>1, <1>4, <1>5, <1>6

LEMMA BillGate ==
    ASSUME BillInv, NEW r \in BillRunIds, NEW d \in dueLeft[r],
           Subscriptions!Gate(r, d)
    PROVE  BillInv'
<1> DEFINE s == d.of
           m == Month(d.date)
<1>1. /\ cycle[s][m] = "none"
      /\ cycle' = [cycle EXCEPT ![s][m] = "attempting"]
      /\ runAt' = [runAt EXCEPT ![r] = "create"]
      /\ dueLeft' = [dueLeft EXCEPT ![r] = @ \ {d}]
      /\ subscription' = [subscription EXCEPT ![r] = d]
      /\ UNCHANGED <<nextBill, invoiced, finalized>>
  BY DEF Subscriptions!Gate, Month
<1>2. /\ d \in Subscriptions!Due /\ s \in Subscribed /\ d.date \in Dates
      /\ d.date = nextBill[s]
      /\ \A q \in BillRunIds : Past(q) => subscription[q].of # s
      /\ \A e \in Dates : Month(e) = m => invoiced[s][e] = 0
  BY <1>1, OpenGate
<1>3. m \in Subscriptions!Months
  BY <1>2, MonthType
<1>4. /\ cycle' \in [Subscribed -> [Subscriptions!Months -> Subscriptions!Statuses]]
      /\ cycle'[s][m] = "attempting"
      /\ \A x \in Subscribed, y \in Subscriptions!Months :
            x # s \/ y # m => cycle'[x][y] = cycle[x][y]
  BY <1>1, <1>2, <1>3 DEF BillInv, Subscriptions!TypeOK, Subscriptions!Statuses,
     Subscribed, Subscriptions!Subscriptions
<1>5. Subscriptions!TypeOK'
  BY <1>1, <1>2, <1>4 DEF BillInv, Subscriptions!TypeOK, Subscriptions!Places,
     Subscribed, Subscriptions!Subscriptions
<1>6. ASSUME NEW x \in Subscribed PROVE Behind(x)'
  BY <1>1, <1>4, MonthType DEF BillInv, Behind, GateShut, BilledUpTo, OnSchedule,
     Dates, Month, Subscriptions!CycleKey
<1>7. \A q \in BillRunIds : DueSoon(q)'
  BY <1>1 DEF BillInv, Subscriptions!TypeOK, DueSoon, OnSchedule
<1>8. /\ runAt'[r] = "create" /\ subscription'[r] = d
      /\ \A q \in BillRunIds \ {r} :
            runAt'[q] = runAt[q] /\ subscription'[q] = subscription[q]
  BY <1>1 DEF BillInv, Subscriptions!TypeOK
<1>9. ASSUME NEW q \in BillRunIds PROVE AtNextDate(q)'
  <2>1. CASE q = r
    BY <1>1, <1>2, <1>4, <1>8, <2>1 DEF AtNextDate, Month, Subscriptions!CycleKey,
       Dates
  <2>2. CASE q # r /\ Past(q)
    <3>1. /\ subscription[q].of \in Subscribed \ {s}
          /\ Month(subscription[q].date) \in Subscriptions!Months
      BY <1>2, <2>2, MonthType DEF BillInv, AtNextDate, Subscriptions!Due,
         Subscribed, Subscriptions!Subscriptions, Dates, Subscriptions!Dates
    <3>2. cycle'[subscription[q].of][Month(subscription[q].date)] =
             cycle[subscription[q].of][Month(subscription[q].date)]
      BY <1>4, <3>1
    <3> QED
      BY <1>1, <1>8, <2>2, <3>2 DEF BillInv, AtNextDate, Past, Month,
         Subscriptions!CycleKey, Dates
  <2>3. CASE q # r /\ ~Past(q)
    BY <1>8, <2>3 DEF AtNextDate, Past
  <2> QED
    BY <2>1, <2>2, <2>3
<1>10. OneRunEach'
  BY <1>2, <1>8 DEF BillInv, OneRunEach, Past
<1>11. Subscriptions!InvoicedOncePerCycle'
  BY <1>1 DEF BillInv, Subscriptions!InvoicedOncePerCycle
<1> QED
  BY <1>5, <1>6, <1>7, <1>9, <1>10, <1>11 DEF BillInv

(* A run past the gate is alone with its subscription.                     *)
LEMMA PastGate ==
    ASSUME BillInv, NEW r \in BillRunIds, Past(r)
    PROVE  /\ subscription[r] \in Subscriptions!Due
           /\ subscription[r].of \in Subscribed /\ subscription[r].date \in Dates
           /\ subscription[r].date = nextBill[subscription[r].of]
           /\ Month(subscription[r].date) \in Subscriptions!Months
           /\ cycle[subscription[r].of][Month(subscription[r].date)] # "none"
           /\ \A q \in BillRunIds \ {r} :
                 Past(q) => /\ subscription[q].of # subscription[r].of
                            /\ subscription[q].of \in Subscribed
                            /\ subscription[q].date \in Dates
                            /\ Month(subscription[q].date) \in Subscriptions!Months
<1>1. \A q \in BillRunIds :
        Past(q) => /\ subscription[q] \in Subscriptions!Due
                   /\ subscription[q].of \in Subscribed
                   /\ subscription[q].date \in Dates
  BY DEF BillInv, AtNextDate, Subscriptions!Due, Subscribed, Dates,
     Subscriptions!Subscriptions, Subscriptions!Dates
<1> QED
  BY <1>1, MonthType DEF BillInv, AtNextDate, OneRunEach

LEMMA BillCreateInvoice ==
    ASSUME BillInv, NEW r \in BillRunIds, NEW done \in BOOLEAN,
           NEW answered \in BOOLEAN, Subscriptions!CreateInvoice(r, done, answered)
    PROVE  BillInv'
<1> DEFINE s == subscription[r].of
           d == subscription[r].date
           next == IF done /\ answered THEN "finalize" ELSE "fail"
           n == IF done THEN 1 ELSE 0
<1>1. /\ runAt[r] = "create"
      /\ runAt' = [runAt EXCEPT ![r] = next]
      /\ invoiced' = [invoiced EXCEPT ![s][d] = IF done THEN @ + 1 ELSE @]
      /\ UNCHANGED <<nextBill, cycle, finalized, dueLeft, subscription>>
  BY DEF Subscriptions!CreateInvoice, Subscriptions!Goto
<1>2. Past(r)
  BY <1>1 DEF Past
<1>3. /\ s \in Subscribed /\ d \in Dates /\ d = nextBill[s]
      /\ cycle[s][Month(d)] # "none" /\ Month(d) \in Subscriptions!Months
      /\ \A e \in Dates : Month(e) = Month(d) => invoiced[s][e] = 0
  BY <1>1, <1>2, PastGate DEF BillInv, AtNextDate
<1>4. invoiced \in [Subscribed -> [Dates -> Nat]]
  BY DEF BillInv, Subscriptions!TypeOK, Subscribed, Dates,
     Subscriptions!Subscriptions, Subscriptions!Dates
<1>5. /\ invoiced' \in [Subscribed -> [Dates -> Nat]]
      /\ invoiced'[s][d] = n
      /\ \A x \in Subscribed, y \in Dates :
            x # s \/ y # d => invoiced'[x][y] = invoiced[x][y]
  BY <1>1, <1>3, <1>4
<1>6. Subscriptions!TypeOK'
  BY <1>1, <1>5 DEF BillInv, Subscriptions!TypeOK, Subscriptions!Places,
     Subscribed, Dates, Subscriptions!Subscriptions, Subscriptions!Dates
<1>7. ASSUME NEW x \in Subscribed PROVE Behind(x)'
  <2>1. nextBill[x] \in Nat
    BY DEF BillInv, Subscriptions!TypeOK, Subscribed, Subscriptions!Subscriptions
  <2>2. GateShut(x)'
    BY <1>1, <1>3, <1>5 DEF BillInv, Behind, GateShut, Dates, Month,
       Subscriptions!CycleKey
  <2>3. BilledUpTo(x)'
    <3> SUFFICES ASSUME NEW e \in Dates, e < nextBill[x], OnSchedule(x, e)
                 PROVE  /\ cycle'[x][Month(e)] # "none"
                        /\ invoiced'[x][e] = 1 /\ e \in finalized'[x]
      BY <1>1 DEF BilledUpTo, Dates, Month, Subscriptions!CycleKey, OnSchedule
    <3>1. x # s \/ e # d
      BY <1>3, <2>1 DEF Dates
    <3> QED
      BY <1>1, <1>5, <3>1 DEF BillInv, Behind, BilledUpTo
  <2> QED
    BY <1>1, <2>2, <2>3 DEF BillInv, Behind, OnSchedule
<1>8. \A q \in BillRunIds : DueSoon(q)'
  BY <1>1 DEF BillInv, DueSoon, OnSchedule
<1>9. /\ runAt'[r] = next
      /\ \A q \in BillRunIds \ {r} : runAt'[q] = runAt[q]
      /\ \A q \in BillRunIds : Past(q)' => Past(q)
  BY <1>1, <1>2 DEF BillInv, Subscriptions!TypeOK, Past
<1>10. ASSUME NEW q \in BillRunIds PROVE AtNextDate(q)'
  <2>1. CASE q = r
    BY <1>1, <1>2, <1>5, <1>9, <2>1 DEF BillInv, AtNextDate, Month,
       Subscriptions!CycleKey, Dates
  <2>2. CASE q # r /\ Past(q)
    <3>1. \A e \in Dates :
            invoiced'[subscription[q].of][e] = invoiced[subscription[q].of][e]
      BY <1>2, <1>5, <2>2, PastGate
    <3>2. subscription[q].date \in Dates
      BY <1>2, <2>2, PastGate
    <3> QED
      BY <1>1, <1>9, <2>2, <3>1, <3>2 DEF BillInv, AtNextDate, Past, Month,
         Subscriptions!CycleKey, Dates
  <2>3. CASE q # r /\ ~Past(q)
    BY <1>9, <2>3 DEF AtNextDate
  <2> QED
    BY <2>1, <2>2, <2>3
<1>11. OneRunEach'
  BY <1>1, <1>9 DEF BillInv, OneRunEach
<1>12. Subscriptions!InvoicedOncePerCycle'
  <2> SUFFICES ASSUME NEW x \in Subscribed, NEW m \in Subscriptions!Months
               PROVE  SumFunctionOnSet(invoiced'[x], {e \in Dates : Month(e) = m}) <= 1
    BY BillSum DEF Subscriptions!InvoicedOncePerCycle, Subscribed, Dates, Month,
       Subscriptions!Subscriptions, Subscriptions!Dates
  <2> DEFINE D == {e \in Dates : Month(e) = m}
             f == invoiced[x]
             g == invoiced'[x]
  <2>1. IsFiniteSet(D) /\ D \subseteq Dates
    BY FiniteDates
  <2>2. CASE x = s /\ m = Month(d)
    <3>1. \A e \in D : f[e] = 0
      BY <1>3, <2>2
    <3>2. SumFunctionOnSet(f, D) = 0
      <4> HIDE DEF f, D
      <4> QED BY <2>1, <3>1, SumZero
    <3>3. /\ d \in D /\ \A e \in D : f[e] \in Int /\ g[e] \in Int
          /\ \A e \in D \ {d} : g[e] = f[e]
          /\ f[d] = 0 /\ g[d] = n
      BY <1>3, <1>4, <1>5, <2>1, <2>2
    <3>4. SumFunctionOnSet(g, D) = SumFunctionOnSet(f, D) - f[d] + g[d]
      <4> HIDE DEF f, g, D, d
      <4> QED BY <2>1, <3>3, SumUpdate
    <3> QED
      BY <3>2, <3>3, <3>4
  <2>3. CASE ~(x = s /\ m = Month(d))
    <3>1. \A e \in D : f[e] = g[e]
      BY <1>5, <2>1, <2>3
    <3>2. SumFunctionOnSet(f, D) = SumFunctionOnSet(g, D)
      <4> HIDE DEF f, g, D
      <4> QED BY <2>1, <3>1, SumCongruence
    <3> QED
      BY <3>2, OncePerCycle DEF BillInv
  <2> QED
    BY <2>2, <2>3
<1> QED
  BY <1>6, <1>7, <1>8, <1>10, <1>11, <1>12 DEF BillInv

LEMMA BillFinalizeInvoice ==
    ASSUME BillInv, NEW r \in BillRunIds, NEW done \in BOOLEAN,
           NEW answered \in BOOLEAN, Subscriptions!FinalizeInvoice(r, done, answered)
    PROVE  BillInv'
<1> DEFINE s == subscription[r].of
           d == subscription[r].date
           next == IF done /\ answered THEN "record" ELSE "fail"
<1>1. /\ runAt[r] = "finalize"
      /\ runAt' = [runAt EXCEPT ![r] = next]
      /\ finalized' = [finalized EXCEPT ![s] = IF done THEN @ \cup {d} ELSE @]
      /\ UNCHANGED <<nextBill, cycle, invoiced, dueLeft, subscription>>
  BY DEF Subscriptions!FinalizeInvoice, Subscriptions!Goto
<1>2. Past(r)
  BY <1>1 DEF Past
<1>3. s \in Subscribed /\ d \in Dates /\ invoiced[s][d] = 1
  BY <1>1, <1>2, PastGate DEF BillInv, AtNextDate
<1>4. finalized \in [Subscribed -> SUBSET Dates]
  BY DEF BillInv, Subscriptions!TypeOK, Subscribed, Dates,
     Subscriptions!Subscriptions, Subscriptions!Dates
<1>5. /\ finalized' \in [Subscribed -> SUBSET Dates]
      /\ done => d \in finalized'[s]
      /\ \A x \in Subscribed : finalized[x] \subseteq finalized'[x]
  BY <1>1, <1>3, <1>4
<1>6. Subscriptions!TypeOK'
  BY <1>1, <1>5 DEF BillInv, Subscriptions!TypeOK, Subscriptions!Places,
     Subscribed, Dates, Subscriptions!Subscriptions, Subscriptions!Dates
<1>7. \A x \in Subscribed : Behind(x)'
  BY <1>1, <1>5 DEF BillInv, Behind, GateShut, BilledUpTo, OnSchedule, Month,
     Dates, Subscriptions!CycleKey
<1>8. \A q \in BillRunIds : DueSoon(q)'
  BY <1>1 DEF BillInv, DueSoon, OnSchedule
<1>9. /\ runAt'[r] = next
      /\ \A q \in BillRunIds \ {r} : runAt'[q] = runAt[q]
      /\ \A q \in BillRunIds : Past(q)' => Past(q)
  BY <1>1, <1>2 DEF BillInv, Subscriptions!TypeOK, Past
<1>10. ASSUME NEW q \in BillRunIds PROVE AtNextDate(q)'
  <2>1. CASE q = r
    BY <1>1, <1>2, <1>3, <1>5, <1>9, <2>1 DEF BillInv, AtNextDate, Month,
       Subscriptions!CycleKey, Dates
  <2>2. CASE q # r /\ Past(q)
    <3>1. subscription[q].of \in Subscribed
      BY <1>2, <2>2, PastGate
    <3> QED
      BY <1>1, <1>5, <1>9, <2>2, <3>1 DEF BillInv, AtNextDate, Past, Month,
         Subscriptions!CycleKey, Dates
  <2>3. CASE q # r /\ ~Past(q)
    BY <1>9, <2>3 DEF AtNextDate
  <2> QED
    BY <2>1, <2>2, <2>3
<1>11. OneRunEach' /\ Subscriptions!InvoicedOncePerCycle'
  BY <1>1, <1>9 DEF BillInv, OneRunEach, Subscriptions!InvoicedOncePerCycle
<1> QED
  BY <1>6, <1>7, <1>8, <1>10, <1>11 DEF BillInv

(* The outcome of an attempt is recorded: the gate stays shut.             *)
LEMMA BillOutcome ==
    ASSUME BillInv, NEW r \in BillRunIds, Past(r),
           NEW outcome \in Subscriptions!Statuses \ {"none"},
           Subscriptions!SetAttempt(r, outcome),
           UNCHANGED <<nextBill, invoiced, finalized, dueLeft>>,
           \A q \in BillRunIds \ {r} :
              runAt'[q] = runAt[q] /\ subscription'[q] = subscription[q],
           \/ ~Past(r)'
           \/ /\ runAt[r] = "record" /\ runAt'[r] = "advance"
              /\ subscription'[r] = subscription[r],
           runAt' \in [BillRunIds -> Subscriptions!Places],
           subscription' \in
              [BillRunIds -> Subscriptions!Due \cup {Subscriptions!NoOne}]
    PROVE  BillInv'
<1> DEFINE s == subscription[r].of
           d == subscription[r].date
           m == Month(d)
<1>1. cycle' = [cycle EXCEPT ![s][m] = outcome]
  BY DEF Subscriptions!SetAttempt, Month
<1>2. s \in Subscribed /\ d \in Dates /\ m \in Subscriptions!Months
  BY PastGate
<1>3. cycle \in [Subscribed -> [Subscriptions!Months -> Subscriptions!Statuses]]
  BY DEF BillInv, Subscriptions!TypeOK, Subscribed, Subscriptions!Subscriptions
<1>4. /\ cycle' \in [Subscribed -> [Subscriptions!Months -> Subscriptions!Statuses]]
      /\ cycle'[s][m] # "none"
      /\ \A x \in Subscribed, y \in Subscriptions!Months :
            x # s \/ y # m => cycle'[x][y] = cycle[x][y]
  BY <1>1, <1>2, <1>3
<1>5. Subscriptions!TypeOK'
  BY <1>4 DEF BillInv, Subscriptions!TypeOK, Subscribed,
     Subscriptions!Subscriptions
<1>6. ASSUME NEW x \in Subscribed PROVE Behind(x)'
  <2>1. ASSUME NEW e \in Dates
        PROVE  cycle'[x][Month(e)] = "none" => cycle[x][Month(e)] = "none"
    BY <1>4, MonthType
  <2> QED
    BY <2>1 DEF BillInv, Behind, GateShut, BilledUpTo, OnSchedule, Dates, Month,
       Subscriptions!CycleKey
<1>7. \A q \in BillRunIds : DueSoon(q)'
  BY DEF BillInv, DueSoon, OnSchedule
<1>8. ASSUME NEW q \in BillRunIds PROVE AtNextDate(q)'
  <2>1. CASE q = r
    BY <1>4, <2>1 DEF BillInv, AtNextDate, Past, Month, Subscriptions!CycleKey, Dates
  <2>2. CASE q # r /\ Past(q)
    <3>1. cycle'[subscription[q].of][Month(subscription[q].date)] =
             cycle[subscription[q].of][Month(subscription[q].date)]
      BY <1>4, <2>2, PastGate
    <3> QED
      BY <2>2, <3>1 DEF BillInv, AtNextDate, Past, Month,
         Subscriptions!CycleKey, Dates
  <2>3. CASE q # r /\ ~Past(q)
    BY <2>3 DEF AtNextDate, Past
  <2> QED
    BY <2>1, <2>2, <2>3
<1>9. OneRunEach'
  BY DEF BillInv, OneRunEach, Past
<1>10. Subscriptions!InvoicedOncePerCycle'
  BY DEF BillInv, Subscriptions!InvoicedOncePerCycle
<1> QED
  BY <1>5, <1>6, <1>7, <1>8, <1>9, <1>10 DEF BillInv

LEMMA BillAdvance ==
    ASSUME BillInv, NEW r \in BillRunIds, Subscriptions!AdvanceNextBill(r)
    PROVE  BillInv'
<1> DEFINE s == subscription[r].of
           d == subscription[r].date
           new == Subscriptions!NextDate(s, d)
<1>1. /\ runAt[r] = "advance" /\ runAt' = [runAt EXCEPT ![r] = "gate"]
      /\ subscription' = [subscription EXCEPT ![r] = Subscriptions!NoOne]
      /\ nextBill' = [nextBill EXCEPT ![s] = new]
      /\ UNCHANGED <<cycle, invoiced, finalized, dueLeft>>
  BY DEF Subscriptions!AdvanceNextBill, Subscriptions!Continue
<1>2. Past(r)
  BY <1>1 DEF Past
<1>3. /\ s \in Subscribed /\ d \in Dates /\ d = nextBill[s]
      /\ cycle[s][Month(d)] # "none" /\ invoiced[s][d] = 1 /\ d \in finalized[s]
  BY <1>1, <1>2, PastGate DEF BillInv, AtNextDate
<1>4. nextBill \in [Subscribed -> Nat] /\ OnSchedule(s, d)
  BY <1>3 DEF BillInv, Behind, Subscriptions!TypeOK, Subscribed,
     Subscriptions!Subscriptions, OnSchedule
<1>5. /\ new \in Nat /\ OnSchedule(s, new) /\ d <= new
      /\ \A e \in Dates : e < new /\ OnSchedule(s, e) => e <= d
  <2>1. CASE s \in Monthly
    <3>1. new = d + WeeksPerMonth /\ d % WeeksPerMonth = 0
      BY <1>4, <2>1 DEF Subscriptions!NextDate, OnSchedule
    <3>2. d \in Nat /\ WeeksPerMonth \in Nat \ {0} /\ new \in Nat /\ d <= new
      BY <1>3, <3>1, SystemAssumption DEF Dates
    <3>3. new % WeeksPerMonth = 0
      <4> HIDE DEF d
      <4> QED BY <3>1, <3>2, NextMultiple
    <3>4. \A e \in Nat : e < new /\ e % WeeksPerMonth = 0 => e <= d
      <4> HIDE DEF d, new
      <4> QED BY <3>1, <3>2, Aligned
    <3> QED
      BY <2>1, <3>2, <3>3, <3>4 DEF OnSchedule, Dates
  <2>2. CASE s \notin Monthly
    BY <1>3, <2>2 DEF Subscriptions!NextDate, OnSchedule, Dates
  <2> QED
    BY <2>1, <2>2
<1>6. /\ nextBill' \in [Subscribed -> Nat] /\ nextBill'[s] = new
      /\ \A x \in Subscribed \ {s} : nextBill'[x] = nextBill[x]
  BY <1>1, <1>3, <1>4, <1>5
<1> HIDE DEF new
<1>7. Subscriptions!TypeOK'
  BY <1>1, <1>6 DEF BillInv, Subscriptions!TypeOK, Subscriptions!Places,
     Subscribed, Subscriptions!Subscriptions
<1>8. ASSUME NEW x \in Subscribed PROVE Behind(x)'
  <2>1. CASE x = s
    <3>1. ASSUME NEW e \in Dates, e < new, OnSchedule(s, e)
          PROVE  /\ cycle[s][Month(e)] # "none"
                 /\ invoiced[s][e] = 1 /\ e \in finalized[s]
      <4>1. e < nextBill[s] \/ e = d
        BY <1>3, <1>4, <1>5, <3>1 DEF Dates
      <4> QED
        BY <1>3, <3>1, <4>1 DEF BillInv, Behind, BilledUpTo
    <3> QED
      BY <1>1, <1>3, <1>5, <1>6, <2>1, <3>1 DEF BillInv, Behind, GateShut, BilledUpTo,
         OnSchedule, Month, Dates, Subscriptions!CycleKey
  <2>2. CASE x # s
    BY <1>1, <1>6, <2>2 DEF BillInv, Behind, GateShut, BilledUpTo,
       OnSchedule, Month, Dates, Subscriptions!CycleKey
  <2> QED
    BY <2>1, <2>2
<1>9. ASSUME NEW q \in BillRunIds, NEW t \in dueLeft[q]
      PROVE  t.date <= nextBill'[t.of] /\ OnSchedule(t.of, t.date)
  <2>1. t.of \in Subscribed /\ t.date \in Int
    BY DEF BillInv, Subscriptions!TypeOK, Subscriptions!Due, Subscribed,
       Subscriptions!Subscriptions, Subscriptions!Dates
  <2>2. t.date <= nextBill[t.of] /\ OnSchedule(t.of, t.date)
    BY DEF BillInv, DueSoon
  <2> QED
    BY <1>3, <1>4, <1>5, <1>6, <2>1, <2>2
<1>10. \A q \in BillRunIds : DueSoon(q)'
  BY <1>1, <1>9 DEF DueSoon, OnSchedule
<1>11. ~Past(r)' /\ \A q \in BillRunIds \ {r} :
                     runAt'[q] = runAt[q] /\ subscription'[q] = subscription[q]
  BY <1>1 DEF BillInv, Subscriptions!TypeOK, Past
<1>12. ASSUME NEW q \in BillRunIds PROVE AtNextDate(q)'
  <2>1. CASE q = r \/ ~Past(q)
    BY <1>11, <2>1 DEF AtNextDate, Past
  <2>2. CASE q # r /\ Past(q)
    <3>1. nextBill'[subscription[q].of] = nextBill[subscription[q].of]
      BY <1>2, <1>6, <2>2, PastGate
    <3> QED
      BY <1>1, <1>11, <2>2, <3>1 DEF BillInv, AtNextDate, Past, Month,
         Subscriptions!CycleKey, Dates
  <2> QED
    BY <2>1, <2>2
<1>13. OneRunEach' /\ Subscriptions!InvoicedOncePerCycle'
  BY <1>1, <1>11 DEF BillInv, OneRunEach, Past, Subscriptions!InvoicedOncePerCycle
<1> QED
  BY <1>7, <1>8, <1>10, <1>12, <1>13 DEF BillInv

LEMMA BillStep ==
    ASSUME BillInv, [Subscriptions!Next]_Subscriptions!vars
    PROVE  BillInv'
<1>1. ASSUME NEW r \in BillRunIds, NEW d \in dueLeft[r],
             Subscriptions!Skip(r, d)
      PROVE  BillInv'
  <2>1. /\ dueLeft' = [dueLeft EXCEPT ![r] = @ \ {d}]
        /\ UNCHANGED <<nextBill, cycle, invoiced, finalized, runAt, subscription>>
    BY <1>1 DEF Subscriptions!Skip
  <2>2. Subscriptions!TypeOK' /\ \A q \in BillRunIds : dueLeft'[q] \subseteq dueLeft[q]
    BY <2>1 DEF BillInv, Subscriptions!TypeOK
  <2> QED
    BY <2>1, <2>2, RunOnly
<1>2. ASSUME NEW r \in BillRunIds, Subscriptions!MarkSucceeded(r)
      PROVE  BillInv'
  <2>1. /\ runAt[r] = "record" /\ runAt' = [runAt EXCEPT ![r] = "advance"]
        /\ Subscriptions!SetAttempt(r, "succeeded")
        /\ UNCHANGED <<nextBill, invoiced, finalized, dueLeft, subscription>>
    BY <1>2 DEF Subscriptions!MarkSucceeded, Subscriptions!Goto
  <2>2. /\ runAt'[r] = "advance" /\ \A q \in BillRunIds \ {r} : runAt'[q] = runAt[q]
        /\ runAt' \in [BillRunIds -> Subscriptions!Places]
        /\ subscription' \in
              [BillRunIds -> Subscriptions!Due \cup {Subscriptions!NoOne}]
        /\ Past(r)
    BY <2>1 DEF BillInv, Subscriptions!TypeOK, Subscriptions!Places, Past
  <2> QED
    BY <2>1, <2>2, BillOutcome DEF Subscriptions!Statuses
<1>3. ASSUME NEW r \in BillRunIds, Subscriptions!Continue(r)
      PROVE  /\ ~Past(r)'
             /\ \A q \in BillRunIds \ {r} :
                   runAt'[q] = runAt[q] /\ subscription'[q] = subscription[q]
             /\ runAt' \in [BillRunIds -> Subscriptions!Places]
             /\ subscription' \in
                   [BillRunIds -> Subscriptions!Due \cup {Subscriptions!NoOne}]
             /\ dueLeft' = dueLeft
  BY <1>3 DEF BillInv, Subscriptions!TypeOK, Subscriptions!Places, Past,
     Subscriptions!Continue
<1>4. ASSUME NEW r \in BillRunIds, Subscriptions!MarkFailed(r)
      PROVE  BillInv'
  <2>1. /\ Past(r) /\ Subscriptions!SetAttempt(r, "failed_final")
        /\ Subscriptions!Continue(r) /\ UNCHANGED <<nextBill, invoiced, finalized>>
    BY <1>4 DEF Subscriptions!MarkFailed, Past
  <2> QED
    BY <1>3, <2>1, BillOutcome DEF Subscriptions!Statuses
<1>5. ASSUME NEW r \in BillRunIds, Subscriptions!StatementFails(r)
      PROVE  BillInv'
  <2>1. /\ Subscriptions!Continue(r)
        /\ UNCHANGED <<nextBill, cycle, invoiced, finalized>>
    BY <1>5 DEF Subscriptions!StatementFails
  <2>2. Subscriptions!TypeOK'
    BY <1>3, <2>1 DEF BillInv, Subscriptions!TypeOK
  <2> QED
    BY <1>3, <2>1, <2>2, RunOnly
<1>6. ASSUME NEW r \in BillRunIds, Subscriptions!Over(r)
      PROVE  BillInv'
  <2>1. /\ runAt' = [runAt EXCEPT ![r] = "over"]
        /\ dueLeft' = [dueLeft EXCEPT ![r] = {}]
        /\ subscription' = [subscription EXCEPT ![r] = Subscriptions!NoOne]
        /\ UNCHANGED <<nextBill, cycle, invoiced, finalized>>
    BY <1>6 DEF Subscriptions!Over
  <2>2. /\ Subscriptions!TypeOK'
        /\ \A q \in BillRunIds :
              /\ dueLeft'[q] \subseteq dueLeft[q]
              /\ Past(q)' => /\ runAt'[q] = runAt[q]
                             /\ subscription'[q] = subscription[q]
    BY <2>1 DEF BillInv, Subscriptions!TypeOK, Subscriptions!Places, Past
  <2> QED
    BY <2>1, <2>2, RunOnly
<1>7. CASE UNCHANGED Subscriptions!vars
  BY <1>7, RunOnly DEF BillInv, Subscriptions!TypeOK, Subscriptions!vars,
     Subscriptions!runVars, Past
<1> QED
  BY <1>1, <1>2, <1>4, <1>5, <1>6, <1>7, BillStart, BillGate, BillCreateInvoice,
     BillFinalizeInvoice, BillAdvance
     DEF Subscriptions!Next, Subscriptions!Dates, Dates

(* At most one invoice a month, and none left out. *)
LEMMA BillsSpec ==
    Subscriptions!Spec =>
        [](Subscriptions!TypeOK /\ InvoicedOncePerCycle /\ NoPeriodSkipped)
<1>1. BillInv => Subscriptions!TypeOK /\ InvoicedOncePerCycle /\ NoPeriodSkipped
  BY DEF BillInv, InvoicedOncePerCycle, NoPeriodSkipped, Behind, BilledUpTo,
     OnSchedule, Subscriptions!NoPeriodSkipped, Dates, Subscribed,
     Subscriptions!Dates, Subscriptions!Subscriptions
<1> QED
  BY <1>1, BillInit, BillStep, PTL DEF Subscriptions!Spec

-----------------------------------------------------------------------------
(***************************************************************************)
(* Usage billing.                                                          *)
(*                                                                         *)
(* A call that goes on has, for every agreement it counts as covered, an   *)
(* item or the party still before it; whoever marks a charge billed has    *)
(* finalized an invoice with it.                                           *)
(***************************************************************************)
(* What a call has collected, or is at, is a party with its own charges.   *)
OwnCharges(w) == \A x \in w.charges : PartyOf[x] = w.party

(* A call that is at a party, and one that has created its invoice.        *)
AtParty(c) == caller[c] \in {"create", "finalize", "item", "charges"}
HasInvoice(c) == caller[c] \in {"finalize", "item", "charges"}

CallOwns(c) ==
    /\ \A w \in work[c] : OwnCharges(w)
    /\ AtParty(c) => current[c] \in Usage!Work /\ OwnCharges(current[c])

CallInvoice(c) ==
    LET i == invoice[c] IN
    HasInvoice(c) =>
        /\ i \in DOMAIN invoices
        /\ invoices[i].period = period[c]
        /\ invoices[i].party = current[c].party
        /\ invoices[i].charges = current[c].charges
        /\ caller[c] # "finalize" => invoices[i].finalized

(* An agreement that is not invoiced yet is before a call, or the call is  *)
(* at it.                                                                  *)
Covers(c) ==
    caller[c] = "loop" \/ AtParty(c) =>
        \A q \in Agreed :
            \/ q \in item[period[c]]
            \/ \E w \in work[c] : w.party = q
            \/ AtParty(c) /\ caller[c] # "charges" /\ current[c].party = q

CallOK(c) == CallOwns(c) /\ CallInvoice(c) /\ Covers(c)

Final(p, q) ==
    {i \in DOMAIN invoices :
        invoices[i].finalized /\ invoices[i].period = p /\ invoices[i].party = q}

OnFinalized(x) ==
    \E p \in Periods : \E i \in DOMAIN invoices :
        /\ invoices[i].finalized /\ invoices[i].period = p
        /\ invoices[i].party = PartyOf[x] /\ x \in invoices[i].charges

LEMMA BilledOnFinalized ==
    /\ Usage!BilledIsInvoiced <=>
          \A x \in Charges : charge[x] = "billed" => OnFinalized(x)
    /\ Usage!BilledIsInvoiced' <=>
          \A x \in Charges : charge'[x] = "billed" => OnFinalized(x)'
BY DEF Usage!BilledIsInvoiced, Usage!FinalizedFor, OnFinalized

ItemsInvoiced == \A p \in Periods : \A q \in item[p] : Final(p, q) # {}

CompletedHasItems == \A p \in Periods : run[p] = "completed" => Agreed \subseteq item[p]

UsageInv ==
    /\ Usage!TypeOK
    /\ \A c \in Callers : CallOK(c)
    /\ ItemsInvoiced
    /\ CompletedHasItems
    /\ Usage!BilledIsInvoiced

LEMMA UsageInit == Usage!Init => UsageInv
<1> SUFFICES ASSUME Usage!Init PROVE UsageInv
  OBVIOUS
<1>1. Usage!TypeOK
  <2>1. invoices = <<>> /\ Len(invoices) = 0 /\ invoices \in Seq(Usage!Invoice)
    BY DEF Usage!Init
  <2> QED
    BY <2>1 DEF Usage!Init, Usage!TypeOK, Usage!Places
<1> QED
  BY <1>1 DEF Usage!Init, UsageInv, CallOK, CallOwns, CallInvoice, Covers, AtParty,
     HasInvoice, ItemsInvoiced, CompletedHasItems, Usage!BilledIsInvoiced

(* Accounts receivable forgets no invoice and takes none back.             *)
Keeps ==
    \A i \in DOMAIN invoices :
        /\ i \in DOMAIN invoices'
        /\ invoices'[i].period = invoices[i].period
        /\ invoices'[i].party = invoices[i].party
        /\ invoices'[i].charges = invoices[i].charges
        /\ invoices[i].finalized => invoices'[i].finalized

LEMMA KeptInvoices ==
    ASSUME UsageInv, Keeps, item' = item, run' = run, charge' = charge
    PROVE  ItemsInvoiced' /\ CompletedHasItems' /\ Usage!BilledIsInvoiced'
<1>1. ASSUME NEW p, NEW q
      PROVE  Final(p, q) \subseteq Final(p, q)'
  BY DEF Keeps, Final
<1>2. ItemsInvoiced'
  BY <1>1 DEF UsageInv, ItemsInvoiced
<1>3. \A x \in Charges : OnFinalized(x) => OnFinalized(x)'
  BY DEF OnFinalized, Keeps
<1>4. Usage!BilledIsInvoiced'
  BY <1>3, BilledOnFinalized DEF UsageInv
<1> QED
  BY <1>2, <1>4 DEF UsageInv, CompletedHasItems

(* What one call does leaves the others as they were.                      *)
LEMMA OtherCall ==
    ASSUME UsageInv, Keeps, NEW c \in Callers,
           caller'[c] = caller[c], period'[c] = period[c], work'[c] = work[c],
           current'[c] = current[c], invoice'[c] = invoice[c],
           \A p \in Periods : item[p] \subseteq item'[p]
    PROVE  CallOK(c)'
<1>1. CallOwns(c)'
  BY DEF UsageInv, CallOK, CallOwns, AtParty, OwnCharges, Usage!Work
<1>2. CallInvoice(c)'
  BY DEF UsageInv, CallOK, CallInvoice, HasInvoice, Keeps
<1>3. Covers(c)'
  BY DEF UsageInv, Usage!TypeOK, CallOK, Covers, AtParty
<1> QED
  BY <1>1, <1>2, <1>3 DEF CallOK

LEMMA UsageFinish ==
    ASSUME UsageInv, NEW c \in Callers, Usage!Finish(c)
    PROVE  /\ caller' \in [Callers -> Usage!Places]
           /\ period' \in [Callers -> Periods \cup {"none"}]
           /\ \A d \in Callers : caller'[d] # "idle" => period'[d] \in Periods
           /\ work' \in [Callers -> SUBSET Usage!Work]
           /\ current' \in [Callers -> Usage!Work \cup {Usage!NoWork}]
           /\ invoice' \in [Callers -> 0 .. Len(invoices)]
           /\ CallOK(c)'
           /\ \A d \in Callers \ {c} :
                 /\ caller'[d] = caller[d] /\ period'[d] = period[d]
                 /\ work'[d] = work[d] /\ current'[d] = current[d]
                 /\ invoice'[d] = invoice[d]
<1>1. Len(invoices) \in Nat
  BY DEF UsageInv, Usage!TypeOK
<1> QED
  BY <1>1 DEF UsageInv, Usage!TypeOK, Usage!Finish, Usage!Goto, Usage!Places,
     CallOK, CallOwns, CallInvoice, Covers, AtParty, HasInvoice

(* Where nothing that is stored changes: a call goes on, or ends.          *)
LEMMA UsageQuiet ==
    ASSUME UsageInv, NEW c \in Callers, Usage!Finish(c),
           UNCHANGED <<run, item, charge, invoices>>
    PROVE  UsageInv'
<1>1. Usage!TypeOK'
  BY UsageFinish DEF UsageInv, Usage!TypeOK
<1>2. Keeps
  BY DEF Keeps
<1>3. \A d \in Callers : CallOK(d)'
  BY <1>2, UsageFinish, OtherCall
<1> QED
  BY <1>1, <1>2, <1>3, KeptInvoices DEF UsageInv

LEMMA UsageAddCharge ==
    ASSUME UsageInv, NEW x \in Charges, Usage!AddCharge(x)
    PROVE  UsageInv'
<1>1. /\ charge' = [charge EXCEPT ![x] = "pending"] /\ charge[x] = "none"
      /\ UNCHANGED <<run, item, invoices, caller, period, work, current, invoice>>
  BY DEF Usage!AddCharge, Usage!callVars
<1>2. Usage!TypeOK'
  BY <1>1 DEF UsageInv, Usage!TypeOK
<1>3. Keeps
  BY <1>1 DEF Keeps
<1>4. \A d \in Callers : CallOK(d)'
  BY <1>1, <1>3, OtherCall
<1>5. ItemsInvoiced' /\ CompletedHasItems'
  BY <1>1 DEF UsageInv, ItemsInvoiced, CompletedHasItems, Final
<1>6. \A y \in Charges : charge'[y] = "billed" => charge[y] = "billed"
  BY <1>1 DEF UsageInv, Usage!TypeOK
<1>7. Usage!BilledIsInvoiced'
  BY <1>1, <1>6 DEF UsageInv, Usage!BilledIsInvoiced, Usage!FinalizedFor
<1> QED
  BY <1>2, <1>4, <1>5, <1>7 DEF UsageInv

(* The steps before the loop, and the end of one party.                    *)
LEMMA UsageFetch ==
    ASSUME UsageInv, NEW c \in Callers, NEW p \in Periods,
           Usage!FetchExistingRun(c, p)
    PROVE  UsageInv'
<1>1. /\ caller[c] = "idle"
      /\ period' = [period EXCEPT ![c] = p]
      /\ caller' = [caller EXCEPT ![c] = IF run[p] = "processing" THEN "start" ELSE "insert"]
      /\ UNCHANGED <<run, item, charge, invoices, work, current, invoice>>
  BY DEF Usage!FetchExistingRun, Usage!Goto
<1>2. Usage!TypeOK'
  BY <1>1 DEF UsageInv, Usage!TypeOK, Usage!Places
<1>3. Keeps
  BY <1>1 DEF Keeps
<1>4. CallOK(c)'
  BY <1>1 DEF UsageInv, Usage!TypeOK, CallOK, CallOwns, OwnCharges, CallInvoice,
     Covers, AtParty, HasInvoice
<1>5. \A d \in Callers \ {c} : CallOK(d)'
  BY <1>1, <1>3, OtherCall DEF UsageInv, Usage!TypeOK
<1> QED
  BY <1>1, <1>2, <1>3, <1>4, <1>5, KeptInvoices DEF UsageInv

LEMMA UsageRun ==
    ASSUME UsageInv, NEW c \in Callers,
           Usage!InsertBillingRun(c) \/ Usage!SetRunProcessing(c)
    PROVE  UsageInv'
<1> DEFINE p == period[c]
<1>1. /\ caller[c] \in {"insert", "start"}
      /\ \E s \in {"start", "collect"} : caller' = [caller EXCEPT ![c] = s]
      /\ \E t \in {"pending", "processing", run[p]} : run' = [run EXCEPT ![p] = t]
      /\ UNCHANGED <<item, charge, invoices, period, work, current, invoice>>
  BY DEF Usage!InsertBillingRun, Usage!SetRunProcessing, Usage!Goto
<1>2. /\ Usage!TypeOK'
      /\ \A q \in Periods : run'[q] = "completed" => run[q] = "completed"
  <2>1. p \in Periods
    BY <1>1 DEF UsageInv, Usage!TypeOK
  <2>2. /\ caller' \in [Callers -> Usage!Places]
        /\ \A d \in Callers : caller'[d] # "idle" => caller[d] # "idle"
    BY <1>1 DEF UsageInv, Usage!TypeOK, Usage!Places
  <2>3. /\ run' \in [Periods -> {"none", "pending", "processing", "completed"}]
        /\ \A q \in Periods : run'[q] = "completed" => run[q] = "completed"
    <3>1. PICK t \in {"pending", "processing", run[p]} :
             run' = [run EXCEPT ![p] = t]
      BY <1>1
    <3>2. run \in [Periods -> {"none", "pending", "processing", "completed"}]
      BY DEF UsageInv, Usage!TypeOK
    <3>3. t \in {"none", "pending", "processing", "completed"}
          /\ (t = "completed" => run[p] = "completed")
      BY <2>1, <3>2
    <3> QED
      BY <2>1, <3>1, <3>2, <3>3
  <2> QED
    BY <1>1, <2>2, <2>3 DEF UsageInv, Usage!TypeOK
<1>3. Keeps
  BY <1>1 DEF Keeps
<1>4. CallOK(c)'
  BY <1>1 DEF UsageInv, Usage!TypeOK, CallOK, CallOwns, OwnCharges, CallInvoice,
     Covers, AtParty, HasInvoice
<1>5. \A d \in Callers \ {c} : CallOK(d)'
  BY <1>1, <1>3, OtherCall DEF UsageInv, Usage!TypeOK
<1>6. ItemsInvoiced' /\ Usage!BilledIsInvoiced' /\ CompletedHasItems'
  BY <1>1, <1>2, BilledOnFinalized DEF UsageInv, ItemsInvoiced,
     CompletedHasItems, Final, OnFinalized
<1> QED
  BY <1>2, <1>4, <1>5, <1>6 DEF UsageInv

LEMMA UsageCollect ==
    ASSUME UsageInv, NEW c \in Callers, Usage!CollectParties(c)
    PROVE  UsageInv'
<1> DEFINE Q == {r \in Parties \ item[period[c]] :
                    r \in Agreed \/ Usage!PendingOf(r) # {}}
           Part(q) == [party |-> q, charges |-> Usage!PendingOf(q)]
           W == {Part(q) : q \in Q}
<1>1. /\ caller[c] = "collect" /\ caller' = [caller EXCEPT ![c] = "loop"]
      /\ work' = [work EXCEPT ![c] = W]
      /\ UNCHANGED <<run, item, charge, invoices, period, current, invoice>>
  BY DEF Usage!CollectParties, Usage!Goto
<1>2. ASSUME NEW q \in Q
      PROVE  Part(q) \in Usage!Work /\ OwnCharges(Part(q)) /\ Part(q).party = q
  BY DEF Usage!Work, Usage!PendingOf, OwnCharges
<1> HIDE DEF Part
<1>3. W \in SUBSET Usage!Work /\ \A w \in W : OwnCharges(w)
  BY <1>2
<1>4. \A q \in Agreed : q \in item[period[c]] \/ \E w \in W : w.party = q
  BY <1>2, SystemAssumption
<1> HIDE DEF W
<1>5. Usage!TypeOK'
  BY <1>1, <1>3 DEF UsageInv, Usage!TypeOK, Usage!Places
<1>6. Keeps
  BY <1>1 DEF Keeps
<1>7. CallOK(c)'
  BY <1>1, <1>3, <1>4 DEF UsageInv, Usage!TypeOK, CallOK, CallOwns, OwnCharges, CallInvoice,
     Covers, AtParty, HasInvoice
<1>8. \A d \in Callers \ {c} : CallOK(d)'
  BY <1>1, <1>6, OtherCall DEF UsageInv, Usage!TypeOK
<1> QED
  BY <1>1, <1>5, <1>6, <1>7, <1>8, KeptInvoices DEF UsageInv

LEMMA UsageTake ==
    ASSUME UsageInv, NEW c \in Callers, NEW q \in work[c], Usage!TakeParty(c, q)
    PROVE  UsageInv'
<1>1. /\ caller[c] = "loop" /\ work' = [work EXCEPT ![c] = @ \ {q}]
      /\ \/ q.party \in item[period[c]] /\ UNCHANGED <<caller, current>>
         \/ /\ caller' = [caller EXCEPT ![c] = "create"]
            /\ current' = [current EXCEPT ![c] = q]
      /\ UNCHANGED <<run, item, charge, invoices, period, invoice>>
  BY DEF Usage!TakeParty, Usage!Goto
<1>2. q \in Usage!Work /\ OwnCharges(q)
  BY DEF UsageInv, Usage!TypeOK, CallOK, CallOwns
<1>3. Usage!TypeOK'
  BY <1>1, <1>2 DEF UsageInv, Usage!TypeOK, Usage!Places
<1>4. Keeps
  BY <1>1 DEF Keeps
<1>5. CallOK(c)'
  <2>1. /\ work'[c] = work[c] \ {q} /\ caller'[c] \in {"loop", "create"}
        /\ caller'[c] = "create" => current'[c] = q
        /\ caller'[c] = "loop" => q.party \in item[period[c]]
    BY <1>1 DEF UsageInv, Usage!TypeOK
  <2>2. CallOwns(c)' /\ CallInvoice(c)'
    BY <1>2, <2>1 DEF UsageInv, CallOK, CallOwns, OwnCharges, CallInvoice, AtParty,
       HasInvoice, Usage!Work
  <2>3. Covers(c)'
    BY <1>1, <2>1 DEF UsageInv, CallOK, Covers, AtParty
  <2> QED
    BY <2>2, <2>3 DEF CallOK
<1>6. \A d \in Callers \ {c} : CallOK(d)'
  BY <1>1, <1>4, OtherCall DEF UsageInv, Usage!TypeOK
<1> QED
  BY <1>1, <1>3, <1>4, <1>5, <1>6, KeptInvoices DEF UsageInv

LEMMA UsageCreate ==
    ASSUME UsageInv, NEW c \in Callers, NEW answered \in BOOLEAN,
           Usage!CreateInvoice(c, answered)
    PROVE  UsageInv'
<1> DEFINE n == Len(invoices)
           new == [period |-> period[c], party |-> current[c].party,
                   charges |-> current[c].charges, finalized |-> FALSE]
<1>1. /\ caller[c] = "create" /\ invoices' = Append(invoices, new)
      /\ UNCHANGED <<run, item, charge>>
  BY DEF Usage!CreateInvoice
<1>2. /\ period[c] \in Periods /\ current[c] \in Usage!Work
      /\ OwnCharges(current[c])
  BY <1>1 DEF UsageInv, Usage!TypeOK, CallOK, CallOwns, AtParty
<1>3. new \in Usage!Invoice
  BY <1>2 DEF Usage!Work, Usage!Invoice
<1>4. /\ new.period = period[c] /\ new.party = current[c].party
      /\ new.charges = current[c].charges
  OBVIOUS
<1> HIDE DEF new
<1>5. invoices \in Seq(Usage!Invoice) /\ n \in Nat
  BY DEF UsageInv, Usage!TypeOK
<1>6. /\ invoices' \in Seq(Usage!Invoice) /\ Len(invoices') = n + 1
      /\ DOMAIN invoices' = 1 .. n + 1 /\ DOMAIN invoices = 1 .. n
      /\ \A i \in 1 .. n : invoices'[i] = invoices[i]
      /\ invoices'[n + 1] = new
  BY <1>1, <1>3, <1>5
<1>7. Keeps
  BY <1>5, <1>6 DEF Keeps
<1>8. CASE /\ invoice' = [invoice EXCEPT ![c] = n + 1]
           /\ Usage!Goto(c, "finalize") /\ UNCHANGED <<period, work, current>>
  <2>1. /\ caller' = [caller EXCEPT ![c] = "finalize"]
        /\ invoice' = [invoice EXCEPT ![c] = n + 1]
        /\ UNCHANGED <<period, work, current>>
    BY <1>8 DEF Usage!Goto
  <2>2. invoice' \in [Callers -> 0 .. Len(invoices')]
    BY <1>5, <1>6, <2>1 DEF UsageInv, Usage!TypeOK
  <2>3. Usage!TypeOK'
    BY <1>1, <1>2, <1>6, <2>1, <2>2 DEF UsageInv, Usage!TypeOK, Usage!Places
  <2>4. caller'[c] = "finalize" /\ invoice'[c] = n + 1
    BY <2>1 DEF UsageInv, Usage!TypeOK
  <2>5. CallOwns(c)'
    BY <1>2, <2>1 DEF UsageInv, CallOK, CallOwns, OwnCharges, Usage!Work
  <2>6. CallInvoice(c)'
    BY <1>4, <1>5, <1>6, <2>1, <2>4 DEF CallInvoice
  <2>7. Covers(c)'
    BY <1>1, <2>1, <2>4 DEF UsageInv, CallOK, Covers, AtParty
  <2>8. \A d \in Callers \ {c} : CallOK(d)'
    BY <1>1, <1>7, <2>1, OtherCall DEF UsageInv, Usage!TypeOK
  <2> QED
    BY <1>1, <1>7, <2>3, <2>5, <2>6, <2>7, <2>8, KeptInvoices DEF UsageInv, CallOK
<1>9. CASE Usage!Finish(c)
  <2>1. \A i : i \in 0 .. n => i \in 0 .. Len(invoices')
    BY <1>5, <1>6
  <2>2. Usage!TypeOK'
    BY <1>1, <1>6, <1>9, <2>1, UsageFinish DEF UsageInv, Usage!TypeOK
  <2>3. CallOK(c)'
    BY <1>9 DEF UsageInv, Usage!TypeOK, Usage!Finish, Usage!Goto,
       CallOK, CallOwns, CallInvoice, Covers, AtParty, HasInvoice
  <2>4. \A d \in Callers \ {c} : CallOK(d)'
    BY <1>1, <1>7, <1>9, UsageFinish, OtherCall
  <2> QED
    BY <1>1, <1>7, <2>2, <2>3, <2>4, KeptInvoices DEF UsageInv
<1> QED
  BY <1>8, <1>9 DEF Usage!CreateInvoice

LEMMA UsageFinalize ==
    ASSUME UsageInv, NEW c \in Callers, NEW answered \in BOOLEAN,
           Usage!FinalizeInvoice(c, answered)
    PROVE  UsageInv'
<1> DEFINE i == invoice[c]
<1>1. /\ caller[c] = "finalize"
      /\ invoices' = [invoices EXCEPT ![i].finalized = TRUE]
      /\ UNCHANGED <<run, item, charge>>
  BY DEF Usage!FinalizeInvoice
<1>2. /\ i \in DOMAIN invoices
      /\ invoices[i].period = period[c] /\ invoices[i].party = current[c].party
      /\ invoices[i].charges = current[c].charges
  BY <1>1 DEF UsageInv, CallOK, CallInvoice, HasInvoice
<1>3. invoices \in Seq(Usage!Invoice) /\ Len(invoices) \in Nat
  BY DEF UsageInv, Usage!TypeOK
<1> DEFINE new == [invoices[i] EXCEPT !.finalized = TRUE]
<1>4. invoices[i] \in Usage!Invoice
  BY <1>2, <1>3
<1>5. /\ new \in Usage!Invoice /\ new.finalized
      /\ new.period = invoices[i].period /\ new.party = invoices[i].party
      /\ new.charges = invoices[i].charges
  BY <1>4 DEF Usage!Invoice
<1>6. invoices' = [invoices EXCEPT ![i] = new]
  BY <1>1
<1> HIDE DEF new
<1>7. /\ invoices' \in Seq(Usage!Invoice) /\ Len(invoices') = Len(invoices)
      /\ DOMAIN invoices' = DOMAIN invoices
      /\ invoices'[i] = new
      /\ \A j \in DOMAIN invoices \ {i} : invoices'[j] = invoices[j]
  BY <1>2, <1>3, <1>5, <1>6
<1>8. Keeps
  BY <1>5, <1>7 DEF Keeps
<1>9. CASE Usage!Goto(c, "item") /\ UNCHANGED <<period, work, current, invoice>>
  <2>1. /\ caller' = [caller EXCEPT ![c] = "item"]
        /\ UNCHANGED <<period, work, current, invoice>>
    BY <1>9 DEF Usage!Goto
  <2>2. Usage!TypeOK'
    BY <1>1, <1>7, <2>1 DEF UsageInv, Usage!TypeOK, Usage!Places
  <2>3. CallOwns(c)'
    BY <1>1, <2>1 DEF UsageInv, CallOK, CallOwns, OwnCharges, AtParty, Usage!Work
  <2>4. CallInvoice(c)'
    BY <1>2, <1>5, <1>7, <2>1 DEF CallInvoice
  <2>5. Covers(c)'
    BY <1>1, <2>1 DEF UsageInv, Usage!TypeOK, CallOK, Covers, AtParty
  <2>6. \A d \in Callers \ {c} : CallOK(d)'
    BY <1>1, <1>8, <2>1, OtherCall DEF UsageInv, Usage!TypeOK
  <2> QED
    BY <1>1, <1>8, <2>2, <2>3, <2>4, <2>5, <2>6, KeptInvoices DEF UsageInv, CallOK
<1>10. CASE Usage!Finish(c)
  <2>1. Usage!TypeOK'
    BY <1>1, <1>7, <1>10, UsageFinish DEF UsageInv, Usage!TypeOK
  <2>2. CallOK(c)'
    BY <1>10, UsageFinish
  <2>3. \A d \in Callers \ {c} : CallOK(d)'
    BY <1>1, <1>8, <1>10, UsageFinish, OtherCall
  <2> QED
    BY <1>1, <1>8, <2>1, <2>2, <2>3, KeptInvoices DEF UsageInv
<1> QED
  BY <1>9, <1>10 DEF Usage!FinalizeInvoice

(* The end of a party.                                                     *)
LEMMA UsageContinue ==
    ASSUME UsageInv, NEW c \in Callers, Usage!Continue(c), AtParty(c),
           UNCHANGED invoices,
           \A p \in Periods : item[p] \subseteq item'[p],
           caller[c] = "charges" \/ current[c].party \in item'[period[c]]
    PROVE  /\ caller' \in [Callers -> Usage!Places]
           /\ \A d \in Callers : caller'[d] # "idle" => caller[d] # "idle"
           /\ UNCHANGED <<period, work>>
           /\ current' \in [Callers -> Usage!Work \cup {Usage!NoWork}]
           /\ invoice' \in [Callers -> 0 .. Len(invoices)]
           /\ \A d \in Callers : CallOK(d)'
<1>1. /\ caller' = [caller EXCEPT ![c] = "loop"]
      /\ current' = [current EXCEPT ![c] = Usage!NoWork]
      /\ invoice' = [invoice EXCEPT ![c] = 0]
      /\ UNCHANGED <<period, work>>
  BY DEF Usage!Continue, Usage!Goto
<1>2. /\ Len(invoices) \in Nat /\ period[c] \in Periods /\ caller[c] # "idle"
  BY DEF UsageInv, Usage!TypeOK, AtParty
<1>3. CallOwns(c)' /\ CallInvoice(c)'
  BY <1>1 DEF UsageInv, Usage!TypeOK, CallOK, CallOwns, OwnCharges, CallInvoice,
     AtParty, HasInvoice
<1>4. Covers(c)'
  BY <1>1, <1>2 DEF UsageInv, CallOK, Covers, AtParty
<1>5. Keeps
  BY DEF Keeps
<1>6. \A d \in Callers \ {c} : CallOK(d)'
  BY <1>1, <1>5, OtherCall DEF UsageInv, Usage!TypeOK
<1> QED
  BY <1>1, <1>2, <1>3, <1>4, <1>6 DEF UsageInv, Usage!TypeOK, Usage!Places, CallOK

LEMMA UsageItem ==
    ASSUME UsageInv, NEW c \in Callers, Usage!UpsertBillingItem(c)
    PROVE  UsageInv'
<1> DEFINE p == period[c]
           q == current[c].party
<1>1. /\ caller[c] = "item"
      /\ item' = [item EXCEPT ![p] = @ \cup {q}]
      /\ UNCHANGED <<run, charge, invoices>>
  BY DEF Usage!UpsertBillingItem
<1>2. p \in Periods /\ current[c] \in Usage!Work /\ q \in Parties /\ AtParty(c)
  BY <1>1 DEF UsageInv, Usage!TypeOK, CallOK, CallOwns, AtParty, Usage!Work
<1>3. /\ item' \in [Periods -> SUBSET Parties]
      /\ item'[p] = item[p] \cup {q}
      /\ \A x \in Periods \ {p} : item'[x] = item[x]
  BY <1>1, <1>2 DEF UsageInv, Usage!TypeOK
<1>4. Final(p, q) # {}
  BY <1>1 DEF UsageInv, CallOK, CallInvoice, HasInvoice, Final
<1>5. ItemsInvoiced'
  BY <1>1, <1>3, <1>4 DEF UsageInv, ItemsInvoiced, Final
<1>6. Usage!BilledIsInvoiced' /\ CompletedHasItems'
  BY <1>1, <1>3, BilledOnFinalized DEF UsageInv, CompletedHasItems, OnFinalized
<1>7. CASE Usage!Continue(c)
  <2>1. /\ caller' \in [Callers -> Usage!Places]
        /\ \A d \in Callers : caller'[d] # "idle" => caller[d] # "idle"
        /\ UNCHANGED <<period, work>>
        /\ current' \in [Callers -> Usage!Work \cup {Usage!NoWork}]
        /\ invoice' \in [Callers -> 0 .. Len(invoices)]
        /\ \A d \in Callers : CallOK(d)'
    BY <1>1, <1>2, <1>3, <1>7, UsageContinue
  <2>2. Usage!TypeOK'
    BY <1>1, <1>3, <2>1 DEF UsageInv, Usage!TypeOK
  <2> QED
    BY <1>5, <1>6, <2>1, <2>2 DEF UsageInv
<1>8. CASE Usage!Goto(c, "charges") /\ UNCHANGED <<period, work, current, invoice>>
  <2>1. /\ caller' = [caller EXCEPT ![c] = "charges"]
        /\ UNCHANGED <<period, work, current, invoice>>
    BY <1>8 DEF Usage!Goto
  <2>2. Usage!TypeOK'
    BY <1>1, <1>2, <1>3, <2>1 DEF UsageInv, Usage!TypeOK, Usage!Places
  <2>3. CallOwns(c)' /\ CallInvoice(c)'
    BY <1>1, <2>1 DEF UsageInv, Usage!TypeOK, CallOK, CallOwns, OwnCharges,
       CallInvoice, AtParty, HasInvoice, Usage!Work
  <2>4. Covers(c)'
    BY <1>1, <1>3, <2>1 DEF UsageInv, CallOK, Covers, AtParty
  <2>5. Keeps
    BY <1>1 DEF Keeps
  <2>6. \A d \in Callers \ {c} : CallOK(d)'
    BY <1>1, <1>3, <2>1, <2>5, OtherCall DEF UsageInv, Usage!TypeOK
  <2> QED
    BY <1>5, <1>6, <2>2, <2>3, <2>4, <2>6 DEF UsageInv, CallOK
<1> QED
  BY <1>7, <1>8 DEF Usage!UpsertBillingItem

LEMMA UsageBilled ==
    ASSUME UsageInv, NEW c \in Callers, Usage!MarkChargesBilled(c)
    PROVE  UsageInv'
<1> DEFINE mine == current[c].charges
<1>1. /\ caller[c] = "charges"
      /\ charge' = [x \in Charges |->
                       IF x \in mine /\ charge[x] = "pending" THEN "billed"
                       ELSE charge[x]]
      /\ Usage!Continue(c) /\ UNCHANGED <<run, item, invoices>>
  BY DEF Usage!MarkChargesBilled
<1>2. /\ AtParty(c) /\ HasInvoice(c) /\ current[c] \in Usage!Work
      /\ OwnCharges(current[c]) /\ period[c] \in Periods
  BY <1>1 DEF UsageInv, Usage!TypeOK, CallOK, CallOwns, AtParty, HasInvoice
<1>3. \A d \in Callers : CallOK(d)'
  BY <1>1, <1>2, UsageContinue
<1>4. Usage!TypeOK'
  <2>1. charge' \in [Charges -> {"none", "pending", "billed"}]
    BY <1>1 DEF UsageInv, Usage!TypeOK
  <2> QED
    BY <1>1, <1>2, <2>1, UsageContinue DEF UsageInv, Usage!TypeOK
<1>5. \A x \in mine : OnFinalized(x)
  BY <1>1, <1>2 DEF UsageInv, CallOK, CallInvoice, OwnCharges, OnFinalized
<1>6. \A x \in Charges : charge'[x] = "billed" => OnFinalized(x)
  BY <1>1, <1>5, BilledOnFinalized DEF UsageInv
<1>7. Usage!BilledIsInvoiced'
  BY <1>1, <1>6, BilledOnFinalized DEF OnFinalized
<1>8. ItemsInvoiced' /\ CompletedHasItems'
  BY <1>1 DEF UsageInv, ItemsInvoiced, CompletedHasItems, Final
<1> QED
  BY <1>3, <1>4, <1>7, <1>8 DEF UsageInv

LEMMA UsageCompleted ==
    ASSUME UsageInv, NEW c \in Callers, Usage!SetRunCompleted(c)
    PROVE  UsageInv'
<1> DEFINE p == period[c]
<1>1. /\ caller[c] = "loop" /\ work[c] = {}
      /\ run' = [run EXCEPT ![p] = "completed"]
      /\ Usage!Finish(c) /\ UNCHANGED <<item, charge, invoices>>
  BY DEF Usage!SetRunCompleted
<1>2. p \in Periods /\ Agreed \subseteq item[p]
  BY <1>1 DEF UsageInv, Usage!TypeOK, CallOK, Covers, AtParty
<1>3. /\ run' \in [Periods -> {"none", "pending", "processing", "completed"}]
      /\ \A x \in Periods \ {p} : run'[x] = run[x]
  BY <1>1, <1>2 DEF UsageInv, Usage!TypeOK
<1>4. Usage!TypeOK'
  BY <1>1, <1>3, UsageFinish DEF UsageInv, Usage!TypeOK
<1>5. Keeps
  BY <1>1 DEF Keeps
<1>6. \A d \in Callers : CallOK(d)'
  BY <1>1, <1>5, UsageFinish, OtherCall
<1>7. ItemsInvoiced' /\ Usage!BilledIsInvoiced' /\ CompletedHasItems'
  BY <1>1, <1>2, <1>3, BilledOnFinalized DEF UsageInv, ItemsInvoiced,
     CompletedHasItems, Final, OnFinalized
<1> QED
  BY <1>4, <1>6, <1>7 DEF UsageInv

LEMMA UsageStep ==
    ASSUME UsageInv, [Usage!Next]_Usage!vars
    PROVE  UsageInv'
<1>1. ASSUME NEW c \in Callers, Usage!Fail(c) PROVE UsageInv'
  BY <1>1, UsageQuiet DEF Usage!Fail
<1>2. CASE UNCHANGED Usage!vars
  <2>1. Usage!TypeOK' /\ Keeps
    BY <1>2 DEF UsageInv, Usage!TypeOK, Usage!vars, Usage!callVars, Keeps
  <2>2. \A d \in Callers : CallOK(d)'
    BY <1>2, <2>1, OtherCall DEF Usage!vars, Usage!callVars
  <2> QED
    BY <1>2, <2>1, <2>2, KeptInvoices DEF UsageInv, Usage!vars, Usage!callVars
<1> QED
  BY <1>1, <1>2, UsageAddCharge, UsageFetch, UsageRun, UsageCollect, UsageTake,
     UsageCreate, UsageFinalize, UsageItem, UsageBilled, UsageCompleted
     DEF Usage!Next

(* What is billed, and what a completed run has done. *)
LEMMA UsageSpec ==
    Usage!Spec => [](Usage!TypeOK /\ Usage!BilledIsInvoiced /\ CompletedIsInvoiced)
<1>1. UsageInv => Usage!TypeOK /\ Usage!BilledIsInvoiced /\ CompletedIsInvoiced
  BY DEF UsageInv, ItemsInvoiced, CompletedHasItems, Final, CompletedIsInvoiced,
     Usage!CompletedIsInvoiced, Usage!FinalizedFor
<1> QED
  BY <1>1, UsageInit, UsageStep, PTL DEF Usage!Spec

-----------------------------------------------------------------------------
(***************************************************************************)
(* Payables.                                                               *)
(*                                                                         *)
(* A transaction that has locked a bill knows its balance until it writes  *)
(* the allocation; a payment run knows what it has done to each of its     *)
(* bills, because nobody else executes the run.  Bills, allocations and    *)
(* runs change together only in a transaction's last step: until then the  *)
(* invariant says what is still to come.                                   *)
(***************************************************************************)
LEMMA PaySum ==
    \A f, S : Paying!SumFunctionOnSet(f, S) = SumFunctionOnSet(f, S)
BY DEF Paying!SumFunctionOnSet, Paying!FoldFunctionOnSet,
       Paying!MapThenFoldSet, SumFunctionOnSet, FoldFunctionOnSet,
       MapThenFoldSet

LEMMA PayConstants ==
    /\ Bills \subseteq Nat
    /\ \A b \in Bills : Total[b] \in Nat \ {0}
    /\ \A b \in Bills : \A n \in 1 .. Total[b] : n \in Paying!Amounts
    /\ Paying!Amounts \subseteq Nat \ {0}
    /\ PaymentRuns \cap Allocations = {}
<1>1. /\ Bills \subseteq Nat /\ Total \in [Bills -> Nat \ {0}]
      /\ PaymentRuns \cap Allocations = {}
  BY SystemAssumption
<1>2. \A b \in Bills : Total[b] \in Nat \ {0}
  BY <1>1
<1> QED
  BY <1>1, <1>2 DEF Paying!Amounts

(* Some rows of ap_allocations. *)
Rows(rows) == IsFiniteSet(rows) /\ rows \subseteq Paying!Allocation

LEMMA RowAmount ==
    \A a \in Paying!Allocation :
        a.amount \in Nat \ {0} /\ a.bill \in Bills /\ a.by \in PaymentRuns \cup Allocations
BY PayConstants DEF Paying!Allocation

LEMMA RowSum ==
    ASSUME NEW rows, Rows(rows)
    PROVE  Paying!Sum(rows) \in Nat
<1> DEFINE f == [a \in rows |-> a.amount]
<1>1. IsFiniteSet(rows) /\ \A a \in rows : f[a] \in Nat
  BY RowAmount DEF Rows
<1>2. Paying!Sum(rows) = SumFunctionOnSet(f, rows)
  BY PaySum DEF Paying!Sum
<1> HIDE DEF f
<1> QED
  BY <1>1, <1>2, SumNat

LEMMA RowAdded ==
    ASSUME NEW rows, Rows(rows), NEW a \in Paying!Allocation, a \notin rows
    PROVE  /\ Rows(rows \cup {a})
           /\ Paying!Sum(rows \cup {a}) = Paying!Sum(rows) + a.amount
<1> DEFINE more == rows \cup {a}
           f == [r \in rows |-> r.amount]
           g == [r \in more |-> r.amount]
<1>1. Rows(more)
  BY FS_AddElement DEF Rows
<1>2. /\ Paying!Sum(rows) = SumFunctionOnSet(f, rows)
      /\ Paying!Sum(more) = SumFunctionOnSet(g, more)
  BY PaySum DEF Paying!Sum
<1>3. /\ IsFiniteSet(more) /\ IsFiniteSet(rows)
      /\ \A r \in more : g[r] \in Int
      /\ a \in more /\ g[a] = a.amount
      /\ more \ {a} = rows
      /\ \A r \in rows : f[r] = g[r]
  BY <1>1, RowAmount DEF Rows
<1>4. Paying!Sum(more) = a.amount + SumFunctionOnSet(g, rows)
  <2> HIDE DEF g, f, more
  <2>1. SumFunctionOnSet(g, more) = g[a] + SumFunctionOnSet(g, more \ {a})
    BY <1>3, SumRemove
  <2> QED
    BY <1>2, <1>3, <2>1
<1>5. SumFunctionOnSet(f, rows) = SumFunctionOnSet(g, rows)
  <2> HIDE DEF g, f, more
  <2> QED BY <1>3, SumCongruence
<1>6. a.amount \in Nat /\ Paying!Sum(rows) \in Nat
  BY RowAmount, RowSum
<1> QED
  BY <1>1, <1>2, <1>4, <1>5, <1>6

(* More rows are more. *)
LEMMA RowsMore ==
    ASSUME NEW more, Rows(more), NEW rows \in SUBSET more
    PROVE  Rows(rows) /\ Paying!Sum(rows) <= Paying!Sum(more)
<1> DEFINE Bad == {t \in SUBSET (more \ rows) :
                      ~ (Paying!Sum(rows) <= Paying!Sum(rows \cup t))}
<1>1. \A t \in SUBSET more : Rows(t) /\ Paying!Sum(t) \in Nat
  BY RowSum, FS_Subset DEF Rows
<1>2. Bad = {}
  <2> SUFFICES ASSUME Bad # {} PROVE FALSE
    OBVIOUS
  <2>1. PICK t \in Bad : \A u \in Bad : u \subseteq t => u = t
    <3>1. Bad \in SUBSET (SUBSET (more \ rows)) /\ IsFiniteSet(more \ rows)
      BY <1>1 DEF Rows
    <3> HIDE DEF Bad
    <3> QED BY <3>1, MinimalSubset
  <2>2. t # {}
    <3>1. ~ (Paying!Sum(rows) <= Paying!Sum(rows \cup t)) /\ Paying!Sum(rows) \in Nat
      BY <1>1, <2>1
    <3>2. t = {} => rows \cup t = rows
      OBVIOUS
    <3> HIDE DEF Bad
    <3> QED BY <3>1, <3>2
  <2>3. PICK a \in t : TRUE
    BY <2>2
  <2> DEFINE s == t \ {a}
  <2>4. s \notin Bad /\ s \in SUBSET (more \ rows)
    <3>1. s \subseteq t /\ s # t
      BY <2>3
    <3> QED BY <2>1, <3>1
  <2>5. Paying!Sum(rows) <= Paying!Sum(rows \cup s)
    BY <2>4
  <2>6. Paying!Sum(rows \cup t) = Paying!Sum(rows \cup s) + a.amount
    <3>1. rows \cup t = (rows \cup s) \cup {a} /\ a \notin rows \cup s
      BY <2>1, <2>3
    <3>2. Rows(rows \cup s) /\ a \in Paying!Allocation
      BY <1>1, <2>1, <2>3 DEF Rows
    <3> HIDE DEF s, Bad
    <3> QED BY <3>1, <3>2, RowAdded
  <2>7. /\ a.amount \in Nat /\ Paying!Sum(rows) \in Nat
        /\ Paying!Sum(rows \cup s) \in Nat
    <3>1. a \in Paying!Allocation /\ rows \cup s \in SUBSET more
      BY <1>1, <2>1, <2>3 DEF Rows
    <3> QED BY <1>1, <3>1, RowAmount
  <2>8. ~ (Paying!Sum(rows) <= Paying!Sum(rows \cup t))
    BY <2>1
  <2> QED
    BY <2>5, <2>6, <2>7, <2>8
<1>3. more \ rows \notin Bad /\ rows \cup (more \ rows) = more
  BY <1>2
<1> QED
  BY <1>1, <1>3

(* What rows leave of a bill. *)
LEMMA OpenType ==
    ASSUME NEW rows, Rows(rows), NEW b \in Bills
    PROVE  Paying!OpenIn(rows, b) \in Int /\ Paying!OpenIn(rows, b) <= Total[b]
<1>1. Paying!Sum({a \in rows : a.bill = b}) \in Nat
  BY RowsMore, RowSum
<1> QED
  BY <1>1, PayConstants DEF Paying!OpenIn

LEMMA OpenLess ==
    ASSUME NEW more, Rows(more), NEW rows \in SUBSET more, NEW b \in Bills
    PROVE  Paying!OpenIn(more, b) <= Paying!OpenIn(rows, b)
<1> DEFINE m == {a \in more : a.bill = b}
           r == {a \in rows : a.bill = b}
<1>1. Rows(m)
  BY RowsMore
<1>2. r \in SUBSET m
  OBVIOUS
<1>3. Paying!Sum(r) <= Paying!Sum(m) /\ Paying!Sum(r) \in Nat /\ Paying!Sum(m) \in Nat
  <2> HIDE DEF m, r
  <2> QED BY <1>1, <1>2, RowsMore, RowSum
<1> QED
  BY <1>3, PayConstants DEF Paying!OpenIn

LEMMA OpenAdd ==
    ASSUME NEW rows, Rows(rows), NEW a \in Paying!Allocation, a \notin rows,
           NEW b \in Bills
    PROVE  /\ b = a.bill =>
                Paying!OpenIn(rows \cup {a}, b) = Paying!OpenIn(rows, b) - a.amount
           /\ b # a.bill =>
                Paying!OpenIn(rows \cup {a}, b) = Paying!OpenIn(rows, b)
<1> DEFINE r == {x \in rows : x.bill = b}
<1>1. CASE b = a.bill
  <2>1. {x \in rows \cup {a} : x.bill = b} = r \cup {a}
    BY <1>1
  <2>2. Rows(r) /\ a \notin r
    BY RowsMore
  <2>3. Paying!Sum(r \cup {a}) = Paying!Sum(r) + a.amount /\ Paying!Sum(r) \in Nat
    <3> HIDE DEF r
    <3> QED BY <2>2, RowAdded, RowSum
  <2>4. /\ Paying!OpenIn(rows \cup {a}, b) = Total[b] - Paying!Sum(r \cup {a})
        /\ Paying!OpenIn(rows, b) = Total[b] - Paying!Sum(r)
    BY <2>1 DEF Paying!OpenIn
  <2>5. Total[b] \in Nat /\ a.amount \in Nat
    BY PayConstants, RowAmount
  <2> HIDE DEF r
  <2> QED
    BY <1>1, <2>3, <2>4, <2>5
<1>2. CASE b # a.bill
  <2>1. {x \in rows \cup {a} : x.bill = b} = r
    BY <1>2
  <2> QED
    BY <1>2, <2>1 DEF Paying!OpenIn
<1> QED
  BY <1>1, <1>2

Settled == {"paid", "voided"}
WasApproved(b) == billStatus[b] \in Paying!Payable \cup Settled

(* The bills of its run that a worker has come to. *)
CameTo(w) == items[payment[w].by] \ left[w]

(* A call that has the row lock of its bill: nobody else has it or writes  *)
(* an allocation of the bill, and what it read still holds.                *)
HoldsBill(w) ==
    LET b == payment[w].bill IN
    /\ billStatus[b] \in Paying!Payable
    /\ payment[w].amount <= Paying!Open(b)
    /\ ~Paying!Shared(b)
    /\ \A v \in Workers : v # w /\ payer[v] = "apply" => payment[v].bill # b

(* A run that is executed: by one worker, who has come to some bills. *)
HoldsRun(w) ==
    LET r == payment[w].by IN
    /\ r \in PaymentRuns /\ runStatus[r] = "pending"
    /\ left[w] \subseteq items[r]
    /\ \A v \in Workers : v # w /\ Paying!Executing(v) => payment[v].by # r

(* The bill it is at, with an amount that covers what is open. *)
AtBill(w) ==
    /\ payment[w] \in Paying!Allocation
    /\ payment[w].bill \in CameTo(w)
    /\ Paying!Open(payment[w].bill) <= payment[w].amount

NoneOf(w, b) == \A a \in added[w] : a.bill # b

(* Every bill it has come to has a row, or nothing open, or it is at it. *)
Served(w, b) ==
    \/ ~NoneOf(w, b)
    \/ Paying!Open(b) <= 0
    \/ payer[w] = "insert" /\ payment[w].bill = b

(* A row that is not committed: the only one of its bill, it covers what   *)
(* is open, and unless the status is still to be looked at, the bill is    *)
(* set to paid or has got its final status from another.                   *)
Inserted(w, a) ==
    /\ a.by = payment[w].by
    /\ a.bill \in CameTo(w)
    /\ Paying!Open(a.bill) <= a.amount
    /\ \A c \in added[w] : c.bill = a.bill => c = a
    /\ \/ a.bill \in paid[w]
       \/ billStatus[a.bill] \in Settled
       \/ payer[w] = "mark" /\ payment[w].bill = a.bill

(* An update of a status that is not committed is the only one.            *)
Updating(w, b) ==
    /\ ~NoneOf(w, b)
    /\ billStatus[b] \in Paying!Payable
    /\ \A v \in Workers : v # w => b \notin paid[v]

PayerOK(w) ==
    /\ payer[w] \in {"lock", "apply"} =>
          payment[w] \in Paying!Allocation /\ payment[w].by \in Allocations
    /\ payer[w] = "apply" => HoldsBill(w)
    /\ payer[w] = "create" =>
          payment[w].by \in PaymentRuns /\ \A b \in left[w] : WasApproved(b)
    /\ Paying!Executing(w) =>
          HoldsRun(w) /\ \A b \in CameTo(w) : Served(w, b)
    /\ payer[w] \in {"insert", "mark"} => AtBill(w)
    /\ payer[w] = "insert" => NoneOf(w, payment[w].bill)
    /\ payer[w] = "mark" => payment[w] \in added[w]
    /\ ~Paying!Executing(w) => added[w] = {} /\ paid[w] = {}
    /\ IsFiniteSet(added[w])
    /\ \A a \in added[w] : Inserted(w, a)
    /\ \A b \in paid[w] : Updating(w, b)

(* Only a completed run has rows, and runs have only bills once approved. *)
RunsOK ==
    /\ \A a \in allocated : a.by \in PaymentRuns => runStatus[a.by] = "completed"
    /\ \A r \in PaymentRuns : \A b \in items[r] : WasApproved(b)

PayInv ==
    /\ Paying!TypeOK
    /\ Rows(allocated)
    /\ RunsOK
    /\ PaymentsAgree
    /\ \A w \in Workers : PayerOK(w)

LEMMA PayInit == Paying!Init => PayInv
<1> SUFFICES ASSUME Paying!Init PROVE PayInv
  OBVIOUS
<1>1. Paying!TypeOK
  BY DEF Paying!Init, Paying!TypeOK, Paying!Statuses, Paying!Places, Paying!NoTask
<1>2. Rows(allocated) /\ Rows({})
  BY FS_EmptySet DEF Paying!Init, Rows
<1>3. PaymentsAgree
  <2>1. Paying!Sum({}) = 0
    BY SumEmpty, PaySum DEF Paying!Sum
  <2>2. \A b \in Bills : Paying!OpenIn({}, b) = Total[b]
    <3> TAKE b \in Bills
    <3>1. {a \in {} : a.bill = b} = {}
      OBVIOUS
    <3> QED
      BY <2>1, <3>1, PayConstants DEF Paying!OpenIn
  <2>3. {a \in {} : a.by \in Allocations} = {}
    OBVIOUS
  <2>4. ASSUME NEW b \in Bills
        PROVE  Paying!StatusFollows(b) /\ Paying!ByHandWithin(b)
    BY <2>2, <2>3, PayConstants
       DEF Paying!Init, Paying!StatusFollows, Paying!ByHandWithin, Paying!Open
  <2> QED
    BY <2>4 DEF Paying!Init, PaymentsAgree, Paying!PaymentsAgree, Paying!NothingLeft
<1>4. \A w \in Workers : PayerOK(w)
  BY FS_EmptySet DEF Paying!Init, PayerOK, Paying!Executing
<1> QED
  BY <1>1, <1>2, <1>3, <1>4 DEF Paying!Init, PayInv, RunsOK

(* A worker another one's step does nothing to. *)
Still(v) ==
    /\ payer'[v] = payer[v] /\ payment'[v] = payment[v]
    /\ left'[v] = left[v] /\ added'[v] = added[v] /\ paid'[v] = paid[v]

(* A bill's status goes on, never back. *)
StatusOn ==
    \A b \in Bills :
        /\ billStatus[b] \in Settled => billStatus'[b] = billStatus[b]
        /\ WasApproved(b) => billStatus'[b] \in Paying!Payable \cup Settled

OthersRun(v) ==
    LET r == payment[v].by IN
    /\ runStatus'[r] = runStatus[r] /\ items'[r] = items[r]
    /\ \A u \in Workers :
          u # v /\ payer'[u] \in {"pay", "insert", "mark"} => payment'[u].by # r

OthersUpdate(v) ==
    \A b \in paid[v] :
        /\ billStatus'[b] = billStatus[b]
        /\ \A u \in Workers : u # v => b \notin paid'[u]

LEMMA PayerStays ==
    ASSUME PayInv, Rows(allocated'), allocated \subseteq allocated', StatusOn,
           NEW v \in Workers, Still(v),
           payer[v] = "apply" => HoldsBill(v)',
           Paying!Executing(v) => OthersRun(v),
           OthersUpdate(v)
    PROVE  PayerOK(v)'
<1>1. PayerOK(v) /\ Paying!TypeOK
  BY DEF PayInv
<1>2. Paying!Executing(v)' = Paying!Executing(v)
  BY DEF Still, Paying!Executing
<1>3. \A b \in Bills : /\ Paying!Open(b) \in Int /\ Paying!Open(b)' \in Int
                       /\ Paying!Open(b)' <= Paying!Open(b)
  BY OpenLess, OpenType DEF PayInv, Paying!Open, Paying!OpenIn
<1>4. \A b : NoneOf(v, b)' = NoneOf(v, b)
  BY DEF Still, NoneOf
<1>5. ASSUME Paying!Executing(v)
      PROVE  /\ HoldsRun(v)' /\ CameTo(v)' = CameTo(v)
             /\ payment[v].by \in PaymentRuns /\ CameTo(v) \subseteq Bills
  BY <1>1, <1>5 DEF PayerOK, HoldsRun, OthersRun, Still, Paying!Executing, CameTo,
     Paying!TypeOK
<1>6. ASSUME Paying!Executing(v)
      PROVE  \A b \in CameTo(v)' : Served(v, b)'
  <2> SUFFICES ASSUME NEW b \in CameTo(v) PROVE Served(v, b)'
    BY <1>5, <1>6
  <2>1. Served(v, b) /\ b \in Bills
    BY <1>1, <1>5, <1>6 DEF PayerOK
  <2> QED
    BY <1>3, <1>4, <2>1 DEF Served, Still
<1>7. payer[v] \in {"insert", "mark"} => AtBill(v)'
  <2> SUFFICES ASSUME payer[v] \in {"insert", "mark"} PROVE AtBill(v)'
    OBVIOUS
  <2>1. AtBill(v) /\ Paying!Executing(v)
    BY <1>1 DEF PayerOK, Paying!Executing
  <2>2. payment[v].bill \in Bills /\ payment[v].amount \in Nat
    BY <2>1, RowAmount DEF AtBill
  <2>3. Paying!Open(payment[v].bill)' <= payment[v].amount
    BY <1>3, <2>1, <2>2 DEF AtBill, Still, Paying!Open
  <2> QED
    BY <1>5, <2>1, <2>3 DEF AtBill, Still
<1>8. \A a \in added'[v] : Inserted(v, a)'
  <2> SUFFICES ASSUME NEW a \in added[v] PROVE Inserted(v, a)'
    BY DEF Still
  <2>1. Inserted(v, a) /\ Paying!Executing(v)
    BY <1>1 DEF PayerOK
  <2>2. a \in Paying!Allocation
    BY <1>1 DEF Paying!TypeOK
  <2>3. a.bill \in Bills /\ a.amount \in Nat
    BY <2>2, RowAmount
  <2>4. Paying!Open(a.bill)' <= a.amount
    BY <1>3, <2>1, <2>3 DEF Inserted
  <2>5. billStatus[a.bill] \in Settled => billStatus'[a.bill] \in Settled
    BY <2>3 DEF StatusOn
  <2> QED
    BY <1>5, <2>1, <2>4, <2>5 DEF Inserted, Still
<1>9. \A b \in paid'[v] : Updating(v, b)'
  <2> SUFFICES ASSUME NEW b \in paid[v] PROVE Updating(v, b)'
    BY DEF Still
  <2>1. Updating(v, b)
    BY <1>1 DEF PayerOK
  <2> QED
    BY <1>4, <2>1 DEF Updating, OthersUpdate
<1>10. payer[v] = "create" => \A b \in left'[v] : WasApproved(b)'
  BY <1>1 DEF PayerOK, StatusOn, Still, WasApproved, Paying!TypeOK
<1>11. ~Paying!Executing(v) => added'[v] = {} /\ paid'[v] = {}
  BY <1>1 DEF PayerOK, Still
<1> QED
  BY <1>1, <1>2, <1>4, <1>5, <1>6, <1>7, <1>8, <1>9, <1>10, <1>11 DEF PayerOK, Still

LEMMA LeastBill ==
    ASSUME NEW S \in SUBSET Nat, S # {}
    PROVE  Paying!Min(S) \in S
<1>1. PICK n \in S : \A m \in S : <<m, n>> \notin OpToRel(<, Nat)
  BY NatLessThanWellFounded, WFMin
<1>2. \A m \in S : ~ (m < n)
  BY <1>1 DEF OpToRel
<1>3. \A m \in S : n <= m
  BY <1>2
<1> QED
  BY <1>3 DEF Paying!Min

(* The bill a run comes to next, and its balance as the run sees it.       *)
LEMMA NextBill ==
    ASSUME PayInv, NEW w \in Workers, payer[w] = "pay", left[w] # {},
           NEW b, b = Paying!Min(left[w]),
           NEW n, n = Paying!OpenIn(allocated \cup added[w], b)
    PROVE  /\ b \in left[w] /\ b \in Bills
           /\ n = Paying!Open(b) /\ n \in Int
           /\ n > 0 => n \in Paying!Amounts
           /\ NoneOf(w, b)
<1>1. PayerOK(w) /\ Paying!TypeOK
  BY DEF PayInv
<1>2. b \in left[w] /\ b \in Bills
  <2>1. left[w] \in SUBSET Nat /\ left[w] \subseteq Bills
    BY <1>1, PayConstants DEF Paying!TypeOK
  <2> QED BY <2>1, LeastBill
<1>3. NoneOf(w, b)
  BY <1>1, <1>2 DEF PayerOK, Inserted, NoneOf, CameTo
<1>4. n = Paying!Open(b)
  <2>1. {a \in allocated \cup added[w] : a.bill = b} = {a \in allocated : a.bill = b}
    BY <1>3 DEF NoneOf
  <2> QED BY <2>1 DEF Paying!Open, Paying!OpenIn
<1>5. n \in Int /\ n <= Total[b] /\ Total[b] \in Nat
  BY <1>2, <1>4, OpenType, PayConstants DEF PayInv, Paying!Open
<1>6. n > 0 => n \in 1 .. Total[b]
  BY <1>5
<1> QED
  BY <1>2, <1>3, <1>4, <1>5, <1>6, PayConstants

(* Once it is over. *)
LEMMA PayerDone ==
    ASSUME Paying!TypeOK, NEW w \in Workers, Paying!Finish(w)
    PROVE  /\ PayerOK(w)' /\ payer'[w] = "idle" /\ added'[w] = {} /\ paid'[w] = {}
           /\ \A v \in Workers : v # w => Still(v)
<1>1. /\ payer'[w] = "idle" /\ added'[w] = {} /\ paid'[w] = {}
      /\ \A v \in Workers : v # w => Still(v)
  BY DEF Paying!Finish, Paying!Goto, Paying!TypeOK, Still
<1> QED
  BY <1>1, FS_EmptySet DEF PayerOK, Paying!Executing

LEMMA PayDoneType ==
    ASSUME Paying!TypeOK, NEW w \in Workers, Paying!Finish(w)
    PROVE  /\ payer' \in [Workers -> Paying!Places]
           /\ payment' \in [Workers -> Paying!Task \cup {Paying!NoTask}]
           /\ left' \in [Workers -> SUBSET Bills]
           /\ added' \in [Workers -> SUBSET Paying!Allocation]
           /\ paid' \in [Workers -> SUBSET Bills]
BY DEF Paying!TypeOK, Paying!Finish, Paying!Goto, Paying!Places

LEMMA RowIsTask == Paying!Allocation \subseteq Paying!Task
BY DEF Paying!Allocation, Paying!Task

LEMMA PayTypeStep ==
    ASSUME PayInv, [Paying!Next]_(Paying!vars)
    PROVE  Paying!TypeOK'
<1> USE DEF PayInv
<1>1. ASSUME NEW b \in Bills, Paying!Match(b) \/ Paying!Approve(b) \/ Paying!Void(b)
      PROVE  Paying!TypeOK'
  BY <1>1 DEF Paying!Match, Paying!Approve, Paying!Void, Paying!SetStatus, Paying!TypeOK,
     Paying!Statuses, Paying!Payable
<1>2. ASSUME NEW w \in Workers, NEW q \in Allocations, NEW b \in Bills,
             NEW n \in Paying!Amounts, Paying!Ask(w, q, b, n)
      PROVE  Paying!TypeOK'
  <2>1. [by |-> q, bill |-> b, amount |-> n] \in Paying!Task
    BY DEF Paying!Task
  <2>2. payment' \in [Workers -> Paying!Task \cup {Paying!NoTask}]
    BY <1>2, <2>1 DEF Paying!Ask, Paying!TypeOK
  <2> QED
    BY <1>2, <2>2 DEF Paying!Ask, Paying!TypeOK, Paying!Goto, Paying!Places
<1>3. ASSUME NEW w \in Workers, Paying!LockBill(w)
      PROVE  Paying!TypeOK'
  <2>1. UNCHANGED <<billStatus, allocated, runStatus, items>>
    BY <1>3 DEF Paying!LockBill
  <2>2. CASE Paying!Finish(w)
    BY <2>1, <2>2, PayDoneType DEF Paying!TypeOK
  <2>3. CASE Paying!Goto(w, "apply") /\ UNCHANGED <<payment, left, added, paid>>
    BY <2>1, <2>3 DEF Paying!TypeOK, Paying!Goto, Paying!Places
  <2> QED
    BY <1>3, <2>2, <2>3 DEF Paying!LockBill
<1>4. ASSUME NEW w \in Workers, Paying!Apply(w)
      PROVE  Paying!TypeOK'
  <2>1. payment[w] \in Paying!Allocation
    BY <1>4 DEF Paying!Apply, PayerOK
  <2>2. allocated' \subseteq Paying!Allocation
    BY <1>4, <2>1 DEF Paying!Apply, Paying!TypeOK
  <2>3. billStatus' \in [Bills -> Paying!Statuses]
    BY <1>4 DEF Paying!Apply, Paying!TypeOK, Paying!Statuses, Paying!Payable
  <2>4. Paying!Finish(w) /\ UNCHANGED <<runStatus, items>>
    BY <1>4 DEF Paying!Apply
  <2> QED
    BY <2>2, <2>3, <2>4, PayDoneType DEF Paying!TypeOK
<1>5. ASSUME NEW w \in Workers, NEW r \in PaymentRuns, NEW bills \in SUBSET Bills,
             Paying!SelectBills(w, r, bills)
      PROVE  Paying!TypeOK'
  <2>1. [by |-> r, bill |-> 0, amount |-> 0] \in Paying!Task
    BY DEF Paying!Task
  <2>2. payment' \in [Workers -> Paying!Task \cup {Paying!NoTask}]
    BY <1>5, <2>1 DEF Paying!SelectBills, Paying!TypeOK
  <2> QED
    BY <1>5, <2>2 DEF Paying!SelectBills, Paying!TypeOK, Paying!Goto, Paying!Places
<1>6. ASSUME NEW w \in Workers, Paying!InsertRun(w)
      PROVE  Paying!TypeOK'
  <2>1. payment[w].by \in PaymentRuns /\ left[w] \in SUBSET Bills
    BY <1>6 DEF Paying!InsertRun, PayerOK, Paying!TypeOK
  <2>2. /\ runStatus' \in [PaymentRuns -> {"none", "pending", "completed"}]
        /\ items' \in [PaymentRuns -> SUBSET Bills]
    BY <1>6, <2>1 DEF Paying!InsertRun, Paying!TypeOK
  <2>3. Paying!Finish(w) /\ UNCHANGED <<billStatus, allocated>>
    BY <1>6 DEF Paying!InsertRun
  <2> QED
    BY <2>2, <2>3, PayDoneType DEF Paying!TypeOK
<1>7. ASSUME NEW w \in Workers, NEW r \in PaymentRuns, Paying!LockRun(w, r)
      PROVE  Paying!TypeOK'
  <2>1. [by |-> r, bill |-> 0, amount |-> 0] \in Paying!Task
    BY DEF Paying!Task
  <2>2. payment' \in [Workers -> Paying!Task \cup {Paying!NoTask}]
    BY <1>7, <2>1 DEF Paying!LockRun, Paying!TypeOK
  <2> QED
    BY <1>7, <2>2 DEF Paying!LockRun, Paying!TypeOK, Paying!Goto, Paying!Places
<1>8. ASSUME NEW w \in Workers, Paying!ReadBalance(w)
      PROVE  Paying!TypeOK'
  <2> DEFINE b == Paying!Min(left[w])
             n == Paying!OpenIn(allocated \cup added[w], b)
  <2>1. payer[w] = "pay" /\ left[w] # {}
    BY <1>8 DEF Paying!ReadBalance
  <2>2. b \in Bills /\ n \in Int /\ (n > 0 => n \in Paying!Amounts)
    <3> HIDE DEF b, n
    <3> SUFFICES ASSUME b = Paying!Min(left[w]),
                        n = Paying!OpenIn(allocated \cup added[w], b)
                 PROVE  b \in Bills /\ n \in Int /\ (n > 0 => n \in Paying!Amounts)
      BY DEF b, n
    <3> QED BY <2>1, NextBill
  <2>3. payment' \in [Workers -> Paying!Task \cup {Paying!NoTask}]
    <3>1. CASE n <= 0
      BY <1>8, <3>1 DEF Paying!ReadBalance, Paying!TypeOK
    <3>2. CASE ~ (n <= 0)
      <4>1. payment' = [payment EXCEPT ![w].bill = b, ![w].amount = n]
        BY <1>8, <3>2 DEF Paying!ReadBalance
      <4>2. payment[w] \in Paying!Task
        <5>1. payment[w].by \in PaymentRuns
          BY <2>1 DEF PayerOK, HoldsRun, Paying!Executing
        <5>2. payment[w] \in Paying!Task \cup {Paying!NoTask}
          BY DEF Paying!TypeOK
        <5>3. payment[w] = Paying!NoTask => payment[w] \in Paying!Task
          BY <5>1 DEF Paying!NoTask, Paying!Task
        <5> QED BY <5>2, <5>3
      <4>3. [payment[w] EXCEPT !.bill = b, !.amount = n] \in Paying!Task
        <5>1. n \in Paying!Amounts /\ b \in Bills
          BY <2>2, <3>2
        <5> HIDE DEF b, n
        <5> QED BY <4>2, <5>1 DEF Paying!Task
      <4> HIDE DEF b, n
      <4> QED
        BY <4>1, <4>3 DEF Paying!TypeOK
    <3> QED
      BY <3>1, <3>2
  <2>4. /\ UNCHANGED <<billStatus, allocated, runStatus, items, added, paid>>
        /\ left' = [left EXCEPT ![w] = @ \ {b}]
        /\ payer' = payer \/ payer' = [payer EXCEPT ![w] = "insert"]
    BY <1>8 DEF Paying!ReadBalance, Paying!Goto
  <2> HIDE DEF b, n
  <2> QED
    BY <2>3, <2>4 DEF Paying!TypeOK, Paying!Places
<1>9. ASSUME NEW w \in Workers, Paying!InsertAllocation(w)
      PROVE  Paying!TypeOK'
  <2>1. payment[w] \in Paying!Allocation
    BY <1>9 DEF Paying!InsertAllocation, PayerOK, AtBill
  <2>2. added' \in [Workers -> SUBSET Paying!Allocation]
    BY <1>9, <2>1 DEF Paying!InsertAllocation, Paying!TypeOK
  <2> QED
    BY <1>9, <2>2 DEF Paying!InsertAllocation, Paying!TypeOK, Paying!Goto, Paying!Places
<1>10. ASSUME NEW w \in Workers, Paying!MarkBillPaid(w)
       PROVE  Paying!TypeOK'
  <2>1. payment[w].bill \in Bills
    BY <1>10, RowAmount DEF Paying!MarkBillPaid, PayerOK, AtBill
  <2>2. paid' \in [Workers -> SUBSET Bills]
    BY <1>10, <2>1 DEF Paying!MarkBillPaid, Paying!TypeOK
  <2> QED
    BY <1>10, <2>2 DEF Paying!MarkBillPaid, Paying!TypeOK, Paying!Goto, Paying!Places
<1>11. ASSUME NEW w \in Workers, Paying!CompleteRun(w)
       PROVE  Paying!TypeOK'
  <2>1. /\ allocated' \subseteq Paying!Allocation
        /\ billStatus' \in [Bills -> Paying!Statuses]
        /\ runStatus' \in [PaymentRuns -> {"none", "pending", "completed"}]
    BY <1>11 DEF Paying!CompleteRun, Paying!TypeOK, Paying!Statuses
  <2>2. Paying!Finish(w) /\ items' = items
    BY <1>11 DEF Paying!CompleteRun
  <2> QED
    BY <2>1, <2>2, PayDoneType DEF Paying!TypeOK
<1>12. ASSUME NEW w \in Workers, Paying!Abort(w)
       PROVE  Paying!TypeOK'
  BY <1>12, PayDoneType DEF Paying!Abort, Paying!TypeOK
<1>13. CASE UNCHANGED Paying!vars
  BY <1>13 DEF Paying!vars, Paying!TypeOK
<1> QED
  BY <1>1, <1>2, <1>3, <1>4, <1>5, <1>6, <1>7, <1>8, <1>9, <1>10, <1>11, <1>12, <1>13
     DEF Paying!Next, Paying!WorkerStep

(* Without a new allocation. *)
LEMMA PaymentsKept ==
    ASSUME PayInv, UNCHANGED allocated,
           \A b \in Bills :
              \/ billStatus'[b] = billStatus[b]
              \/ /\ billStatus[b] \in {"open", "matched"}
                 /\ billStatus'[b] \in {"matched", "approved"}
              \/ billStatus[b] # "paid" /\ billStatus'[b] = "voided",
           \A r \in PaymentRuns :
              runStatus'[r] = "completed" =>
                  runStatus[r] = "completed" /\ items'[r] = items[r]
    PROVE  PaymentsAgree'
<1>1. \A b \in Bills : Paying!Open(b)' = Paying!Open(b)
  BY DEF Paying!Open, Paying!OpenIn
<1>2. ASSUME NEW b \in Bills
      PROVE  Paying!StatusFollows(b)' /\ Paying!ByHandWithin(b)'
  <2>1. Paying!StatusFollows(b) /\ Paying!ByHandWithin(b)
    BY DEF PayInv, PaymentsAgree, Paying!PaymentsAgree
  <2>2. Paying!Open(b)' = Paying!Open(b)
    BY <1>1
  <2>3. Paying!ByHandWithin(b)'
    BY <2>1 DEF Paying!ByHandWithin, Paying!OpenIn
  <2>4. Paying!StatusFollows(b)'
    BY <2>1, <2>2 DEF Paying!StatusFollows
  <2> QED BY <2>3, <2>4
<1>3. \A r \in PaymentRuns : Paying!NothingLeft(r)'
  <2> TAKE r \in PaymentRuns
  <2>1. Paying!NothingLeft(r)
    BY DEF PayInv, PaymentsAgree, Paying!PaymentsAgree
  <2>2. items[r] \subseteq Bills
    BY DEF PayInv, Paying!TypeOK
  <2> QED
    BY <1>1, <2>1, <2>2 DEF Paying!NothingLeft
<1> QED
  BY <1>2, <1>3 DEF PaymentsAgree, Paying!PaymentsAgree

(* A step that changes only where one worker is. *)
LEMMA PayerMoves ==
    ASSUME PayInv, Paying!TypeOK',
           UNCHANGED <<billStatus, allocated, runStatus, items>>,
           NEW w \in Workers, \A v \in Workers : v # w => Still(v), PayerOK(w)',
           \A v \in Workers : v # w /\ payer[v] = "apply" =>
              /\ payer'[w] = "apply" => payment'[w].bill # payment[v].bill
              /\ \A a \in added'[w] : a.bill # payment[v].bill,
           \A v \in Workers : v # w /\ Paying!Executing(v) =>
              \/ payer'[w] \notin {"pay", "insert", "mark"}
              \/ payment'[w].by # payment[v].by,
           \A v \in Workers : v # w => paid[v] \cap paid'[w] = {}
    PROVE  PayInv'
<1>1. PaymentsAgree'
  BY PaymentsKept
<1>2. Rows(allocated') /\ StatusOn /\ RunsOK'
  BY DEF PayInv, StatusOn, WasApproved, RunsOK, Settled, Rows
<1>3. ASSUME NEW v \in Workers, v # w PROVE PayerOK(v)'
  <2>1. Still(v) /\ PayerOK(v)
    BY <1>3 DEF PayInv
  <2>2. ASSUME payer[v] = "apply" PROVE HoldsBill(v)'
    <3>1. HoldsBill(v)
      BY <2>1, <2>2 DEF PayerOK
    <3>2. Paying!Open(payment[v].bill)' = Paying!Open(payment[v].bill)
      BY <2>1 DEF Paying!Open, Paying!OpenIn, Still
    <3>3. ~Paying!Shared(payment[v].bill)'
      <4> SUFFICES ASSUME NEW u \in Workers PROVE \A a \in added'[u] : a.bill # payment[v].bill
        BY <2>1 DEF Paying!Shared, Still
      <4> QED
        BY <1>3, <2>2, <3>1 DEF HoldsBill, Paying!Shared, Still
    <3>4. \A u \in Workers : u # v /\ payer'[u] = "apply" => payment'[u].bill # payment[v].bill
      BY <1>3, <2>2, <3>1 DEF HoldsBill, Still
    <3> QED
      BY <2>1, <3>1, <3>2, <3>3, <3>4 DEF HoldsBill, Still
  <2>3. ASSUME Paying!Executing(v) PROVE OthersRun(v)
    <3>1. HoldsRun(v)
      BY <2>1, <2>3 DEF PayerOK
    <3> QED
      BY <1>3, <2>3, <3>1 DEF HoldsRun, OthersRun, Still, Paying!Executing
  <2>4. OthersUpdate(v)
    <3>1. \A b \in paid[v] : Updating(v, b)
      BY <2>1 DEF PayerOK
    <3> QED
      BY <1>3, <3>1 DEF OthersUpdate, Updating, Still
  <2> QED
    BY <1>2, <2>1, <2>2, <2>3, <2>4, PayerStays
<1> QED
  BY <1>1, <1>2, <1>3 DEF PayInv

(* Where nothing is inserted or updated and no lock is taken. *)
LEMMA PayBillStep ==
    ASSUME PayInv, Paying!TypeOK', NEW b \in Bills,
           Paying!Match(b) \/ Paying!Approve(b) \/ Paying!Void(b)
    PROVE  PayInv'
<1>1. /\ Paying!Free(b) /\ UNCHANGED <<allocated, runStatus, items, payer, payment, left,
                                      added, paid>>
      /\ \A c \in Bills : c # b => billStatus'[c] = billStatus[c]
      /\ \/ /\ billStatus[b] \in {"open", "matched"}
            /\ billStatus'[b] \in {"matched", "approved"}
         \/ billStatus[b] \notin Settled /\ billStatus'[b] = "voided"
  BY DEF Paying!Match, Paying!Approve, Paying!Void, Paying!SetStatus, PayInv, Paying!TypeOK,
     Paying!Payable, Settled
<1>2. PaymentsAgree'
  BY <1>1, PaymentsKept DEF Settled
<1>3. StatusOn
  BY <1>1 DEF StatusOn, WasApproved, Settled, Paying!Payable
<1>4. Rows(allocated') /\ RunsOK'
  <2>1. \A r \in PaymentRuns : items[r] \subseteq Bills
    BY DEF PayInv, Paying!TypeOK
  <2> QED
    BY <1>1, <1>3, <2>1 DEF PayInv, Rows, RunsOK, StatusOn, WasApproved
<1>5. ASSUME NEW v \in Workers PROVE PayerOK(v)'
  <2>1. PayerOK(v) /\ Still(v)
    BY <1>1 DEF PayInv, Still
  <2>2. ASSUME payer[v] = "apply" PROVE HoldsBill(v)'
    <3>1. HoldsBill(v) /\ payment[v].bill # b /\ payment[v].bill \in Bills
      BY <1>1, <2>1, <2>2, RowAmount DEF PayerOK, Paying!Free, Paying!HeldForUpdate
    <3>2. billStatus'[payment[v].bill] = billStatus[payment[v].bill]
      BY <1>1, <3>1
    <3>3. Paying!Open(payment[v].bill)' = Paying!Open(payment[v].bill)
      BY <1>1 DEF Paying!Open, Paying!OpenIn
    <3>4. Paying!Shared(payment[v].bill)' = Paying!Shared(payment[v].bill)
      BY <1>1 DEF Paying!Shared
    <3> QED
      BY <1>1, <3>1, <3>2, <3>3, <3>4 DEF HoldsBill
  <2>3. Paying!Executing(v) => OthersRun(v)
    BY <1>1, <2>1 DEF PayerOK, HoldsRun, OthersRun, Paying!Executing
  <2>4. OthersUpdate(v)
    <3>1. \A c \in paid[v] : Updating(v, c)
      BY <2>1 DEF PayerOK
    <3>2. b \notin paid[v]
      BY <1>1, <3>1 DEF Updating, NoneOf, Paying!Free, Paying!Shared
    <3>3. paid[v] \subseteq Bills
      BY DEF PayInv, Paying!TypeOK
    <3> QED
      BY <1>1, <3>1, <3>2, <3>3 DEF OthersUpdate, Updating
  <2> QED
    BY <1>1, <1>3, <1>4, <2>1, <2>2, <2>3, <2>4, PayerStays
<1> QED
  BY <1>2, <1>4, <1>5 DEF PayInv

(* A call by hand asks, and locks its bill. *)
LEMMA PayCallStep ==
    ASSUME PayInv, Paying!TypeOK', NEW w \in Workers,
           \/ \E q \in Allocations, b \in Bills, n \in Paying!Amounts : Paying!Ask(w, q, b, n)
           \/ Paying!LockBill(w)
    PROVE  PayInv'
<1>1. PayerOK(w) /\ Paying!TypeOK
  BY DEF PayInv
<1>2. ASSUME NEW q \in Allocations, NEW b \in Bills, NEW n \in Paying!Amounts,
             Paying!Ask(w, q, b, n)
      PROVE  PayInv'
  <2>1. /\ payer[w] = "idle" /\ payer'[w] = "lock"
        /\ payment'[w] = [by |-> q, bill |-> b, amount |-> n]
        /\ UNCHANGED <<billStatus, allocated, runStatus, items, left, added, paid>>
        /\ \A v \in Workers : v # w => Still(v)
    BY <1>1, <1>2 DEF Paying!Ask, Paying!Goto, Paying!TypeOK, Still
  <2>2. added[w] = {} /\ paid[w] = {}
    BY <1>1, <2>1 DEF PayerOK, Paying!Executing
  <2>3. PayerOK(w)'
    <3>1. payment'[w] \in Paying!Allocation
      BY <2>1 DEF Paying!Allocation
    <3> QED
      BY <2>1, <2>2, <3>1, FS_EmptySet DEF PayerOK, Paying!Executing
  <2> QED
    BY <2>1, <2>2, <2>3, PayerMoves
<1>3. ASSUME Paying!LockBill(w) PROVE PayInv'
  <2>1. /\ payer[w] = "lock" /\ Paying!Free(payment[w].bill)
        /\ UNCHANGED <<billStatus, allocated, runStatus, items>>
    BY <1>3 DEF Paying!LockBill
  <2>2. CASE Paying!Finish(w)
    <3>1. PayerOK(w)' /\ payer'[w] = "idle" /\ added'[w] = {} /\ paid'[w] = {}
          /\ \A v \in Workers : v # w => Still(v)
      BY <1>1, <2>2, PayerDone
    <3> QED
      BY <2>1, <3>1, PayerMoves
  <2>3. CASE /\ billStatus[payment[w].bill] \in Paying!Payable
             /\ payment[w].amount <= Paying!Open(payment[w].bill)
             /\ Paying!Goto(w, "apply") /\ UNCHANGED <<payment, left, added, paid>>
    <3>1. payer'[w] = "apply" /\ \A v \in Workers : v # w => Still(v)
      BY <1>1, <2>3 DEF Paying!Goto, Paying!TypeOK, Still
    <3>2. added[w] = {} /\ paid[w] = {}
      BY <1>1, <2>1 DEF PayerOK, Paying!Executing
    <3>3. \A v \in Workers : v # w /\ payer[v] = "apply" =>
              payment[v].bill # payment[w].bill
      BY <2>1 DEF Paying!Free, Paying!HeldForUpdate
    <3>4. HoldsBill(w)'
      <4>1. Paying!Open(payment[w].bill)' = Paying!Open(payment[w].bill)
        BY <2>1, <2>3 DEF Paying!Open, Paying!OpenIn
      <4>2. ~Paying!Shared(payment[w].bill)'
        BY <2>1, <2>3 DEF Paying!Free, Paying!Shared
      <4>3. \A v \in Workers : v # w /\ payer'[v] = "apply" =>
                payment'[v].bill # payment[w].bill
        BY <3>1, <3>3 DEF Still
      <4> QED
        BY <2>1, <2>3, <4>1, <4>2, <4>3 DEF HoldsBill
    <3>5. PayerOK(w)'
      BY <1>1, <2>1, <2>3, <3>1, <3>2, <3>4, FS_EmptySet DEF PayerOK, Paying!Executing
    <3> QED
      BY <2>1, <2>3, <3>1, <3>2, <3>3, <3>5, PayerMoves
  <2> QED
    BY <1>3, <2>2, <2>3 DEF Paying!LockBill
<1> QED
  BY <1>2, <1>3

(* The bills of a run are selected; a run is locked; a step is undone.     *)
LEMMA PayBeginStep ==
    ASSUME PayInv, Paying!TypeOK', NEW w \in Workers,
           \/ \E r \in PaymentRuns, bills \in SUBSET Bills : Paying!SelectBills(w, r, bills)
           \/ \E r \in PaymentRuns : Paying!LockRun(w, r)
           \/ Paying!Abort(w)
    PROVE  PayInv'
<1>1. PayerOK(w) /\ Paying!TypeOK
  BY DEF PayInv
<1>2. ASSUME NEW r \in PaymentRuns, NEW bills \in SUBSET Bills,
             Paying!SelectBills(w, r, bills)
      PROVE  PayInv'
  <2>1. /\ payer[w] = "idle" /\ payer'[w] = "create"
        /\ payment'[w].by = r /\ left'[w] = bills
        /\ bills \subseteq Paying!Eligible
        /\ UNCHANGED <<billStatus, allocated, runStatus, items, added, paid>>
        /\ \A v \in Workers : v # w => Still(v)
    BY <1>1, <1>2 DEF Paying!SelectBills, Paying!Goto, Paying!TypeOK, Still
  <2>2. added[w] = {} /\ paid[w] = {}
    BY <1>1, <2>1 DEF PayerOK, Paying!Executing
  <2>3. \A b \in bills : billStatus'[b] \in Paying!Payable \cup Settled
    BY <2>1 DEF Paying!Eligible
  <2>4. PayerOK(w)'
    BY <2>1, <2>2, <2>3, FS_EmptySet DEF PayerOK, Paying!Executing, WasApproved
  <2> QED
    BY <2>1, <2>2, <2>4, PayerMoves
<1>3. ASSUME NEW r \in PaymentRuns, Paying!LockRun(w, r)
      PROVE  PayInv'
  <2>1. /\ payer[w] = "idle" /\ payer'[w] = "pay"
        /\ payment'[w].by = r /\ left'[w] = items[r]
        /\ runStatus[r] = "pending"
        /\ \A v \in Workers : Paying!Executing(v) => payment[v].by # r
        /\ UNCHANGED <<billStatus, allocated, runStatus, items, added, paid>>
        /\ \A v \in Workers : v # w => Still(v)
    BY <1>1, <1>3 DEF Paying!LockRun, Paying!Goto, Paying!TypeOK, Still
  <2>2. added[w] = {} /\ paid[w] = {}
    BY <1>1, <2>1 DEF PayerOK, Paying!Executing
  <2>3. HoldsRun(w)'
    BY <2>1 DEF HoldsRun, Still, Paying!Executing
  <2>4. CameTo(w)' = {}
    BY <2>1 DEF CameTo
  <2>5. PayerOK(w)'
    BY <2>1, <2>2, <2>3, <2>4, FS_EmptySet DEF PayerOK, Paying!Executing
  <2> QED
    BY <2>1, <2>2, <2>5, PayerMoves
<1>4. ASSUME Paying!Abort(w) PROVE PayInv'
  <2>1. PayerOK(w)' /\ payer'[w] = "idle" /\ added'[w] = {} /\ paid'[w] = {}
        /\ \A v \in Workers : v # w => Still(v)
    BY <1>1, <1>4, PayerDone DEF Paying!Abort
  <2>2. UNCHANGED <<billStatus, allocated, runStatus, items>>
    BY <1>4 DEF Paying!Abort
  <2> QED
    BY <2>1, <2>2, PayerMoves
<1> QED
  BY <1>2, <1>3, <1>4

(* A run reads what is open of its next bill. *)
LEMMA PayReadStep ==
    ASSUME PayInv, Paying!TypeOK', NEW w \in Workers, Paying!ReadBalance(w)
    PROVE  PayInv'
<1> DEFINE b == Paying!Min(left[w])
           n == Paying!OpenIn(allocated \cup added[w], b)
<1>1. PayerOK(w) /\ Paying!TypeOK
  BY DEF PayInv
<1>2. /\ payer[w] = "pay" /\ left[w] # {}
      /\ UNCHANGED <<billStatus, allocated, runStatus, items, added, paid>>
      /\ left' = [left EXCEPT ![w] = @ \ {b}]
      /\ IF n <= 0
         THEN UNCHANGED <<payer, payment>>
         ELSE /\ payer' = [payer EXCEPT ![w] = "insert"]
              /\ payment' = [payment EXCEPT ![w].bill = b, ![w].amount = n]
  BY DEF Paying!ReadBalance, Paying!Goto
<1>3. /\ b \in left[w] /\ b \in Bills
      /\ n = Paying!Open(b) /\ n \in Int
      /\ n > 0 => n \in Paying!Amounts
      /\ NoneOf(w, b)
  <2> HIDE DEF b, n
  <2> SUFFICES ASSUME b = Paying!Min(left[w]),
                      n = Paying!OpenIn(allocated \cup added[w], b)
               PROVE  /\ b \in left[w] /\ b \in Bills
                      /\ n = Paying!Open(b) /\ n \in Int
                      /\ n > 0 => n \in Paying!Amounts
                      /\ NoneOf(w, b)
    BY DEF b, n
  <2> QED BY <1>2, NextBill
<1> HIDE DEF b, n
<1>4. HoldsRun(w) /\ Paying!Executing(w)
  BY <1>1, <1>2 DEF PayerOK, Paying!Executing
<1>5. /\ payment'[w].by = payment[w].by
      /\ left'[w] = left[w] \ {b}
      /\ \A v \in Workers : v # w => Still(v)
      /\ n <= 0 => payer'[w] = "pay"
      /\ ~ (n <= 0) => payer'[w] = "insert"
  <2>1. left'[w] = left[w] \ {b} /\ \A v \in Workers : v # w => left'[v] = left[v]
    BY <1>1, <1>2 DEF Paying!TypeOK
  <2>2. CASE n <= 0
    BY <1>2, <2>1, <2>2 DEF Still
  <2>3. CASE ~ (n <= 0)
    <3>1. payment'[w] = [payment[w] EXCEPT !.bill = b, !.amount = n]
      BY <1>1, <1>2, <2>3 DEF Paying!TypeOK
    <3> QED
      BY <1>1, <1>2, <2>1, <2>3, <3>1 DEF Still, Paying!TypeOK
  <2> QED
    BY <2>2, <2>3
<1>6. CameTo(w)' = CameTo(w) \cup {b}
  BY <1>2, <1>3, <1>4, <1>5 DEF CameTo, HoldsRun
<1>7. HoldsRun(w)'
  BY <1>2, <1>4, <1>5 DEF HoldsRun, Still, Paying!Executing
<1>8. \A c \in Bills : Paying!Open(c)' = Paying!Open(c)
  BY <1>2 DEF Paying!Open, Paying!OpenIn
<1>9. n > 0 => payment'[w].bill = b /\ payment'[w].amount = n /\ payment'[w] \in Paying!Allocation
  <2> SUFFICES ASSUME n > 0 PROVE payment'[w].bill = b /\ payment'[w].amount = n
                                  /\ payment'[w] \in Paying!Allocation
    OBVIOUS
  <2>1. ~ (n <= 0)
    BY <1>3
  <2>2. payment[w] \in Paying!Task \cup {Paying!NoTask} /\ payment[w].by \in PaymentRuns
    BY <1>1, <1>4 DEF Paying!TypeOK, HoldsRun
  <2>3. payment'[w] = [payment[w] EXCEPT !.bill = b, !.amount = n]
    BY <1>1, <1>2, <2>1 DEF Paying!TypeOK
  <2> QED
    BY <1>3, <2>2, <2>3 DEF Paying!Task, Paying!NoTask, Paying!Allocation
<1>10. \A c : NoneOf(w, c)' = NoneOf(w, c)
  BY <1>2 DEF NoneOf
<1>11. PayerOK(w)'
  <2>1. \A c \in CameTo(w)' : Served(w, c)'
    <3> SUFFICES ASSUME NEW c \in CameTo(w) \cup {b} PROVE Served(w, c)'
      BY <1>6
    <3>1. CASE c = b
      BY <1>3, <1>5, <1>8, <1>9, <3>1 DEF Served
    <3>2. CASE c # b
      <4>1. Served(w, c) /\ c \in Bills
        BY <1>1, <1>4, <3>2 DEF PayerOK, CameTo, HoldsRun, Paying!TypeOK
      <4> QED
        BY <1>2, <1>8, <1>10, <4>1 DEF Served
    <3> QED BY <3>1, <3>2
  <2>2. payer'[w] = "insert" => AtBill(w)' /\ NoneOf(w, payment[w].bill)'
    <3> SUFFICES ASSUME payer'[w] = "insert"
                 PROVE  AtBill(w)' /\ NoneOf(w, payment[w].bill)'
      OBVIOUS
    <3>1. n > 0
      BY <1>3, <1>5
    <3>2. payment'[w].bill = b /\ payment'[w].amount = n /\ payment'[w] \in Paying!Allocation
      BY <1>9, <3>1
    <3>3. Paying!Open(payment[w].bill)' <= payment'[w].amount
      BY <1>2, <1>3, <3>2 DEF Paying!Open, Paying!OpenIn
    <3>4. NoneOf(w, payment[w].bill)'
      BY <1>2, <1>3, <3>2 DEF NoneOf
    <3> QED
      BY <1>6, <3>2, <3>3, <3>4 DEF AtBill, Paying!Open, Paying!OpenIn
  <2>3. \A a \in added'[w] : Inserted(w, a)'
    <3> SUFFICES ASSUME NEW a \in added[w] PROVE Inserted(w, a)'
      BY <1>2
    <3>1. Inserted(w, a) /\ a.bill \in Bills
      BY <1>1, RowAmount DEF PayerOK, Paying!TypeOK
    <3> QED
      BY <1>2, <1>5, <1>6, <1>8, <3>1 DEF Inserted
  <2>4. \A c \in paid'[w] : Updating(w, c)'
    <3> SUFFICES ASSUME NEW c \in paid[w] PROVE Updating(w, c)'
      BY <1>2
    <3>1. Updating(w, c)
      BY <1>1 DEF PayerOK
    <3> QED
      BY <1>2, <1>10, <3>1 DEF Updating
  <2>5. payer'[w] \in {"pay", "insert"}
    BY <1>3, <1>5
  <2> QED
    BY <1>1, <1>2, <1>7, <2>1, <2>2, <2>3, <2>4, <2>5 DEF PayerOK, Paying!Executing
<1>12. \A v \in Workers : v # w /\ payer[v] = "apply" =>
           \A a \in added'[w] : a.bill # payment[v].bill
  BY <1>2 DEF PayInv, PayerOK, HoldsBill, Paying!Shared
<1>13. \A v \in Workers : v # w => paid[v] \cap paid'[w] = {}
  BY <1>2 DEF PayInv, PayerOK, Updating
<1>14. \A v \in Workers : v # w /\ Paying!Executing(v) =>
           payment'[w].by # payment[v].by
  BY <1>4, <1>5 DEF HoldsRun
<1>15. payer'[w] # "apply"
  BY <1>3, <1>5
<1> QED
  BY <1>2, <1>5, <1>11, <1>12, <1>13, <1>14, <1>15, PayerMoves

(* A run inserts its allocation, once no call holds the bill. *)
LEMMA PayInsertStep ==
    ASSUME PayInv, Paying!TypeOK', NEW w \in Workers, Paying!InsertAllocation(w)
    PROVE  PayInv'
<1> DEFINE t == payment[w]
<1>1. PayerOK(w) /\ Paying!TypeOK
  BY DEF PayInv
<1>2. /\ payer[w] = "insert" /\ payer'[w] = "mark"
      /\ ~Paying!HeldForUpdate(t.bill)
      /\ added'[w] = added[w] \cup {t}
      /\ UNCHANGED <<billStatus, allocated, runStatus, items, payment, left, paid>>
      /\ \A v \in Workers : v # w => Still(v)
  BY <1>1 DEF Paying!InsertAllocation, Paying!Goto, Paying!TypeOK, Still
<1>3. HoldsRun(w) /\ Paying!Executing(w) /\ AtBill(w) /\ NoneOf(w, t.bill)
  BY <1>1, <1>2 DEF PayerOK, Paying!Executing
<1>4. HoldsRun(w)' /\ CameTo(w)' = CameTo(w) /\ AtBill(w)'
  BY <1>2, <1>3 DEF HoldsRun, CameTo, Still, Paying!Executing, AtBill, Paying!Open,
     Paying!OpenIn
<1>5. \A c \in Bills : Paying!Open(c)' = Paying!Open(c)
  BY <1>2 DEF Paying!Open, Paying!OpenIn
<1>6. \A c : ~NoneOf(w, c) => ~NoneOf(w, c)'
  BY <1>2 DEF NoneOf
<1>7. \A c \in CameTo(w)' : Served(w, c)'
  <2> SUFFICES ASSUME NEW c \in CameTo(w) PROVE Served(w, c)'
    BY <1>4
  <2>1. Served(w, c) /\ c \in Bills
    BY <1>1, <1>3 DEF PayerOK, CameTo, HoldsRun, Paying!TypeOK
  <2>2. c = t.bill => ~NoneOf(w, c)'
    BY <1>2 DEF NoneOf
  <2> QED
    BY <1>5, <1>6, <2>1, <2>2 DEF Served
<1>8. \A a \in added'[w] : Inserted(w, a)'
  <2> SUFFICES ASSUME NEW a \in added'[w] PROVE Inserted(w, a)'
    OBVIOUS
  <2>1. CASE a = t
    <3>1. \A c \in added'[w] : c.bill = a.bill => c = a
      BY <1>2, <1>3, <2>1 DEF NoneOf
    <3>2. Paying!Open(a.bill)' <= a.amount /\ a.bill \in CameTo(w)
      BY <1>3, <1>5, <2>1, RowAmount DEF AtBill
    <3> QED
      BY <1>2, <1>4, <2>1, <3>1, <3>2 DEF Inserted
  <2>2. CASE a # t
    <3>1. a \in added[w]
      BY <1>2, <2>2
    <3>2. Inserted(w, a) /\ a.bill \in Bills
      BY <1>1, <3>1, RowAmount DEF PayerOK, Paying!TypeOK
    <3>3. a.bill # t.bill
      BY <1>3, <3>1 DEF NoneOf
    <3> QED
      BY <1>2, <1>4, <1>5, <3>2, <3>3 DEF Inserted
  <2> QED BY <2>1, <2>2
<1>9. \A c \in paid'[w] : Updating(w, c)'
  <2> SUFFICES ASSUME NEW c \in paid[w] PROVE Updating(w, c)'
    BY <1>2
  <2>1. Updating(w, c)
    BY <1>1 DEF PayerOK
  <2> QED
    BY <1>2, <1>6, <2>1 DEF Updating
<1>10. PayerOK(w)'
  <2>1. IsFiniteSet(added'[w])
    BY <1>1, <1>2, FS_AddElement DEF PayerOK
  <2> QED
    BY <1>2, <1>4, <1>7, <1>8, <1>9, <2>1 DEF PayerOK, Paying!Executing
<1>11. \A v \in Workers : v # w /\ payer[v] = "apply" =>
           \A a \in added'[w] : a.bill # payment[v].bill
  BY <1>2 DEF PayInv, PayerOK, HoldsBill, Paying!Shared, Paying!HeldForUpdate
<1>12. \A v \in Workers : v # w => paid[v] \cap paid'[w] = {}
  BY <1>2 DEF PayInv, PayerOK, Updating
<1>13. \A v \in Workers : v # w /\ Paying!Executing(v) => payment'[w].by # payment[v].by
  BY <1>2, <1>3 DEF HoldsRun
<1> QED
  BY <1>2, <1>10, <1>11, <1>12, <1>13, PayerMoves

(* It sets the bill to paid, unless another has. *)
LEMMA PayMarkStep ==
    ASSUME PayInv, Paying!TypeOK', NEW w \in Workers, Paying!MarkBillPaid(w)
    PROVE  PayInv'
<1> DEFINE b == payment[w].bill
<1>1. PayerOK(w) /\ Paying!TypeOK
  BY DEF PayInv
<1>2. /\ payer[w] = "mark" /\ payer'[w] = "pay"
      /\ IF billStatus[b] \in Paying!Payable
         THEN (\A v \in Workers : b \notin paid[v]) /\ paid'[w] = paid[w] \cup {b}
         ELSE paid'[w] = paid[w]
      /\ UNCHANGED <<billStatus, allocated, runStatus, items, payment, left, added>>
      /\ \A v \in Workers : v # w => Still(v)
  BY <1>1 DEF Paying!MarkBillPaid, Paying!Goto, Paying!TypeOK, Still
<1>3. /\ HoldsRun(w) /\ Paying!Executing(w) /\ AtBill(w) /\ payment[w] \in added[w]
      /\ b \in Bills
  BY <1>1, <1>2, RowAmount DEF PayerOK, Paying!Executing, AtBill
<1>4. HoldsRun(w)' /\ CameTo(w)' = CameTo(w)
  BY <1>2, <1>3 DEF HoldsRun, CameTo, Still, Paying!Executing
<1>5. \A c \in Bills : Paying!Open(c)' = Paying!Open(c)
  BY <1>2 DEF Paying!Open, Paying!OpenIn
<1>6. \A c : NoneOf(w, c)' = NoneOf(w, c)
  BY <1>2 DEF NoneOf
<1>7. \A c \in CameTo(w)' : Served(w, c)'
  <2> SUFFICES ASSUME NEW c \in CameTo(w) PROVE Served(w, c)'
    BY <1>4
  <2>1. Served(w, c) /\ c \in Bills
    BY <1>1, <1>3 DEF PayerOK, CameTo, HoldsRun, Paying!TypeOK
  <2> QED
    BY <1>2, <1>5, <1>6, <2>1 DEF Served
<1>8. b \in paid'[w] \/ billStatus[b] \in Settled
  <2>1. WasApproved(b)
    BY <1>3 DEF PayInv, RunsOK, AtBill, CameTo, HoldsRun
  <2> QED
    BY <1>2, <2>1 DEF WasApproved
<1>9. \A a \in added'[w] : Inserted(w, a)'
  <2> SUFFICES ASSUME NEW a \in added[w] PROVE Inserted(w, a)'
    BY <1>2
  <2>1. Inserted(w, a) /\ a.bill \in Bills
    BY <1>1, RowAmount DEF PayerOK, Paying!TypeOK
  <2>2. paid[w] \subseteq paid'[w]
    BY <1>2
  <2> QED
    BY <1>2, <1>4, <1>5, <1>8, <2>1, <2>2 DEF Inserted
<1>10. \A c \in paid'[w] : Updating(w, c)'
  <2> SUFFICES ASSUME NEW c \in paid'[w] PROVE Updating(w, c)'
    OBVIOUS
  <2>1. CASE c \in paid[w]
    <3>1. Updating(w, c)
      BY <1>1, <2>1 DEF PayerOK
    <3> QED
      BY <1>2, <1>6, <3>1 DEF Updating, Still
  <2>2. CASE c \notin paid[w]
    <3>1. c = b /\ billStatus[b] \in Paying!Payable /\ \A v \in Workers : b \notin paid[v]
      BY <1>2, <2>2
    <3>2. ~NoneOf(w, b)
      BY <1>3 DEF NoneOf
    <3> QED
      BY <1>2, <1>6, <3>1, <3>2 DEF Updating, Still
  <2> QED BY <2>1, <2>2
<1>11. PayerOK(w)'
  BY <1>1, <1>2, <1>4, <1>7, <1>9, <1>10 DEF PayerOK, Paying!Executing
<1>12. \A v \in Workers : v # w /\ payer[v] = "apply" =>
           \A a \in added'[w] : a.bill # payment[v].bill
  BY <1>2 DEF PayInv, PayerOK, HoldsBill, Paying!Shared
<1>13. \A v \in Workers : v # w => paid[v] \cap paid'[w] = {}
  <2>1. \A v \in Workers : v # w => paid[v] \cap paid[w] = {}
    BY DEF PayInv, PayerOK, Updating
  <2> QED BY <1>2, <2>1
<1>14. \A v \in Workers : v # w /\ Paying!Executing(v) => payment'[w].by # payment[v].by
  BY <1>2, <1>3 DEF HoldsRun
<1> QED
  BY <1>2, <1>11, <1>12, <1>13, <1>14, PayerMoves

(* The end of a step that leaves the lines of the others as they are. *)
LEMMA PayerEnds ==
    ASSUME PayInv, Paying!TypeOK', NEW w \in Workers, Paying!Finish(w),
           Rows(allocated'), allocated \subseteq allocated', StatusOn,
           RunsOK', PaymentsAgree',
           \A v \in Workers, b \in Bills :
              v # w /\ payer[v] = "apply" /\ payment[v].bill = b =>
                  billStatus'[b] = billStatus[b] /\ Paying!Open(b)' = Paying!Open(b),
           \A v \in Workers : v # w /\ Paying!Executing(v) =>
              /\ runStatus'[payment[v].by] = runStatus[payment[v].by]
              /\ items'[payment[v].by] = items[payment[v].by],
           \A v \in Workers : v # w =>
              \A b \in paid[v] : billStatus'[b] = billStatus[b]
    PROVE  PayInv'
<1>1. /\ PayerOK(w)' /\ payer'[w] = "idle" /\ added'[w] = {} /\ paid'[w] = {}
      /\ \A v \in Workers : v # w => Still(v)
  BY PayerDone DEF PayInv
<1>2. ASSUME NEW v \in Workers, v # w PROVE PayerOK(v)'
  <2>1. PayerOK(v) /\ Still(v)
    BY <1>1, <1>2 DEF PayInv
  <2>2. ASSUME payer[v] = "apply" PROVE HoldsBill(v)'
    <3>1. HoldsBill(v) /\ payment[v].bill \in Bills
      BY <2>1, <2>2, RowAmount DEF PayerOK
    <3>2. PICK b \in Bills : b = payment[v].bill /\ Paying!Open(b)' = Paying!Open(b)
      BY <1>2, <2>2, <3>1
    <3>3. ~Paying!Shared(payment[v].bill)'
      BY <1>1, <2>1, <3>1 DEF HoldsBill, Paying!Shared, Still
    <3>4. \A u \in Workers : u # v /\ payer'[u] = "apply" => payment'[u].bill # payment[v].bill
      BY <1>1, <3>1 DEF HoldsBill, Still
    <3>5. billStatus'[payment[v].bill] = billStatus[payment[v].bill]
      BY <1>2, <2>2, <3>1
    <3>6. Paying!Open(payment[v].bill)' = Paying!Open(payment[v].bill)
      BY <2>1, <3>2 DEF Still
    <3> QED
      BY <2>1, <3>1, <3>3, <3>4, <3>5, <3>6 DEF HoldsBill, Still
  <2>3. ASSUME Paying!Executing(v) PROVE OthersRun(v)
    <3>1. HoldsRun(v)
      BY <2>1, <2>3 DEF PayerOK
    <3> QED
      BY <1>1, <1>2, <2>3, <3>1 DEF HoldsRun, OthersRun, Still, Paying!Executing
  <2>4. OthersUpdate(v)
    <3>1. \A b \in paid[v] : Updating(v, b)
      BY <2>1 DEF PayerOK
    <3>2. \A b \in paid[v] : billStatus'[b] = billStatus[b]
      BY <1>2
    <3> QED
      BY <1>1, <3>1, <3>2 DEF OthersUpdate, Updating, Still
  <2> QED
    BY <2>1, <2>2, <2>3, <2>4, PayerStays
<1> QED
  BY <1>1, <1>2 DEF PayInv

(* The header and the items of a run. *)
LEMMA PayRunStep ==
    ASSUME PayInv, Paying!TypeOK', NEW w \in Workers, Paying!InsertRun(w)
    PROVE  PayInv'
<1> DEFINE r == payment[w].by
<1>1. PayerOK(w) /\ Paying!TypeOK
  BY DEF PayInv
<1>2. /\ payer[w] = "create" /\ Paying!Finish(w) /\ UNCHANGED <<billStatus, allocated>>
      /\ r \in PaymentRuns /\ \A b \in left[w] : WasApproved(b)
  BY <1>1 DEF Paying!InsertRun, PayerOK
<1>3. /\ \A s \in PaymentRuns : s # r \/ runStatus[r] # "none" =>
             runStatus'[s] = runStatus[s] /\ items'[s] = items[s]
      /\ runStatus[r] = "none" => runStatus'[r] = "pending" /\ items'[r] = left[w]
  BY <1>1, <1>2 DEF Paying!InsertRun, Paying!TypeOK
<1>4. PaymentsAgree'
  <2>1. \A s \in PaymentRuns :
            runStatus'[s] = "completed" =>
                runStatus[s] = "completed" /\ items'[s] = items[s]
    BY <1>3
  <2> QED
    BY <1>2, <2>1, PaymentsKept
<1>5. Rows(allocated') /\ StatusOn
  BY <1>2 DEF PayInv, Rows, StatusOn, WasApproved
<1>6. RunsOK'
  <2>1. \A a \in allocated : a.by \in PaymentRuns => runStatus'[a.by] = "completed"
    BY <1>2, <1>3 DEF PayInv, RunsOK
  <2>2. \A s \in PaymentRuns : \A b \in items'[s] : WasApproved(b)
    BY <1>2, <1>3 DEF PayInv, RunsOK
  <2> QED
    BY <1>2, <2>1, <2>2 DEF RunsOK, WasApproved
<1>7. \A v \in Workers : v # w /\ Paying!Executing(v) =>
          /\ runStatus'[payment[v].by] = runStatus[payment[v].by]
          /\ items'[payment[v].by] = items[payment[v].by]
  <2>1. \A v \in Workers : Paying!Executing(v) =>
            payment[v].by \in PaymentRuns /\ runStatus[payment[v].by] = "pending"
    BY DEF PayInv, PayerOK, HoldsRun
  <2> QED
    BY <1>3, <2>1
<1>8. \A c \in Bills : Paying!Open(c)' = Paying!Open(c)
  BY <1>2 DEF Paying!Open, Paying!OpenIn
<1> QED
  BY <1>2, <1>4, <1>5, <1>6, <1>7, <1>8, PayerEnds

(* The allocation of a call by hand. *)
LEMMA PayApplyStep ==
    ASSUME PayInv, Paying!TypeOK', NEW w \in Workers, Paying!Apply(w)
    PROVE  PayInv'
<1> DEFINE t == payment[w]
           b == t.bill
           rows == allocated \cup {t}
<1>1. PayerOK(w) /\ Paying!TypeOK /\ Rows(allocated)
  BY DEF PayInv
<1>2. /\ payer[w] = "apply" /\ Paying!Finish(w) /\ UNCHANGED <<runStatus, items>>
      /\ t \in Paying!Allocation /\ t.by \in Allocations /\ HoldsBill(w)
  BY <1>1 DEF Paying!Apply, PayerOK
<1>3. b \in Bills /\ t.amount \in Nat \ {0}
  BY <1>2, RowAmount
<1>4. CASE \E a \in allocated : a.by = t.by
  <2>0. UNCHANGED <<billStatus, allocated>>
    BY <1>4 DEF Paying!Apply
  <2>1. PaymentsAgree'
    BY <1>2, <2>0, PaymentsKept
  <2>2. Rows(allocated') /\ StatusOn /\ RunsOK'
    BY <1>2, <2>0 DEF PayInv, Rows, StatusOn, WasApproved, RunsOK
  <2>3. \A c \in Bills : Paying!Open(c)' = Paying!Open(c)
    BY <2>0 DEF Paying!Open, Paying!OpenIn
  <2> QED
    BY <1>2, <2>0, <2>1, <2>2, <2>3, PayerEnds
<1>5. CASE ~\E a \in allocated : a.by = t.by
  <2>1. /\ allocated' = rows /\ \A a \in allocated : a.by # t.by
        /\ billStatus' = [billStatus EXCEPT ![b] =
              IF Paying!OpenIn(rows, b) <= 0 THEN "paid" ELSE "partially_paid"]
    BY <1>5 DEF Paying!Apply
  <2>2. t \notin allocated
    BY <2>1
  <2>3. Rows(rows) /\ Paying!Open(b) \in Int /\ Paying!Open(b) <= Total[b]
    BY <1>1, <1>2, <1>3, <2>2, RowAdded, OpenType DEF Paying!Open
  <2>4. /\ Paying!OpenIn(rows, b) = Paying!Open(b) - t.amount
        /\ \A c \in Bills : c # b => Paying!OpenIn(rows, c) = Paying!Open(c)
    BY <1>1, <1>2, <1>3, <2>2, OpenAdd DEF Paying!Open
  <2>5. \A c \in Bills : Paying!Open(c)' = Paying!OpenIn(rows, c)
    BY <2>1 DEF Paying!Open, Paying!OpenIn
  <2>6. t.amount <= Paying!Open(b) /\ billStatus[b] \in Paying!Payable
    BY <1>2 DEF HoldsBill
  <2>7. /\ billStatus'[b] = IF Paying!OpenIn(rows, b) <= 0 THEN "paid" ELSE "partially_paid"
        /\ \A c \in Bills : c # b => billStatus'[c] = billStatus[c]
    BY <1>1, <1>3, <2>1 DEF Paying!TypeOK
  <2>8. Rows(allocated') /\ allocated \subseteq allocated'
    BY <2>1, <2>3
  <2>9. StatusOn
    BY <2>6, <2>7 DEF StatusOn, WasApproved, Settled, Paying!Payable
  <2>10. RunsOK'
    <3>1. t.by \notin PaymentRuns
      BY <1>2, PayConstants
    <3>2. \A r \in PaymentRuns : items[r] \subseteq Bills
      BY <1>1 DEF Paying!TypeOK
    <3> QED
      BY <1>2, <2>1, <2>9, <3>1, <3>2 DEF PayInv, RunsOK, StatusOn, WasApproved
  <2>11. PaymentsAgree'
    <3>1. ASSUME NEW c \in Bills PROVE Paying!StatusFollows(c)'
      <4>1. Paying!StatusFollows(c)
        BY DEF PayInv, PaymentsAgree, Paying!PaymentsAgree
      <4>2. CASE c = b
        <5>1. Paying!Open(c)' = Paying!Open(b) - t.amount
          BY <2>4, <2>5, <4>2
        <5>2. Total[b] \in Nat
          BY <1>3, PayConstants
        <5>3. billStatus'[c] = IF Paying!Open(c)' <= 0 THEN "paid" ELSE "partially_paid"
          BY <2>5, <2>7, <4>2
        <5> QED
          BY <1>3, <2>3, <2>6, <4>2, <5>1, <5>2, <5>3 DEF Paying!StatusFollows
      <4>3. CASE c # b
        <5>1. Paying!Open(c)' = Paying!Open(c) /\ billStatus'[c] = billStatus[c]
          BY <2>4, <2>5, <2>7, <4>3
        <5> QED
          BY <4>1, <5>1 DEF Paying!StatusFollows
      <4> QED BY <4>2, <4>3
    <3>2. ASSUME NEW c \in Bills PROVE Paying!ByHandWithin(c)'
      <4> DEFINE hand == {a \in allocated : a.by \in Allocations}
      <4>1. Paying!OpenIn(hand, c) >= 0
        BY DEF PayInv, PaymentsAgree, Paying!PaymentsAgree, Paying!ByHandWithin
      <4>2. {a \in allocated' : a.by \in Allocations} = hand \cup {t} /\ t \notin hand
        BY <1>2, <2>1, <2>2
      <4>3. hand \in SUBSET allocated
        OBVIOUS
      <4>4. Rows(hand)
        <5> HIDE DEF hand
        <5> QED BY <1>1, <4>3, RowsMore
      <4>5. Paying!Open(c) <= Paying!OpenIn(hand, c)
        <5> HIDE DEF hand
        <5> QED BY <1>1, <4>3, OpenLess DEF Paying!Open
      <4>6. /\ c = b => Paying!OpenIn(hand \cup {t}, c) = Paying!OpenIn(hand, c) - t.amount
            /\ c # b => Paying!OpenIn(hand \cup {t}, c) = Paying!OpenIn(hand, c)
        <5> HIDE DEF hand
        <5> QED BY <1>2, <4>2, <4>4, OpenAdd
      <4>7. Paying!OpenIn(hand, c) \in Int
        <5> HIDE DEF hand
        <5> QED BY <4>4, OpenType
      <4>8. Paying!OpenIn(hand \cup {t}, c) >= 0
        <5> HIDE DEF hand
        <5> QED BY <1>3, <2>3, <2>6, <4>1, <4>5, <4>6, <4>7
      <4>9. Paying!ByHandWithin(c)' <=> Paying!OpenIn({a \in allocated' : a.by \in Allocations}, c) >= 0
        BY DEF Paying!ByHandWithin, Paying!OpenIn
      <4> QED BY <4>2, <4>8, <4>9
    <3>3. ASSUME NEW r \in PaymentRuns PROVE Paying!NothingLeft(r)'
      <4>1. Paying!NothingLeft(r) /\ items[r] \subseteq Bills
        BY <1>1 DEF PayInv, PaymentsAgree, Paying!PaymentsAgree, Paying!TypeOK
      <4>2. \A c \in Bills : Paying!Open(c) <= 0 => Paying!Open(c)' <= 0
        <5> TAKE c \in Bills
        <5> HIDE DEF rows
        <5>1. CASE c = b
          BY <1>3, <2>3, <2>4, <2>5, <5>1
        <5>2. CASE c # b
          BY <2>4, <2>5, <5>2
        <5> QED BY <5>1, <5>2
      <4> QED
        BY <1>2, <4>1, <4>2 DEF Paying!NothingLeft
    <3> QED
      BY <3>1, <3>2, <3>3 DEF PaymentsAgree, Paying!PaymentsAgree
  <2>12. \A v \in Workers, c \in Bills :
             v # w /\ payer[v] = "apply" /\ payment[v].bill = c =>
                 billStatus'[c] = billStatus[c] /\ Paying!Open(c)' = Paying!Open(c)
    BY <1>2, <2>4, <2>5, <2>7 DEF HoldsBill
  <2>13. ASSUME NEW v \in Workers, NEW c \in paid[v]
         PROVE  billStatus'[c] = billStatus[c]
    <3>1. Updating(v, c) /\ c \in Bills
      BY <1>1 DEF PayInv, PayerOK, Paying!TypeOK
    <3>2. c # b
      BY <1>2, <3>1 DEF Updating, NoneOf, HoldsBill, Paying!Shared
    <3> QED BY <2>7, <3>1, <3>2
  <2> QED
    BY <1>2, <2>8, <2>9, <2>10, <2>11, <2>12, <2>13, PayerEnds
<1> QED
  BY <1>4, <1>5

(* The commit of a run. *)
LEMMA PayCompleteStep ==
    ASSUME PayInv, Paying!TypeOK', NEW w \in Workers, Paying!CompleteRun(w)
    PROVE  PayInv'
<1> DEFINE r == payment[w].by
           rows == allocated \cup added[w]
<1>1. PayerOK(w) /\ Paying!TypeOK /\ Rows(allocated)
  BY DEF PayInv
<1>2. /\ payer[w] = "pay" /\ left[w] = {} /\ Paying!Finish(w) /\ items' = items
      /\ allocated' = rows
      /\ \A b \in Bills : billStatus'[b] = IF b \in paid[w] THEN "paid" ELSE billStatus[b]
      /\ runStatus' = [runStatus EXCEPT ![r] = "completed"]
  BY DEF Paying!CompleteRun
<1>3. HoldsRun(w) /\ Paying!Executing(w) /\ r \in PaymentRuns /\ runStatus[r] = "pending"
  BY <1>1, <1>2 DEF PayerOK, Paying!Executing, HoldsRun
<1>4. \A s \in PaymentRuns : runStatus'[s] = IF s = r THEN "completed" ELSE runStatus[s]
  BY <1>1, <1>2 DEF Paying!TypeOK
<1>5. Rows(rows)
  <2>1. IsFiniteSet(added[w]) /\ added[w] \subseteq Paying!Allocation
    BY <1>1 DEF PayerOK, Paying!TypeOK
  <2> QED
    BY <1>1, <2>1, FS_Union DEF Rows
<1>6. \A a \in added[w] : Inserted(w, a) /\ a.by = r /\ a \notin allocated
                          /\ a \in Paying!Allocation /\ a.bill \in Bills
  <2> TAKE a \in added[w]
  <2>1. Inserted(w, a) /\ a \in Paying!Allocation
    BY <1>1 DEF PayerOK, Paying!TypeOK
  <2>2. a.by = r /\ a.bill \in Bills
    BY <2>1, RowAmount DEF Inserted
  <2>3. a \notin allocated
    BY <1>3, <2>2 DEF PayInv, RunsOK
  <2> QED BY <2>1, <2>2, <2>3
<1>7. \A b \in Bills : Paying!Open(b)' = Paying!OpenIn(rows, b)
  BY <1>2 DEF Paying!Open, Paying!OpenIn
<1>8. ASSUME NEW b \in Bills, NoneOf(w, b)
      PROVE  Paying!Open(b)' = Paying!Open(b) /\ billStatus'[b] = billStatus[b]
  <2>1. {a \in rows : a.bill = b} = {a \in allocated : a.bill = b}
    BY <1>8 DEF NoneOf
  <2>2. b \notin paid[w]
    BY <1>1, <1>8 DEF PayerOK, Updating
  <2> QED
    BY <1>2, <1>7, <2>1, <2>2 DEF Paying!Open, Paying!OpenIn
<1>9. ASSUME NEW b \in Bills, ~NoneOf(w, b)
      PROVE  Paying!Open(b)' <= 0
  <2>1. PICK a \in added[w] : a.bill = b
    BY <1>9 DEF NoneOf
  <2>2. Inserted(w, a) /\ a \notin allocated /\ a \in Paying!Allocation
    BY <1>6
  <2>3. {x \in rows : x.bill = b} = {x \in allocated \cup {a} : x.bill = b}
    BY <2>1, <2>2 DEF Inserted
  <2>4. Paying!Open(b)' = Paying!OpenIn(allocated \cup {a}, b)
    BY <1>7, <2>3 DEF Paying!OpenIn
  <2>5. Paying!OpenIn(allocated \cup {a}, b) = Paying!Open(b) - a.amount
    BY <1>1, <2>1, <2>2, OpenAdd DEF Paying!Open
  <2>6. Paying!Open(b) <= a.amount /\ a.amount \in Nat /\ Paying!Open(b) \in Int
    BY <1>1, <2>1, <2>2, RowAmount, OpenType DEF Inserted, Paying!Open
  <2> QED
    BY <2>4, <2>5, <2>6
<1>10. \A b \in Bills : /\ Paying!Open(b) \in Int /\ Paying!Open(b)' \in Int
                        /\ Paying!Open(b)' <= Paying!Open(b)
  <2>1. allocated \in SUBSET rows
    OBVIOUS
  <2> HIDE DEF rows
  <2> QED
    BY <1>1, <1>5, <1>7, <2>1, OpenType, OpenLess DEF Paying!Open
<1>11. \A b \in paid[w] : b \in Bills /\ ~NoneOf(w, b) /\ billStatus[b] \in Paying!Payable
  BY <1>1 DEF PayerOK, Updating, Paying!TypeOK
<1>12. StatusOn
  BY <1>2, <1>11 DEF StatusOn, WasApproved, Settled, Paying!Payable
<1>13. Rows(allocated') /\ allocated \subseteq allocated'
  BY <1>2, <1>5
<1>14. RunsOK'
  <2>1. \A a \in rows : a.by \in PaymentRuns => runStatus'[a.by] = "completed"
    BY <1>4, <1>6 DEF PayInv, RunsOK
  <2>2. \A s \in PaymentRuns : items[s] \subseteq Bills
    BY <1>1 DEF Paying!TypeOK
  <2> QED
    BY <1>2, <1>12, <2>1, <2>2 DEF PayInv, RunsOK, StatusOn, WasApproved
<1>15. PaymentsAgree'
  <2>1. ASSUME NEW b \in Bills PROVE Paying!StatusFollows(b)'
    <3>1. Paying!StatusFollows(b)
      BY DEF PayInv, PaymentsAgree, Paying!PaymentsAgree
    <3>2. CASE NoneOf(w, b)
      BY <1>8, <3>1, <3>2 DEF Paying!StatusFollows
    <3>3. CASE ~NoneOf(w, b)
      <4>1. Paying!Open(b)' <= 0 /\ Paying!Open(b)' \in Int /\ Total[b] \in Nat
        BY <1>9, <1>10, <3>3, PayConstants
      <4>2. billStatus'[b] \in Settled
        <5>1. PICK a \in added[w] : a.bill = b
          BY <3>3 DEF NoneOf
        <5>2. b \in paid[w] \/ billStatus[b] \in Settled
          BY <1>2, <1>6, <5>1 DEF Inserted
        <5> QED BY <1>2, <5>2 DEF Settled
      <4> QED
        BY <4>1, <4>2 DEF Paying!StatusFollows, Settled
    <3> QED BY <3>2, <3>3
  <2>2. ASSUME NEW b \in Bills PROVE Paying!ByHandWithin(b)'
    <3>1. Paying!ByHandWithin(b)
      BY DEF PayInv, PaymentsAgree, Paying!PaymentsAgree
    <3>2. {a \in allocated' : a.by \in Allocations} = {a \in allocated : a.by \in Allocations}
      BY <1>2, <1>3, <1>6, PayConstants
    <3> QED
      BY <3>1, <3>2 DEF Paying!ByHandWithin, Paying!OpenIn
  <2>3. ASSUME NEW s \in PaymentRuns PROVE Paying!NothingLeft(s)'
    <3>1. Paying!NothingLeft(s) /\ items[s] \subseteq Bills
      BY <1>1 DEF PayInv, PaymentsAgree, Paying!PaymentsAgree, Paying!TypeOK
    <3>2. CASE s = r
      <4> SUFFICES ASSUME NEW b \in items[r] PROVE Paying!Open(b)' <= 0
        BY <1>2, <3>2 DEF Paying!NothingLeft
      <4>1. b \in CameTo(w) /\ b \in Bills
        BY <1>2, <3>1, <3>2 DEF CameTo
      <4>2. Served(w, b)
        BY <1>1, <1>3, <4>1 DEF PayerOK
      <4>3. ~NoneOf(w, b) \/ Paying!Open(b) <= 0
        BY <1>2, <4>2 DEF Served
      <4> QED
        BY <1>9, <1>10, <4>1, <4>3
    <3>3. CASE s # r
      BY <1>2, <1>4, <1>10, <3>1, <3>3 DEF Paying!NothingLeft
    <3> QED BY <3>2, <3>3
  <2> QED
    BY <2>1, <2>2, <2>3 DEF PaymentsAgree, Paying!PaymentsAgree
<1>16. ASSUME NEW v \in Workers, NEW b \in Bills, v # w, payer[v] = "apply",
              payment[v].bill = b
       PROVE  billStatus'[b] = billStatus[b] /\ Paying!Open(b)' = Paying!Open(b)
  <2>1. NoneOf(w, b)
    BY <1>16 DEF PayInv, PayerOK, HoldsBill, Paying!Shared, NoneOf
  <2> QED BY <1>8, <2>1
<1>17. ASSUME NEW v \in Workers, v # w, Paying!Executing(v)
       PROVE  /\ runStatus'[payment[v].by] = runStatus[payment[v].by]
              /\ items'[payment[v].by] = items[payment[v].by]
  BY <1>2, <1>3, <1>4, <1>17 DEF PayInv, PayerOK, HoldsRun
<1>18. ASSUME NEW v \in Workers, v # w, NEW b \in paid[v]
       PROVE  billStatus'[b] = billStatus[b]
  <2>1. Updating(v, b) /\ b \in Bills
    BY <1>1 DEF PayInv, PayerOK, Paying!TypeOK
  <2>2. b \notin paid[w]
    BY <1>18, <2>1 DEF Updating
  <2> QED BY <1>2, <2>1, <2>2
<1> QED
  BY <1>2, <1>12, <1>13, <1>14, <1>15, <1>16, <1>17, <1>18, PayerEnds

(* Bills, allocations and payment runs agree in every state. *)
(* Bills, allocations and payment runs agree. *)
LEMMA PayingSpec == Paying!Spec => [](Paying!TypeOK /\ PaymentsAgree)
<1>1. PayInv /\ [Paying!Next]_(Paying!vars) => PayInv'
  <2> SUFFICES ASSUME PayInv, [Paying!Next]_(Paying!vars) PROVE PayInv'
    OBVIOUS
  <2>1. Paying!TypeOK'
    BY PayTypeStep
  <2>2. CASE UNCHANGED Paying!vars
    <3>1. UNCHANGED <<billStatus, allocated, runStatus, items, payer, payment, left,
                      added, paid>>
      BY <2>2 DEF Paying!vars
    <3>2. PaymentsAgree'
      BY <3>1, PaymentsKept
    <3>3. Rows(allocated') /\ RunsOK' /\ StatusOn
      BY <3>1 DEF PayInv, Rows, RunsOK, WasApproved, StatusOn
    <3>4. ASSUME NEW v \in Workers PROVE PayerOK(v)'
      <4>1. PayerOK(v) /\ Still(v)
        BY <3>1 DEF PayInv, Still
      <4>2. payer[v] = "apply" => HoldsBill(v)'
        BY <3>1, <4>1 DEF PayerOK, HoldsBill, Paying!Open, Paying!OpenIn, Paying!Shared
      <4>3. Paying!Executing(v) => OthersRun(v)
        BY <3>1, <4>1 DEF PayerOK, HoldsRun, OthersRun, Paying!Executing
      <4>4. OthersUpdate(v)
        BY <3>1, <4>1 DEF PayerOK, Updating, OthersUpdate
      <4> QED
        BY <3>1, <3>3, <4>1, <4>2, <4>3, <4>4, PayerStays
    <3> QED
      BY <2>1, <3>2, <3>3, <3>4 DEF PayInv
  <2>3. ASSUME NEW w \in Workers, Paying!WorkerStep(w) PROVE PayInv'
    BY <2>1, <2>3, PayCallStep, PayBeginStep, PayReadStep, PayInsertStep, PayMarkStep,
       PayRunStep, PayApplyStep, PayCompleteStep DEF Paying!WorkerStep
  <2> QED
    BY <2>1, <2>2, <2>3, PayBillStep, PayCallStep, PayBeginStep DEF Paying!Next
<1>2. PayInv => Paying!TypeOK /\ PaymentsAgree
  BY DEF PayInv
<1> QED
  BY <1>1, <1>2, PayInit, PTL DEF Paying!Spec

-----------------------------------------------------------------------------
(***************************************************************************)
(* Dunning.                                                                *)
(***************************************************************************)
(* A sequence of different rows without its k-th. *)
LEMMA TakenOut ==
    ASSUME NEW S, NEW s \in Seq(S), NEW k \in 1 .. Len(s)
    PROVE  /\ Reminders!RemoveAt(s, k) \in Seq(S)
           /\ Len(Reminders!RemoveAt(s, k)) = Len(s) - 1
           /\ \A j \in 1 .. Len(s) - 1 :
                 Reminders!RemoveAt(s, k)[j] = IF j < k THEN s[j] ELSE s[j + 1]
<1> DEFINE a == SubSeq(s, 1, k - 1)
           b == SubSeq(s, k + 1, Len(s))
<1>1. a \in Seq(S) /\ Len(a) = k - 1 /\ \A j \in 1 .. k - 1 : a[j] = s[j]
  OBVIOUS
<1>2. b \in Seq(S) /\ Len(b) = Len(s) - k /\ \A j \in 1 .. Len(s) - k : b[j] = s[k + j]
  OBVIOUS
<1>3. Reminders!RemoveAt(s, k) = a \o b
  BY DEF Reminders!RemoveAt
<1> HIDE DEF a, b
<1>0. Len(s) \in Nat
  OBVIOUS
<1>6. a \in Seq(S) /\ b \in Seq(S)
  BY <1>1, <1>2
<1>7. Len(a \o b) = Len(a) + Len(b)
  BY <1>6
<1>4. a \o b \in Seq(S) /\ Len(a \o b) = Len(s) - 1
  BY <1>0, <1>1, <1>2, <1>6, <1>7
<1>5. ASSUME NEW j \in 1 .. Len(s) - 1
      PROVE  (a \o b)[j] = IF j < k THEN s[j] ELSE s[j + 1]
  <2>1. CASE j < k
    BY <1>1, <1>2, <2>1
  <2>2. CASE ~ (j < k)
    <3>1. (a \o b)[j] = b[j - (k - 1)] /\ j - (k - 1) \in 1 .. Len(s) - k
      BY <1>1, <1>2, <2>2
    <3>2. b[j - (k - 1)] = s[k + (j - (k - 1))] /\ k + (j - (k - 1)) = j + 1
      BY <1>2, <3>1
    <3> QED BY <2>2, <3>1, <3>2
  <2> QED BY <2>1, <2>2
<1> QED
  BY <1>3, <1>4, <1>5

(* A sequence with another row before its p-th. *)
LEMMA PutIn ==
    ASSUME NEW S, NEW s \in Seq(S), NEW i \in S, NEW p \in 1 .. Len(s) + 1
    PROVE  /\ Reminders!InsertAt(s, p, i) \in Seq(S)
           /\ Len(Reminders!InsertAt(s, p, i)) = Len(s) + 1
           /\ \A j \in 1 .. Len(s) + 1 :
                 Reminders!InsertAt(s, p, i)[j] =
                     IF j < p THEN s[j] ELSE IF j = p THEN i ELSE s[j - 1]
<1> DEFINE a == SubSeq(s, 1, p - 1)
           b == SubSeq(s, p, Len(s))
           c == a \o <<i>>
<1>1. a \in Seq(S) /\ Len(a) = p - 1 /\ \A j \in 1 .. p - 1 : a[j] = s[j]
  OBVIOUS
<1>2. b \in Seq(S) /\ Len(b) = Len(s) - p + 1 /\ \A j \in 1 .. Len(s) - p + 1 : b[j] = s[p + j - 1]
  OBVIOUS
<1>3. Reminders!InsertAt(s, p, i) = c \o b
  BY DEF Reminders!InsertAt
<1>4. c \in Seq(S) /\ Len(c) = p /\ c[p] = i /\ \A j \in 1 .. p - 1 : c[j] = s[j]
  <2> HIDE DEF a
  <2> QED BY <1>1
<1> HIDE DEF a, b, c
<1>0. Len(s) \in Nat
  OBVIOUS
<1>8. c \in Seq(S) /\ b \in Seq(S)
  BY <1>2, <1>4
<1>7. Len(c \o b) = Len(c) + Len(b)
  BY <1>8
<1>5. c \o b \in Seq(S) /\ Len(c \o b) = Len(s) + 1
  BY <1>0, <1>2, <1>4, <1>8, <1>7
<1>6. ASSUME NEW j \in 1 .. Len(s) + 1
      PROVE  (c \o b)[j] = IF j < p THEN s[j] ELSE IF j = p THEN i ELSE s[j - 1]
  <2>1. CASE j <= p
    BY <1>2, <1>4, <2>1
  <2>2. CASE ~ (j <= p)
    <3>1. (c \o b)[j] = b[j - p] /\ j - p \in 1 .. Len(s) - p + 1
      BY <1>2, <1>4, <2>2
    <3>2. b[j - p] = s[p + (j - p) - 1] /\ p + (j - p) - 1 = j - 1
      BY <1>2, <3>1
    <3> QED BY <2>2, <3>1, <3>2
  <2> QED BY <2>1, <2>2
<1> QED
  BY <1>3, <1>5, <1>6

(* The calendar is of different rows, of which the first so many are due.  *)
Calendar(s, d) ==
    /\ s \in Seq(Overdue)
    /\ \A j, k \in 1 .. Len(s) : s[j] = s[k] => j = k
    /\ d \in 0 .. Len(s)

(* Without a row, of what is left the same are due. *)
LEMMA TakenFromCalendar ==
    ASSUME Calendar(calendar, due), NEW i \in Overdue,
           NEW s, s = Reminders!Without(i),
           NEW d, d = Reminders!DueWithout(i)
    PROVE  /\ Calendar(s, d)
           /\ \A j \in 1 .. Len(s) : s[j] # i /\ \E k \in 1 .. Len(calendar) : s[j] = calendar[k]
<1>1. CASE \E k \in 1 .. Len(calendar) : calendar[k] = i
  <2> DEFINE k == CHOOSE m \in 1 .. Len(calendar) : calendar[m] = i
  <2>1. k \in 1 .. Len(calendar) /\ calendar[k] = i
    BY <1>1
  <2>0. calendar \in Seq(Overdue)
    BY DEF Calendar
  <2>9. i \in Reminders!ToSet(calendar)
    BY <2>0, <2>1 DEF Reminders!ToSet
  <2>2. s = Reminders!RemoveAt(calendar, k)
    BY <2>9 DEF Reminders!Without
  <2> HIDE DEF k
  <2>3. /\ s \in Seq(Overdue) /\ Len(s) = Len(calendar) - 1
        /\ \A j \in 1 .. Len(calendar) - 1 :
              s[j] = IF j < k THEN calendar[j] ELSE calendar[j + 1]
    <3>1. /\ Reminders!RemoveAt(calendar, k) \in Seq(Overdue)
          /\ Len(Reminders!RemoveAt(calendar, k)) = Len(calendar) - 1
          /\ \A j \in 1 .. Len(calendar) - 1 :
                Reminders!RemoveAt(calendar, k)[j] =
                    IF j < k THEN calendar[j] ELSE calendar[j + 1]
      BY <2>0, <2>1, TakenOut
    <3> QED BY <2>2, <3>1
  <2>4. due \in Nat /\ due <= Len(calendar)
    BY DEF Calendar
  <2>5. d = IF k <= due THEN due - 1 ELSE due
    BY <2>1, <2>4 DEF Reminders!DueWithout, Reminders!IsDue, Calendar
  <2>6. \A j, m \in 1 .. Len(calendar) : calendar[j] = calendar[m] => j = m
    BY DEF Calendar
  <2>7. \A j, m \in 1 .. Len(s) : s[j] = s[m] => j = m
    BY <2>1, <2>3, <2>6
  <2>8. \A j \in 1 .. Len(s) : s[j] # i /\ \E m \in 1 .. Len(calendar) : s[j] = calendar[m]
    BY <2>1, <2>3, <2>6
  <2> QED
    BY <2>1, <2>3, <2>4, <2>5, <2>7, <2>8 DEF Calendar
<1>2. CASE ~\E k \in 1 .. Len(calendar) : calendar[k] = i
  <2>0. i \notin Reminders!ToSet(calendar)
    BY <1>2 DEF Reminders!ToSet, Calendar
  <2>1. s = calendar
    BY <2>0 DEF Reminders!Without
  <2>2. d = due
    BY <1>2 DEF Reminders!DueWithout, Reminders!IsDue, Calendar
  <2> QED
    BY <1>2, <2>1, <2>2
<1> QED
  BY <1>1, <1>2

(* A row is put on the calendar, or taken off. *)
LEMMA Rescheduled ==
    ASSUME Calendar(calendar, due), NEW i \in Overdue,
           \/ Reminders!Unschedule(i)
           \/ \E p, past : Reminders!Schedule(i, p, past)
    PROVE  /\ Calendar(calendar', due')
           /\ \A j \in 1 .. Len(calendar') :
                 \/ calendar'[j] = i
                 \/ \E k \in 1 .. Len(calendar) : calendar'[j] = calendar[k]
<1> DEFINE s == Reminders!Without(i)
           d == Reminders!DueWithout(i)
<1>1. /\ Calendar(s, d)
      /\ \A j \in 1 .. Len(s) : s[j] # i /\ \E k \in 1 .. Len(calendar) : s[j] = calendar[k]
  <2> HIDE DEF s, d
  <2> SUFFICES ASSUME s = Reminders!Without(i), d = Reminders!DueWithout(i)
               PROVE  /\ Calendar(s, d)
                      /\ \A j \in 1 .. Len(s) :
                            s[j] # i /\ \E k \in 1 .. Len(calendar) : s[j] = calendar[k]
    BY DEF s, d
  <2> QED BY TakenFromCalendar
<1>2. CASE Reminders!Unschedule(i)
  <2>1. calendar' = s /\ due' = d
    BY <1>2 DEF Reminders!Unschedule
  <2> HIDE DEF s, d
  <2> QED BY <1>1, <2>1
<1>3. ASSUME NEW p, NEW past, Reminders!Schedule(i, p, past)
      PROVE  /\ Calendar(calendar', due')
             /\ \A j \in 1 .. Len(calendar') :
                   \/ calendar'[j] = i
                   \/ \E k \in 1 .. Len(calendar) : calendar'[j] = calendar[k]
  <2>1. /\ p \in 0 .. Len(s)
        /\ IF past THEN p <= d ELSE p >= d
        /\ calendar' = Reminders!InsertAt(s, p + 1, i)
        /\ due' = IF past THEN d + 1 ELSE d
    BY <1>3 DEF Reminders!Schedule
  <2> HIDE DEF s, d
  <2>2. s \in Seq(Overdue) /\ Len(s) \in Nat /\ d \in 0 .. Len(s)
    BY <1>1 DEF Calendar
  <2>3. /\ calendar' \in Seq(Overdue) /\ Len(calendar') = Len(s) + 1
        /\ \A j \in 1 .. Len(s) + 1 :
              calendar'[j] =
                  IF j < p + 1 THEN s[j] ELSE IF j = p + 1 THEN i ELSE s[j - 1]
    <3>1. p + 1 \in 1 .. Len(s) + 1
      BY <2>1, <2>2
    <3> QED BY <2>1, <2>2, <3>1, PutIn
  <2>4. \A j, m \in 1 .. Len(s) : s[j] = s[m] => j = m
    BY <1>1 DEF Calendar
  <2>5. \A j, m \in 1 .. Len(calendar') : calendar'[j] = calendar'[m] => j = m
    <3> SUFFICES ASSUME NEW j \in 1 .. Len(calendar'), NEW m \in 1 .. Len(calendar'),
                        calendar'[j] = calendar'[m]
                 PROVE  j = m
      OBVIOUS
    <3>1. \A n \in 1 .. Len(s) : s[n] # i
      BY <1>1
    <3>2. p \in Nat /\ p <= Len(s) /\ j \in 1 .. Len(s) + 1 /\ m \in 1 .. Len(s) + 1
      BY <2>1, <2>2, <2>3
    <3>3. \A n \in 1 .. Len(s) + 1 :
             /\ n < p + 1 => n \in 1 .. Len(s) /\ calendar'[n] = s[n]
             /\ n = p + 1 => calendar'[n] = i
             /\ n > p + 1 => n - 1 \in 1 .. Len(s) /\ calendar'[n] = s[n - 1]
      BY <2>2, <2>3, <3>2
    <3>4. CASE j < p + 1
      BY <2>2, <2>4, <3>1, <3>2, <3>3, <3>4
    <3>5. CASE j = p + 1
      BY <2>2, <2>4, <3>1, <3>2, <3>3, <3>5
    <3>6. CASE j > p + 1
      <4>1. j - 1 \in 1 .. Len(s) /\ calendar'[j] = s[j - 1]
        BY <3>2, <3>3, <3>6
      <4>2. CASE m < p + 1
        <5>1. m \in 1 .. Len(s) /\ calendar'[m] = s[m]
          BY <3>2, <3>3, <4>2
        <5>2. j - 1 = m
          BY <2>4, <4>1, <5>1
        <5> QED BY <3>2, <3>6, <4>2, <5>2
      <4>3. CASE m = p + 1
        BY <3>1, <3>2, <3>3, <4>1, <4>3
      <4>4. CASE m > p + 1
        <5>1. m - 1 \in 1 .. Len(s) /\ calendar'[m] = s[m - 1]
          BY <3>2, <3>3, <4>4
        <5>2. j - 1 = m - 1
          BY <2>4, <4>1, <5>1
        <5> QED BY <3>2, <5>2
      <4> QED BY <2>2, <3>2, <4>2, <4>3, <4>4
    <3> QED
      BY <2>2, <3>2, <3>4, <3>5, <3>6
  <2>6. due' \in 0 .. Len(calendar')
    BY <2>1, <2>2, <2>3
  <2>7. \A j \in 1 .. Len(calendar') :
           \/ calendar'[j] = i
           \/ \E k \in 1 .. Len(calendar) : calendar'[j] = calendar[k]
    <3> SUFFICES ASSUME NEW j \in 1 .. Len(calendar')
                 PROVE  \/ calendar'[j] = i
                        \/ \E k \in 1 .. Len(calendar) : calendar'[j] = calendar[k]
      OBVIOUS
    <3>2. p \in Nat /\ p <= Len(s) /\ j \in 1 .. Len(s) + 1
      BY <2>1, <2>2, <2>3
    <3>3. CASE j < p + 1
      <4>1. j \in 1 .. Len(s) /\ calendar'[j] = s[j]
        BY <2>2, <2>3, <3>2, <3>3
      <4> QED BY <1>1, <4>1
    <3>4. CASE j = p + 1
      BY <2>3, <3>2, <3>4
    <3>5. CASE j > p + 1
      <4>1. j - 1 \in 1 .. Len(s) /\ calendar'[j] = s[j - 1]
        BY <2>2, <2>3, <3>2, <3>5
      <4> QED BY <1>1, <4>1
    <3> QED
      BY <2>2, <3>2, <3>3, <3>4, <3>5
  <2> QED
    BY <2>3, <2>5, <2>6, <2>7 DEF Calendar
<1> QED
  BY <1>2, <1>3

LEMMA CalendarTyped ==
    /\ Reminders!TypeOK <=>
        /\ state \in [Overdue -> Reminders!States \cup {"none"}]
        /\ Calendar(calendar, due)
        /\ \A j \in 1 .. Len(calendar) : state[calendar[j]] # "none"
        /\ claim \in [Workers -> Overdue \cup {"none"}]
        /\ failed \in 0 .. MaxFailed
    /\ Reminders!TypeOK' <=>
        /\ state' \in [Overdue -> Reminders!States \cup {"none"}]
        /\ Calendar(calendar', due')
        /\ \A j \in 1 .. Len(calendar') : state'[calendar'[j]] # "none"
        /\ claim' \in [Workers -> Overdue \cup {"none"}]
        /\ failed' \in 0 .. MaxFailed
<1>1. \A s \in Seq(Overdue) :
         /\ DOMAIN s = 1 .. Len(s)
         /\ Reminders!ToSet(s) = {s[j] : j \in 1 .. Len(s)}
         /\ Reminders!IsInjective(s) <=> \A j, k \in 1 .. Len(s) : s[j] = s[k] => j = k
  BY DEF Reminders!ToSet, Reminders!IsInjective
<1> QED
  BY <1>1 DEF Reminders!TypeOK, Calendar

(* What is kept: the type invariant, its calendar as Calendar says. *)
LEMMA DunInit == Reminders!Init => Reminders!TypeOK
<1> SUFFICES ASSUME Reminders!Init PROVE Reminders!TypeOK
  OBVIOUS
<1>1. Calendar(calendar, due) /\ Len(calendar) = 0
  BY DEF Reminders!Init, Calendar
<1>2. /\ state \in [Overdue -> Reminders!States \cup {"none"}]
      /\ claim \in [Workers -> Overdue \cup {"none"}]
      /\ failed \in 0 .. MaxFailed
  BY SystemAssumption DEF Reminders!Init
<1> QED
  BY <1>1, <1>2, CalendarTyped

(* A row's state is written and the row put on the calendar or taken off. *)
LEMMA Moved ==
    ASSUME Reminders!TypeOK, NEW i \in Overdue, NEW to \in Reminders!States,
           state' = [state EXCEPT ![i] = to],
           \/ Reminders!Unschedule(i)
           \/ \E p, past : Reminders!Schedule(i, p, past),
           claim' \in [Workers -> Overdue \cup {"none"}],
           failed' = failed
    PROVE  Reminders!TypeOK'
<1>1. /\ state \in [Overdue -> Reminders!States \cup {"none"}]
      /\ Calendar(calendar, due)
      /\ \A j \in 1 .. Len(calendar) : state[calendar[j]] # "none"
      /\ failed \in 0 .. MaxFailed
  BY CalendarTyped
<1>2. /\ Calendar(calendar', due')
      /\ \A j \in 1 .. Len(calendar') :
            \/ calendar'[j] = i
            \/ \E k \in 1 .. Len(calendar) : calendar'[j] = calendar[k]
  BY <1>1, Rescheduled
<1>3. to # "none"
  BY DEF Reminders!States, Reminders!Terminal
<1>4. \A j \in 1 .. Len(calendar') : state'[calendar'[j]] # "none"
  <2> SUFFICES ASSUME NEW j \in 1 .. Len(calendar')
               PROVE  state'[calendar'[j]] # "none"
    OBVIOUS
  <2>1. calendar'[j] \in Overdue
    BY <1>2 DEF Calendar
  <2> QED
    BY <1>1, <1>2, <1>3, <2>1
<1>5. state' \in [Overdue -> Reminders!States \cup {"none"}]
  BY <1>1
<1> QED
  BY <1>1, <1>2, <1>4, <1>5, CalendarTyped

LEMMA DunStep ==
    Reminders!TypeOK /\ [Reminders!Next]_Reminders!vars => Reminders!TypeOK'
<1> SUFFICES ASSUME Reminders!TypeOK, [Reminders!Next]_Reminders!vars
             PROVE  Reminders!TypeOK'
  OBVIOUS
<1>0. /\ state \in [Overdue -> Reminders!States \cup {"none"}]
      /\ Calendar(calendar, due)
      /\ \A j \in 1 .. Len(calendar) : state[calendar[j]] # "none"
      /\ claim \in [Workers -> Overdue \cup {"none"}]
      /\ failed \in 0 .. MaxFailed
  BY CalendarTyped
<1>1. CASE Reminders!Tick
  <2>1. Calendar(calendar', due')
    <3>1. calendar' = calendar /\ due' = due + 1 /\ due < Len(calendar)
      BY <1>1 DEF Reminders!Tick
    <3>2. Len(calendar) \in Nat /\ due' \in 0 .. Len(calendar)
      BY <1>0, <3>1 DEF Calendar
    <3> QED BY <1>0, <3>1, <3>2 DEF Calendar
  <2> QED
    BY <1>0, <1>1, <2>1, CalendarTyped DEF Reminders!Tick
<1>2. ASSUME NEW i \in Overdue, Reminders!InitDunning(i)
      PROVE  Reminders!TypeOK'
  <2>1. "pending" \in Reminders!States
    BY DEF Reminders!States
  <2> QED
    BY <1>0, <1>2, <2>1, Moved DEF Reminders!InitDunning, Reminders!AnySchedule
<1>3. ASSUME NEW i \in Overdue, NEW to \in Reminders!States,
             Reminders!TransitionDunning(i, to)
      PROVE  Reminders!TypeOK'
  BY <1>0, <1>3, Moved DEF Reminders!TransitionDunning, Reminders!AnySchedule
<1>4. ASSUME NEW w \in Workers, Reminders!Claim(w)
      PROVE  Reminders!TypeOK'
  <2>1. PICK k \in 1 .. due : claim' = [claim EXCEPT ![w] = calendar[k]]
    BY <1>4 DEF Reminders!Claim
  <2>2. calendar[k] \in Overdue
    BY <1>0 DEF Calendar
  <2>3. claim' \in [Workers -> Overdue \cup {"none"}]
    BY <1>0, <2>1, <2>2
  <2> QED
    BY <1>0, <1>4, <2>3, CalendarTyped DEF Reminders!Claim
<1>5. ASSUME NEW w \in Workers, Reminders!Escalate(w)
      PROVE  Reminders!TypeOK'
  <2>1. /\ claim[w] # "none"
        /\ state[claim[w]] \in DOMAIN Reminders!NextState
        /\ state' = [state EXCEPT ![claim[w]] = Reminders!NextState[@]]
        /\ \E p \in 0 .. Len(calendar) : Reminders!Schedule(claim[w], p, FALSE)
        /\ claim' = [claim EXCEPT ![w] = "none"]
        /\ failed' = failed
    BY <1>5 DEF Reminders!Escalate, Reminders!Unlock
  <2>2. claim[w] \in Overdue
    BY <1>0, <2>1
  <2>3. Reminders!NextState[state[claim[w]]] \in Reminders!States
    BY <2>1 DEF Reminders!NextState, Reminders!States
  <2>4. state' = [state EXCEPT ![claim[w]] = Reminders!NextState[state[claim[w]]]]
    BY <2>1
  <2>5. claim' \in [Workers -> Overdue \cup {"none"}]
    BY <1>0, <2>1
  <2> QED
    BY <2>1, <2>2, <2>3, <2>4, <2>5, Moved
<1>6. ASSUME NEW w \in Workers,
             Reminders!LeaveAlone(w) \/ Reminders!Fail(w)
      PROVE  Reminders!TypeOK'
  <2>1. /\ claim' = [claim EXCEPT ![w] = "none"]
        /\ UNCHANGED <<state, calendar, due>>
        /\ failed' \in {failed, failed + 1}
        /\ failed' = failed \/ failed < MaxFailed
    BY <1>6 DEF Reminders!LeaveAlone, Reminders!Fail, Reminders!Unlock
  <2>2. failed' \in 0 .. MaxFailed
    BY <1>0, <2>1, SystemAssumption
  <2>3. claim' \in [Workers -> Overdue \cup {"none"}]
    BY <1>0, <2>1
  <2> QED
    BY <1>0, <2>1, <2>2, <2>3, CalendarTyped
<1>7. CASE UNCHANGED Reminders!vars
  BY <1>7, CalendarTyped DEF Reminders!vars
<1> QED
  BY <1>1, <1>2, <1>3, <1>4, <1>5, <1>6, <1>7 DEF Reminders!Next

(* The calendar is of dunning rows, each once, the due ones first. *)
LEMMA DunningSpec == Reminders!Spec => []Reminders!TypeOK
<1> QED
  BY DunInit, DunStep, PTL DEF Reminders!Spec

-----------------------------------------------------------------------------
(***************************************************************************)
(* The system: whichever component moves, each behaves as it specifies.    *)
(***************************************************************************)

LEMMA NumberingRuns == SystemSpec => Spec
<1>1. SystemInit => Init
  BY DEF SystemInit
<1>2. [SystemNext]_systemVars => [Next]_vars
  BY DEF SystemNext, Others, systemVars
<1> QED BY <1>1, <1>2, PTL DEF SystemSpec, Spec

LEMMA StockRuns == SystemSpec => Stock!Spec
<1>1. SystemInit => Stock!Init
  BY DEF SystemInit
<1>2. [SystemNext]_systemVars => [Stock!Next]_(Stock!vars)
  BY DEF SystemNext, Others, systemVars, stockVars, Stock!vars,
         Stock!stockVars, Stock!rowVars
<1> QED BY <1>1, <1>2, PTL DEF SystemSpec, Stock!Spec

LEMMA CollectingRuns == SystemSpec => Collecting!Spec
<1>1. SystemInit => Collecting!Init
  BY DEF SystemInit
<1>2. [SystemNext]_systemVars => [Collecting!Next]_(Collecting!vars)
  BY DEF SystemNext, Others, systemVars, collectingVars, Collecting!vars,
         Collecting!invoiceVars, Collecting!eventVars,
         Collecting!requestVars
<1> QED BY <1>1, <1>2, PTL DEF SystemSpec, Collecting!Spec

LEMMA RemindersRuns == SystemSpec => Reminders!Spec
<1>1. SystemInit => Reminders!Init
  BY DEF SystemInit
<1>2. [SystemNext]_systemVars => [Reminders!Next]_(Reminders!vars)
  BY DEF SystemNext, Others, systemVars, remindersVars, Reminders!vars
<1> QED BY <1>1, <1>2, PTL DEF SystemSpec, Reminders!Spec

LEMMA SeatsRuns == SystemSpec => Seats!Spec
<1>1. SystemInit => Seats!Init
  BY DEF SystemInit
<1>2. [SystemNext]_systemVars => [Seats!Next]_(Seats!vars)
  BY DEF SystemNext, Others, systemVars, seatsVars, Seats!vars
<1> QED BY <1>1, <1>2, PTL DEF SystemSpec, Seats!Spec

LEMMA SubscriptionsRuns == SystemSpec => Subscriptions!Spec
<1>1. SystemInit => Subscriptions!Init
  BY DEF SystemInit
<1>2. [SystemNext]_systemVars => [Subscriptions!Next]_(Subscriptions!vars)
  BY DEF SystemNext, Others, systemVars, subscriptionsVars,
         Subscriptions!vars, Subscriptions!runVars
<1> QED BY <1>1, <1>2, PTL DEF SystemSpec, Subscriptions!Spec

LEMMA NotesRuns == SystemSpec => Notes!Spec
<1>1. SystemInit => Notes!Init
  BY DEF SystemInit
<1>2. [SystemNext]_systemVars => [Notes!Next]_(Notes!vars)
  BY DEF SystemNext, Others, systemVars, notesVars, Notes!vars,
         Notes!rowVars, Notes!taskVars
<1> QED BY <1>1, <1>2, PTL DEF SystemSpec, Notes!Spec

LEMMA UsageRuns == SystemSpec => Usage!Spec
<1>1. SystemInit => Usage!Init
  BY DEF SystemInit
<1>2. [SystemNext]_systemVars => [Usage!Next]_(Usage!vars)
  BY DEF SystemNext, Others, systemVars, usageVars, Usage!vars,
         Usage!callVars
<1> QED BY <1>1, <1>2, PTL DEF SystemSpec, Usage!Spec

LEMMA PayingRuns == SystemSpec => Paying!Spec
<1>1. SystemInit => Paying!Init
  BY DEF SystemInit
<1>2. [SystemNext]_systemVars => [Paying!Next]_(Paying!vars)
  BY DEF SystemNext, Others, systemVars, payingVars, Paying!vars
<1> QED BY <1>1, <1>2, PTL DEF SystemSpec, Paying!Spec

LEMMA RelayRuns == SystemSpec => Relay!Spec
<1>1. SystemInit => Relay!Init
  BY DEF SystemInit
<1>2. [SystemNext]_systemVars => [Relay!Next]_(Relay!vars)
  BY DEF SystemNext, Others, systemVars, relayVars, Relay!vars,
         Relay!tableVars, Relay!busVars, Relay!taskVars
<1> QED BY <1>1, <1>2, PTL DEF SystemSpec, Relay!Spec

LEMMA SubscriberRuns == SystemSpec => Subscriber!Spec
<1>1. SystemInit => Subscriber!Init
  BY DEF SystemInit
<1>2. [SystemNext]_systemVars => [Subscriber!Next]_(Subscriber!vars)
  BY DEF SystemNext, Others, systemVars, subscriberVars, Subscriber!vars,
         Subscriber!serverVars, Subscriber!dbVars, Subscriber!workerVars
<1> QED BY <1>1, <1>2, PTL DEF SystemSpec, Subscriber!Spec

(* What the proofs about the instances assume of their constants.           *)
LEMMA Assumptions ==
    /\ Relay!OutboxAssumption
    /\ Subscriber!ConsumerAssumption
BY SystemAssumption
DEF Relay!OutboxAssumption, Subscriber!ConsumerAssumption, IsFiniteSet,
    Relay!IsFiniteSet

(* Every component's variables have their types.                           *)
THEOREM TypeCorrect == SystemSpec => []TypesOK
<1>1. SystemInit => part \in Parts
  BY DEF SystemInit
<1>2. part \in Parts /\ [SystemNext]_systemVars => (part \in Parts)'
  BY DEF SystemNext, systemVars
<1>3. SystemSpec => [](part \in Parts)
  BY <1>1, <1>2, PTL DEF SystemSpec
<1>4. Spec => []TypeOK
  BY NumberingTyped
<1>5. StockInv => Stock!TypeOK
  BY DEF StockInv
<1>6. Collecting!Spec => []Collecting!TypeOK
  BY SystemAssumption, Collecting!TypeCorrect
<1>7. Notes!Spec => []Notes!TypeOK
  BY SystemAssumption, Notes!TypeCorrect
<1>8. Relay!Spec => []Relay!TypeOK
  BY Assumptions, Relay!TypeCorrect
<1>9. Subscriber!Spec => []Subscriber!TypeOK
  BY Assumptions, Subscriber!TypeCorrect
<1>10. /\ part \in Parts /\ TypeOK /\ StockInv
       /\ Collecting!TypeOK /\ Reminders!TypeOK /\ Seats!TypeOK
       /\ Subscriptions!TypeOK /\ Notes!TypeOK /\ Usage!TypeOK
       /\ Paying!TypeOK /\ Relay!TypeOK /\ Subscriber!TypeOK
       => TypesOK
  BY <1>5 DEF TypesOK
<1> QED
  BY <1>3, <1>4, <1>6, <1>7, <1>8, <1>9, <1>10, NumberingRuns, StockRuns,
     CollectingRuns, RemindersRuns, SeatsRuns, SubscriptionsRuns, NotesRuns,
     UsageRuns, PayingRuns, RelayRuns, SubscriberRuns, StockSpec, DunningSpec,
     SeatsSpec, BillsSpec, UsageSpec, PayingSpec, PTL

(* The numbers of an entity are exactly those up to its counter, one row   *)
(* each, whoever allocates, recycles, confirms and aborts at the same time.*)
THEOREM NumbersAreDense == SystemSpec => []NoGapNoDuplicate
BY NumberingRuns, NumbersDense, PTL

(* No confirmed number is ever taken away or given to another request.     *)
THEOREM ConfirmedStays == SystemSpec => ConfirmedKept
BY NumberingRuns, NumbersKept, PTL

(* quantity_reserved is the sum of the reservations that are open.         *)
THEOREM ReservedIsSum == SystemSpec => []ReservedIsSumOfRows
<1>1. StockInv => ReservedIsSumOfRows
  BY DEF StockInv, ReservedIsSumOfRows
<1> QED BY <1>1, StockRuns, StockSpec, PTL

(* No reservation is granted against stock that is not there.              *)
THEOREM ReservationsCovered == SystemSpec => ReservationCovered
<1>1. Stock!ReservationCovered <=> ReservationCovered
  BY DEF ReservationCovered
<1> QED BY <1>1, StockRuns, StockSpec, PTL

(* No invoice is announced as paid, or paid otherwise than by hand, unless *)
(* the provider charged for it.                                            *)
THEOREM PaidIsConfirmed == SystemSpec => []PaidMeansConfirmed
<1>1. Collecting!Spec => []PaidMeansConfirmed
  BY SystemAssumption, Collecting!PaidIsConfirmed DEF PaidMeansConfirmed
<1> QED BY <1>1, CollectingRuns, PTL

(* A success recorded as processed has been announced.                     *)
THEOREM HandledIsAnnounced == SystemSpec => []HandledMeansAnnounced
<1>1. Collecting!Spec => []HandledMeansAnnounced
  BY SystemAssumption, Collecting!HandledIsAnnounced DEF HandledMeansAnnounced
<1> QED BY <1>1, CollectingRuns, PTL

(* Concurrent logins never take more seats than the tenant has.            *)
THEOREM SeatsBounded == SystemSpec => []SeatsNotOversold
BY SeatsRuns, SeatsSpec, PTL

(* At most one invoice is created per subscription and month, by any       *)
(* number of bill runs that fail and are repeated.                         *)
THEOREM InvoicedOnce == SystemSpec => []InvoicedOncePerCycle
BY SubscriptionsRuns, BillsSpec, PTL

(* A subscription's next date has passed only dates it was billed for.     *)
THEOREM NothingSkipped == SystemSpec => []NoPeriodSkipped
BY SubscriptionsRuns, BillsSpec, PTL

(* A notification's retry count and status agree with its attempts.        *)
THEOREM RowsAgree == SystemSpec => []AttemptsAgree
<1>1. Notes!Spec => []AttemptsAgree
  BY Notes!RowsAgree DEF AttemptsAgree
<1> QED BY <1>1, NotesRuns, PTL

(* Only a replay takes a notification out of its final status.             *)
THEOREM FinalStays == SystemSpec => FinalIsFinal
<1>1. Notes!Spec => FinalIsFinal
  BY Notes!FinalStays DEF FinalIsFinal
<1> QED BY <1>1, NotesRuns, PTL

(* A billed charge is on a finalized invoice of its party.                 *)
THEOREM BilledOnInvoice == SystemSpec => []Usage!BilledIsInvoiced
BY UsageRuns, UsageSpec, PTL

(* A completed billing run has invoiced every agreement.                   *)
THEOREM CompletedOnInvoice == SystemSpec => []CompletedIsInvoiced
BY UsageRuns, UsageSpec, PTL

(* Bills, allocations and payment runs agree: a bill's status is what its  *)
(* allocations say, allocations by hand never exceed its total, and a      *)
(* completed run leaves nothing of its bills open.                         *)
THEOREM PaymentsConsistent == SystemSpec => []PaymentsAgree
BY PayingRuns, PayingSpec, PTL

(* With one publisher that is never stopped, and events the bus can take,  *)
(* a cause reaches the stream before its effect.                           *)
THEOREM CauseBeforeEffect ==
    ASSUME Relay!OnePublisher
    PROVE  SystemSpec => []CauseFirst
<1>1. Relay!Spec => []CauseFirst
  BY Assumptions, Relay!CauseBeforeEffect DEF CauseFirst
<1> QED BY <1>1, RelayRuns, PTL
=============================================================================
