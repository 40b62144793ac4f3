---------------------------- MODULE LedgerProofs ----------------------------
(***************************************************************************)
(* Folds over finite sets, and the group states that Ledger makes of the   *)
(* entries of a group with one.                                            *)
(*                                                                         *)
(* A fold is a function on the subsets of a set, defined from itself.  That *)
(* there is one, and only one, is by induction on the number of elements;  *)
(* the induction is that a set of subsets, or of numbers, which is closed  *)
(* under a step has them all.                                              *)
(***************************************************************************)
EXTENDS Balance, FiniteSetTheorems, NaturalsInduction, TLAPS

-----------------------------------------------------------------------------
(* Induction.                                                              *)

LEMMA NumberInduction ==
  ASSUME NEW G, 0 \in G, \A n \in Nat : n \in G => n + 1 \in G
  PROVE  Nat \subseteq G
  <1> SUFFICES ASSUME ~ (Nat \subseteq G) PROVE FALSE
    OBVIOUS
  <1> DEFINE R == OpToRel(<, Nat)
             T == Nat \ G
  <1>1. \E n \in T : \A k \in T : ~ (<<k, n>> \in R)
    <2>1. T \subseteq Nat /\ T # {}
      OBVIOUS
    <2>2. IsWellFoundedOn(R, Nat)
      BY NatLessThanWellFounded
    <2> HIDE DEF R, T
    <2> QED BY <2>1, <2>2, WFMin
  <1>2. PICK n \in T : \A k \in T : ~ (k < n)
    BY <1>1 DEF OpToRel
  <1>3. n # 0 /\ n - 1 \in Nat /\ n - 1 \notin T
    BY <1>2
  <1> QED BY <1>2, <1>3

LEMMA SubsetInduction ==
  ASSUME NEW S, IsFiniteSet(S), NEW G,
         \A T \in SUBSET S : (\A x \in T : T \ {x} \in G) => T \in G
  PROVE  SUBSET S \subseteq G
  <1> SUFFICES ASSUME ~ (SUBSET S \subseteq G) PROVE FALSE
    OBVIOUS
  <1> DEFINE R == StrictSubsetOrdering(S)
             B == (SUBSET S) \ G
  <1>1. \E T \in B : \A U \in B : ~ (<<U, T>> \in R)
    <2>1. B \subseteq FiniteSubsetsOf(S) /\ B # {}
      BY FS_FiniteSubsetsOfFinite
    <2>2. IsWellFoundedOn(R, FiniteSubsetsOf(S))
      BY FS_StrictSubsetOrderingWellFounded
    <2> HIDE DEF R, B
    <2> QED BY <2>1, <2>2, WFMin
  <1>2. PICK T \in B : \A U \in B : ~ (U \subseteq T /\ U # T)
    BY <1>1 DEF StrictSubsetOrdering
  <1>3. \A x \in T : T \ {x} \in SUBSET S /\ T \ {x} # T /\ T \ {x} \subseteq T
    OBVIOUS
  <1>4. \A x \in T : T \ {x} \in G
    BY <1>2, <1>3
  <1> QED BY <1>2, <1>4

-----------------------------------------------------------------------------
(* Folds.                                                                  *)

\* it is the fold of h over the subsets of S, from base, where c chooses what
\* is taken last.
IsFold(it, S, c, base, h) ==
  it = [s \in SUBSET S |-> IF s = {} THEN base ELSE h[c[s]][it[s \ {c[s]}]]]

LEMMA FoldExists ==
  ASSUME NEW S, IsFiniteSet(S), NEW c, \A s \in SUBSET S : s # {} => c[s] \in s,
         NEW V, NEW base \in V, NEW h, \A x \in S, v \in V : h[x][v] \in V
  PROVE  \E it \in [SUBSET S -> V] : IsFold(it, S, c, base, h)
  <1> DEFINE Small(n) == { s \in SUBSET S : Cardinality(s) <= n }
             Value(g, s) == IF s = {} THEN base ELSE h[c[s]][g[s \ {c[s]}]]
             G == { n \in Nat : \E g \in [Small(n) -> V] :
                                  \A s \in Small(n) : g[s] = Value(g, s) }
  <1>1. \A s \in SUBSET S : /\ IsFiniteSet(s) /\ Cardinality(s) \in Nat
                            /\ Cardinality(s) = 0 <=> s = {}
                            /\ Cardinality(s) <= Cardinality(S)
    BY FS_Subset, FS_CardinalityType, FS_EmptySet
  <1>2. \A s \in SUBSET S : s # {} =>
          /\ c[s] \in s /\ c[s] \in S /\ s \ {c[s]} \in SUBSET S
          /\ Cardinality(s \ {c[s]}) = Cardinality(s) - 1
    BY <1>1, FS_RemoveElement
  <1>3. 0 \in G
    <2> DEFINE g == [s \in Small(0) |-> base]
    <2>1. \A s \in Small(0) : s = {}
      BY <1>1
    <2>2. g \in [Small(0) -> V] /\ \A s \in Small(0) : g[s] = Value(g, s)
      BY <2>1
    <2> QED BY <2>2
  <1>4. ASSUME NEW n \in Nat, n \in G PROVE n + 1 \in G
    <2>1. PICK g \in [Small(n) -> V] : \A s \in Small(n) : g[s] = Value(g, s)
      BY <1>4
    <2> DEFINE f == [s \in Small(n + 1) |-> Value(g, s)]
    <2>2. \A s \in Small(n + 1) : s # {} => s \ {c[s]} \in Small(n)
      BY <1>1, <1>2
    <2>3. \A s \in Small(n + 1) : Value(g, s) \in V
      BY <1>2, <2>2
    <2>4. \A s \in Small(n) : s \in Small(n + 1) /\ f[s] = g[s]
      <3>1. Small(n) \subseteq Small(n + 1)
        BY <1>1
      <3> HIDE DEF Small
      <3> QED BY <2>1, <3>1
    <2>5. \A s \in Small(n + 1) : f[s] = Value(f, s)
      BY <2>2, <2>4
    <2>6. f \in [Small(n + 1) -> V]
      BY <2>3
    <2> HIDE DEF f, Value, Small
    <2> QED BY <2>5, <2>6
  <1>5. Cardinality(S) \in G
    <2> HIDE DEF G
    <2> QED BY <1>1, <1>3, <1>4, NumberInduction
  <1>6. Small(Cardinality(S)) = SUBSET S
    BY <1>1
  <1>7. PICK g \in [SUBSET S -> V] : \A s \in SUBSET S : g[s] = Value(g, s)
    <2>1. \E g \in [Small(Cardinality(S)) -> V] :
             \A s \in Small(Cardinality(S)) : g[s] = Value(g, s)
      BY <1>5
    <2> HIDE DEF Small, Value
    <2> QED BY <1>6, <2>1
  <1>8. g = [s \in SUBSET S |-> Value(g, s)]
    <2> HIDE DEF Value
    <2> QED BY <1>7
  <1> QED BY <1>8 DEF IsFold

\* Two functions of the subsets of S are the same at S if they are the same at
\* a set whenever they are at the sets with one element less.
LEMMA RecursionUnique ==
  ASSUME NEW S, IsFiniteSet(S), NEW f, NEW g,
         \A s \in SUBSET S : (\A x \in s : f[s \ {x}] = g[s \ {x}]) => f[s] = g[s]
  PROVE  f[S] = g[S]
  <1> DEFINE G == { s \in SUBSET S : f[s] = g[s] }
  <1>1. ASSUME NEW s \in SUBSET S, \A x \in s : s \ {x} \in G
        PROVE  s \in G
    BY <1>1
  <1>2. S \in G
    <2> HIDE DEF G
    <2> QED BY <1>1, SubsetInduction
  <1> QED BY <1>2

LEMMA FoldUnique ==
  ASSUME NEW S, NEW T \in SUBSET S, IsFiniteSet(T), NEW c,
         \A s \in SUBSET S : s # {} => c[s] \in s,
         NEW base, NEW h, NEW it, IsFold(it, S, c, base, h), NEW jt, IsFold(jt, T, c, base, h)
  PROVE  it[T] = jt[T]
  <1>1. ASSUME NEW s \in SUBSET T, \A x \in s : it[s \ {x}] = jt[s \ {x}]
        PROVE  it[s] = jt[s]
    <2>1. s \in SUBSET S /\ (s # {} => c[s] \in s)
      OBVIOUS
    <2>2. it[s] = IF s = {} THEN base ELSE h[c[s]][it[s \ {c[s]}]]
      BY <2>1 DEF IsFold
    <2>3. jt[s] = IF s = {} THEN base ELSE h[c[s]][jt[s \ {c[s]}]]
      BY DEF IsFold
    <2> QED BY <1>1, <2>1, <2>2, <2>3
  <1> QED BY <1>1, RecursionUnique

-----------------------------------------------------------------------------
(* The order of the entries.                                               *)

LEMMA EntryFields ==
  /\ \A type \in EntryType : EntryOf(type) \subseteq Entry
  /\ \A e \in Entry : /\ e.id \in Nat \ {NoHash} /\ e.prev \in Nat /\ e.clock \in Nat
                      /\ e.ts \in Stamp /\ e.dev \in Device
                      /\ e.type \in EntryType /\ e.payload \in PayloadOf[e.type]
  <1>1. \A type \in EntryType : EntryOf(type) \subseteq Entry
    BY DEF Entry, EntryType
  <1>2. ASSUME NEW e \in Entry
        PROVE  \E type \in EntryType : e \in EntryOf(type)
    BY DEF Entry, EntryType
  <1>3. ASSUME NEW type \in EntryType, NEW e \in EntryOf(type)
        PROVE  /\ e.id \in Nat \ {NoHash} /\ e.prev \in Nat /\ e.clock \in Nat
               /\ e.ts \in Stamp /\ e.dev \in Device
               /\ e.type \in EntryType /\ e.payload \in PayloadOf[e.type]
    BY DEF EntryOf
  <1> QED BY <1>1, <1>2, <1>3

\* Entries that could be those of a ledger.
Entries(S) ==
  /\ S \subseteq Entry /\ IsFiniteSet(S)
  /\ \A e, f \in S : e.id = f.id => e = f

LEMMA SubsetEntries ==
  ASSUME NEW S, Entries(S), NEW T \in SUBSET S
  PROVE  Entries(T)
  BY FS_Subset DEF Entries

\* Entries of any payload that have one order.
Sortable(S) ==
  /\ IsFiniteSet(S)
  /\ \A e \in S : e.clock \in Nat /\ e.ts \in Nat /\ e.dev \in Nat /\ e.id \in Nat
  /\ \A e, f \in S : e.id = f.id => e = f

LEMMA EntriesSortable ==
  ASSUME NEW S, Entries(S)
  PROVE  Sortable(S)
  BY EntryFields, LedgerAssumption DEF Entries, Sortable

LEMMA SubsetSortable ==
  ASSUME NEW S, Sortable(S), NEW T \in SUBSET S
  PROVE  Sortable(T)
  BY FS_Subset DEF Sortable

LEMMA BeforeOrders ==
  ASSUME NEW S, Sortable(S)
  PROVE  /\ \A e \in S : ~Before(e, e)
         /\ \A e, f \in S : e # f => (Before(e, f) <=> ~Before(f, e))
         /\ \A e, f, g \in S : Before(e, f) /\ Before(f, g) => Before(e, g)
  <1>1. \A e \in S : e.clock \in Nat /\ e.ts \in Nat /\ e.dev \in Nat /\ e.id \in Nat
    BY DEF Sortable
  <1>2. \A e \in S : ~Before(e, e)
    BY <1>1 DEF Before
  <1>3. ASSUME NEW e \in S, NEW f \in S, e # f
        PROVE  Before(e, f) <=> ~Before(f, e)
    <2>1. e.id # f.id
      BY <1>3 DEF Sortable
    <2> QED BY <1>1, <2>1 DEF Before
  <1>4. ASSUME NEW e \in S, NEW f \in S, NEW g \in S, Before(e, f), Before(f, g)
        PROVE  Before(e, g)
    BY <1>1, <1>4 DEF Before
  <1> QED BY <1>2, <1>3, <1>4

LEMMA LatestExists ==
  ASSUME NEW S, Sortable(S), S # {}
  PROVE  \E e \in S : IsLatest(e, S)
  <1> DEFINE G == { T \in SUBSET S : T # {} => \E e \in T : IsLatest(e, T) }
  <1>1. ASSUME NEW T \in SUBSET S, \A x \in T : T \ {x} \in G
        PROVE  T \in G
    <2> SUFFICES ASSUME NEW x \in T
                 PROVE  \E e \in T : IsLatest(e, T)
      OBVIOUS
    <2>1. CASE T \ {x} = {}
      BY <2>1 DEF IsLatest
    <2>2. CASE T \ {x} # {}
      <3>1. PICK e \in T \ {x} : IsLatest(e, T \ {x})
        BY <1>1, <2>2
      <3>2. \A f \in T \ {x, e} : Before(f, e)
        BY <3>1 DEF IsLatest
      <3>3. CASE Before(x, e)
        BY <3>1, <3>2, <3>3 DEF IsLatest
      <3>4. CASE ~Before(x, e)
        <4>1. Before(e, x)
          BY <3>1, <3>4, BeforeOrders
        <4>2. \A f \in T \ {x} : Before(f, x)
          BY <3>1, <3>2, <4>1, BeforeOrders
        <4> QED BY <4>2 DEF IsLatest
      <3> QED BY <3>3, <3>4
    <2> QED BY <2>1, <2>2
  <1>2. S \in G
    <2> HIDE DEF G
    <2> QED BY <1>1, SubsetInduction DEF Sortable
  <1> QED BY <1>2

-----------------------------------------------------------------------------
(* The state of a group.                                                   *)

LEMMA EmptyTyped == createEmptyGroupState \in GroupState
  BY DEF createEmptyGroupState, GroupState

LEMMA MembersTyped ==
  ASSUME NEW e \in Entry, NEW st, st.members \in [Member -> [active : BOOLEAN, devices : SUBSET Device]]
  PROVE  MembersAfter(e, st.members) \in [Member -> [active : BOOLEAN, devices : SUBSET Device]]
  <1> DEFINE p == e.payload
             Status == [active : BOOLEAN, devices : SUBSET Device]
  <1>1. e.type \in EntryType /\ p \in PayloadOf[e.type] /\ e.dev \in Device
    BY EntryFields
  <1>2. CASE e.type \in {"Genesis", "MemberAdded"}
    BY <1>1, <1>2 DEF MembersAfter, Joined
  <1>3. CASE e.type = "MemberRemoved"
    BY <1>1, <1>3 DEF MembersAfter
  <1>4. CASE e.type = "DeviceAuthorized"
    BY <1>1, <1>4 DEF MembersAfter, PayloadOf
  <1>5. CASE e.type = "DeviceRevoked"
    BY <1>1, <1>5 DEF MembersAfter
  <1>6. CASE e.type = "RootKeyRotation"
    BY <1>1, <1>6 DEF MembersAfter
  <1>7. CASE e.type \notin {"Genesis", "MemberAdded", "MemberRemoved", "DeviceAuthorized",
                            "DeviceRevoked", "RootKeyRotation"}
    BY <1>7 DEF MembersAfter
  <1> QED BY <1>2, <1>3, <1>4, <1>5, <1>6, <1>7

\* No state is a state whose clock is -1.
GroupStates == GroupState \cup {[createEmptyGroupState EXCEPT !.clock = -1]}

LEMMA GroupStateFields ==
  ASSUME NEW st \in GroupStates
  PROVE  /\ st.members \in [Member -> [active : BOOLEAN, devices : SUBSET Device]]
         /\ st.creator \in Member \cup {NoOne}
         /\ st.clock \in Nat \cup {-1}
         /\ st = [members |-> st.members, creator |-> st.creator, clock |-> st.clock]
  <1>1. CASE st \in GroupState
    BY <1>1 DEF GroupState
  <1>2. CASE st = [createEmptyGroupState EXCEPT !.clock = -1]
    <2>1. st = [members |-> [m \in Member |-> [active |-> FALSE, devices |-> {}]],
                creator |-> NoOne, clock |-> -1]
      BY <1>2 DEF createEmptyGroupState
    <2> QED BY <2>1
  <1> QED BY <1>1, <1>2 DEF GroupStates

LEMMA ApplyFields ==
  ASSUME NEW e, NEW st \in GroupStates
  PROVE  applyEntry(e, st) = [members |-> MembersAfter(e, st.members),
                              creator |-> CreatorAfter(e, st.creator),
                              clock   |-> IF e.clock > st.clock THEN e.clock ELSE st.clock]
  <1> DEFINE x == st.members
             y == st.creator
             z == st.clock
  <1>1. st = [members |-> x, creator |-> y, clock |-> z]
    BY GroupStateFields
  <1> DEFINE X == MembersAfter(e, x)
             Y == CreatorAfter(e, y)
             Z == IF e.clock > z THEN e.clock ELSE z
  <1>2. applyEntry(e, st) = [st EXCEPT !.members = X, !.creator = Y, !.clock = Z]
    BY DEF applyEntry
  <1> HIDE DEF x, y, z, X, Y, Z
  <1>3. applyEntry(e, st) = [members |-> X, creator |-> Y, clock |-> Z]
    BY <1>1, <1>2
  <1> QED BY <1>3 DEF x, y, z, X, Y, Z

LEMMA ApplyTyped ==
  ASSUME NEW e \in Entry, NEW st \in GroupStates
  PROVE  applyEntry(e, st) \in GroupState
  <1>1. /\ st.creator \in Member \cup {NoOne}
        /\ st.clock \in Nat \cup {-1}
        /\ st.members \in [Member -> [active : BOOLEAN, devices : SUBSET Device]]
    BY GroupStateFields
  <1>2. /\ e.clock \in Nat /\ e.type \in EntryType /\ e.payload \in PayloadOf[e.type]
    BY EntryFields
  <1>3. CreatorAfter(e, st.creator) \in Member \cup {NoOne}
    <2>1. CASE e.type = "Genesis"
      BY <1>2, <2>1 DEF CreatorAfter, PayloadOf
    <2>2. CASE e.type = "RootKeyRotation"
      BY <1>1, <1>2, <2>2 DEF CreatorAfter, PayloadOf
    <2>3. CASE e.type \notin {"Genesis", "RootKeyRotation"}
      BY <1>1, <2>3 DEF CreatorAfter
    <2> QED BY <2>1, <2>2, <2>3
  <1>4. MembersAfter(e, st.members) \in [Member -> [active : BOOLEAN, devices : SUBSET Device]]
    BY <1>1, MembersTyped
  <1>5. (IF e.clock > st.clock THEN e.clock ELSE st.clock) \in Nat
    BY <1>1, <1>2
  <1> QED BY <1>3, <1>4, <1>5, ApplyFields DEF GroupState

\* The fold of StateOf, with what it takes last and what it does with it as
\* functions.
LatestOf(S) == [T \in SUBSET S |-> CHOOSE e \in T : IsLatest(e, T)]
Applied(S)  == [e \in S |-> [st \in GroupState |-> applyEntry(e, st)]]

LEMMA LatestOfTyped ==
  ASSUME NEW S, Entries(S), NEW T \in SUBSET S, T # {}
  PROVE  LatestOf(S)[T] \in T /\ IsLatest(LatestOf(S)[T], T)
  <1>1. \E e \in T : IsLatest(e, T)
    BY SubsetEntries, EntriesSortable, LatestExists
  <1> QED BY <1>1 DEF LatestOf

LEMMA StateOfIsFold ==
  ASSUME NEW S, Entries(S), NEW T \in SUBSET S
  PROVE  \E it \in [SUBSET T -> GroupState] :
           /\ IsFold(it, T, LatestOf(S), createEmptyGroupState, Applied(S))
           /\ StateOf(T) = it[T]
  <1> DEFINE c == LatestOf(S)
             last(s) == CHOOSE e \in s : IsLatest(e, s)
             Value(it, s) == IF s = {} THEN createEmptyGroupState
                             ELSE applyEntry(last(s), it[s \ {last(s)}])
             chosen == CHOOSE it : it = [s \in SUBSET T |-> Value(it, s)]
  <1>1. \A s \in SUBSET T : s # {} => c[s] \in s /\ c[s] = last(s)
    BY LatestOfTyped DEF LatestOf
  <1>2. IsFiniteSet(T)
    BY FS_Subset DEF Entries
  <1>3. \A e \in T, st \in GroupState : Applied(S)[e][st] \in GroupState
    BY ApplyTyped DEF Applied, Entries, GroupStates
  <1>4. PICK jt \in [SUBSET T -> GroupState] :
          IsFold(jt, T, c, createEmptyGroupState, Applied(S))
    <2>1. \A s \in SUBSET T : s # {} => c[s] \in s
      BY <1>1
    <2> HIDE DEF c
    <2> QED BY <2>1, <1>2, <1>3, EmptyTyped, FoldExists
  <1>5. \A s \in SUBSET T : jt[s] = Value(jt, s)
    <2> SUFFICES ASSUME NEW s \in SUBSET T PROVE jt[s] = Value(jt, s)
      OBVIOUS
    <2>1. CASE s = {}
      BY <1>4, <2>1 DEF IsFold
    <2>2. CASE s # {}
      <3>1. jt[s] = Applied(S)[c[s]][jt[s \ {c[s]}]]
        BY <1>4, <2>2 DEF IsFold
      <3>2. c[s] \in S /\ jt[s \ {c[s]}] \in GroupState /\ c[s] = last(s)
        BY <1>1, <2>2
      <3> HIDE DEF c, last
      <3> QED BY <2>2, <3>1, <3>2 DEF Applied
    <2> QED BY <2>1, <2>2
  <1>6. chosen = [s \in SUBSET T |-> Value(chosen, s)]
    <2>1. jt = [s \in SUBSET T |-> Value(jt, s)]
      <3> HIDE DEF Value
      <3> QED BY <1>5
    <2> HIDE DEF Value
    <2> QED BY <2>1
  <1>7. chosen[T] = jt[T]
    <2>1. ASSUME NEW s \in SUBSET T, \A x \in s : chosen[s \ {x}] = jt[s \ {x}]
          PROVE  chosen[s] = jt[s]
      <3>1. chosen[s] = Value(chosen, s)
        <4> HIDE DEF chosen, Value
        <4> QED BY <1>6
      <3>2. jt[s] = Value(jt, s)
        BY <1>5
      <3>3. Value(chosen, s) = Value(jt, s)
        <4> HIDE DEF chosen, last
        <4> QED BY <1>1, <2>1
      <3> QED BY <3>1, <3>2, <3>3
    <2> HIDE DEF chosen
    <2> QED BY <1>2, <2>1, RecursionUnique
  <1>8. StateOf(T) = chosen[T]
    BY DEF StateOf, MapThenFoldSet
  <1> QED BY <1>4, <1>7, <1>8

LEMMA StateOfStep ==
  ASSUME NEW S, Entries(S)
  PROVE  /\ StateOf(S) \in GroupState
         /\ S = {} => StateOf(S) = createEmptyGroupState
         /\ S # {} => \E last \in S : /\ IsLatest(last, S)
                                      /\ StateOf(S) = applyEntry(last, StateOf(S \ {last}))
  <1>1. PICK it \in [SUBSET S -> GroupState] :
          /\ IsFold(it, S, LatestOf(S), createEmptyGroupState, Applied(S))
          /\ StateOf(S) = it[S]
    BY StateOfIsFold
  <1>2. StateOf(S) \in GroupState
    BY <1>1
  <1>3. S = {} => StateOf(S) = createEmptyGroupState
    BY <1>1 DEF IsFold
  <1>4. ASSUME S # {}
        PROVE  \E last \in S : /\ IsLatest(last, S)
                              /\ StateOf(S) = applyEntry(last, StateOf(S \ {last}))
    <2> DEFINE last == LatestOf(S)[S]
               R == S \ {last}
    <2>1. last \in S /\ IsLatest(last, S)
      BY <1>4, LatestOfTyped
    <2>2. PICK jt \in [SUBSET R -> GroupState] :
            /\ IsFold(jt, R, LatestOf(S), createEmptyGroupState, Applied(S))
            /\ StateOf(R) = jt[R]
      BY StateOfIsFold
    <2>3. it[R] = jt[R]
      <3>1. IsFiniteSet(R) /\ R \in SUBSET S
        BY FS_Subset DEF Entries
      <3>2. \A s \in SUBSET S : s # {} => LatestOf(S)[s] \in s
        BY LatestOfTyped
      <3> HIDE DEF R
      <3> QED BY <1>1, <2>2, <3>1, <3>2, FoldUnique
    <2>4. it[S] = Applied(S)[last][it[R]]
      BY <1>1, <1>4 DEF IsFold
    <2>5. it[R] \in GroupState
      OBVIOUS
    <2>6. it[S] = applyEntry(last, it[R])
      <3> HIDE DEF last, R
      <3> QED BY <2>1, <2>4, <2>5 DEF Applied
    <2>7. StateOf(S) = applyEntry(last, StateOf(R))
      BY <1>1, <2>2, <2>3, <2>6
    <2> QED BY <2>1, <2>7
  <1> QED BY <1>2, <1>3, <1>4

\* The clock of a state is the largest of its entries'.
LEMMA StateClock ==
  ASSUME NEW S, Entries(S)
  PROVE  /\ \A e \in S : e.clock <= StateOf(S).clock
         /\ S # {} => \E e \in S : e.clock = StateOf(S).clock
  <1> DEFINE Right(s) == /\ \A e \in s : e.clock <= StateOf(s).clock
                         /\ s # {} => \E e \in s : e.clock = StateOf(s).clock
             G == { s \in SUBSET S : Right(s) }
  <1>1. ASSUME NEW s \in SUBSET S, \A x \in s : s \ {x} \in G
        PROVE  Right(s)
    <2>1. Entries(s)
      BY SubsetEntries
    <2>2. CASE s = {}
      BY <2>2
    <2>3. CASE s # {}
      <3>1. PICK last \in s : StateOf(s) = applyEntry(last, StateOf(s \ {last}))
        BY <2>1, <2>3, StateOfStep
      <3> DEFINE r == s \ {last}
                 st == StateOf(r)
      <3>2. st \in GroupState /\ (r = {} => st = createEmptyGroupState)
        BY SubsetEntries, StateOfStep
      <3>3. StateOf(s).clock = IF last.clock > st.clock THEN last.clock ELSE st.clock
        BY <3>1, <3>2, ApplyFields DEF GroupStates
      <3>4. st.clock \in Nat /\ (r = {} => st.clock = 0)
        <4> HIDE DEF st, r
        <4>1. st.clock \in Nat
          BY <3>2 DEF GroupState
        <4>2. createEmptyGroupState.clock = 0
          BY DEF createEmptyGroupState
        <4> QED BY <3>2, <4>1, <4>2
      <3>5. \A e \in s : e.clock \in Nat
        BY <2>1, EntryFields DEF Entries
      <3>6. Right(r)
        BY <1>1
      <3> HIDE DEF st
      <3>7. /\ \A e \in r : e.clock <= st.clock
            /\ r # {} => \E e \in r : e.clock = st.clock
        BY <3>6 DEF st
      <3>8. \A e \in s : e.clock <= StateOf(s).clock
        BY <3>3, <3>4, <3>5, <3>7
      <3>9. \E e \in s : e.clock = StateOf(s).clock
        <4>1. CASE last.clock > st.clock
          BY <3>3, <4>1
        <4>2. CASE ~(last.clock > st.clock) /\ r = {}
          BY <3>3, <3>4, <3>5, <4>2
        <4>3. CASE ~(last.clock > st.clock) /\ r # {}
          BY <3>3, <3>7, <4>3
        <4> QED BY <4>1, <4>2, <4>3
      <3> QED BY <3>8, <3>9
    <2> QED BY <2>2, <2>3
  <1>2. S \in G
    <2>1. ASSUME NEW s \in SUBSET S, \A x \in s : s \ {x} \in G
          PROVE  s \in G
      <3> HIDE DEF Right
      <3> QED BY <1>1, <2>1
    <2> HIDE DEF G
    <2> QED BY <2>1, SubsetInduction DEF Entries
  <1> QED BY <1>2

-----------------------------------------------------------------------------
(* Sums.                                                                   *)

\* f has integers on S.
Numbers(f, S) == \A x \in S : f[x] \in Int

AnyOf(S)    == [T \in SUBSET S |-> CHOOSE x \in T : TRUE]
Added(f, S) == [x \in S |-> [n \in Int |-> f[x] + n]]

Sums(it, T, f, S) ==
  /\ it \in [SUBSET T -> Int]
  /\ IsFold(it, T, AnyOf(S), 0, Added(f, S))
  /\ SumFunctionOnSet(f, T) = it[T]

LEMMA SumIsFold ==
  ASSUME NEW S, IsFiniteSet(S), NEW f, Numbers(f, S), NEW T \in SUBSET S
  PROVE  \E it : Sums(it, T, f, S)
  <1> DEFINE c == AnyOf(S)
             any(s) == CHOOSE x \in s : TRUE
             Value(it, s) == IF s = {} THEN 0 ELSE f[any(s)] + it[s \ {any(s)}]
             chosen == CHOOSE it : it = [s \in SUBSET T |-> Value(it, s)]
  <1>1. \A s \in SUBSET T : s # {} => c[s] \in s /\ c[s] = any(s)
    BY DEF AnyOf
  <1>2. IsFiniteSet(T)
    BY FS_Subset
  <1>3. \A x \in T, n \in Int : Added(f, S)[x][n] \in Int
    BY DEF Added, Numbers
  <1>4. PICK jt \in [SUBSET T -> Int] : IsFold(jt, T, c, 0, Added(f, S))
    <2>1. \A s \in SUBSET T : s # {} => c[s] \in s
      BY <1>1
    <2>2. 0 \in Int
      OBVIOUS
    <2> HIDE DEF c
    <2> QED BY <2>1, <2>2, <1>2, <1>3, FoldExists
  <1>5. \A s \in SUBSET T : jt[s] = Value(jt, s)
    <2> SUFFICES ASSUME NEW s \in SUBSET T PROVE jt[s] = Value(jt, s)
      OBVIOUS
    <2>1. CASE s = {}
      BY <1>4, <2>1 DEF IsFold
    <2>2. CASE s # {}
      <3>1. jt[s] = Added(f, S)[c[s]][jt[s \ {c[s]}]]
        BY <1>4, <2>2 DEF IsFold
      <3>2. c[s] \in S /\ jt[s \ {c[s]}] \in Int /\ c[s] = any(s)
        BY <1>1, <2>2
      <3> HIDE DEF c, any
      <3> QED BY <2>2, <3>1, <3>2 DEF Added
    <2> QED BY <2>1, <2>2
  <1>6. chosen = [s \in SUBSET T |-> Value(chosen, s)]
    <2>1. jt = [s \in SUBSET T |-> Value(jt, s)]
      <3> HIDE DEF Value
      <3> QED BY <1>5
    <2> HIDE DEF Value
    <2> QED BY <2>1
  <1>7. chosen[T] = jt[T]
    <2>1. ASSUME NEW s \in SUBSET T, \A x \in s : chosen[s \ {x}] = jt[s \ {x}]
          PROVE  chosen[s] = jt[s]
      <3>1. chosen[s] = Value(chosen, s)
        <4> HIDE DEF chosen, Value
        <4> QED BY <1>6
      <3>2. jt[s] = Value(jt, s)
        BY <1>5
      <3>3. Value(chosen, s) = Value(jt, s)
        <4> HIDE DEF chosen, any
        <4> QED BY <1>1, <2>1
      <3> QED BY <3>1, <3>2, <3>3
    <2> HIDE DEF chosen
    <2> QED BY <1>2, <2>1, RecursionUnique
  <1>8. SumFunctionOnSet(f, T) = chosen[T]
    BY DEF SumFunctionOnSet, FoldFunctionOnSet, MapThenFoldSet
  <1> HIDE DEF chosen
  <1> QED BY <1>4, <1>7, <1>8 DEF Sums

LEMMA SumStep ==
  ASSUME NEW S, IsFiniteSet(S), NEW f, Numbers(f, S)
  PROVE  /\ SumFunctionOnSet(f, S) \in Int
         /\ S = {} => SumFunctionOnSet(f, S) = 0
         /\ S # {} => \E x \in S : SumFunctionOnSet(f, S) = f[x] + SumFunctionOnSet(f, S \ {x})
  <1>1. PICK it : Sums(it, S, f, S)
    BY SumIsFold
  <1>2. SumFunctionOnSet(f, S) \in Int
    BY <1>1 DEF Sums
  <1>3. S = {} => SumFunctionOnSet(f, S) = 0
    BY <1>1 DEF Sums, IsFold
  <1>4. ASSUME S # {}
        PROVE  \E x \in S : SumFunctionOnSet(f, S) = f[x] + SumFunctionOnSet(f, S \ {x})
    <2> DEFINE x == AnyOf(S)[S]
               R == S \ {x}
    <2>1. \A s \in SUBSET S : s # {} => AnyOf(S)[s] \in s
      BY DEF AnyOf
    <2>2. x \in S
      BY <1>4, <2>1
    <2>3. PICK jt : Sums(jt, R, f, S)
      BY SumIsFold
    <2>4. it[R] = jt[R]
      <3>1. IsFiniteSet(R) /\ R \in SUBSET S
        BY FS_Subset
      <3> HIDE DEF R
      <3> QED BY <1>1, <2>1, <2>3, <3>1, FoldUnique DEF Sums
    <2>5. it[S] = Added(f, S)[x][it[R]]
      BY <1>1, <1>4 DEF Sums, IsFold
    <2>6. it[R] \in Int
      BY <1>1 DEF Sums
    <2>7. it[S] = f[x] + it[R]
      <3> HIDE DEF x, R
      <3> QED BY <2>2, <2>5, <2>6 DEF Added
    <2> QED BY <1>1, <2>2, <2>3, <2>4, <2>7 DEF Sums
  <1> QED BY <1>2, <1>3, <1>4

\* Whichever is taken last, the sum is the same.
LEMMA SumRemove ==
  ASSUME NEW S, IsFiniteSet(S), NEW f, Numbers(f, S), NEW y \in S
  PROVE  SumFunctionOnSet(f, S) = f[y] + SumFunctionOnSet(f, S \ {y})
  <1> DEFINE Sum(s) == SumFunctionOnSet(f, s)
             G == { s \in SUBSET S : \A x \in s : Sum(s) = f[x] + Sum(s \ {x}) }
  <1>1. ASSUME NEW s \in SUBSET S, \A x \in s : s \ {x} \in G
        PROVE  s \in G
    <2> SUFFICES ASSUME NEW x \in s PROVE Sum(s) = f[x] + Sum(s \ {x})
      OBVIOUS
    <2>1. \A t \in SUBSET S : IsFiniteSet(t) /\ Numbers(f, t) /\ Sum(t) \in Int
      BY FS_Subset, SumStep DEF Numbers
    <2>2. PICK z \in s : Sum(s) = f[z] + Sum(s \ {z})
      BY <2>1, SumStep
    <2>3. CASE z = x
      BY <2>2, <2>3
    <2>4. CASE z # x
      <3> HIDE DEF Sum
      <3> DEFINE r == (s \ {z}) \ {x}
      <3>1. r = (s \ {x}) \ {z} /\ r \in SUBSET S
        OBVIOUS
      <3>2. Sum(s \ {z}) = f[x] + Sum(r)
        BY <1>1, <2>4
      <3>3. Sum(s \ {x}) = f[z] + Sum(r)
        BY <1>1, <2>4, <3>1
      <3>4. Sum(r) \in Int /\ f[x] \in Int /\ f[z] \in Int
        BY <2>1, <3>1 DEF Numbers
      <3> HIDE DEF r
      <3> DEFINE n == Sum(r)
                 a == f[x]
                 b == f[z]
      <3>5. b + (a + n) = a + (b + n)
        BY <3>4
      <3> QED BY <2>2, <3>2, <3>3, <3>5
    <2> QED BY <2>3, <2>4
  <1>2. S \in G
    <2> HIDE DEF G
    <2> QED BY <1>1, SubsetInduction
  <1> QED BY <1>2

LEMMA SumOfOnes ==
  ASSUME NEW S, IsFiniteSet(S), NEW f, \A x \in S : f[x] = 1
  PROVE  SumFunctionOnSet(f, S) = Cardinality(S)
  <1> DEFINE G == { s \in SUBSET S : SumFunctionOnSet(f, s) = Cardinality(s) }
  <1>1. ASSUME NEW s \in SUBSET S, \A x \in s : s \ {x} \in G
        PROVE  s \in G
    <2>1. IsFiniteSet(s) /\ Numbers(f, s) /\ \A x \in s : f[x] = 1
      BY FS_Subset DEF Numbers
    <2>2. CASE s = {}
      BY <2>1, <2>2, SumStep, FS_EmptySet
    <2>3. CASE s # {}
      <3>1. PICK x \in s : SumFunctionOnSet(f, s) = f[x] + SumFunctionOnSet(f, s \ {x})
        BY <2>1, <2>3, SumStep
      <3>2. Cardinality(s \ {x}) = Cardinality(s) - 1 /\ Cardinality(s) \in Nat
        BY <2>1, FS_RemoveElement, FS_CardinalityType
      <3> QED BY <1>1, <2>1, <3>1, <3>2
    <2> QED BY <2>2, <2>3
  <1>2. S \in G
    <2> HIDE DEF G
    <2> QED BY <1>1, SubsetInduction
  <1> QED BY <1>2

LEMMA SumEqual ==
  ASSUME NEW S, IsFiniteSet(S), NEW f, Numbers(f, S), NEW g, \A x \in S : f[x] = g[x]
  PROVE  SumFunctionOnSet(f, S) = SumFunctionOnSet(g, S)
  <1> DEFINE G == { s \in SUBSET S : SumFunctionOnSet(f, s) = SumFunctionOnSet(g, s) }
  <1>1. ASSUME NEW s \in SUBSET S, \A x \in s : s \ {x} \in G
        PROVE  s \in G
    <2>1. IsFiniteSet(s) /\ Numbers(f, s) /\ Numbers(g, s) /\ \A x \in s : f[x] = g[x]
      BY FS_Subset DEF Numbers
    <2>2. CASE s = {}
      BY <2>1, <2>2, SumStep
    <2>3. CASE s # {}
      <3>1. PICK x \in s : SumFunctionOnSet(f, s) = f[x] + SumFunctionOnSet(f, s \ {x})
        BY <2>1, <2>3, SumStep
      <3>2. SumFunctionOnSet(g, s) = g[x] + SumFunctionOnSet(g, s \ {x})
        BY <2>1, SumRemove
      <3> QED BY <1>1, <2>1, <3>1, <3>2
    <2> QED BY <2>2, <2>3
  <1>2. S \in G
    <2> HIDE DEF G
    <2> QED BY <1>1, SubsetInduction
  <1> QED BY <1>2

\* What is zero outside T counts only there.
LEMMA SumWithin ==
  ASSUME NEW S, IsFiniteSet(S), NEW T \in SUBSET S, NEW f, Numbers(f, S),
         NEW g, \A x \in S : f[x] = IF x \in T THEN g[x] ELSE 0
  PROVE  SumFunctionOnSet(f, S) = SumFunctionOnSet(g, T)
  <1> DEFINE Sum(h, s) == SumFunctionOnSet(h, s)
             G == { s \in SUBSET S : Sum(f, s) = Sum(g, s \cap T) }
  <1>1. ASSUME NEW s \in SUBSET S, \A x \in s : s \ {x} \in G
        PROVE  s \in G
    <2>1. IsFiniteSet(s) /\ Numbers(f, s) /\ IsFiniteSet(s \cap T) /\ Numbers(g, s \cap T)
      BY FS_Subset DEF Numbers
    <2>2. CASE s = {}
      <3>1. s \cap T = {}
        BY <2>2
      <3> QED BY <2>1, <2>2, <3>1, SumStep
    <2>3. CASE s # {}
      <3>1. PICK x \in s : Sum(f, s) = f[x] + Sum(f, s \ {x})
        BY <2>1, <2>3, SumStep
      <3>2. Sum(f, s \ {x}) = Sum(g, (s \ {x}) \cap T)
        BY <1>1
      <3>3. CASE x \in T
        <4>1. Sum(g, s \cap T) = g[x] + Sum(g, (s \cap T) \ {x})
          BY <2>1, <3>3, SumRemove
        <4>2. (s \cap T) \ {x} = (s \ {x}) \cap T
          OBVIOUS
        <4> HIDE DEF Sum
        <4> QED BY <3>1, <3>2, <3>3, <4>1, <4>2
      <3>4. CASE x \notin T
        <4>1. s \cap T = (s \ {x}) \cap T /\ f[x] = 0
          BY <3>4
        <4>2. Sum(g, s \cap T) \in Int
          BY <2>1, SumStep
        <4> DEFINE n == Sum(g, s \cap T)
        <4>3. Sum(f, s) = 0 + n
          BY <3>1, <3>2, <4>1
        <4>4. 0 + n = n
          BY <4>2
        <4> QED BY <4>3, <4>4
      <3> QED BY <3>3, <3>4
    <2> QED BY <2>2, <2>3
  <1>2. S \in G
    <2> HIDE DEF G
    <2> QED BY <1>1, SubsetInduction
  <1>3. S \cap T = T
    OBVIOUS
  <1> QED BY <1>2, <1>3

LEMMA SumOfOne ==
  ASSUME NEW S, IsFiniteSet(S), NEW y \in S, NEW f, Numbers(f, S),
         \A x \in S \ {y} : f[x] = 0
  PROVE  SumFunctionOnSet(f, S) = f[y]
  <1>1. SumFunctionOnSet(f, S) = SumFunctionOnSet(f, {y})
    BY SumWithin
  <1>2. IsFiniteSet({y}) /\ Numbers(f, {y}) /\ {y} \ {y} = {} /\ f[y] \in Int
    BY FS_Singleton DEF Numbers
  <1>3. SumFunctionOnSet(f, {y}) = f[y] + SumFunctionOnSet(f, {y} \ {y})
    BY <1>2, SumRemove
  <1>4. SumFunctionOnSet(f, {}) = 0
    BY FS_EmptySet, SumStep DEF Numbers
  <1> QED BY <1>1, <1>2, <1>3, <1>4

LEMMA SumAdded ==
  ASSUME NEW S, IsFiniteSet(S), NEW f, Numbers(f, S), NEW g, Numbers(g, S),
         NEW h, \A x \in S : h[x] = f[x] + g[x]
  PROVE  SumFunctionOnSet(h, S) = SumFunctionOnSet(f, S) + SumFunctionOnSet(g, S)
  <1> DEFINE Sum(k, s) == SumFunctionOnSet(k, s)
             G == { s \in SUBSET S : Sum(h, s) = Sum(f, s) + Sum(g, s) }
  <1>1. ASSUME NEW s \in SUBSET S, \A x \in s : s \ {x} \in G
        PROVE  s \in G
    <2>1. IsFiniteSet(s) /\ Numbers(f, s) /\ Numbers(g, s) /\ Numbers(h, s)
      BY FS_Subset DEF Numbers
    <2>2. CASE s = {}
      BY <2>1, <2>2, SumStep
    <2>3. CASE s # {}
      <3>1. PICK x \in s : Sum(h, s) = h[x] + Sum(h, s \ {x})
        BY <2>1, <2>3, SumStep
      <3>2. Sum(f, s) = f[x] + Sum(f, s \ {x}) /\ Sum(g, s) = g[x] + Sum(g, s \ {x})
        BY <2>1, SumRemove
      <3>3. Sum(h, s \ {x}) = Sum(f, s \ {x}) + Sum(g, s \ {x}) /\ h[x] = f[x] + g[x]
        BY <1>1
      <3>4. f[x] \in Int /\ g[x] \in Int /\ Sum(f, s \ {x}) \in Int /\ Sum(g, s \ {x}) \in Int
        <4>1. IsFiniteSet(s \ {x}) /\ Numbers(f, s \ {x}) /\ Numbers(g, s \ {x})
          BY <2>1, FS_RemoveElement DEF Numbers
        <4> QED BY <2>1, <4>1, SumStep DEF Numbers
      <3> HIDE DEF Sum
      <3> DEFINE a == f[x]
                 b == g[x]
                 m == Sum(f, s \ {x})
                 n == Sum(g, s \ {x})
      <3>5. (a + b) + (m + n) = (a + m) + (b + n)
        BY <3>4
      <3> QED BY <3>1, <3>2, <3>3, <3>5
    <2> QED BY <2>2, <2>3
  <1>2. S \in G
    <2> HIDE DEF G
    <2> QED BY <1>1, SubsetInduction
  <1> QED BY <1>2

LEMMA SumOfSame ==
  ASSUME NEW S, IsFiniteSet(S), NEW n \in Int, NEW f, \A x \in S : f[x] = n
  PROVE  SumFunctionOnSet(f, S) = Cardinality(S) * n
  <1> DEFINE G == { s \in SUBSET S : SumFunctionOnSet(f, s) = Cardinality(s) * n }
  <1>1. ASSUME NEW s \in SUBSET S, \A x \in s : s \ {x} \in G
        PROVE  s \in G
    <2>1. IsFiniteSet(s) /\ Numbers(f, s)
      BY FS_Subset DEF Numbers
    <2>2. CASE s = {}
      BY <2>1, <2>2, SumStep, FS_EmptySet
    <2>3. CASE s # {}
      <3>1. PICK x \in s : SumFunctionOnSet(f, s) = f[x] + SumFunctionOnSet(f, s \ {x})
        BY <2>1, <2>3, SumStep
      <3>2. Cardinality(s \ {x}) = Cardinality(s) - 1 /\ Cardinality(s) \in Nat
        BY <2>1, FS_RemoveElement, FS_CardinalityType
      <3> DEFINE k == Cardinality(s)
      <3>3. n + (k - 1) * n = k * n
        BY <3>2
      <3> HIDE DEF k
      <3>4. Cardinality(s) = k /\ f[x] = n /\ SumFunctionOnSet(f, s \ {x}) = (k - 1) * n
        BY <1>1, <3>2 DEF k
      <3> QED BY <3>1, <3>3, <3>4
    <2> QED BY <2>2, <2>3
  <1>2. S \in G
    <2> HIDE DEF G
    <2> QED BY <1>1, SubsetInduction
  <1> QED BY <1>2

LEMMA SumGrows ==
  ASSUME NEW S, IsFiniteSet(S), NEW f, \A x \in S : f[x] \in Nat, NEW T \in SUBSET S
  PROVE  SumFunctionOnSet(f, T) \in Nat /\ SumFunctionOnSet(f, T) <= SumFunctionOnSet(f, S)
  <1> DEFINE Sum(s) == SumFunctionOnSet(f, s)
             G == { s \in SUBSET S : Sum(s \cap T) \in Nat /\ Sum(s \cap T) <= Sum(s) }
  <1>1. ASSUME NEW s \in SUBSET S, \A x \in s : s \ {x} \in G
        PROVE  s \in G
    <2>1. /\ IsFiniteSet(s) /\ Numbers(f, s) /\ IsFiniteSet(s \cap T) /\ Numbers(f, s \cap T)
      BY FS_Subset DEF Numbers
    <2>2. CASE s = {}
      <3>1. s \cap T = s
        BY <2>2
      <3>2. Sum(s) = 0
        BY <2>1, <2>2, SumStep
      <3> QED BY <3>1, <3>2
    <2>3. CASE s # {}
      <3>1. PICK x \in s : Sum(s) = f[x] + Sum(s \ {x})
        BY <2>1, <2>3, SumStep
      <3> DEFINE r == s \ {x}
      <3>2. Sum(r \cap T) \in Nat /\ Sum(r \cap T) <= Sum(r) /\ f[x] \in Nat /\ Sum(r) \in Int
        <4>1. IsFiniteSet(r) /\ Numbers(f, r)
          BY <2>1, FS_RemoveElement DEF Numbers
        <4> QED BY <1>1, <4>1, SumStep
      <3>3. CASE x \in T
        <4>1. Sum(s \cap T) = f[x] + Sum((s \cap T) \ {x})
          BY <2>1, <3>3, SumRemove
        <4>2. (s \cap T) \ {x} = r \cap T
          OBVIOUS
        <4>3. Sum(s \cap T) = f[x] + Sum(r \cap T)
          BY <4>1, <4>2
        <4> HIDE DEF Sum, r
        <4> QED BY <3>1, <3>2, <4>3 DEF r
      <3>4. CASE x \notin T
        <4>1. s \cap T = r \cap T
          BY <3>4
        <4>2. Sum(s \cap T) = Sum(r \cap T)
          BY <4>1
        <4> HIDE DEF Sum, r
        <4> QED BY <3>1, <3>2, <4>2 DEF r
      <3> QED BY <3>3, <3>4
    <2> QED BY <2>2, <2>3
  <1>2. S \in G
    <2> HIDE DEF G
    <2> QED BY <1>1, SubsetInduction
  <1>3. S \cap T = T
    OBVIOUS
  <1> QED BY <1>2, <1>3

LEMMA SumZero ==
  ASSUME NEW S, IsFiniteSet(S), NEW f, \A x \in S : f[x] \in Nat,
         SumFunctionOnSet(f, S) = 0, NEW x \in S
  PROVE  f[x] = 0
  <1>1. Numbers(f, S) /\ S \ {x} \in SUBSET S
    BY DEF Numbers
  <1>2. SumFunctionOnSet(f, S) = f[x] + SumFunctionOnSet(f, S \ {x})
    BY <1>1, SumRemove
  <1>3. SumFunctionOnSet(f, S \ {x}) \in Nat
    BY <1>1, SumGrows
  <1> QED BY <1>2, <1>3

LEMMA SumNegated ==
  ASSUME NEW S, IsFiniteSet(S), NEW f, Numbers(f, S), NEW g, \A x \in S : g[x] = -f[x]
  PROVE  SumFunctionOnSet(g, S) = -SumFunctionOnSet(f, S)
  <1> DEFINE zero == [x \in S |-> 0]
  <1>1. Numbers(g, S) /\ Numbers(zero, S)
    BY DEF Numbers
  <1>2. \A x \in S : zero[x] = f[x] + g[x]
    BY DEF Numbers
  <1>3. SumFunctionOnSet(zero, S) = SumFunctionOnSet(f, S) + SumFunctionOnSet(g, S)
    <2> HIDE DEF zero
    <2> QED BY <1>1, <1>2, SumAdded
  <1>4. SumFunctionOnSet(zero, S) = 0
    <2>1. \A x \in S : zero[x] = 0
      OBVIOUS
    <2> HIDE DEF zero
    <2>2. SumFunctionOnSet(zero, S) = Cardinality(S) * 0
      BY <2>1, SumOfSame
    <2> QED BY <2>2, FS_CardinalityType
  <1>5. SumFunctionOnSet(f, S) \in Int /\ SumFunctionOnSet(g, S) \in Int
    BY <1>1, SumStep
  <1> QED BY <1>3, <1>4, <1>5

Column(a, D, m) == [i \in D |-> a[i][m]]

\* Rows that cancel each make columns that cancel together.
LEMMA RowsCancel ==
  ASSUME NEW D, IsFiniteSet(D), NEW M, IsFiniteSet(M), NEW a, NEW total,
         \A i \in D : Numbers(a[i], M) /\ SumFunctionOnSet(a[i], M) = 0,
         \A m \in M : total[m] = SumFunctionOnSet(Column(a, D, m), D)
  PROVE  SumFunctionOnSet(total, M) = 0
  <1> DEFINE Total(s) == [m \in M |-> SumFunctionOnSet(Column(a, D, m), s)]
             G == { s \in SUBSET D : SumFunctionOnSet(Total(s), M) = 0 }
  <1>1. \A s \in SUBSET D : Numbers(Total(s), M)
    <2> SUFFICES ASSUME NEW s \in SUBSET D, NEW m \in M PROVE Total(s)[m] \in Int
      BY DEF Numbers
    <2>1. IsFiniteSet(s) /\ Numbers(Column(a, D, m), s)
      BY FS_Subset DEF Numbers, Column
    <2> QED BY <2>1, SumStep
  <1>2. ASSUME NEW s \in SUBSET D, \A i \in s : s \ {i} \in G
        PROVE  s \in G
    <2>1. CASE s = {}
      <3>1. \A m \in M : Total(s)[m] = 0
        <4> TAKE m \in M
        <4>1. IsFiniteSet(s) /\ Numbers(Column(a, D, m), s)
          BY <2>1, FS_EmptySet DEF Numbers
        <4> QED BY <2>1, <4>1, SumStep
      <3> HIDE DEF Total
      <3>2. SumFunctionOnSet(Total(s), M) = Cardinality(M) * 0
        BY <3>1, SumOfSame
      <3> QED BY <3>2, FS_CardinalityType
    <2>2. ASSUME NEW i \in s PROVE s \in G
      <3>1. \A m \in M : Total(s)[m] = a[i][m] + Total(s \ {i})[m]
        <4> TAKE m \in M
        <4>1. IsFiniteSet(s) /\ Numbers(Column(a, D, m), s)
          BY FS_Subset DEF Numbers, Column
        <4>2. Column(a, D, m)[i] = a[i][m]
          BY DEF Column
        <4> QED BY <4>1, <4>2, SumRemove
      <3>2. Numbers(a[i], M) /\ SumFunctionOnSet(a[i], M) = 0
        OBVIOUS
      <3>3. Numbers(Total(s \ {i}), M) /\ SumFunctionOnSet(Total(s \ {i}), M) = 0
        BY <1>1, <1>2
      <3> HIDE DEF Total
      <3>4. SumFunctionOnSet(Total(s), M) = 0 + 0
        BY <3>1, <3>2, <3>3, SumAdded
      <3> QED BY <3>4
    <2> QED BY <2>1, <2>2
  <1>3. D \in G
    <2> HIDE DEF G
    <2> QED BY <1>2, SubsetInduction
  <1>4. SumFunctionOnSet(Total(D), M) = SumFunctionOnSet(total, M)
    <2>1. \A m \in M : Total(D)[m] = total[m]
      OBVIOUS
    <2> HIDE DEF Total
    <2> QED BY <1>1, <2>1, SumEqual
  <1> QED BY <1>3, <1>4

-----------------------------------------------------------------------------
(* The expenses in effect.                                                 *)

\* Maps from some of K to P, and what getEffectiveExpenses has in hand when K
\* are the ids and P the expenses.
Maps(K, P)    == UNION { [D -> P] : D \in SUBSET K }
Effects(K, P) == [expenses : Maps(K, P), root : Maps(K, K)]

NoEffects == [expenses |-> <<>>, root |-> <<>>]

\* The entries name ids in K and expenses in P.
Said(S, K, P) ==
  \A e \in S :
    /\ e.id \in K
    /\ e.type = "ExpenseCreated" => e.payload \in P
    /\ e.type = "ExpenseCorrection" => e.payload.ref \in K /\ e.payload.corrected \in P
    /\ e.type = "ExpenseVoided" => e.payload.ref \in K

LEMMA PutTyped ==
  ASSUME NEW K, NEW P, NEW f \in Maps(K, P), NEW k \in K, NEW v \in P
  PROVE  /\ Put(f, k, v) \in Maps(K, P)
         /\ DOMAIN Put(f, k, v) = DOMAIN f \cup {k}
         /\ Put(f, k, v)[k] = v
         /\ \A x \in DOMAIN f \ {k} : Put(f, k, v)[x] = f[x]
  <1>1. PICK D \in SUBSET K : f \in [D -> P]
    BY DEF Maps
  <1>2. Put(f, k, v) \in [D \cup {k} -> P] /\ D \cup {k} \in SUBSET K
    BY <1>1 DEF Put
  <1>3. Put(f, k, v) \in Maps(K, P)
    BY <1>2 DEF Maps
  <1> QED BY <1>1, <1>3 DEF Put

LEMMA RestrictTyped ==
  ASSUME NEW K, NEW P, NEW f \in Maps(K, P), NEW T \in SUBSET (DOMAIN f)
  PROVE  Restrict(f, T) \in Maps(K, P)
  <1>1. PICK D \in SUBSET K : f \in [D -> P]
    BY DEF Maps
  <1>2. Restrict(f, T) \in [T -> P] /\ T \in SUBSET K
    BY <1>1 DEF Restrict
  <1> QED BY <1>2 DEF Maps

LEMMA NoEffectsTyped ==
  ASSUME NEW K, NEW P
  PROVE  NoEffects \in Effects(K, P)
  <1>1. \A V : <<>> \in [{} -> V]
    OBVIOUS
  <1>2. <<>> \in Maps(K, P) /\ <<>> \in Maps(K, K)
    BY <1>1 DEF Maps
  <1> QED BY <1>2 DEF Effects, NoEffects

\* The loop that looks for the original expense: at holds its values.
Onward(k, root) == IF k \in DOMAIN root THEN root[k] ELSE k

Follows(at, id, root, N) ==
  /\ N \in Nat /\ at[0] = id
  /\ \A n \in Nat : n + 1 <= N => at[n + 1] = Onward(at[n], root)

LEMMA OriginalLoop ==
  ASSUME NEW K, IsFiniteSet(K), NEW root \in Maps(K, K), NEW id \in K
  PROVE  \E at : /\ Follows(at, id, root, Cardinality(DOMAIN root))
                 /\ Original(id, root) = at[Cardinality(DOMAIN root)]
  <1> DEFINE N == Cardinality(DOMAIN root)
             next(k) == IF k \in DOMAIN root THEN root[k] ELSE k
             Value(g, i) == IF i = 0 THEN id ELSE next(g[i - 1])
             G == { n \in Nat : \E g \in [0 .. n -> K] : \A i \in 0 .. n : g[i] = Value(g, i) }
             at == CHOOSE g : g = [i \in 0 .. N |-> Value(g, i)]
  <1>1. DOMAIN root \subseteq K /\ \A k \in K : next(k) \in K
    BY DEF Maps
  <1>2. N \in Nat
    BY <1>1, FS_Subset, FS_CardinalityType
  <1> HIDE DEF next
  <1>3. 0 \in G
    <2> DEFINE g == [i \in 0 .. 0 |-> id]
    <2>1. g \in [0 .. 0 -> K] /\ \A i \in 0 .. 0 : g[i] = Value(g, i)
      OBVIOUS
    <2> QED BY <2>1
  <1>4. ASSUME NEW n \in Nat, n \in G PROVE n + 1 \in G
    <2>1. PICK g \in [0 .. n -> K] : \A i \in 0 .. n : g[i] = Value(g, i)
      BY <1>4
    <2> DEFINE f == [i \in 0 .. n + 1 |-> IF i = n + 1 THEN next(g[n]) ELSE g[i]]
    <2>2. f \in [0 .. n + 1 -> K]
      <3>1. \A i \in 0 .. n + 1 : i # n + 1 => i \in 0 .. n
        OBVIOUS
      <3>2. next(g[n]) \in K
        BY <1>1
      <3> QED BY <3>1, <3>2
    <2>3. \A i \in 0 .. n + 1 : f[i] = Value(f, i)
      <3> SUFFICES ASSUME NEW i \in 0 .. n + 1 PROVE f[i] = Value(f, i)
        OBVIOUS
      <3>1. CASE i = n + 1
        BY <3>1
      <3>2. CASE i = 0
        BY <2>1, <3>2
      <3>3. CASE i # 0 /\ i # n + 1
        <4>1. i \in 0 .. n /\ i - 1 \in 0 .. n /\ i - 1 # n + 1 /\ i - 1 \in 0 .. n + 1
          BY <3>3
        <4>2. f[i] = g[i] /\ f[i - 1] = g[i - 1]
          BY <3>3, <4>1
        <4> QED BY <2>1, <3>3, <4>1, <4>2
      <3> QED BY <3>1, <3>2, <3>3
    <2> HIDE DEF f, Value
    <2> QED BY <2>2, <2>3
  <1>5. N \in G
    <2> HIDE DEF G, N
    <2> QED BY <1>2, <1>3, <1>4, NumberInduction
  <1>6. PICK g \in [0 .. N -> K] : \A i \in 0 .. N : g[i] = Value(g, i)
    BY <1>5
  <1>7. at = [i \in 0 .. N |-> Value(at, i)]
    <2>1. g = [i \in 0 .. N |-> Value(g, i)]
      <3> HIDE DEF Value
      <3> QED BY <1>6
    <2> HIDE DEF Value, N
    <2> QED BY <2>1
  <1>8. at[0] = id
    <2> HIDE DEF at
    <2> QED BY <1>2, <1>7
  <1>9. ASSUME NEW n \in Nat, n + 1 <= N PROVE at[n + 1] = Onward(at[n], root)
    <2>1. n + 1 \in 0 .. N /\ n + 1 # 0 /\ (n + 1) - 1 = n
      BY <1>2, <1>9
    <2>2. at[n + 1] = Value(at, n + 1)
      <3> HIDE DEF at, Value
      <3> QED BY <1>7, <2>1
    <2>3. at[n + 1] = next(at[n])
      <3> HIDE DEF at
      <3> QED BY <2>1, <2>2
    <2> HIDE DEF at
    <2> QED BY <2>3 DEF Onward, next
  <1>10. Original(id, root) = at[N]
    BY DEF Original, next
  <1> HIDE DEF at
  <1> QED BY <1>2, <1>8, <1>9, <1>10 DEF Follows

\* It stays among the ids.
LEMMA OriginalTyped ==
  ASSUME NEW K, IsFiniteSet(K), NEW root \in Maps(K, K), NEW id \in K
  PROVE  Original(id, root) \in K
  <1> DEFINE N == Cardinality(DOMAIN root)
  <1>1. PICK at : Follows(at, id, root, N) /\ Original(id, root) = at[N]
    BY OriginalLoop
  <1> DEFINE A == { n \in Nat : n <= N => at[n] \in K }
  <1> HIDE DEF N
  <1>2. 0 \in A
    BY <1>1 DEF Follows
  <1>3. ASSUME NEW n \in Nat, n \in A PROVE n + 1 \in A
    <2>1. n + 1 <= N => n <= N
      BY <1>1 DEF Follows
    <2>2. \A k \in K : Onward(k, root) \in K
      BY DEF Maps, Onward
    <2> QED BY <1>1, <1>3, <2>1, <2>2 DEF Follows
  <1>4. N \in A
    <2> HIDE DEF A
    <2> QED BY <1>1, <1>2, <1>3, NumberInduction DEF Follows
  <1> QED BY <1>1, <1>4 DEF Follows

\* Where root leads from corrections to expenses in one step, it ends there.
LEMMA OriginalIs ==
  ASSUME NEW K, IsFiniteSet(K), NEW root \in Maps(K, K), NEW id \in K
  PROVE  /\ id \notin DOMAIN root => Original(id, root) = id
         /\ id \in DOMAIN root /\ root[id] \notin DOMAIN root => Original(id, root) = root[id]
  <1> DEFINE N == Cardinality(DOMAIN root)
  <1>1. PICK at : Follows(at, id, root, N) /\ Original(id, root) = at[N]
    BY OriginalLoop
  <1>2. id \in DOMAIN root => N # 0
    <2>1. IsFiniteSet(DOMAIN root)
      BY FS_Subset DEF Maps
    <2> QED BY <2>1, FS_EmptySet
  <1> HIDE DEF N
  <1>3. CASE id \notin DOMAIN root
    <2> DEFINE A == { n \in Nat : n <= N => at[n] = id }
    <2>1. 0 \in A
      BY <1>1 DEF Follows
    <2>2. ASSUME NEW n \in Nat, n \in A PROVE n + 1 \in A
      <3>1. n + 1 <= N => n <= N
        BY <1>1 DEF Follows
      <3> QED BY <1>1, <1>3, <2>2, <3>1 DEF Follows, Onward
    <2>3. N \in A
      <3> HIDE DEF A
      <3> QED BY <1>1, <2>1, <2>2, NumberInduction DEF Follows
    <2> QED BY <1>1, <1>3, <2>3 DEF Follows
  <1>4. CASE id \in DOMAIN root /\ root[id] \notin DOMAIN root
    <2> DEFINE A == { n \in Nat : n + 1 <= N => at[n + 1] = root[id] }
    <2>1. 0 \in A
      BY <1>1, <1>4 DEF Follows, Onward
    <2>2. ASSUME NEW n \in Nat, n \in A PROVE n + 1 \in A
      <3>1. n + 1 \in Nat /\ ((n + 1) + 1 <= N => n + 1 <= N)
        BY <1>1 DEF Follows
      <3> QED BY <1>1, <1>4, <2>2, <3>1 DEF Follows, Onward
    <2>3. N - 1 \in Nat /\ (N - 1) + 1 = N
      BY <1>1, <1>2, <1>4 DEF Follows
    <2>4. N - 1 \in A
      <3> HIDE DEF A
      <3> QED BY <2>1, <2>2, <2>3, NumberInduction
    <2> QED BY <1>1, <1>4, <2>3, <2>4
  <1> QED BY <1>3, <1>4

LEMMA TakeEffectTyped ==
  ASSUME NEW K, IsFiniteSet(K), NEW P, NEW S, Said(S, K, P), NEW e \in S,
         NEW eff \in Effects(K, P)
  PROVE  TakeEffect(e, eff) \in Effects(K, P)
  <1> DEFINE x == eff.expenses
             r == eff.root
             original == Original(e.payload.ref, r)
  <1>1. /\ x \in Maps(K, P) /\ r \in Maps(K, K)
        /\ eff = [expenses |-> x, root |-> r]
    BY DEF Effects
  <1>2. ASSUME NEW y \in Maps(K, P), NEW s \in Maps(K, K)
        PROVE  [expenses |-> y, root |-> s] \in Effects(K, P)
    BY <1>2 DEF Effects
  <1>3. CASE e.type = "ExpenseCreated"
    <2>1. TakeEffect(e, eff) = [eff EXCEPT !.expenses = Put(x, e.id, e.payload)]
      BY <1>3 DEF TakeEffect
    <2>2. Put(x, e.id, e.payload) \in Maps(K, P)
      BY <1>1, <1>3, PutTyped DEF Said
    <2> QED BY <1>1, <1>2, <2>1, <2>2
  <1>4. CASE e.type = "ExpenseCorrection"
    <2>1. original \in K
      BY <1>1, <1>4, OriginalTyped DEF Said
    <2> HIDE DEF original
    <2>2. /\ Put(x, original, e.payload.corrected) \in Maps(K, P)
          /\ Put(r, e.id, original) \in Maps(K, K)
      BY <1>1, <1>4, <2>1, PutTyped DEF Said
    <2>3. TakeEffect(e, eff) = [expenses |-> Put(x, original, e.payload.corrected),
                                root |-> Put(r, e.id, original)]
      BY <1>4 DEF TakeEffect, original
    <2> QED BY <1>2, <2>2, <2>3
  <1>5. CASE e.type = "ExpenseVoided"
    <2>1. original \in K
      BY <1>1, <1>5, OriginalTyped DEF Said
    <2> HIDE DEF original
    <2>2. /\ Restrict(x, DOMAIN x \ {original}) \in Maps(K, P)
          /\ Put(r, e.id, original) \in Maps(K, K)
      BY <1>1, <1>5, <2>1, PutTyped, RestrictTyped DEF Said
    <2>3. TakeEffect(e, eff) = [expenses |-> Restrict(x, DOMAIN x \ {original}),
                                root |-> Put(r, e.id, original)]
      BY <1>5 DEF TakeEffect, original
    <2> QED BY <1>2, <2>2, <2>3
  <1>6. CASE e.type \notin {"ExpenseCreated", "ExpenseCorrection", "ExpenseVoided"}
    BY <1>6 DEF TakeEffect
  <1> QED BY <1>3, <1>4, <1>5, <1>6

\* The fold of getEffectiveExpenses.
EffectOf(S) ==
  MapThenFoldSet(TakeEffect, NoEffects, LAMBDA e : e,
                 LAMBDA T : CHOOSE e \in T : IsLatest(e, T), S)

Taken(S, K, P) == [e \in S |-> [eff \in Effects(K, P) |-> TakeEffect(e, eff)]]

LEMMA LatestOfChosen ==
  ASSUME NEW S, Sortable(S), NEW T \in SUBSET S, T # {}
  PROVE  LatestOf(S)[T] \in T /\ IsLatest(LatestOf(S)[T], T)
  <1>1. \E e \in T : IsLatest(e, T)
    BY SubsetSortable, LatestExists
  <1> QED BY <1>1 DEF LatestOf

EffectFold(it, T, S, K, P) ==
  /\ it \in [SUBSET T -> Effects(K, P)]
  /\ IsFold(it, T, LatestOf(S), NoEffects, Taken(S, K, P))
  /\ EffectOf(T) = it[T]

LEMMA EffectOfIsFold ==
  ASSUME NEW S, Sortable(S), NEW K, IsFiniteSet(K), NEW P, Said(S, K, P), NEW T \in SUBSET S
  PROVE  \E it : EffectFold(it, T, S, K, P)
  <1> DEFINE V == Effects(K, P)
             c == LatestOf(S)
             last(s) == CHOOSE e \in s : IsLatest(e, s)
             Value(it, s) == IF s = {} THEN NoEffects
                             ELSE TakeEffect(last(s), it[s \ {last(s)}])
             chosen == CHOOSE it : it = [s \in SUBSET T |-> Value(it, s)]
  <1>1. \A s \in SUBSET T : s # {} => c[s] \in s /\ c[s] = last(s)
    BY LatestOfChosen DEF LatestOf
  <1>2. IsFiniteSet(T)
    BY FS_Subset DEF Sortable
  <1>3. \A e \in T, eff \in V : Taken(S, K, P)[e][eff] \in V
    BY TakeEffectTyped DEF Taken
  <1>4. PICK jt \in [SUBSET T -> V] :
          IsFold(jt, T, c, NoEffects, Taken(S, K, P))
    <2>1. \A s \in SUBSET T : s # {} => c[s] \in s
      BY <1>1
    <2>2. NoEffects \in V
      BY NoEffectsTyped
    <2> HIDE DEF c, V
    <2> QED BY <2>1, <2>2, <1>2, <1>3, FoldExists
  <1>5. \A s \in SUBSET T : jt[s] = Value(jt, s)
    <2> SUFFICES ASSUME NEW s \in SUBSET T PROVE jt[s] = Value(jt, s)
      OBVIOUS
    <2>1. CASE s = {}
      BY <1>4, <2>1 DEF IsFold
    <2>2. CASE s # {}
      <3>1. jt[s] = Taken(S, K, P)[c[s]][jt[s \ {c[s]}]]
        BY <1>4, <2>2 DEF IsFold
      <3>2. c[s] \in S /\ jt[s \ {c[s]}] \in V /\ c[s] = last(s)
        BY <1>1, <2>2
      <3> HIDE DEF c, last
      <3> QED BY <2>2, <3>1, <3>2 DEF Taken
    <2> QED BY <2>1, <2>2
  <1>6. chosen = [s \in SUBSET T |-> Value(chosen, s)]
    <2>1. jt = [s \in SUBSET T |-> Value(jt, s)]
      <3> HIDE DEF Value
      <3> QED BY <1>5
    <2> HIDE DEF Value
    <2> QED BY <2>1
  <1>7. chosen[T] = jt[T]
    <2>1. ASSUME NEW s \in SUBSET T, \A x \in s : chosen[s \ {x}] = jt[s \ {x}]
          PROVE  chosen[s] = jt[s]
      <3>1. chosen[s] = Value(chosen, s)
        <4> HIDE DEF chosen, Value
        <4> QED BY <1>6
      <3>2. jt[s] = Value(jt, s)
        BY <1>5
      <3>3. Value(chosen, s) = Value(jt, s)
        <4> HIDE DEF chosen, last
        <4> QED BY <1>1, <2>1
      <3> QED BY <3>1, <3>2, <3>3
    <2> HIDE DEF chosen
    <2> QED BY <1>2, <2>1, RecursionUnique
  <1>8. EffectOf(T) = chosen[T]
    BY DEF EffectOf, MapThenFoldSet
  <1> HIDE DEF chosen
  <1> QED BY <1>4, <1>7, <1>8 DEF EffectFold

LEMMA EffectOfStep ==
  ASSUME NEW S, Sortable(S), NEW K, IsFiniteSet(K), NEW P, Said(S, K, P)
  PROVE  /\ EffectOf(S) \in Effects(K, P)
         /\ S = {} => EffectOf(S) = NoEffects
         /\ \A last \in S : IsLatest(last, S) =>
              EffectOf(S) = TakeEffect(last, EffectOf(S \ {last}))
  <1>1. PICK it : EffectFold(it, S, S, K, P)
    BY EffectOfIsFold
  <1>2. EffectOf(S) \in Effects(K, P)
    BY <1>1 DEF EffectFold
  <1>3. S = {} => EffectOf(S) = NoEffects
    BY <1>1 DEF EffectFold, IsFold
  <1>4. ASSUME NEW last \in S, IsLatest(last, S)
        PROVE  EffectOf(S) = TakeEffect(last, EffectOf(S \ {last}))
    <2> DEFINE R == S \ {last}
    <2>1. LatestOf(S)[S] = last
      <3>1. LatestOf(S)[S] \in S /\ IsLatest(LatestOf(S)[S], S)
        BY LatestOfChosen
      <3> DEFINE z == LatestOf(S)[S]
      <3> HIDE DEF z
      <3>2. z # last => Before(z, last) /\ Before(last, z)
        BY <1>4, <3>1 DEF IsLatest, z
      <3>3. z = last
        BY <3>1, <3>2, BeforeOrders DEF z
      <3> QED BY <3>3 DEF z
    <2>2. PICK jt : EffectFold(jt, R, S, K, P)
      BY EffectOfIsFold
    <2>3. it[R] = jt[R]
      <3>1. IsFiniteSet(R) /\ R \in SUBSET S
        BY FS_Subset DEF Sortable
      <3>2. \A s \in SUBSET S : s # {} => LatestOf(S)[s] \in s
        BY LatestOfChosen
      <3> HIDE DEF R
      <3> QED BY <1>1, <2>2, <3>1, <3>2, FoldUnique DEF EffectFold
    <2>4. it[S] = Taken(S, K, P)[last][it[R]]
      BY <1>1, <2>1 DEF EffectFold, IsFold
    <2>5. it[R] \in Effects(K, P)
      BY <1>1 DEF EffectFold
    <2>6. it[S] = TakeEffect(last, it[R])
      <3> HIDE DEF R
      <3> QED BY <2>4, <2>5 DEF Taken
    <2> QED BY <1>1, <2>2, <2>3, <2>6 DEF EffectFold
  <1> QED BY <1>2, <1>3, <1>4

LEMMA EffectiveTyped ==
  ASSUME NEW S, Sortable(S), NEW K, IsFiniteSet(K), NEW P, Said(S, K, P)
  PROVE  /\ getEffectiveExpenses(S) = EffectOf(S).expenses
         /\ getEffectiveExpenses(S) \in Maps(K, P)
  <1>1. getEffectiveExpenses(S) = EffectOf(S).expenses
    BY DEF getEffectiveExpenses, EffectOf, NoEffects
  <1> QED BY <1>1, EffectOfStep DEF Effects

\* What counts of an expense.  Of the entries S, rho tells which expense each goes
\* back to; what it refers to comes before it.
Stating == {"ExpenseCreated", "ExpenseCorrection"}

Tracks(S, rho) ==
  \A e \in S :
    IF e.type = "ExpenseCreated" THEN rho[e.id] = e.id
    ELSE /\ e.type \in {"ExpenseCorrection", "ExpenseVoided"}
         /\ \E f \in S : /\ f.id = e.payload.ref /\ f.type \in Stating
                         /\ Before(f, e) /\ rho[f.id] = rho[e.id]
         /\ \E f \in S : f.id = rho[e.id] /\ f.type = "ExpenseCreated"

\* What comes first of S; the last of T about its expense, and what it states.
ComesFirst(T, S) == \A e \in T, f \in S : Before(f, e) => f \in T

LastSaid(T, rho, w) ==
  w \in T /\ \A e \in T : rho[e.id] = rho[w.id] /\ e # w => Before(e, w)

Stated(w) == IF w.type = "ExpenseCreated" THEN w.payload ELSE w.payload.corrected

RootOf(eff, T, rho) ==
  /\ DOMAIN eff.root = { e.id : e \in { f \in T : f.type # "ExpenseCreated" } }
  /\ \A e \in T : e.type # "ExpenseCreated" => eff.root[e.id] = rho[e.id]

InEffect(x, T, rho) ==
  /\ \A id \in DOMAIN x : \E w \in T : LastSaid(T, rho, w) /\ rho[w.id] = id
                                      /\ w.type # "ExpenseVoided"
  /\ \A w \in T : LastSaid(T, rho, w) =>
       IF w.type = "ExpenseVoided" THEN rho[w.id] \notin DOMAIN x
       ELSE rho[w.id] \in DOMAIN x /\ x[rho[w.id]] = Stated(w)

\* The last entry is the last word on its expense and on no other.
LEMMA LastAfter ==
  ASSUME NEW T, Sortable(T), NEW last \in T, IsLatest(last, T), NEW rho, NEW w
  PROVE  LastSaid(T, rho, w) <=>
           w = last \/ (LastSaid(T \ {last}, rho, w) /\ rho[w.id] # rho[last.id])
  <1>1. \A e \in T : e # last => Before(e, last) /\ ~Before(last, e)
    BY BeforeOrders DEF IsLatest
  <1>2. LastSaid(T, rho, last)
    BY <1>1 DEF LastSaid
  <1> QED BY <1>1, <1>2 DEF LastSaid

\* Taking the last entry.
LEMMA WordTaken ==
  ASSUME NEW T, Sortable(T), NEW K, IsFiniteSet(K), NEW P, Said(T, K, P), NEW rho,
         NEW last \in T, IsLatest(last, T), NEW eff \in Effects(K, P),
         RootOf(eff, T \ {last}, rho), InEffect(eff.expenses, T \ {last}, rho),
         NEW new, new = TakeEffect(last, eff),
         NEW o, o = rho[last.id], last.type # "ExpenseCreated" => Original(last.payload.ref, eff.root) = o,
         last.type = "ExpenseCreated" => o = last.id,
         last.type \in Stating \cup {"ExpenseVoided"}
  PROVE  RootOf(new, T, rho) /\ InEffect(new.expenses, T, rho)
  <1> DEFINE R == T \ {last}
             x == eff.expenses
             r == eff.root
             y == new.expenses
             s == new.root
  <1>1. eff = [expenses |-> x, root |-> r]
    BY DEF Effects
  <1>2. \A e \in R : e.id # last.id
    BY DEF Sortable
  <1>3. /\ last.type = "ExpenseCreated" => s = r
        /\ last.type # "ExpenseCreated" => s = Put(r, last.id, o)
    BY <1>1 DEF TakeEffect, Stating
  <1>4. RootOf(new, T, rho)
    <2>1. CASE last.type = "ExpenseCreated"
      BY <1>3, <2>1 DEF RootOf
    <2>2. CASE last.type # "ExpenseCreated"
      <3>1. /\ DOMAIN s = DOMAIN r \cup {last.id} /\ s[last.id] = o
            /\ \A k \in DOMAIN r : k # last.id => s[k] = r[k]
        BY <1>3, <2>2 DEF Put
      <3>2. \A e \in T : e = last \/ e \in R
        OBVIOUS
      <3>3. DOMAIN s = { e.id : e \in { f \in T : f.type # "ExpenseCreated" } }
        BY <2>2, <3>1, <3>2 DEF RootOf
      <3>4. ASSUME NEW e \in R, e.type # "ExpenseCreated" PROVE s[e.id] = rho[e.id]
        <4>1. e.id \in DOMAIN r /\ r[e.id] = rho[e.id]
          BY <3>4 DEF RootOf
        <4> QED BY <1>2, <3>1, <4>1
      <3> QED BY <3>1, <3>2, <3>3, <3>4 DEF RootOf
    <2> QED BY <2>1, <2>2
  <1>5. /\ last.type = "ExpenseVoided" =>
             DOMAIN y = DOMAIN x \ {o} /\ \A k \in DOMAIN y : y[k] = x[k]
        /\ last.type # "ExpenseVoided" =>
             /\ DOMAIN y = DOMAIN x \cup {o} /\ y[o] = Stated(last)
             /\ \A k \in DOMAIN x : k # o => y[k] = x[k]
    <2>1. CASE last.type = "ExpenseVoided"
      <3>1. y = Restrict(x, DOMAIN x \ {o})
        BY <2>1 DEF TakeEffect
      <3> QED BY <2>1, <3>1 DEF Restrict
    <2>2. CASE last.type # "ExpenseVoided"
      <3>1. y = Put(x, o, Stated(last))
        BY <1>1, <2>2 DEF TakeEffect, Stating, Stated
      <3> QED BY <2>2, <3>1 DEF Put
    <2> QED BY <2>1, <2>2
  <1>6. \A w : LastSaid(T, rho, w) <=> w = last \/ (LastSaid(R, rho, w) /\ rho[w.id] # o)
    BY LastAfter
  <1> HIDE DEF R, x, r, y, s
  <1>7. InEffect(x, R, rho)
    BY DEF x, R
  <1>8. R \subseteq T
    BY DEF R
  <1>9. ASSUME NEW id \in DOMAIN y
        PROVE  \E w \in T : LastSaid(T, rho, w) /\ rho[w.id] = id /\ w.type # "ExpenseVoided"
    <2>1. CASE id = o
      BY <1>5, <1>6, <1>9, <2>1
    <2>2. CASE id # o
      <3>1. id \in DOMAIN x
        BY <1>5, <1>9, <2>2
      <3>2. PICK w \in R : LastSaid(R, rho, w) /\ rho[w.id] = id /\ w.type # "ExpenseVoided"
        BY <1>7, <3>1 DEF InEffect
      <3> QED BY <1>6, <1>8, <2>2, <3>2
    <2> QED BY <2>1, <2>2
  <1>10. ASSUME NEW w \in T, LastSaid(T, rho, w)
         PROVE  IF w.type = "ExpenseVoided" THEN rho[w.id] \notin DOMAIN y
                ELSE rho[w.id] \in DOMAIN y /\ y[rho[w.id]] = Stated(w)
    <2>1. CASE w = last
      BY <1>5, <2>1
    <2>2. CASE w # last
      <3>1. LastSaid(R, rho, w) /\ rho[w.id] # o /\ w \in R
        BY <1>6, <1>10, <2>2 DEF LastSaid
      <3>2. IF w.type = "ExpenseVoided" THEN rho[w.id] \notin DOMAIN x
            ELSE rho[w.id] \in DOMAIN x /\ x[rho[w.id]] = Stated(w)
        BY <1>7, <3>1 DEF InEffect
      <3> QED BY <1>5, <3>1, <3>2
    <2> QED BY <2>1, <2>2
  <1>11. InEffect(y, T, rho)
    BY <1>9, <1>10 DEF InEffect
  <1> QED BY <1>4, <1>11 DEF y

\* getEffectiveExpenses keeps the last word on every expense.
LEMMA LastWordKept ==
  ASSUME NEW S, Sortable(S), NEW K, IsFiniteSet(K), NEW P, Said(S, K, P),
         NEW rho, Tracks(S, rho)
  PROVE  InEffect(getEffectiveExpenses(S), S, rho)
  <1> DEFINE Right(T) == RootOf(EffectOf(T), T, rho) /\ InEffect(EffectOf(T).expenses, T, rho)
             G == { T \in SUBSET S : ComesFirst(T, S) => Right(T) }
  <1>1. \A T \in SUBSET S : Sortable(T) /\ Said(T, K, P)
    BY SubsetSortable DEF Said
  <1>2. ASSUME NEW T \in SUBSET S, \A e \in T : T \ {e} \in G, ComesFirst(T, S)
        PROVE  Right(T)
    <2>1. CASE T = {}
      <3>1. EffectOf(T) = NoEffects
        BY <1>1, <2>1, EffectOfStep
      <3>2. DOMAIN EffectOf(T).root = {} /\ DOMAIN EffectOf(T).expenses = {}
        BY <3>1 DEF NoEffects
      <3> QED BY <2>1, <3>2 DEF RootOf, InEffect
    <2>2. CASE T # {}
      <3>1. PICK last \in T : IsLatest(last, T)
        BY <1>1, <2>2, LatestExists
      <3> DEFINE R == T \ {last}
                 eff == EffectOf(R)
                 o == rho[last.id]
      <3>2. ComesFirst(R, S)
        <4>1. ASSUME NEW e \in R, NEW f \in S, Before(f, e) PROVE f \in R
          <5>1. f \in T
            BY <1>2, <4>1 DEF ComesFirst
          <5>2. Before(e, last)
            BY <3>1 DEF IsLatest
          <5>3. ~Before(last, e)
            BY <1>1, <5>2, BeforeOrders
          <5> QED BY <4>1, <5>1, <5>3
        <4> HIDE DEF R
        <4> QED BY <4>1 DEF ComesFirst
      <3>3. Right(R)
        BY <1>2, <3>2
      <3>4. eff \in Effects(K, P) /\ EffectOf(T) = TakeEffect(last, eff)
        BY <1>1, <3>1, EffectOfStep
      <3>5. last.type = "ExpenseCreated" => o = last.id
        BY DEF Tracks
      <3>6. last.type \in Stating \cup {"ExpenseVoided"}
        BY DEF Tracks, Stating
      <3>7. ASSUME last.type # "ExpenseCreated" PROVE Original(last.payload.ref, eff.root) = o
        <4> DEFINE root == eff.root
        <4>1. PICK f \in S : /\ f.id = last.payload.ref /\ f.type \in Stating
                             /\ Before(f, last) /\ rho[f.id] = o
          BY <3>7 DEF Tracks
        <4>2. f \in R
          <5>1. f \in T
            BY <1>2, <4>1 DEF ComesFirst
          <5>2. f # last
            BY <4>1, BeforeOrders
          <5> QED BY <5>1, <5>2
        <4>3. f.id \in K /\ root \in Maps(K, K)
          BY <3>4 DEF Said, Effects
        <4>4. RootOf(eff, R, rho)
          BY <3>3
        <4> HIDE DEF eff, R
        <4>5. R \subseteq S
          BY DEF R
        <4>6. \A e \in R : e.type = "ExpenseCreated" => e.id \notin DOMAIN root
          BY <4>4, <4>5 DEF RootOf, Sortable
        <4>7. CASE f.type = "ExpenseCreated"
          <5>1. f.id \notin DOMAIN root /\ rho[f.id] = f.id
            BY <4>2, <4>6, <4>7 DEF Tracks
          <5> HIDE DEF root
          <5> QED BY <4>1, <4>3, <5>1, OriginalIs DEF root
        <4>8. CASE f.type # "ExpenseCreated"
          <5>1. f.id \in DOMAIN root /\ root[f.id] = o
            BY <4>1, <4>2, <4>4, <4>8 DEF RootOf
          <5>2. PICK g \in S : g.id = o /\ g.type = "ExpenseCreated"
            BY <4>1, <4>8 DEF Tracks
          <5>3. o \notin DOMAIN root
            BY <4>4, <4>5, <5>2 DEF RootOf, Sortable
          <5> HIDE DEF root, o
          <5> QED BY <4>1, <4>3, <5>1, <5>3, OriginalIs DEF root
        <4> QED BY <4>7, <4>8
      <3> HIDE DEF o
      <3>8. o = rho[last.id]
        BY DEF o
      <3>9. RootOf(eff, T \ {last}, rho) /\ InEffect(eff.expenses, T \ {last}, rho)
        BY <3>3
      <3> HIDE DEF eff, R
      <3> QED BY <1>1, <3>1, <3>4, <3>5, <3>6, <3>7, <3>8, <3>9, WordTaken
    <2> QED BY <2>1, <2>2
  <1>3. S \in G
    <2>1. \A T \in SUBSET S : (\A e \in T : T \ {e} \in G) => T \in G
      BY <1>2
    <2> HIDE DEF G
    <2> QED BY <2>1, SubsetInduction DEF Sortable
  <1>4. ComesFirst(S, S)
    BY DEF ComesFirst
  <1> QED BY <1>3, <1>4, EffectiveTyped

-----------------------------------------------------------------------------
(* Balances.                                                               *)

\* Expenses whose shares make up the amount.
BalancedExpense ==
  { x \in [amount : Int, payer : Member, splits : UNION { [M -> Int] : M \in SUBSET Member }] :
      SumFunction(x.splits) = x.amount }

LEMMA BalancedFields ==
  ASSUME NEW x \in BalancedExpense
  PROVE  /\ x.amount \in Int /\ x.payer \in Member
         /\ DOMAIN x.splits \subseteq Member
         /\ \A m \in DOMAIN x.splits : x.splits[m] \in Int
         /\ SumFunctionOnSet(x.splits, DOMAIN x.splits) = x.amount
  <1>1. PICK M \in SUBSET Member : x.splits \in [M -> Int]
    BY DEF BalancedExpense
  <1> QED BY <1>1 DEF BalancedExpense, SumFunction

Credits(x) == [m \in Member |-> Credit(x, m)]

\* What an expense gives and takes cancels.
LEMMA CreditsCancel ==
  ASSUME NEW x \in BalancedExpense
  PROVE  Numbers(Credits(x), Member) /\ SumFunctionOnSet(Credits(x), Member) = 0
  <1> DEFINE paid  == [m \in Member |-> IF m = x.payer THEN x.amount ELSE 0]
             share == [m \in Member |-> IF m \in DOMAIN x.splits THEN x.splits[m] ELSE 0]
  <1>1. IsFiniteSet(Member)
    BY LedgerAssumption
  <1>2. Numbers(paid, Member) /\ Numbers(share, Member)
    BY BalancedFields DEF Numbers
  <1>3. \A m \in Member : Credits(x)[m] = paid[m] - share[m]
    BY DEF Credits, Credit
  <1>4. Numbers(Credits(x), Member)
    BY <1>2, <1>3 DEF Numbers
  <1>5. \A m \in Member : paid[m] = Credits(x)[m] + share[m]
    BY <1>2, <1>3 DEF Numbers
  <1>6. SumFunctionOnSet(paid, Member) = x.amount
    <2>1. x.payer \in Member /\ \A m \in Member \ {x.payer} : paid[m] = 0
      BY BalancedFields
    <2>2. paid[x.payer] = x.amount
      BY <2>1
    <2> HIDE DEF paid
    <2> QED BY <1>1, <1>2, <2>1, <2>2, SumOfOne
  <1>7. SumFunctionOnSet(share, Member) = x.amount
    <2>1. DOMAIN x.splits \in SUBSET Member
      BY BalancedFields
    <2>2. SumFunctionOnSet(share, Member) = SumFunctionOnSet(x.splits, DOMAIN x.splits)
      BY <1>1, <1>2, <2>1, SumWithin
    <2> QED BY <2>2, BalancedFields
  <1>8. SumFunctionOnSet(paid, Member)
          = SumFunctionOnSet(Credits(x), Member) + SumFunctionOnSet(share, Member)
    <2> HIDE DEF paid, share
    <2> QED BY <1>1, <1>2, <1>4, <1>5, SumAdded
  <1>9. SumFunctionOnSet(Credits(x), Member) \in Int /\ x.amount \in Int
    BY <1>1, <1>4, SumStep, BalancedFields
  <1> QED BY <1>4, <1>6, <1>7, <1>8, <1>9

\* Entries whose expenses are balanced, with ids in K.
Accounted(S, K) == Sortable(S) /\ IsFiniteSet(K) /\ Said(S, K, BalancedExpense)

LEMMA EffectiveBalanced ==
  ASSUME NEW S, NEW K, Accounted(S, K)
  PROVE  LET X == getEffectiveExpenses(S)
         IN  /\ DOMAIN X \subseteq K /\ IsFiniteSet(DOMAIN X)
             /\ \A i \in DOMAIN X : X[i] \in BalancedExpense
  <1> DEFINE X == getEffectiveExpenses(S)
  <1>1. X \in Maps(K, BalancedExpense)
    BY EffectiveTyped DEF Accounted
  <1> HIDE DEF X
  <1>2. PICK D \in SUBSET K : X \in [D -> BalancedExpense]
    BY <1>1 DEF Maps
  <1>3. DOMAIN X \subseteq K /\ \A i \in DOMAIN X : X[i] \in BalancedExpense
    BY <1>2
  <1>4. IsFiniteSet(DOMAIN X)
    BY <1>3, FS_Subset DEF Accounted
  <1> QED BY <1>3, <1>4 DEF X

\* The balance that expenses X leave a member with.
Share(X, m) == [i \in DOMAIN X |-> Credit(X[i], m)]

LEMMA BalanceIsSum ==
  ASSUME NEW S, NEW m \in Member
  PROVE  computeBalances(S)[m]
           = SumFunctionOnSet(Share(getEffectiveExpenses(S), m), DOMAIN getEffectiveExpenses(S))
  BY DEF computeBalances, SumFunction, Share

LEMMA BalancesTyped ==
  ASSUME NEW S, NEW K, Accounted(S, K)
  PROVE  computeBalances(S) \in [Member -> Int]
  <1> DEFINE X == getEffectiveExpenses(S)
  <1>1. ASSUME NEW m \in Member PROVE computeBalances(S)[m] \in Int
    <2>1. IsFiniteSet(DOMAIN X) /\ \A i \in DOMAIN X : X[i] \in BalancedExpense
      BY EffectiveBalanced
    <2> HIDE DEF X
    <2>2. \A i \in DOMAIN X : Credits(X[i])[m] \in Int
      BY <2>1, CreditsCancel DEF Numbers
    <2>3. Numbers(Share(X, m), DOMAIN X)
      BY <2>2 DEF Numbers, Credits, Share
    <2>4. SumFunctionOnSet(Share(X, m), DOMAIN X) \in Int
      BY <2>1, <2>3, SumStep
    <2> QED BY <2>4, BalanceIsSum DEF X
  <1>2. computeBalances(S) = [m \in Member |-> computeBalances(S)[m]]
    BY DEF computeBalances
  <1> QED BY <1>1, <1>2

\* The balances cancel: what is owed is owed to somebody.
LEMMA BalancesCancelAlways ==
  ASSUME NEW S, NEW K, Accounted(S, K)
  PROVE  SumFunction(computeBalances(S)) = 0
  <1> DEFINE X == getEffectiveExpenses(S)
             a == [i \in DOMAIN X |-> Credits(X[i])]
             total == computeBalances(S)
  <1>1. IsFiniteSet(DOMAIN X) /\ \A i \in DOMAIN X : X[i] \in BalancedExpense
    BY EffectiveBalanced
  <1>2. DOMAIN total = Member
    BY DEF computeBalances
  <1>3. \A m \in Member : total[m] = SumFunctionOnSet(Share(X, m), DOMAIN X)
    BY BalanceIsSum
  <1> HIDE DEF X, total
  <1>4. \A i \in DOMAIN X : Numbers(a[i], Member) /\ SumFunctionOnSet(a[i], Member) = 0
    BY <1>1, CreditsCancel
  <1>5. \A m \in Member : total[m] = SumFunctionOnSet(Column(a, DOMAIN X, m), DOMAIN X)
    <2> TAKE m \in Member
    <2>1. Share(X, m) = Column(a, DOMAIN X, m)
      BY DEF Share, Credits, Column
    <2> QED BY <1>3, <2>1
  <1>6. IsFiniteSet(Member)
    BY LedgerAssumption
  <1>7. SumFunctionOnSet(total, Member) = 0
    <2> HIDE DEF a
    <2> QED BY <1>1, <1>4, <1>5, <1>6, RowsCancel
  <1> QED BY <1>2, <1>7 DEF SumFunction, total

\* An expense that comes last moves the balances by what it gives and takes.
LEMMA BalancesMove ==
  ASSUME NEW R, NEW K, Accounted(R, K), NEW e, e.id \notin K, Sortable(R \cup {e}),
         \A f \in R : Before(f, e), e.type = "ExpenseCreated", e.payload \in BalancedExpense,
         NEW m \in Member
  PROVE  computeBalances(R \cup {e})[m] = computeBalances(R)[m] + Credit(e.payload, m)
  <1> DEFINE S == R \cup {e}
             X == getEffectiveExpenses(S)
             Y == getEffectiveExpenses(R)
             L == K \cup {e.id}
  <1>1. Accounted(S, L) /\ S \ {e} = R /\ IsLatest(e, S)
    <2>1. IsFiniteSet(L)
      BY FS_AddElement DEF Accounted
    <2>2. Said(S, L, BalancedExpense) /\ e \notin R
      BY DEF Accounted, Said
    <2> QED BY <2>1, <2>2 DEF Accounted, IsLatest
  <1>2. /\ DOMAIN Y \subseteq K /\ IsFiniteSet(DOMAIN Y)
        /\ \A i \in DOMAIN Y : Y[i] \in BalancedExpense
    BY EffectiveBalanced
  <1>3. X = Put(Y, e.id, e.payload)
    <2>1. EffectOf(S) = TakeEffect(e, EffectOf(R))
      <3> HIDE DEF S, L
      <3> QED BY <1>1, EffectOfStep DEF Accounted, S
    <2>2. EffectOf(R) \in Effects(K, BalancedExpense)
      BY EffectOfStep DEF Accounted
    <2>3. X = EffectOf(S).expenses /\ Y = EffectOf(R).expenses
      BY <1>1, EffectiveTyped DEF Accounted
    <2>4. TakeEffect(e, EffectOf(R)) = [EffectOf(R) EXCEPT !.expenses = Put(@, e.id, e.payload)]
      BY DEF TakeEffect
    <2> QED BY <2>1, <2>2, <2>3, <2>4 DEF Effects
  <1> HIDE DEF X, Y
  <1>4. /\ DOMAIN X = DOMAIN Y \cup {e.id} /\ e.id \notin DOMAIN Y
        /\ X[e.id] = e.payload /\ \A i \in DOMAIN Y : X[i] = Y[i]
    BY <1>2, <1>3 DEF Put
  <1>5. IsFiniteSet(DOMAIN X) /\ \A i \in DOMAIN X : X[i] \in BalancedExpense
    BY <1>1, <1>2, <1>4, FS_AddElement
  <1>6. Numbers(Share(X, m), DOMAIN X) /\ Numbers(Share(Y, m), DOMAIN Y)
    <2>1. \A x \in BalancedExpense : Credits(x)[m] \in Int
      BY CreditsCancel DEF Numbers
    <2> QED BY <1>2, <1>5, <2>1 DEF Numbers, Credits, Share
  <1>7. SumFunctionOnSet(Share(X, m), DOMAIN X)
          = Share(X, m)[e.id] + SumFunctionOnSet(Share(X, m), DOMAIN X \ {e.id})
    BY <1>4, <1>5, <1>6, SumRemove
  <1>8. Share(X, m)[e.id] = Credit(e.payload, m) /\ DOMAIN X \ {e.id} = DOMAIN Y
    BY <1>4 DEF Share
  <1>9. SumFunctionOnSet(Share(X, m), DOMAIN Y) = SumFunctionOnSet(Share(Y, m), DOMAIN Y)
    <2>1. \A i \in DOMAIN Y : Share(Y, m)[i] = Share(X, m)[i]
      BY <1>4 DEF Share
    <2> QED BY <1>2, <1>6, <2>1, SumEqual
  <1>10. /\ computeBalances(S)[m] = SumFunctionOnSet(Share(X, m), DOMAIN X)
         /\ computeBalances(R)[m] = SumFunctionOnSet(Share(Y, m), DOMAIN Y)
    BY BalanceIsSum DEF X, Y
  <1>11. computeBalances(R)[m] \in Int /\ Credit(e.payload, m) \in Int
    <2>1. computeBalances(R) \in [Member -> Int]
      BY <1>1, BalancesTyped
    <2>2. Credits(e.payload)[m] \in Int
      BY <1>1, CreditsCancel DEF Numbers
    <2> QED BY <2>1, <2>2 DEF Credits
  <1> QED BY <1>7, <1>8, <1>9, <1>10, <1>11

LEMMA SettlementBalanced ==
  ASSUME NEW from \in Member, NEW to \in Member, NEW amount \in Int
  PROVE  Settlement(from, to, amount) \in BalancedExpense
  <1> DEFINE splits == [m \in {to} |-> amount]
  <1>1. splits \in [{to} -> Int] /\ {to} \in SUBSET Member
    OBVIOUS
  <1>2. SumFunctionOnSet(splits, {to}) = amount
    <2>1. IsFiniteSet({to}) /\ Numbers(splits, {to}) /\ splits[to] = amount
      BY FS_Singleton DEF Numbers
    <2> HIDE DEF splits
    <2> QED BY <2>1, SumOfOne
  <1>3. SumFunction(splits) = amount
    BY <1>2 DEF SumFunction
  <1>4. Settlement(from, to, amount) = [amount |-> amount, payer |-> from, splits |-> splits]
    BY DEF Settlement
  <1>5. splits \in UNION { [M -> Int] : M \in SUBSET Member }
    BY <1>1
  <1> HIDE DEF splits
  <1> QED BY <1>3, <1>4, <1>5 DEF BalancedExpense
=============================================================================
