-------------------------- MODULE ConvergenceProofs --------------------------
(***************************************************************************)
(* Convergence: for any members, owners and bounds, where members only     *)
(* join, spend and settle, no connection is lost and the relay has room,   *)
(* whoever has taken in what was sent misses nothing.  The invariant       *)
(* accounts for every message: what a device does not have is in its       *)
(* queue, in an order in which it can be accepted, or will be there once   *)
(* the genesis entry is handled.                                           *)
(***************************************************************************)
EXTENDS StateProofs

-----------------------------------------------------------------------------
(* What is on its way.                                                     *)

AllSupported(C) == \A e \in C : Supported(e, C)

\* The entries of the messages k to i of the queue q.
Carried(q, k, i) == UNION { q[j].entries : j \in k .. i }

\* From message k on, q brings all of C that L does not have, and every entry
\* not before what it depends on.
Anchor(L, q, k, C) ==
  /\ C \subseteq L \cup Carried(q, k, Len(q))
  /\ \A i \in k .. Len(q) : \A e \in q[i].entries : Supported(e, L \cup Carried(q, k, i))

Anchored(L, q, C) == \E k \in 1 .. Len(q) + 1 : Anchor(L, q, k, C)

LEMMA CarriedIs ==
  ASSUME NEW q, NEW k, NEW i, NEW e
  PROVE  e \in Carried(q, k, i) <=> \E j \in k .. i : e \in q[j].entries
  BY DEF Carried

LEMMA SupportedMore ==
  ASSUME NEW L, NEW M, L \subseteq M, NEW e, Supported(e, L)
  PROVE  Supported(e, M)
  BY JoinedGrows DEF Supported

LEMMA AnchorMore ==
  ASSUME NEW L, NEW M, L \subseteq M, NEW q, NEW k, NEW C, Anchor(L, q, k, C)
  PROVE  Anchor(M, q, k, C)
  <1>1. \A i : L \cup Carried(q, k, i) \subseteq M \cup Carried(q, k, i)
    OBVIOUS
  <1>2. C \subseteq M \cup Carried(q, k, Len(q))
    BY <1>1 DEF Anchor
  <1>3. ASSUME NEW i \in k .. Len(q), NEW e \in q[i].entries
        PROVE  Supported(e, M \cup Carried(q, k, i))
    BY <1>1, <1>3, SupportedMore DEF Anchor
  <1> QED BY <1>2, <1>3 DEF Anchor

\* The first message is taken, or was before the anchor.
LEMMA AnchorDrop ==
  ASSUME NEW X, NEW q \in Seq(X), q # <<>>, NEW L, NEW M, L \subseteq M, NEW C,
         NEW k \in 1 .. Len(q) + 1, Anchor(L, q, k, C),
         k = 1 => Head(q).entries \subseteq M
  PROVE  Anchored(M, Tail(q), C)
  <1> DEFINE p == Tail(q)
             h == IF k = 1 THEN 1 ELSE k - 1
  <1>1. /\ Len(q) \in Nat \ {0} /\ Len(p) = Len(q) - 1 /\ h \in 1 .. Len(p) + 1
        /\ \A j \in 1 .. Len(p) : p[j] = q[j + 1]
        /\ k # 1 => h = k - 1
        /\ Head(q) = q[1]
    OBVIOUS
  <1> HIDE DEF p, h
  <1>2. ASSUME NEW i \in Int
        PROVE  L \cup Carried(q, k, i + 1) \subseteq M \cup Carried(p, h, i) \/ ~(i + 1 \in k - 1 .. Len(q))
    <2> SUFFICES ASSUME NEW e \in Carried(q, k, i + 1), e \notin M, i + 1 \in k - 1 .. Len(q)
                 PROVE  e \in Carried(p, h, i)
      OBVIOUS
    <2>1. PICK j \in k .. i + 1 : e \in q[j].entries
      BY CarriedIs
    <2>2. j # 1
      BY <1>1, <2>1
    <2>3. j - 1 \in h .. i /\ p[j - 1] = q[j]
      BY <1>1, <2>1, <2>2 DEF h
    <2> QED BY <2>1, <2>3, CarriedIs
  <1>3. C \subseteq M \cup Carried(p, h, Len(p))
    <2>1. L \cup Carried(q, k, Len(q)) \subseteq M \cup Carried(p, h, Len(p))
      BY <1>1, <1>2
    <2> QED BY <2>1 DEF Anchor
  <1>4. ASSUME NEW i \in h .. Len(p), NEW e \in p[i].entries
        PROVE  Supported(e, M \cup Carried(p, h, i))
    <2>1. i + 1 \in k .. Len(q) /\ e \in q[i + 1].entries
      BY <1>1, <1>4 DEF h
    <2>2. L \cup Carried(q, k, i + 1) \subseteq M \cup Carried(p, h, i)
      <3>1. i \in Int /\ i + 1 \in k - 1 .. Len(q)
        BY <1>1, <1>4, <2>1
      <3> QED BY <1>2, <3>1
    <2>3. Supported(e, L \cup Carried(q, k, i + 1))
      BY <2>1 DEF Anchor
    <2> QED BY <2>2, <2>3, SupportedMore
  <1>5. Anchor(M, p, h, C)
    BY <1>3, <1>4 DEF Anchor
  <1> QED BY <1>1, <1>5 DEF Anchored, p

\* One entry of the first message is taken.
LEMMA AnchorTake ==
  ASSUME NEW q, NEW p, Len(q) \in Nat, Len(p) = Len(q), NEW e, NEW L, NEW M, L \subseteq M, NEW C,
         p[1].entries = q[1].entries \ {e}, \A i \in 2 .. Len(q) : p[i] = q[i],
         NEW k \in 1 .. Len(q) + 1, Anchor(L, q, k, C), k = 1 => e \in M
  PROVE  Anchor(M, p, k, C)
  <1>1. ASSUME NEW i \in k .. Len(q)
        PROVE  L \cup Carried(q, k, i) \subseteq M \cup Carried(p, k, i)
    <2> SUFFICES ASSUME NEW f \in Carried(q, k, i), f \notin M PROVE f \in Carried(p, k, i)
      OBVIOUS
    <2>1. PICK j \in k .. i : f \in q[j].entries
      BY CarriedIs
    <2>2. f \in p[j].entries
      <3>1. CASE j = 1
        BY <2>1, <3>1
      <3>2. CASE j # 1
        BY <2>1, <3>2
      <3> QED BY <3>1, <3>2
    <2> QED BY <2>1, <2>2, CarriedIs
  <1>2. C \subseteq M \cup Carried(p, k, Len(p))
    <2>1. CASE k <= Len(q)
      BY <1>1, <2>1 DEF Anchor
    <2>2. CASE k = Len(q) + 1
      <3>1. Carried(q, k, Len(q)) = {}
        BY <2>2 DEF Carried
      <3> QED BY <3>1 DEF Anchor
    <2> QED BY <2>1, <2>2
  <1>3. ASSUME NEW i \in k .. Len(p), NEW f \in p[i].entries
        PROVE  Supported(f, M \cup Carried(p, k, i))
    <2>1. f \in q[i].entries
      <3>1. CASE i = 1
        BY <1>3, <3>1
      <3>2. CASE i # 1
        BY <1>3, <3>2
      <3> QED BY <3>1, <3>2
    <2> QED BY <1>1, <2>1, SupportedMore DEF Anchor
  <1> QED BY <1>2, <1>3 DEF Anchor

LEMMA CarriedAppend ==
  ASSUME NEW X, NEW q \in Seq(X), NEW m \in X, NEW k \in 1 .. Len(q) + 1
  PROVE  /\ \A i \in k .. Len(q) : Carried(Append(q, m), k, i) = Carried(q, k, i)
         /\ Carried(Append(q, m), k, Len(q) + 1) = Carried(q, k, Len(q)) \cup m.entries
  <1> DEFINE p == Append(q, m)
  <1>1. /\ Len(q) \in Nat /\ \A i \in 1 .. Len(q) : p[i] = q[i]
        /\ p[Len(q) + 1] = m
    OBVIOUS
  <1> HIDE DEF p
  <1>2. ASSUME NEW i \in k .. Len(q) PROVE Carried(p, k, i) = Carried(q, k, i)
    <2>1. \A j \in k .. i : p[j] = q[j]
      BY <1>1
    <2>2. ASSUME NEW e PROVE e \in Carried(p, k, i) <=> e \in Carried(q, k, i)
      BY <2>1, CarriedIs
    <2> QED BY <2>2
  <1>3. Carried(p, k, Len(q) + 1) = Carried(q, k, Len(q)) \cup m.entries
    <2>1. ASSUME NEW e \in Carried(p, k, Len(q) + 1)
          PROVE  e \in Carried(q, k, Len(q)) \cup m.entries
      BY <1>1, <2>1, CarriedIs
    <2>2. ASSUME NEW e \in Carried(q, k, Len(q)) PROVE e \in Carried(p, k, Len(q) + 1)
      <3>1. PICK j \in k .. Len(q) : e \in q[j].entries
        BY CarriedIs
      <3>2. j \in k .. Len(q) + 1 /\ e \in p[j].entries
        BY <1>1, <3>1
      <3> QED BY <3>2, CarriedIs
    <2>3. ASSUME NEW e \in m.entries PROVE e \in Carried(p, k, Len(q) + 1)
      <3>1. Len(q) + 1 \in k .. Len(q) + 1
        BY <1>1
      <3> QED BY <1>1, <3>1, CarriedIs
    <2> QED BY <2>1, <2>2, <2>3
  <1> QED BY <1>2, <1>3 DEF p

\* A message is added, perhaps with new entries.
LEMMA AnchorAppend ==
  ASSUME NEW X, NEW q \in Seq(X), NEW m \in X, NEW L, NEW C, NEW D,
         Anchored(L, q, C), AllSupported(D), m.entries \subseteq D,
         C \subseteq D, D \subseteq L \cup C \cup m.entries
  PROVE  Anchored(L, Append(q, m), D)
  <1>1. PICK k \in 1 .. Len(q) + 1 : Anchor(L, q, k, C)
    BY DEF Anchored
  <1> DEFINE p == Append(q, m)
  <1>2. Len(p) = Len(q) + 1 /\ Len(q) \in Nat /\ \A i \in 1 .. Len(q) : p[i] = q[i] /\ p[Len(q) + 1] = m
    OBVIOUS
  <1>3. /\ \A i \in k .. Len(q) : Carried(p, k, i) = Carried(q, k, i)
        /\ Carried(p, k, Len(p)) = Carried(q, k, Len(q)) \cup m.entries
    BY <1>2, CarriedAppend
  <1>8. p[Len(p)] = m
    OBVIOUS
  <1> HIDE DEF p
  <1>4. D \subseteq L \cup Carried(p, k, Len(p))
    BY <1>1, <1>3 DEF Anchor
  <1>5. ASSUME NEW i \in k .. Len(p), NEW e \in p[i].entries
        PROVE  Supported(e, L \cup Carried(p, k, i))
    <2>1. CASE i = Len(p)
      <3>1. Supported(e, D)
        BY <1>5, <1>8, <2>1 DEF AllSupported
      <3> QED BY <1>4, <2>1, <3>1, SupportedMore
    <2>2. CASE i # Len(p)
      <3>1. i \in k .. Len(q) /\ p[i] = q[i]
        BY <1>2, <2>2
      <3> QED BY <1>1, <1>3, <1>5, <3>1 DEF Anchor
    <2> QED BY <2>1, <2>2
  <1>6. k \in 1 .. Len(p) + 1
    BY <1>2
  <1>7. Anchor(L, p, k, D)
    BY <1>4, <1>5 DEF Anchor
  <1> QED BY <1>6, <1>7 DEF Anchored, p

\* Nothing is missing.
LEMMA AnchorNothing ==
  ASSUME NEW X, NEW q \in Seq(X), NEW L, NEW C, C \subseteq L
  PROVE  Anchored(L, q, C)
  <1>1. Len(q) \in Nat /\ Len(q) + 1 \in 1 .. Len(q) + 1 /\ Len(q) + 1 .. Len(q) = {}
    OBVIOUS
  <1>2. Anchor(L, q, Len(q) + 1, C)
    BY <1>1 DEF Anchor
  <1> QED BY <1>1, <1>2 DEF Anchored

\* The last message brings all that is missing.
LEMMA AnchorLast ==
  ASSUME NEW X, NEW q \in Seq(X), NEW m \in X, NEW L, NEW C,
         AllSupported(C), m.entries \subseteq C, C \subseteq L \cup m.entries
  PROVE  Anchored(L, Append(q, m), C)
  <1> DEFINE D == C \ m.entries
             p == Append(q, m)
             k == Len(q) + 1
  <1>1. Len(p) = k /\ Len(q) \in Nat /\ k \in 1 .. Len(p) + 1 /\ k .. Len(p) = {k} /\ p[k] = m
    OBVIOUS
  <1>2. Carried(p, k, k) = m.entries
    BY <1>1 DEF Carried
  <1> HIDE DEF p, k
  <1>3. \A e \in m.entries : Supported(e, L \cup m.entries)
    BY SupportedMore DEF AllSupported
  <1>4. Anchor(L, p, k, C)
    BY <1>1, <1>2, <1>3 DEF Anchor
  <1> QED BY <1>1, <1>4 DEF Anchored, p, k

-----------------------------------------------------------------------------
(* A device that has nothing yet.                                          *)

HasGenesis(S) == \E e \in S : e.type = "Genesis"

\* The genesis entry is pushed, and once it is accepted the device asks for
\* all the others, as no answer is due.
Expecting(q) ==
  \E j \in 1 .. Len(q) :
    /\ q[j].kind = "new" /\ HasGenesis(q[j].entries)
    /\ \A i \in 1 .. j - 1 : ~HasGenesis(q[i].entries)
    /\ \A i \in j + 1 .. Len(q) : q[i].kind # "entries"

LEMMA ExpectDrop ==
  ASSUME NEW X, NEW q \in Seq(X), q # <<>>, Expecting(q), ~HasGenesis(Head(q).entries)
  PROVE  Expecting(Tail(q))
  <1> DEFINE p == Tail(q)
  <1>1. /\ Len(q) \in Nat \ {0} /\ Len(p) = Len(q) - 1 /\ Head(q) = q[1]
        /\ \A i \in 1 .. Len(p) : p[i] = q[i + 1]
    OBVIOUS
  <1>2. PICK j \in 1 .. Len(q) :
          /\ q[j].kind = "new" /\ HasGenesis(q[j].entries)
          /\ \A i \in 1 .. j - 1 : ~HasGenesis(q[i].entries)
          /\ \A i \in j + 1 .. Len(q) : q[i].kind # "entries"
    BY DEF Expecting
  <1> HIDE DEF p
  <1>3. j # 1
    BY <1>1, <1>2
  <1> DEFINE h == j - 1
  <1>4. h \in 1 .. Len(p) /\ p[h] = q[j]
    BY <1>1, <1>3
  <1>5. \A i \in 1 .. h - 1 : i + 1 \in 1 .. j - 1 /\ p[i] = q[i + 1]
    BY <1>1
  <1>6. \A i \in h + 1 .. Len(p) : i + 1 \in j + 1 .. Len(q) /\ p[i] = q[i + 1]
    BY <1>1
  <1> HIDE DEF h
  <1>7. \A i \in 1 .. h - 1 : ~HasGenesis(p[i].entries)
    BY <1>2, <1>5
  <1>8. \A i \in h + 1 .. Len(p) : p[i].kind # "entries"
    BY <1>2, <1>6
  <1>9. Expecting(p)
    BY <1>2, <1>4, <1>7, <1>8 DEF Expecting
  <1> QED BY <1>9 DEF p

LEMMA ExpectTake ==
  ASSUME NEW q, NEW p, Len(q) \in Nat \ {0}, Len(p) = Len(q), q[1].kind # "new",
         p[1].kind = q[1].kind, p[1].entries \subseteq q[1].entries,
         \A i \in 2 .. Len(q) : p[i] = q[i], Expecting(q)
  PROVE  Expecting(p)
  <1>1. PICK j \in 1 .. Len(q) :
          /\ q[j].kind = "new" /\ HasGenesis(q[j].entries)
          /\ \A i \in 1 .. j - 1 : ~HasGenesis(q[i].entries)
          /\ \A i \in j + 1 .. Len(q) : q[i].kind # "entries"
    BY DEF Expecting
  <1>2. j \in 2 .. Len(q)
    BY <1>1
  <1>3. \A i \in 1 .. j - 1 : p[i].entries \subseteq q[i].entries
    <2> TAKE i \in 1 .. j - 1
    <2>1. CASE i = 1
      BY <2>1
    <2>2. CASE i # 1
      BY <1>2, <2>2
    <2> QED BY <2>1, <2>2
  <1>4. \A i \in 1 .. j - 1 : ~HasGenesis(p[i].entries)
    BY <1>1, <1>3 DEF HasGenesis
  <1>5. \A i \in j + 1 .. Len(p) : p[i] = q[i]
    BY <1>2
  <1>6. p[j] = q[j] /\ j \in 1 .. Len(p)
    BY <1>2
  <1> QED BY <1>1, <1>4, <1>5, <1>6 DEF Expecting

LEMMA ExpectAppend ==
  ASSUME NEW X, NEW q \in Seq(X), NEW m \in X, m.kind # "entries", Expecting(q)
  PROVE  Expecting(Append(q, m))
  <1> DEFINE p == Append(q, m)
  <1>1. PICK j \in 1 .. Len(q) :
          /\ q[j].kind = "new" /\ HasGenesis(q[j].entries)
          /\ \A i \in 1 .. j - 1 : ~HasGenesis(q[i].entries)
          /\ \A i \in j + 1 .. Len(q) : q[i].kind # "entries"
    BY DEF Expecting
  <1>2. /\ Len(q) \in Nat /\ Len(p) = Len(q) + 1 /\ \A i \in 1 .. Len(q) : p[i] = q[i]
        /\ p[Len(q) + 1] = m
    OBVIOUS
  <1> HIDE DEF p
  <1>3. \A i \in 1 .. j - 1 : p[i] = q[i]
    BY <1>2
  <1>4. \A i \in j + 1 .. Len(p) : p[i].kind # "entries"
    <2> TAKE i \in j + 1 .. Len(p)
    <2>1. CASE i = Len(q) + 1
      BY <1>2, <2>1
    <2>2. CASE i # Len(q) + 1
      BY <1>1, <1>2, <2>2
    <2> QED BY <2>1, <2>2
  <1>5. j \in 1 .. Len(p) /\ p[j] = q[j]
    BY <1>2
  <1>6. Expecting(p)
    BY <1>1, <1>3, <1>4, <1>5 DEF Expecting
  <1> QED BY <1>6 DEF p

LEMMA ExpectHead ==
  ASSUME NEW X, NEW q \in Seq(X), q # <<>>, Expecting(q), HasGenesis(Head(q).entries)
  PROVE  Head(q).kind = "new" /\ ~Awaiting(Tail(q))
  <1>1. PICK j \in 1 .. Len(q) :
          /\ q[j].kind = "new" /\ HasGenesis(q[j].entries)
          /\ \A i \in 1 .. j - 1 : ~HasGenesis(q[i].entries)
          /\ \A i \in j + 1 .. Len(q) : q[i].kind # "entries"
    BY DEF Expecting
  <1>2. Len(q) \in Nat \ {0} /\ Head(q) = q[1]
    OBVIOUS
  <1>3. j = 1
    BY <1>1, <1>2
  <1>4. DOMAIN Tail(q) = 1 .. Len(q) - 1 /\ \A i \in 1 .. Len(q) - 1 : Tail(q)[i] = q[i + 1]
    OBVIOUS
  <1>5. ASSUME NEW i \in DOMAIN Tail(q) PROVE Tail(q)[i].kind # "entries"
    <2>1. i + 1 \in j + 1 .. Len(q) /\ Tail(q)[i] = q[i + 1]
      BY <1>2, <1>3, <1>4
    <2> QED BY <1>1, <2>1
  <1> QED BY <1>1, <1>2, <1>3, <1>5 DEF Awaiting

-----------------------------------------------------------------------------
(* The messages in the queue of a device.                                  *)

\* They bring what the relay has stored, the pushes one entry each.
BringsStored(q, R) ==
  \A i \in 1 .. Len(q) : /\ q[i].entries \subseteq R
                         /\ q[i].kind = "new" => \E e \in R : q[i].entries = {e}

\* A full ledger is there while the page has asked for it, once, and has in it
\* what the ledger L has and will have then.
FullAsked(q, L, j) ==
  \A i \in 1 .. Len(q) : q[i].kind = "full" =>
    /\ j = "asked" /\ L \subseteq q[i].entries
    /\ \A h \in 1 .. i - 1 : q[h].entries \subseteq q[i].entries
    /\ \A h \in 1 .. Len(q) : q[h].kind = "full" => h = i

Orderly(q, L, j, R) == BringsStored(q, R) /\ FullAsked(q, L, j)

LEMMA OrderlyAppend ==
  ASSUME NEW X, NEW q \in Seq(X), NEW m \in X, NEW L, NEW j, NEW R, NEW Q, R \subseteq Q,
         Orderly(q, L, j, R), m.entries \subseteq Q,
         m.kind = "new" => \E e \in Q : m.entries = {e}, m.kind # "full"
  PROVE  Orderly(Append(q, m), L, j, Q)
  <1> DEFINE p == Append(q, m)
  <1>1. /\ Len(q) \in Nat /\ Len(p) = Len(q) + 1 /\ \A i \in 1 .. Len(q) : p[i] = q[i]
        /\ p[Len(q) + 1] = m
    OBVIOUS
  <1> HIDE DEF p
  <1>2. \A i \in 1 .. Len(p) : (i \in 1 .. Len(q) /\ p[i] = q[i]) \/ p[i] = m
    BY <1>1
  <1>3. BringsStored(p, Q)
    BY <1>2 DEF Orderly, BringsStored
  <1>4. FullAsked(p, L, j)
    <2> SUFFICES ASSUME NEW i \in 1 .. Len(p), p[i].kind = "full"
                 PROVE  /\ j = "asked" /\ L \subseteq p[i].entries
                        /\ \A h \in 1 .. i - 1 : p[h].entries \subseteq p[i].entries
                        /\ \A h \in 1 .. Len(p) : p[h].kind = "full" => h = i
      BY DEF FullAsked
    <2>1. i \in 1 .. Len(q) /\ p[i] = q[i]
      BY <1>2
    <2>2. \A h \in 1 .. i - 1 : p[h] = q[h]
      BY <1>1, <2>1
    <2>3. \A h \in 1 .. Len(p) : p[h].kind = "full" => h \in 1 .. Len(q) /\ p[h] = q[h]
      BY <1>2
    <2> QED BY <2>1, <2>2, <2>3 DEF Orderly, FullAsked
  <1> QED BY <1>3, <1>4 DEF Orderly, p

LEMMA OrderlyFull ==
  ASSUME NEW X, NEW q \in Seq(X), NEW m \in X, NEW L, NEW j, NEW R,
         Orderly(q, L, j, R), j # "asked", m.kind = "full", m.entries = R, L \subseteq R
  PROVE  Orderly(Append(q, m), L, "asked", R)
  <1> DEFINE p == Append(q, m)
  <1>1. /\ Len(q) \in Nat /\ Len(p) = Len(q) + 1 /\ \A i \in 1 .. Len(q) : p[i] = q[i]
        /\ p[Len(q) + 1] = m
    OBVIOUS
  <1> HIDE DEF p
  <1>2. \A i \in 1 .. Len(p) : (i \in 1 .. Len(q) /\ p[i] = q[i]) \/ (i = Len(q) + 1 /\ p[i] = m)
    BY <1>1
  <1>3. BringsStored(p, R)
    BY <1>2 DEF Orderly, BringsStored
  <1>4. \A i \in 1 .. Len(p) : p[i].kind = "full" => i = Len(q) + 1
    BY <1>2 DEF Orderly, FullAsked
  <1>5. \A i \in 1 .. Len(p) : p[i].entries \subseteq R
    BY <1>3 DEF BringsStored
  <1>6. FullAsked(p, L, "asked")
    <2> SUFFICES ASSUME NEW i \in 1 .. Len(p), p[i].kind = "full"
                 PROVE  /\ L \subseteq p[i].entries
                        /\ \A h \in 1 .. i - 1 : p[h].entries \subseteq p[i].entries
                        /\ \A h \in 1 .. Len(p) : p[h].kind = "full" => h = i
      BY DEF FullAsked
    <2>1. i = Len(q) + 1 /\ p[i] = m
      BY <1>1, <1>4
    <2>2. \A h \in 1 .. i - 1 : h \in 1 .. Len(p)
      BY <1>1, <2>1
    <2> QED BY <1>4, <1>5, <2>1, <2>2
  <1> QED BY <1>3, <1>6 DEF Orderly, p

\* The first message leaves; the ledger may have taken from it.
LEMMA OrderlyDrop ==
  ASSUME NEW X, NEW q \in Seq(X), q # <<>>, NEW L, NEW M, NEW j, NEW R, Orderly(q, L, j, R),
         M \subseteq L \cup Head(q).entries
  PROVE  /\ Orderly(Tail(q), M, j, R)
         /\ Head(q).kind = "full" => \A N, i : Orderly(Tail(q), N, i, R)
  <1> DEFINE p == Tail(q)
  <1>1. /\ Len(q) \in Nat \ {0} /\ Len(p) = Len(q) - 1 /\ Head(q) = q[1]
        /\ \A i \in 1 .. Len(p) : i + 1 \in 1 .. Len(q) /\ p[i] = q[i + 1]
    OBVIOUS
  <1> HIDE DEF p
  <1>2. BringsStored(p, R)
    BY <1>1 DEF Orderly, BringsStored
  <1>3. FullAsked(p, M, j)
    <2> SUFFICES ASSUME NEW i \in 1 .. Len(p), p[i].kind = "full"
                 PROVE  /\ j = "asked" /\ M \subseteq p[i].entries
                        /\ \A h \in 1 .. i - 1 : p[h].entries \subseteq p[i].entries
                        /\ \A h \in 1 .. Len(p) : p[h].kind = "full" => h = i
      BY DEF FullAsked
    <2> DEFINE k == i + 1
    <2>1. k \in 1 .. Len(q) /\ p[i] = q[k] /\ 1 \in 1 .. k - 1
      BY <1>1
    <2>2. \A h \in 1 .. i - 1 : p[h] = q[h + 1] /\ h + 1 \in 1 .. k - 1
      BY <1>1
    <2>3. \A h \in 1 .. Len(p) : p[h] = q[h + 1] /\ h + 1 \in 1 .. Len(q) /\ (h + 1 = k => h = i)
      BY <1>1
    <2> HIDE DEF k
    <2>4. /\ j = "asked" /\ L \subseteq q[k].entries
          /\ \A h \in 1 .. k - 1 : q[h].entries \subseteq q[k].entries
          /\ \A h \in 1 .. Len(q) : q[h].kind = "full" => h = k
      BY <2>1 DEF Orderly, FullAsked
    <2>5. M \subseteq p[i].entries
      BY <1>1, <2>1, <2>4
    <2>6. \A h \in 1 .. i - 1 : p[h].entries \subseteq p[i].entries
      BY <2>1, <2>2, <2>4
    <2>7. \A h \in 1 .. Len(p) : p[h].kind = "full" => h = i
      BY <2>3, <2>4
    <2> QED BY <2>4, <2>5, <2>6, <2>7
  <1>4. ASSUME Head(q).kind = "full", NEW N, NEW i PROVE Orderly(p, N, i, R)
    <2>1. 1 \in 1 .. Len(q) /\ q[1].kind = "full"
      BY <1>1, <1>4
    <2>2. \A h \in 1 .. Len(q) : q[h].kind = "full" => h = 1
      BY <2>1 DEF Orderly, FullAsked
    <2>3. \A h \in 1 .. Len(p) : p[h].kind # "full"
      <3> SUFFICES ASSUME NEW h \in 1 .. Len(p), p[h].kind = "full" PROVE FALSE
        OBVIOUS
      <3>1. h + 1 = 1
        BY <1>1, <2>2
      <3> QED BY <3>1
    <2> QED BY <1>2, <2>3 DEF Orderly, FullAsked
  <1> QED BY <1>2, <1>3, <1>4 DEF Orderly, p

LEMMA OrderlyTake ==
  ASSUME NEW q, NEW p, Len(q) \in Nat \ {0}, Len(p) = Len(q), q[1].kind = "entries",
         p[1].kind = q[1].kind, p[1].entries \subseteq q[1].entries,
         \A i \in 2 .. Len(q) : p[i] = q[i],
         NEW L, NEW M, NEW j, NEW R, Orderly(q, L, j, R), M \subseteq L \cup q[1].entries
  PROVE  Orderly(p, M, j, R)
  <1>1. \A i \in 1 .. Len(q) : p[i].kind = q[i].kind /\ p[i].entries \subseteq q[i].entries
    <2> TAKE i \in 1 .. Len(q)
    <2>1. CASE i = 1
      BY <2>1
    <2>2. CASE i # 1
      BY <2>2
    <2> QED BY <2>1, <2>2
  <1>2. BringsStored(p, R)
    <2> SUFFICES ASSUME NEW i \in 1 .. Len(p)
                 PROVE  /\ p[i].entries \subseteq R
                        /\ p[i].kind = "new" => \E e \in R : p[i].entries = {e}
      BY DEF BringsStored
    <2>1. p[i].kind = "new" => p[i] = q[i]
      <3> SUFFICES ASSUME p[i].kind = "new" PROVE p[i] = q[i]
        OBVIOUS
      <3>1. i # 1
        OBVIOUS
      <3> QED BY <3>1
    <2> QED BY <1>1, <2>1 DEF Orderly, BringsStored
  <1>3. FullAsked(p, M, j)
    <2> SUFFICES ASSUME NEW i \in 1 .. Len(p), p[i].kind = "full"
                 PROVE  /\ j = "asked" /\ M \subseteq p[i].entries
                        /\ \A h \in 1 .. i - 1 : p[h].entries \subseteq p[i].entries
                        /\ \A h \in 1 .. Len(p) : p[h].kind = "full" => h = i
      BY DEF FullAsked
    <2>1. i \in 2 .. Len(q) /\ p[i] = q[i]
      <3>1. i # 1
        OBVIOUS
      <3> QED BY <3>1
    <2>2. /\ j = "asked" /\ L \subseteq q[i].entries
          /\ \A h \in 1 .. i - 1 : q[h].entries \subseteq q[i].entries
          /\ \A h \in 1 .. Len(q) : q[h].kind = "full" => h = i
      BY <2>1 DEF Orderly, FullAsked
    <2>3. 1 \in 1 .. i - 1 /\ \A h \in 1 .. i - 1 : h \in 1 .. Len(q)
      BY <2>1
    <2>4. M \subseteq p[i].entries
      BY <2>1, <2>2, <2>3
    <2>5. \A h \in 1 .. i - 1 : p[h].entries \subseteq p[i].entries
      BY <1>1, <2>1, <2>2, <2>3
    <2>6. \A h \in 1 .. Len(p) : p[h].kind = "full" => h = i
      BY <1>1, <2>2
    <2> QED BY <2>2, <2>4, <2>5, <2>6
  <1> QED BY <1>2, <1>3 DEF Orderly

-----------------------------------------------------------------------------
(* The invariant.                                                          *)

\* All of C is on its way to a device that has L and reads from q, or will be.
Coming(L, q, C) == Anchored(L, q, C) \/ (L = {} /\ Expecting(q))

\* Members, each with a device of their own, only join, enter expenses and settle;
\* no socket closes, nothing is forgotten, and the relay has room for all.
Reliable == StableGroup /\ Faults = {} /\ MaxEntries <= RelayLimit

\* The state in storage is that of the ledger, and only a device with entries
\* refreshes, one that is connecting for the first time.
Held(d) ==
  /\ cache[d] = IF ledger[d] = {} THEN NoState ELSE StateOf(ledger[d])
  /\ refresh[d] # "idle" => ledger[d] # {}
  /\ refresh[d] = "connecting" => ~conn[d]

OnItsWay(d) ==
  /\ Orderly(inbox[d], ledger[d], joining[d], store)
  /\ ~conn[d] => inbox[d] = <<>>

\* Until the relay has the genesis entry, only the founder has entries, and is
\* about to send them.
Unsynced ==
  ~HasGenesis(store) =>
    /\ ledger[Founder] = created
    /\ \A d \in Device \ {Founder} : ledger[d] = {}
    /\ created # {} => refresh[Founder] # "idle"

\* From then on it has all entries at all times, and they are on their way to
\* every device in the room.
Synced ==
  HasGenesis(store) =>
    /\ store = created
    /\ \A d \in Device : ledger[d] # {} => conn[d]
    /\ \A d \in Device : conn[d] => Coming(ledger[d], inbox[d], created)

ConvergenceInv ==
  /\ ChainInv
  /\ Cardinality(created) <= MaxEntries
  /\ joining[Founder] = "no"
  /\ created = {} => \A d \in Device : ~conn[d]
  /\ \A d \in Device : Held(d) /\ OnItsWay(d)
  /\ Unsynced /\ Synced

\* A chain begins with the genesis entry.
LEMMA LinkedHasGenesis ==
  ASSUME NEW S, Entries(S), Linked(S), S # {}
  PROVE  HasGenesis(S)
  <1> DEFINE G == { T \in SUBSET S : T # {} => \E e \in T : \A f \in T : e.clock <= f.clock }
  <1>1. ASSUME NEW T \in SUBSET S, \A x \in T : T \ {x} \in G
        PROVE  T \in G
    <2>1. \A f \in T : f.clock \in Nat
      BY EntryFields DEF Entries
    <2> SUFFICES ASSUME NEW x \in T
                 PROVE  \E e \in T : \A f \in T : e.clock <= f.clock
      OBVIOUS
    <2>2. CASE T = {x}
      BY <2>1, <2>2
    <2>3. CASE T # {x}
      <3>1. PICK e \in T \ {x} : \A f \in T \ {x} : e.clock <= f.clock
        BY <1>1, <2>3
      <3>2. CASE e.clock <= x.clock
        BY <3>1, <3>2
      <3>3. CASE ~(e.clock <= x.clock)
        <4>1. \A f \in T : x.clock <= f.clock
          BY <2>1, <3>1, <3>3
        <4> QED BY <4>1
      <3> QED BY <3>2, <3>3
    <2> QED BY <2>2, <2>3
  <1>2. S \in G
    <2> HIDE DEF G
    <2> QED BY <1>1, SubsetInduction DEF Entries
  <1>3. PICK e \in S : \A f \in S : e.clock <= f.clock
    BY <1>2
  <1>4. \A f \in S : f.clock \in Nat
    BY EntryFields DEF Entries
  <1>5. e.type = "Genesis"
    BY <1>3, <1>4 DEF Linked
  <1> QED BY <1>5 DEF HasGenesis

\* What the invariant of the chains says of all entries, and of the ledgers.
LEMMA ChainFacts ==
  ASSUME StableGroup, ChainInv
  PROVE  /\ LinkedInv /\ Entries(created) /\ Linked(created) /\ Sound(created)
         /\ inbox \in Inboxes(created) /\ store \subseteq created
         /\ \A d \in Device : /\ ledger[d] \subseteq created /\ Entries(ledger[d])
                              /\ Linked(ledger[d]) /\ ChainValid(ledger[d])
                              /\ inbox[d] \in Seq(Message(created))
         /\ \A e \in created : e.dev \in Device /\ e \in ledger[e.dev]
  <1>1. LinkedInv /\ ClockInv /\ Sound(created) /\ \A e \in created : e \in ledger[e.dev]
    BY DEF ChainInv, ClockInv
  <1>2. Entries(created) /\ \A d \in Device : ledger[d] \subseteq created /\ Entries(ledger[d])
    BY <1>1, BuiltEntries, HeldEntries
  <1>3. Linked(created) /\ \A d \in Device : Linked(ledger[d])
    BY <1>1 DEF StableGroup, LinkedInv, Chained
  <1>4. \A d \in Device : ChainValid(ledger[d])
    BY ChainInvIsValid
  <1>5. inbox \in Inboxes(created) /\ store \subseteq created
    BY <1>1 DEF LinkedInv, StorageTypeOK
  <1>6. \A d \in Device : inbox[d] \in Seq(Message(created))
    BY <1>5 DEF Inboxes
  <1>7. \A e \in created : e.dev \in Device
    BY <1>1, CreatedFields
  <1> QED BY <1>1, <1>2, <1>3, <1>4, <1>5, <1>6, <1>7

LEMMA CreatedSupported ==
  ASSUME StableGroup, ChainInv
  PROVE  AllSupported(created)
  <1> SUFFICES ASSUME NEW e \in created PROVE Supported(e, created)
    BY DEF AllSupported
  <1>1. e.type # "Genesis" => \E f \in created : f.id = e.prev
    BY ChainFacts DEF Linked
  <1>2. Needs(e) \subseteq JoinedIn(created)
    <2>1. e.dev \in Device /\ e \in ledger[e.dev] /\ ledger[e.dev] \subseteq created
      BY ChainFacts
    <2>2. Needs(e) \subseteq JoinedIn(ledger[e.dev])
      BY <2>1 DEF ChainInv, KnowsMembers, Complete
    <2> QED BY <2>1, <2>2, JoinedGrows
  <1> QED BY <1>1, <1>2 DEF Supported

\* There is one genesis entry, the founder's; its clock is the smallest.
LEMMA OneGenesis ==
  ASSUME StableGroup, ChainInv
  PROVE  /\ \A e, f \in created : e.type = "Genesis" /\ f.type = "Genesis" => e = f
         /\ \A e \in created : e.type = "Genesis" => e.clock = 0 /\ e.dev = Founder
         /\ \A e \in created : e.type # "Genesis" => e.clock > 0
  <1>1. /\ Sound(created) /\ Linked(created) /\ Entries(created) /\ \A e \in created : WellBuilt(e)
    BY ChainFacts DEF Sound
  <1>2. \A e \in created : e.type = "Genesis" => /\ e.clock = 0 /\ e.dev = Founder
                                                 /\ Joins(e, Owner[Founder])
    BY <1>1 DEF WellBuilt, Joins
  <1>3. Owner[Founder] \in Member
    BY SplitLedgerAssumption
  <1>4. \A e \in created : e.clock \in Nat
    BY <1>1, EntryFields DEF Entries
  <1>5. \A e \in created : e.type # "Genesis" => e.clock > 0
    BY <1>1, <1>4 DEF Linked
  <1> QED BY <1>1, <1>2, <1>3, <1>5 DEF Sound

\* The founder is a member, from the first entry on.
LEMMA FounderActive ==
  ASSUME StableGroup, ChainInv, created # {}
  PROVE  HasGenesis(created) /\ ledger[Founder] # {} /\ Active(Founder)
  <1>1. PICK e \in created : e.type = "Genesis"
    BY ChainFacts, LinkedHasGenesis DEF HasGenesis
  <1>2. e.dev = Founder /\ WellBuilt(e)
    BY <1>1, OneGenesis, ChainFacts DEF Sound
  <1>3. Founder \in Device /\ Owner[Founder] \in Member
    BY SplitLedgerAssumption
  <1>4. e \in ledger[Founder]
    BY <1>2, ChainFacts
  <1>5. Owner[Founder] \in JoinedIn(ledger[Founder])
    BY <1>1, <1>2, <1>3, <1>4 DEF JoinedIn, Joins, WellBuilt
  <1>6. Active(Founder)
    BY <1>3, <1>5, DerivedJoined DEF Active, ActiveMembers
  <1> QED BY <1>1, <1>4, <1>6 DEF HasGenesis

\* An entry that is new to d and whose support d has is accepted.
LEMMA SupportedAccepted ==
  ASSUME StableGroup, ChainInv, NEW d \in Device, Held(d), NEW e \in created,
         e \notin ledger[d], Supported(e, ledger[d])
  PROVE  Accepts(d, e)
  <1>1. /\ ledger[d] \in SUBSET created /\ Entries(ledger[d]) /\ Linked(ledger[d])
        /\ e \in Entry /\ IdsOnce /\ Sound(created)
    BY ChainFacts DEF Entries, LinkedInv
  <1>2. \A f \in ledger[d] : f.id # e.id
    BY <1>1 DEF IdsOnce
  <1>3. CASE ledger[d] = {}
    <2>1. e.type = "Genesis"
      BY <1>3 DEF Supported
    <2>2. e.prev = NoHash
      BY <1>1, <2>1 DEF Sound, WellBuilt
    <2>3. validateEntry(e, ledger[d], cache[d])
      BY <1>3, <2>1, <2>2
         DEF validateEntry, PreviousHashOK, validateCreatorAuthorization, validatePayload
    <2> QED BY <1>2, <2>1, <2>3 DEF Accepts
  <1>4. CASE ledger[d] # {}
    <2>1. e.type # "Genesis"
      <3>1. PICK g \in ledger[d] : g.type = "Genesis"
        BY <1>1, <1>4, LinkedHasGenesis DEF HasGenesis
      <3> QED BY <1>1, <3>1, OneGenesis
    <2>2. validateEntry(e, ledger[d], cache[d])
      <3>1. validateEntry(e, ledger[d], StateOf(ledger[d]))
        BY <1>1, <2>1, SupportedIsValid DEF StableGroup
      <3> QED BY <1>4, <3>1 DEF Held
    <2>3. cache[d] # NoState
      <3>1. StateOf(ledger[d]).clock \in Nat
        BY <1>1, StateOfStep DEF GroupState
      <3>2. NoState.clock = -1
        BY DEF NoState, createEmptyGroupState
      <3> QED BY <1>4, <3>1, <3>2 DEF Held
    <2> QED BY <1>2, <2>2, <2>3 DEF Accepts
  <1> QED BY <1>3, <1>4

\* A device without entries accepts the genesis entry only.
LEMMA EmptyRefuses ==
  ASSUME NEW d \in Device, Held(d), ledger[d] = {}, NEW e, Accepts(d, e)
  PROVE  e.type = "Genesis"
  BY DEF Held, Accepts

\* The support of an entry is earlier than the entry.
LEMMA SupportIsEarlier ==
  ASSUME NEW C, Sound(C), Linked(C), \A e, f \in C : e.id = f.id => e = f,
         NEW L \in SUBSET C, NEW e \in C, Supported(e, L)
  PROVE  Supported(e, { f \in L : f.clock < e.clock })
  <1> DEFINE P == { f \in L : f.clock < e.clock }
  <1>1. e.type # "Genesis" => \E f \in P : f.id = e.prev
    <2> SUFFICES ASSUME e.type # "Genesis" PROVE \E f \in P : f.id = e.prev
      OBVIOUS
    <2>1. PICK f \in L : f.id = e.prev
      BY DEF Supported
    <2>2. PICK g \in C : g.id = e.prev /\ g.clock < e.clock
      BY DEF Linked
    <2>3. f = g
      BY <2>1, <2>2
    <2> QED BY <2>1, <2>2, <2>3
  <1>2. Needs(e) \subseteq JoinedIn(P)
    BY DEF Supported, Sound, JoinedIn
  <1> QED BY <1>1, <1>2 DEF Supported

-----------------------------------------------------------------------------
(* The steps of one device that build nothing.                             *)

LEMMA ComingAnswer ==
  ASSUME NEW C, NEW q \in Seq(Message(C)), NEW L, NEW c, Coming(L, q, C), AllSupported(C),
         L = {} => \A e \in C : e.clock > c
  PROVE  Coming(L, AnswerTo(q, C, c), C)
  <1> DEFINE m == [kind |-> "entries", entries |-> EntriesAfter(C, c)]
  <1>1. CASE Awaiting(q)
    BY <1>1 DEF AnswerTo
  <1>2. CASE ~Awaiting(q)
    <2>1. m \in Message(C) /\ m.entries = EntriesAfter(C, c) /\ m.entries \subseteq C
      BY DEF Message, EntriesAfter
    <2>2. AnswerTo(q, C, c) = Append(q, m)
      BY <1>2 DEF AnswerTo
    <2>3. CASE Anchored(L, q, C)
      <3>1. Anchored(L, Append(q, m), C)
        <4> HIDE DEF m
        <4> QED BY <2>1, <2>3, AnchorAppend
      <3> QED BY <2>2, <3>1 DEF Coming
    <2>4. CASE L = {} /\ Expecting(q)
      <3>1. C \subseteq L \cup m.entries
        BY <2>1, <2>4 DEF EntriesAfter
      <3>2. Anchored(L, Append(q, m), C)
        <4> HIDE DEF m
        <4> QED BY <2>1, <3>1, AnchorLast
      <3> QED BY <2>2, <3>2 DEF Coming
    <2> QED BY <2>3, <2>4 DEF Coming
  <1> QED BY <1>1, <1>2

LEMMA OrderlyAnswer ==
  ASSUME NEW C, NEW q \in Seq(Message(C)), NEW L, NEW j, NEW R \in SUBSET C, NEW c,
         Orderly(q, L, j, R)
  PROVE  Orderly(AnswerTo(q, R, c), L, j, R)
  <1> DEFINE m == [kind |-> "entries", entries |-> EntriesAfter(R, c)]
  <1>1. m \in Message(C) /\ m.entries \subseteq R /\ m.kind = "entries"
    BY DEF Message, EntriesAfter
  <1> HIDE DEF m
  <1>2. Orderly(Append(q, m), L, j, R)
    BY <1>1, OrderlyAppend
  <1> QED BY <1>2 DEF AnswerTo, m

OnlyDevice(d) ==
  \A x \in Device \ {d} :
    /\ ledger'[x] = ledger[x] /\ cache'[x] = cache[x] /\ refresh'[x] = refresh[x]
    /\ joining'[x] = joining[x] /\ conn'[x] = conn[x] /\ inbox'[x] = inbox[x]

LEMMA DeviceKeeps ==
  ASSUME ConvergenceInv, ChainInv', NEW d \in Device, OnlyDevice(d),
         created' = created, store' = store, Held(d)', OnItsWay(d)',
         d = Founder => joining'[d] = "no",
         created = {} => ~conn'[d],
         ~HasGenesis(store) => /\ ledger'[d] = ledger[d]
                               /\ d = Founder /\ created # {} => refresh'[d] # "idle",
         HasGenesis(store) => /\ ledger'[d] # {} => conn'[d]
                              /\ conn'[d] => Coming(ledger'[d], inbox'[d], created)
  PROVE  ConvergenceInv'
  <1>1. Founder \in Device
    BY SplitLedgerAssumption
  <1>2. \A x \in Device : Held(x)' /\ OnItsWay(x)'
    <2> SUFFICES ASSUME NEW x \in Device, x # d PROVE Held(x)' /\ OnItsWay(x)'
      OBVIOUS
    <2>1. Held(x) /\ OnItsWay(x)
      BY DEF ConvergenceInv
    <2> QED BY <2>1 DEF Held, OnItsWay, OnlyDevice
  <1>3. Unsynced'
    <2> SUFFICES ASSUME ~HasGenesis(store)
                 PROVE  /\ ledger'[Founder] = created
                        /\ \A x \in Device \ {Founder} : ledger'[x] = {}
                        /\ created # {} => refresh'[Founder] # "idle"
      BY DEF Unsynced
    <2>1. /\ ledger[Founder] = created /\ \A x \in Device \ {Founder} : ledger[x] = {}
          /\ created # {} => refresh[Founder] # "idle"
      BY DEF ConvergenceInv, Unsynced
    <2> QED BY <1>1, <2>1 DEF OnlyDevice
  <1>4. Synced'
    <2> SUFFICES ASSUME HasGenesis(store), NEW x \in Device
                 PROVE  /\ store = created
                        /\ ledger'[x] # {} => conn'[x]
                        /\ conn'[x] => Coming(ledger'[x], inbox'[x], created)
      BY DEF Synced
    <2>1. /\ store = created /\ (ledger[x] # {} => conn[x])
          /\ (conn[x] => Coming(ledger[x], inbox[x], created))
      BY DEF ConvergenceInv, Synced
    <2> QED BY <2>1 DEF OnlyDevice
  <1>5. joining'[Founder] = "no" /\ (created = {} => \A x \in Device : ~conn'[x])
    BY <1>1 DEF ConvergenceInv, OnlyDevice
  <1> QED BY <1>2, <1>3, <1>4, <1>5 DEF ConvergenceInv

\* The queue of a device that is not the founder, or of any once the genesis
\* entry is stored, brings what the relay has.
LEMMA LedgerIsStored ==
  ASSUME ConvergenceInv, NEW d \in Device, d # Founder \/ HasGenesis(store)
  PROVE  ledger[d] \subseteq store
  <1>1. ledger[d] \subseteq created
    BY DEF ConvergenceInv, ChainInv, ClockInv, LinkedInv, StorageTypeOK
  <1> QED BY <1>1 DEF ConvergenceInv, Unsynced, Synced

LEMMA InFlightConnected ==
  ASSUME ConvergenceInv, NEW d \in Device, inbox[d] # <<>>
  PROVE  conn[d]
  BY DEF ConvergenceInv, OnItsWay

LEMMA Domains ==
  ASSUME ChainInv
  PROVE  /\ DOMAIN ledger = Device /\ DOMAIN cache = Device /\ DOMAIN refresh = Device
         /\ DOMAIN joining = Device /\ DOMAIN conn = Device /\ DOMAIN inbox = Device
         /\ \A d \in Device : conn[d] \in BOOLEAN
  BY DEF ChainInv, ClockInv, LinkedInv, StorageTypeOK, Cached, Inboxes

LEMMA viewConverges ==
  ASSUME Reliable, ConvergenceInv, ChainInv', NEW d \in Device, viewGroup(d) \/ openAddExpense(d)
  PROVE  ConvergenceInv'
  <1>1. /\ cache' = [cache EXCEPT ![d] = Derived(d)]
        /\ UNCHANGED <<created, ledger, refresh, joining, conn, inbox, store>>
        /\ ledger[d] # {}
    BY DEF viewGroup, openAddExpense, Ready
  <1>2. cache'[d] = cache[d] /\ \A x \in Device \ {d} : cache'[x] = cache[x]
    BY <1>1, Domains DEF ConvergenceInv, Held, Derived
  <1>3. OnlyDevice(d)
    BY <1>1, <1>2 DEF OnlyDevice
  <1>4. Held(d)' /\ OnItsWay(d)'
    BY <1>1, <1>2 DEF ConvergenceInv, Held, OnItsWay
  <1> QED BY <1>1, <1>3, <1>4, DeviceKeeps DEF ConvergenceInv, Unsynced, Synced

LEMMA joinGroupFailsConverges ==
  ASSUME Reliable, ConvergenceInv, ChainInv', NEW d \in Device, joinGroupFails(d)
  PROVE  ConvergenceInv'
  <1>1. /\ joining' = [joining EXCEPT ![d] = "no"] /\ joining[d] = "synced"
        /\ UNCHANGED <<created, ledger, cache, refresh, conn, inbox, store>>
    BY DEF joinGroupFails
  <1>2. OnlyDevice(d)
    BY <1>1, Domains DEF OnlyDevice, ConvergenceInv
  <1>3. joining'[d] = "no"
    BY <1>1, Domains DEF ConvergenceInv
  <1>4. Held(d)' /\ OnItsWay(d)'
    <2>1. Held(d) /\ OnItsWay(d)
      BY DEF ConvergenceInv
    <2>2. Orderly(inbox[d], ledger[d], "no", store)
      BY <1>1, <2>1 DEF OnItsWay, Orderly, FullAsked
    <2> QED BY <1>1, <1>3, <2>1, <2>2 DEF Held, OnItsWay
  <1> QED BY <1>1, <1>2, <1>3, <1>4, DeviceKeeps DEF ConvergenceInv, Unsynced, Synced

LEMMA syncGroupFromRelayConverges ==
  ASSUME Reliable, ConvergenceInv, ChainInv', NEW d \in Device, syncGroupFromRelay(d)
  PROVE  ConvergenceInv'
  <1> DEFINE m == [kind |-> "full", entries |-> store]
             q == inbox[d]
  <1>1. /\ conn' = [conn EXCEPT ![d] = TRUE]
        /\ inbox' = [inbox EXCEPT ![d] = Append(q, m)]
        /\ joining' = [joining EXCEPT ![d] = "asked"]
        /\ UNCHANGED <<created, ledger, cache, refresh, store>>
        /\ created # {} /\ joining[d] = "no"
        /\ (ledger[d] # {} /\ ChainValid(ledger[d]) => ~Active(d))
    BY DEF syncGroupFromRelay, Reliable, Fault, Free
  <1>2. OnlyDevice(d) /\ conn'[d] /\ inbox'[d] = Append(q, m) /\ joining'[d] = "asked"
    BY <1>1, Domains DEF OnlyDevice, ConvergenceInv
  <1>3. d # Founder
    BY <1>1, FounderActive, ChainFacts DEF Reliable, ConvergenceInv
  <1>4. q \in Seq(Message(created)) /\ m \in Message(created) /\ store \subseteq created
    BY ChainFacts DEF Reliable, ConvergenceInv, Message
  <1>5. Held(d) /\ OnItsWay(d)
    BY DEF ConvergenceInv
  <1>6. m.kind = "full" /\ m.entries = store
    OBVIOUS
  <1> HIDE DEF m
  <1>7. Orderly(Append(q, m), ledger[d], "asked", store)
    BY <1>1, <1>3, <1>4, <1>5, <1>6, LedgerIsStored, OrderlyFull DEF OnItsWay
  <1>8. OnItsWay(d)'
    BY <1>1, <1>2, <1>7 DEF OnItsWay
  <1>9. Held(d)'
    <2>1. refresh[d] # "connecting"
      <3> SUFFICES ASSUME refresh[d] = "connecting" PROVE FALSE
        OBVIOUS
      <3>1. ledger[d] # {} /\ ~conn[d]
        BY <1>5 DEF Held
      <3> QED BY <1>3, <3>1 DEF ConvergenceInv, Unsynced, Synced
    <2> QED BY <1>1, <1>5, <2>1 DEF Held
  <1>10. ASSUME HasGenesis(store) PROVE Coming(ledger[d], Append(q, m), created)
    <2>1. store = created
      BY <1>10 DEF ConvergenceInv, Synced
    <2>2. AllSupported(created)
      BY CreatedSupported DEF Reliable, ConvergenceInv
    <2> QED BY <1>4, <1>6, <2>1, <2>2, AnchorLast DEF Coming
  <1> QED BY <1>1, <1>2, <1>3, <1>8, <1>9, <1>10, DeviceKeeps

\* Requests.
LEMMA askConverges ==
  ASSUME Reliable, ConvergenceInv, ChainInv', NEW d \in Device,
         UNCHANGED <<created, ledger, joining, store>>, ledger[d] # {},
         inbox' = [inbox EXCEPT ![d] = AnswerTo(inbox[d], store, cache[d].clock)],
         cache' = cache,
         \/ refresh' = refresh /\ conn' = conn /\ conn[d]
         \/ refresh' = [refresh EXCEPT ![d] = "syncing"] /\ conn' = [conn EXCEPT ![d] = TRUE]
  PROVE  ConvergenceInv'
  <1> DEFINE q == inbox[d]
             c == cache[d].clock
  <1>1. /\ OnlyDevice(d) /\ conn'[d] /\ inbox'[d] = AnswerTo(q, store, c)
        /\ refresh'[d] \in {refresh[d], "syncing"}
        /\ ledger'[d] = ledger[d] /\ cache'[d] = cache[d] /\ joining'[d] = joining[d]
    BY Domains DEF OnlyDevice, ConvergenceInv
  <1> HIDE DEF c
  <1>2. q \in Seq(Message(created)) /\ store \in SUBSET created
    BY ChainFacts DEF Reliable, ConvergenceInv
  <1>3. Held(d) /\ OnItsWay(d)
    BY DEF ConvergenceInv
  <1>4. OnItsWay(d)'
    <2>1. Orderly(AnswerTo(q, store, c), ledger[d], joining[d], store)
      BY <1>2, <1>3, OrderlyAnswer DEF OnItsWay
    <2> QED BY <1>1, <2>1 DEF OnItsWay
  <1>5. Held(d)'
    BY <1>1, <1>3, Domains DEF Held, ConvergenceInv
  <1>6. ASSUME HasGenesis(store) PROVE Coming(ledger[d], AnswerTo(q, store, c), created)
    <2>1. store = created /\ Coming(ledger[d], q, created)
      BY <1>6 DEF ConvergenceInv, Synced
    <2>2. AllSupported(created)
      BY CreatedSupported DEF Reliable, ConvergenceInv
    <2> QED BY <1>2, <2>1, <2>2, ComingAnswer
  <1>7. created # {}
    BY ChainFacts DEF Reliable, ConvergenceInv
  <1> QED BY <1>1, <1>4, <1>5, <1>6, <1>7, DeviceKeeps DEF ConvergenceInv, Unsynced

LEMMA RequestsConverge ==
  ASSUME Reliable, ConvergenceInv, ChainInv', NEW d \in Device,
         refreshAgain(d) \/ backgroundSync(d) \/ connect(d)
  PROVE  ConvergenceInv'
  <1>1. CASE backgroundSync(d)
    BY <1>1, askConverges DEF backgroundSync
  <1>2. CASE connect(d)
    <2>1. ledger[d] # {}
      BY <1>2 DEF connect, ConvergenceInv, Held
    <2> QED BY <1>2, <2>1, askConverges DEF connect
  <1>3. CASE refreshAgain(d)
    <2>1. /\ refresh[d] = "idle" /\ ledger[d] # {}
          /\ refreshGroups(d, ledger[d], cache[d], store, inbox, disk)
          /\ UNCHANGED <<created, ledger, joining, conn, store>>
      BY <1>3 DEF refreshAgain
    <2>2. ChainValid(ledger[d]) /\ created # {}
      BY <2>1, ChainFacts DEF Reliable, ConvergenceInv
    <2>3. cache[d] = StateOf(ledger[d])
      BY <2>1 DEF ConvergenceInv, Held
    <2>4. conn[d]
      BY <2>1, <2>2 DEF ConvergenceInv, Unsynced, Synced
    <2>5. /\ cache' = [cache EXCEPT ![d] = cache[d]]
          /\ refresh' = [refresh EXCEPT ![d] = "syncing"]
          /\ inbox' = [inbox EXCEPT ![d] = AnswerTo(inbox[d], store, cache[d].clock)]
      BY <2>1, <2>2, <2>3, <2>4 DEF refreshGroups
    <2>6. cache' = cache /\ conn' = [conn EXCEPT ![d] = TRUE]
      <3>1. cache \in [Device -> GroupStates] /\ conn \in [Device -> BOOLEAN]
        BY DEF ConvergenceInv, ChainInv, Cached, ClockInv, LinkedInv, StorageTypeOK
      <3> QED BY <2>1, <2>4, <2>5, <3>1
    <2> QED BY <2>1, <2>5, <2>6, askConverges
  <1> QED BY <1>1, <1>2, <1>3

-----------------------------------------------------------------------------
(* Receiving.                                                              *)

LEMMA NothingUnsent ==
  ASSUME inbox \in Inboxes(created), NEW d \in Device, NEW L, L \subseteq store,
         NEW q \in Republished(L)
  PROVE  q = <<>> /\ ToSet(q) = {} /\ Pushed(d, q) = inbox
  <1>1. PICK T \in SUBSET Unsent(L) : q \in SetToSeqs(T)
    BY DEF Republished
  <1>2. T = {}
    BY DEF Unsent
  <1>3. Cardinality(T) = 0
    BY <1>2, FS_EmptySet
  <1>4. q \in [1 .. 0 -> {}]
    BY <1>1, <1>2, <1>3 DEF SetToSeqs
  <1>5. q = <<>>
    BY <1>4
  <1>6. ToSet(q) = {}
    BY <1>5 DEF ToSet
  <1>7. Pushed(d, q) = inbox
    <2> DEFINE m == [i \in DOMAIN q |-> [kind |-> "new", entries |-> {q[i]}]]
    <2>1. m = <<>>
      BY <1>5
    <2> HIDE DEF m
    <2>2. \A x \in Device : inbox[x] \in Seq(Message(created)) /\ inbox[x] \o m = inbox[x]
      BY <2>1 DEF Inboxes
    <2>3. Pushed(d, q) = [x \in Device |-> inbox[x]]
      BY <2>2 DEF Pushed, m
    <2>4. inbox = [x \in Device |-> inbox[x]]
      BY DEF Inboxes
    <2> QED BY <2>3, <2>4
  <1> QED BY <1>5, <1>6, <1>7

\* What initialSync takes of the full ledger S when the device has L.
TakenOf(S, L) == IF ChainValid(S) THEN L \cup S ELSE L

\* The full ledger is taken when everything from it on is on its way, and is
\* refused, or empty, when the genesis entry is still to come.
LEMMA FullTaken ==
  ASSUME Reliable, ConvergenceInv, NEW d \in Device, HasGenesis(store), inbox[d] # <<>>,
         Head(inbox[d]).kind = "full"
  PROVE  Coming(TakenOf(Head(inbox[d]).entries, ledger[d]), Tail(inbox[d]), created)
  <1> DEFINE q == inbox[d]
             S == Head(q).entries
             L == ledger[d]
             M == TakenOf(S, L)
  <1>1. /\ q \in Seq(Message(created)) /\ L \subseteq created /\ Len(q) \in Nat \ {0}
        /\ Head(q) = q[1] /\ 1 \in 1 .. Len(q)
    BY ChainFacts DEF Reliable, ConvergenceInv
  <1>2. S \subseteq created
    <2>1. q[1] \in Message(created)
      BY <1>1
    <2> QED BY <1>1, <2>1 DEF Message
  <1>3. L \subseteq S
    BY <1>1 DEF ConvergenceInv, OnItsWay, Orderly, FullAsked
  <1>4. L \subseteq M
    BY DEF TakenOf
  <1>5. Coming(L, q, created)
    BY InFlightConnected DEF ConvergenceInv, Synced
  <1>6. CASE Anchored(L, q, created)
    <2>1. PICK k \in 1 .. Len(q) + 1 : Anchor(L, q, k, created)
      BY <1>6 DEF Anchored
    <2>2. ASSUME k = 1 PROVE S \subseteq M
      <3>1. Carried(q, 1, 1) = S
        BY <1>1 DEF Carried
      <3>2. \A e \in S : Supported(e, S)
        <4>1. \A e \in S : Supported(e, L \cup Carried(q, 1, 1))
          BY <1>1, <2>1, <2>2 DEF Anchor
        <4>2. L \cup Carried(q, 1, 1) = S
          BY <1>3, <3>1
        <4> QED BY <4>1, <4>2
      <3>3. Complete(S) /\ \A e \in S : e.type # "Genesis" => \E f \in S : f.id = e.prev
        BY <3>2 DEF Supported, Complete
      <3>4. IdsOnce /\ Linked(created) /\ Sound(created) /\ Entries(created)
        BY ChainFacts DEF Reliable, ConvergenceInv, LinkedInv
      <3>5. Linked(S) /\ Entries(S)
        <4> HIDE DEF S
        <4>1. LinkedInv
          BY DEF ConvergenceInv, ChainInv, ClockInv
        <4>2. Chained(S)
          BY <1>2, <3>3, <3>4, <4>1, ClosedIsChained DEF Unbroken
        <4>3. Linked(S)
          BY <4>2 DEF Chained, Reliable, StableGroup
        <4> QED BY <1>2, <3>4, <4>3, SubsetEntries
      <3>6. ChainValid(S)
        <4> HIDE DEF S
        <4> QED BY <1>2, <3>3, <3>4, <3>5, CompleteIsValid DEF Reliable, StableGroup
      <3> QED BY <3>6 DEF TakenOf
    <2> HIDE DEF q, M, L, S
    <2>3. Anchored(M, Tail(q), created)
      BY <1>1, <1>4, <2>1, <2>2, AnchorDrop DEF S
    <2> QED BY <2>3 DEF Coming, q, M, L, S
  <1>7. CASE L = {} /\ Expecting(q)
    <2>1. ~HasGenesis(S)
      BY <1>1, <1>7, ExpectHead
    <2>2. Expecting(Tail(q))
      BY <1>1, <1>7, <2>1, ExpectDrop
    <2>3. M = {}
      <3>1. CASE ChainValid(S)
        <4>1. Linked(S) /\ Entries(S)
          <5>1. LinkedInv /\ Entries(created)
            BY ChainFacts DEF Reliable, ConvergenceInv
          <5>2. Chained(S)
            BY <1>2, <3>1, <5>1, ValidIsChained
          <5>3. "edit" \notin Ops
            BY DEF Reliable, StableGroup
          <5> HIDE DEF S
          <5> QED BY <1>2, <5>1, <5>2, <5>3, SubsetEntries DEF Chained
        <4> HIDE DEF S
        <4>2. S = {}
          BY <2>1, <4>1, LinkedHasGenesis
        <4> QED BY <1>7, <4>2 DEF TakenOf
      <3>2. CASE ~ChainValid(S)
        BY <1>7, <3>2 DEF TakenOf
      <3> QED BY <3>1, <3>2
    <2> QED BY <2>2, <2>3 DEF Coming
  <1> QED BY <1>5, <1>6, <1>7 DEF Coming

\* Before the genesis entry is stored no full ledger has any entry to take.
LEMMA FullUseless ==
  ASSUME Reliable, ConvergenceInv, ~HasGenesis(store), NEW S \in SUBSET store, ChainValid(S)
  PROVE  S = {}
  <1>1. LinkedInv /\ Entries(created) /\ store \subseteq created
    BY ChainFacts DEF Reliable, ConvergenceInv
  <1>2. S \in SUBSET created
    BY <1>1
  <1>3. Linked(S)
    BY <1>1, <1>2, ValidIsChained DEF Chained, Reliable, StableGroup
  <1>4. Entries(S)
    BY <1>1, <1>2, SubsetEntries
  <1> QED BY <1>3, <1>4, LinkedHasGenesis DEF HasGenesis

LEMMA initialSyncConverges ==
  ASSUME Reliable, ConvergenceInv, ChainInv', NEW d \in Device, initialSync(d)
  PROVE  ConvergenceInv'
  <1> DEFINE q  == inbox[d]
             S  == Head(q).entries
             L  == TakenOf(S, ledger[d])
             st == IF S # {} /\ ChainValid(S) THEN StateOf(S) ELSE cache[d]
  <1>1. /\ q # <<>> /\ Head(q).kind = "full"
        /\ ledger' = [ledger EXCEPT ![d] = L]
        /\ cache' = [cache EXCEPT ![d] = st]
        /\ joining' = [joining EXCEPT ![d] = IF joining[d] = "asked" THEN "synced" ELSE joining[d]]
        /\ UNCHANGED <<created, refresh, conn>>
    BY DEF initialSync, TakenOf
  <1>2. PICK r \in Republished(L) :
          /\ store' = store \cup ToSet(r)
          /\ inbox' = [Pushed(d, r) EXCEPT ![d] = AnswerTo(Tail(@), store, st.clock)]
    BY DEF initialSync, TakenOf
  <1> HIDE DEF st, L
  <1>3. /\ q \in Seq(Message(created)) /\ Len(q) \in Nat \ {0} /\ store \in SUBSET created
        /\ Head(q) = q[1] /\ 1 \in 1 .. Len(q) /\ inbox \in Inboxes(created)
    BY <1>1, ChainFacts DEF Reliable, ConvergenceInv
  <1>4. Held(d) /\ OnItsWay(d) /\ conn[d]
    BY <1>1, InFlightConnected DEF ConvergenceInv
  <1>5. joining[d] = "asked" /\ ledger[d] \subseteq S /\ S \subseteq store
    BY <1>1, <1>3, <1>4 DEF OnItsWay, Orderly, FullAsked, BringsStored
  <1>6. d # Founder
    BY <1>5 DEF ConvergenceInv
  <1>7. L \subseteq ledger[d] \cup S /\ L \subseteq store
    BY <1>5 DEF L, TakenOf
  <1>8. store' = store /\ Pushed(d, r) = inbox
    BY <1>2, <1>3, <1>7, NothingUnsent
  <1>9. /\ OnlyDevice(d) /\ ledger'[d] = L /\ cache'[d] = st /\ joining'[d] = "synced"
        /\ inbox'[d] = AnswerTo(Tail(q), store, st.clock) /\ conn'[d] = conn[d]
        /\ refresh'[d] = refresh[d]
    BY <1>1, <1>2, <1>5, <1>8, Domains DEF OnlyDevice, ConvergenceInv
  <1>10. Held(d)'
    <2>1. cache[d] = IF ledger[d] = {} THEN NoState ELSE StateOf(ledger[d])
      BY <1>4 DEF Held
    <2>2. CASE S # {} /\ ChainValid(S)
      <3>1. L = S
        BY <1>5, <2>2 DEF L, TakenOf
      <3> QED BY <1>1, <1>4, <1>9, <2>2, <3>1 DEF Held, st
    <2>3. CASE ~(S # {} /\ ChainValid(S))
      <3>1. L = ledger[d] /\ st = cache[d]
        BY <1>5, <2>3 DEF L, TakenOf, st
      <3> QED BY <1>1, <1>4, <1>9, <3>1 DEF Held
    <2> QED BY <2>2, <2>3
  <1>11. Tail(q) \in Seq(Message(created))
    BY <1>1, <1>3
  <1>12. OnItsWay(d)'
    <2>1. Orderly(Tail(q), L, "synced", store)
      BY <1>1, <1>3, <1>4, OrderlyDrop DEF OnItsWay
    <2>2. Orderly(AnswerTo(Tail(q), store, st.clock), L, "synced", store)
      BY <1>3, <1>11, <2>1, OrderlyAnswer
    <2> QED BY <1>4, <1>8, <1>9, <2>2 DEF OnItsWay
  <1>13. ASSUME ~HasGenesis(store) PROVE L = ledger[d]
    BY <1>5, <1>13, FullUseless DEF L, TakenOf
  <1>14. ASSUME HasGenesis(store)
         PROVE  Coming(L, AnswerTo(Tail(q), store, st.clock), created)
    <2>1. Coming(L, Tail(q), created)
      BY <1>1, <1>14, FullTaken DEF L
    <2>2. store = created /\ AllSupported(created)
      BY <1>14, CreatedSupported DEF Reliable, ConvergenceInv, Synced
    <2>3. L = {} => \A e \in created : e.clock > st.clock
      <3> SUFFICES ASSUME L = {} PROVE \A e \in created : e.clock > st.clock
        OBVIOUS
      <3>1. ledger[d] = {} /\ ~(S # {} /\ ChainValid(S))
        BY <1>5 DEF L, TakenOf
      <3>2. st = NoState
        BY <1>4, <3>1 DEF Held, st
      <3>3. NoState.clock = -1
        BY DEF NoState, createEmptyGroupState
      <3>4. \A e \in created : e.clock \in Nat
        BY ChainFacts, EntryFields DEF Reliable, ConvergenceInv, Entries
      <3> QED BY <3>2, <3>3, <3>4
    <2> QED BY <1>11, <2>1, <2>2, <2>3, ComingAnswer
  <1>15. created # {}
    BY <1>4 DEF ConvergenceInv
  <1> QED BY <1>1, <1>4, <1>6, <1>8, <1>9, <1>10, <1>12, <1>13, <1>14, <1>15, DeviceKeeps

\* The queue q once the entry e of its first message was processed.
RestOf(q, e) == IF Head(q).kind = "new" THEN Tail(q) ELSE [q EXCEPT ![1].entries = @ \ {e}]

LEMMA RestIs ==
  ASSUME NEW C, NEW q \in Seq(Message(C)), q # <<>>, NEW e, Head(q).kind # "new"
  PROVE  /\ RestOf(q, e) \in Seq(Message(C)) /\ Len(RestOf(q, e)) = Len(q)
         /\ RestOf(q, e)[1].kind = q[1].kind /\ RestOf(q, e)[1].entries = q[1].entries \ {e}
         /\ \A i \in 2 .. Len(q) : RestOf(q, e)[i] = q[i]
  <1> DEFINE m == q[1]
             h == [m EXCEPT !.entries = m.entries \ {e}]
             p == [q EXCEPT ![1] = h]
  <1>1. m \in Message(C) /\ Len(q) \in Nat \ {0} /\ 1 \in 1 .. Len(q)
    OBVIOUS
  <1>2. h \in Message(C) /\ h.kind = m.kind /\ h.entries = m.entries \ {e}
    <2>1. m \in [kind : {"new", "entries", "full"}, entries : SUBSET C]
      BY <1>1 DEF Message
    <2>2. m.entries \ {e} \in SUBSET C
      BY <2>1
    <2> HIDE DEF m
    <2>3. h \in [kind : {"new", "entries", "full"}, entries : SUBSET C]
      BY <2>1, <2>2
    <2> QED BY <2>1, <2>3 DEF Message
  <1>3. RestOf(q, e) = p
    BY DEF RestOf
  <1> HIDE DEF h
  <1>4. /\ p \in Seq(Message(C)) /\ Len(p) = Len(q) /\ p[1] = h
        /\ \A i \in 2 .. Len(q) : p[i] = q[i]
    BY <1>1, <1>2
  <1> QED BY <1>2, <1>3, <1>4

\* The entry processed is the only one of its message, or its clock is the
\* smallest of it.
EntryNext(q, e) ==
  /\ e \in Head(q).entries
  /\ \A f \in Head(q).entries : e.clock <= f.clock

LEMMA RestKeeps ==
  ASSUME Reliable, ConvergenceInv, NEW d \in Device, inbox[d] # <<>>,
         Head(inbox[d]).kind # "full", NEW e, EntryNext(inbox[d], e)
  PROVE  /\ e \in store /\ e \in created
         /\ RestOf(inbox[d], e) \in Seq(Message(created))
         /\ Orderly(RestOf(inbox[d], e), ledger[d], joining[d], store)
         /\ Orderly(RestOf(inbox[d], e), ledger[d] \cup {e}, joining[d], store)
  <1> DEFINE q == inbox[d]
             p == RestOf(q, e)
  <1>1. /\ q \in Seq(Message(created)) /\ Orderly(q, ledger[d], joining[d], store)
        /\ store \subseteq created /\ Head(q) = q[1] /\ Len(q) \in Nat \ {0}
        /\ 1 \in 1 .. Len(q) /\ q[1] \in Message(created)
    BY ChainFacts DEF Reliable, ConvergenceInv, OnItsWay
  <1>2. e \in q[1].entries /\ e \in store
    BY <1>1 DEF EntryNext, Orderly, BringsStored
  <1>3. CASE Head(q).kind = "new"
    <2>1. p = Tail(q) /\ p \in Seq(Message(created))
      BY <1>1, <1>3 DEF RestOf
    <2>2. ledger[d] \subseteq ledger[d] \cup Head(q).entries
      OBVIOUS
    <2>3. ledger[d] \cup {e} \subseteq ledger[d] \cup Head(q).entries
      BY <1>1, <1>2
    <2> HIDE DEF q, p
    <2>4. Orderly(p, ledger[d], joining[d], store)
      BY <1>1, <2>1, <2>2, OrderlyDrop DEF q
    <2>5. Orderly(p, ledger[d] \cup {e}, joining[d], store)
      <3> DEFINE M == ledger[d] \cup {e}
      <3>1. M \subseteq ledger[d] \cup Head(q).entries
        BY <2>3
      <3> HIDE DEF M
      <3>2. q # <<>>
        BY DEF q
      <3>3. Orderly(p, M, joining[d], store)
        BY <1>1, <2>1, <3>1, <3>2, OrderlyDrop
      <3> QED BY <3>3 DEF M
    <2> QED BY <1>1, <1>2, <2>1, <2>4, <2>5 DEF p, q
  <1>4. CASE Head(q).kind # "new"
    <2>1. q[1].kind = "entries"
      BY <1>1, <1>4 DEF Message
    <2>2. /\ p \in Seq(Message(created)) /\ Len(p) = Len(q)
          /\ p[1].kind = q[1].kind /\ p[1].entries \subseteq q[1].entries
          /\ \A i \in 2 .. Len(q) : p[i] = q[i]
      BY <1>1, <1>4, RestIs
    <2> HIDE DEF p
    <2>3. Orderly(p, ledger[d], joining[d], store)
      BY <1>1, <2>1, <2>2, OrderlyTake
    <2>4. Orderly(p, ledger[d] \cup {e}, joining[d], store)
      <3> DEFINE M == ledger[d] \cup {e}
      <3>1. M \subseteq ledger[d] \cup q[1].entries
        BY <1>2
      <3> HIDE DEF M
      <3>2. Orderly(p, M, joining[d], store)
        BY <1>1, <2>1, <2>2, <3>1, OrderlyTake
      <3> QED BY <3>2 DEF M
    <2> QED BY <1>1, <1>2, <2>2, <2>3, <2>4 DEF p
  <1> QED BY <1>3, <1>4

\* The ledger after e was accepted or refused.
TakenOne(d, e) == IF Accepts(d, e) THEN ledger[d] \cup {e} ELSE ledger[d]

\* An entry from which on everything is on its way is accepted, if it is new.
LEMMA AnchoredAccepted ==
  ASSUME Reliable, ConvergenceInv, NEW d \in Device, inbox[d] # <<>>,
         Head(inbox[d]).kind # "full", NEW e, EntryNext(inbox[d], e),
         Anchor(ledger[d], inbox[d], 1, created)
  PROVE  e \in TakenOne(d, e)
  <1> DEFINE q == inbox[d]
             L == ledger[d]
             P == { f \in L \cup q[1].entries : f.clock < e.clock }
  <1>1. /\ q \in Seq(Message(created)) /\ Head(q) = q[1] /\ 1 \in 1 .. Len(q)
        /\ q[1].entries \subseteq created /\ L \subseteq created /\ e \in created
        /\ Held(d)
    <2>1. /\ q \in Seq(Message(created)) /\ L \subseteq created /\ Held(d)
          /\ q[1] \in Message(created) /\ Head(q) = q[1] /\ 1 \in 1 .. Len(q)
      BY ChainFacts DEF Reliable, ConvergenceInv
    <2>2. q[1].entries \subseteq created
      BY <2>1 DEF Message
    <2> QED BY <2>1, <2>2 DEF EntryNext
  <1>2. Carried(q, 1, 1) = q[1].entries
    BY <1>1 DEF Carried
  <1>3. Supported(e, L \cup q[1].entries)
    <2>1. Supported(e, L \cup Carried(q, 1, 1))
      BY <1>1 DEF Anchor, EntryNext
    <2> QED BY <1>2, <2>1
  <1>4. \A f, g \in created : f.id = g.id => f = g
    BY DEF ConvergenceInv, ChainInv, ClockInv, LinkedInv, IdsOnce
  <1>5. Supported(e, P)
    <2> DEFINE S == L \cup q[1].entries
    <2>1. S \in SUBSET created
      BY <1>1
    <2> HIDE DEF S
    <2>2. Supported(e, { f \in S : f.clock < e.clock })
      BY <1>1, <1>3, <1>4, <2>1, ChainFacts, SupportIsEarlier DEF Reliable, ConvergenceInv, S
    <2> QED BY <2>2 DEF S
  <1>6. P \subseteq L
    <2>1. \A f \in created : f.clock \in Nat
      BY ChainFacts, EntryFields DEF Reliable, ConvergenceInv, Entries
    <2>2. \A f \in q[1].entries : ~(f.clock < e.clock)
      BY <1>1, <2>1 DEF EntryNext
    <2> QED BY <2>2
  <1> HIDE DEF P
  <1>7. Supported(e, L)
    BY <1>5, <1>6, SupportedMore
  <1>8. e \notin L => Accepts(d, e)
    BY <1>1, <1>7, SupportedAccepted DEF Reliable, ConvergenceInv
  <1> QED BY <1>8 DEF TakenOne

\* What the entry leaves is still on its way.  If it is the genesis entry, the
\* refresh it starts asks for everything else.
LEMMA ReceivedComing ==
  ASSUME Reliable, ConvergenceInv, NEW d \in Device, inbox[d] # <<>>, HasGenesis(store),
         Head(inbox[d]).kind # "full", NEW e, EntryNext(inbox[d], e)
  PROVE  \/ Coming(TakenOne(d, e), RestOf(inbox[d], e), created)
         \/ /\ Accepts(d, e) /\ ledger[d] = {} /\ e.type = "Genesis"
            /\ ~Awaiting(RestOf(inbox[d], e))
  <1> DEFINE q == inbox[d]
             p == RestOf(q, e)
             L == ledger[d]
             M == TakenOne(d, e)
  <1>1. /\ q \in Seq(Message(created)) /\ Head(q) = q[1] /\ Len(q) \in Nat \ {0}
        /\ 1 \in 1 .. Len(q) /\ q[1] \in Message(created)
        /\ Held(d) /\ Orderly(q, L, joining[d], store)
    BY ChainFacts DEF Reliable, ConvergenceInv, OnItsWay
  <1>2. Head(q).kind = "new" => Head(q).entries = {e}
    BY <1>1 DEF Orderly, BringsStored, EntryNext
  <1>3. L \subseteq M
    BY DEF TakenOne
  <1>4. Coming(L, q, created)
    BY InFlightConnected DEF ConvergenceInv, Synced
  <1>5. CASE Anchored(L, q, created)
    <2>1. PICK k \in 1 .. Len(q) + 1 : Anchor(L, q, k, created)
      BY <1>5 DEF Anchored
    <2>2. k = 1 => e \in M
      BY <2>1, AnchoredAccepted
    <2>3. CASE Head(q).kind = "new"
      <3>1. p = Tail(q) /\ (k = 1 => Head(q).entries \subseteq M)
        BY <1>2, <2>2, <2>3 DEF RestOf
      <3> HIDE DEF M, p
      <3>2. Anchored(M, Tail(q), created)
        BY <1>1, <1>3, <2>1, <3>1, AnchorDrop
      <3> QED BY <3>1, <3>2 DEF Coming, M, p
    <2>4. CASE Head(q).kind # "new"
      <3>1. /\ Len(p) = Len(q) /\ p[1].entries = q[1].entries \ {e}
            /\ \A i \in 2 .. Len(q) : p[i] = q[i]
        BY <1>1, <2>4, RestIs
      <3> HIDE DEF M, p
      <3>2. Len(q) \in Nat
        BY <1>1
      <3>3. Anchor(M, p, k, created)
        BY <1>3, <2>1, <2>2, <3>1, <3>2, AnchorTake
      <3>4. Anchored(M, p, created)
        BY <3>1, <3>3 DEF Anchored
      <3> QED BY <3>4 DEF Coming, M, p
    <2> QED BY <2>3, <2>4
  <1>6. CASE L = {} /\ Expecting(q)
    <2>1. CASE HasGenesis(Head(q).entries)
      <3>1. Head(q).kind = "new" /\ ~Awaiting(Tail(q))
        BY <1>1, <1>6, <2>1, ExpectHead
      <3>2. p = Tail(q) /\ e.type = "Genesis" /\ e \in created
        BY <1>1, <1>2, <2>1, <3>1 DEF RestOf, HasGenesis, EntryNext, Message
      <3>3. Supported(e, {})
        BY <3>2 DEF Supported, Needs
      <3>4. Accepts(d, e)
        BY <1>1, <1>6, <3>2, <3>3, SupportedAccepted DEF Reliable, ConvergenceInv
      <3> QED BY <1>6, <3>1, <3>2, <3>4
    <2>2. CASE ~HasGenesis(Head(q).entries)
      <3>1. e.type # "Genesis"
        BY <2>2 DEF HasGenesis, EntryNext
      <3>2. M = {}
        BY <1>1, <1>6, <3>1, EmptyRefuses DEF TakenOne
      <3>3. Expecting(p)
        <4>1. CASE Head(q).kind = "new"
          BY <1>1, <1>6, <2>2, <4>1, ExpectDrop DEF RestOf
        <4>2. CASE Head(q).kind # "new"
          <5>1. /\ Len(p) = Len(q) /\ p[1].entries \subseteq q[1].entries
                /\ p[1].kind = q[1].kind /\ q[1].kind # "new"
                /\ \A i \in 2 .. Len(q) : p[i] = q[i]
            BY <1>1, <4>2, RestIs
          <5> HIDE DEF p
          <5> QED BY <1>1, <1>6, <5>1, ExpectTake
        <4> QED BY <4>1, <4>2
      <3> QED BY <3>2, <3>3 DEF Coming
    <2> QED BY <2>1, <2>2
  <1> QED BY <1>4, <1>5, <1>6 DEF Coming

\* Before the genesis entry is stored nothing is accepted.
LEMMA NothingAccepted ==
  ASSUME Reliable, ConvergenceInv, NEW d \in Device, ~HasGenesis(store), NEW e \in store
  PROVE  ~Accepts(d, e)
  <1>1. Held(d) /\ store \subseteq created
    BY ChainFacts DEF Reliable, ConvergenceInv
  <1>2. CASE d = Founder
    BY <1>1, <1>2 DEF ConvergenceInv, Unsynced, Accepts
  <1>3. CASE d # Founder
    <2>1. ledger[d] = {} /\ e.type # "Genesis"
      BY <1>3 DEF ConvergenceInv, Unsynced, HasGenesis
    <2> QED BY <1>1, <2>1, EmptyRefuses
  <1> QED BY <1>2, <1>3

\* What the next state needs of it.
ChainsHold ==
  /\ \A d \in Device : ChainValid(ledger[d]) /\ ledger[d] \subseteq created
  /\ AllSupported(created)
  /\ inbox \in Inboxes(created) /\ store \subseteq created

LEMMA NextChainsHold ==
  ASSUME StableGroup
  PROVE  ChainInv' => ChainsHold'
  <1>1. ChainInv => ChainsHold
    BY ChainFacts, CreatedSupported DEF ChainsHold
  <1> QED BY <1>1, PTL

LEMMA NextFacts ==
  ASSUME StableGroup, ChainInv'
  PROVE  /\ \A d \in Device : ChainValid(ledger'[d]) /\ ledger'[d] \subseteq created'
         /\ AllSupported(created')
         /\ inbox' \in Inboxes(created') /\ store' \subseteq created'
  BY NextChainsHold DEF ChainsHold

LEMMA processIncomingEntryConverges ==
  ASSUME Reliable, ConvergenceInv, ChainInv', NEW d \in Device, processIncomingEntry(d)
  PROVE  ConvergenceInv'
  <1> DEFINE q == inbox[d]
  <1>1. PICK e \in Head(q).entries :
          LET B == [inbox EXCEPT ![d] = RestOf(q, e)]
              L == ledger[d] \cup {e}
          IN /\ \A f \in Head(q).entries : e.clock <= f.clock
             /\ IF Accepts(d, e)
                THEN /\ ledger' = [ledger EXCEPT ![d] = L]
                     /\ refreshGroups(d, L, applyEntry(e, cache[d]), store, B,
                                      [disk EXCEPT ![d] = L])
                ELSE /\ inbox' = B
                     /\ UNCHANGED <<ledger, cache, refresh>>
    BY DEF processIncomingEntry, RestOf
  <1>2. /\ q # <<>> /\ Head(q).kind # "full"
        /\ UNCHANGED <<created, joining, conn, store>>
    BY DEF processIncomingEntry
  <1> DEFINE p == RestOf(q, e)
             L == ledger[d] \cup {e}
  <1>3. EntryNext(q, e)
    BY <1>1 DEF EntryNext
  <1>4. /\ e \in store /\ e \in created /\ p \in Seq(Message(created))
        /\ Orderly(p, ledger[d], joining[d], store) /\ Orderly(p, L, joining[d], store)
    BY <1>2, <1>3, RestKeeps
  <1>5. Held(d) /\ conn[d] /\ created # {} /\ store \in SUBSET created
    BY <1>2, <1>4, InFlightConnected, ChainFacts DEF Reliable, ConvergenceInv
  <1>6. HasGenesis(store) =>
          \/ Coming(TakenOne(d, e), p, created)
          \/ Accepts(d, e) /\ ledger[d] = {} /\ e.type = "Genesis" /\ ~Awaiting(p)
    BY <1>2, <1>3, ReceivedComing
  <1> HIDE DEF p
  <1>7. CASE ~Accepts(d, e)
    <2>1. inbox' = [inbox EXCEPT ![d] = p] /\ UNCHANGED <<ledger, cache, refresh>>
      BY <1>1, <1>7 DEF p
    <2>2. OnlyDevice(d) /\ inbox'[d] = p
      BY <1>2, <2>1, Domains DEF OnlyDevice, ConvergenceInv
    <2>3. Held(d)' /\ OnItsWay(d)'
      BY <1>2, <1>4, <1>5, <2>1, <2>2 DEF Held, OnItsWay
    <2>4. HasGenesis(store) => Coming(ledger[d], p, created)
      BY <1>6, <1>7 DEF TakenOne
    <2> QED BY <1>2, <1>5, <2>1, <2>2, <2>3, <2>4, DeviceKeeps
            DEF ConvergenceInv, Unsynced, Synced
  <1>8. CASE Accepts(d, e)
    <2> DEFINE c == StateOf(L).clock
    <2>1. HasGenesis(store)
      BY <1>4, <1>8, NothingAccepted
    <2>2. /\ ledger' = [ledger EXCEPT ![d] = L]
          /\ refreshGroups(d, L, applyEntry(e, cache[d]), store, [inbox EXCEPT ![d] = p],
                           [disk EXCEPT ![d] = L])
      BY <1>1, <1>8 DEF p
    <2>3. ledger'[d] = L /\ L # {} /\ ChainValid(L)
      <3>1. ledger'[d] = L
        BY <2>2, Domains DEF ConvergenceInv
      <3> QED BY <3>1, NextFacts DEF Reliable
    <2>4. /\ cache' = [cache EXCEPT ![d] = StateOf(L)]
          /\ refresh' = [refresh EXCEPT ![d] = "syncing"]
          /\ inbox' = [[inbox EXCEPT ![d] = p] EXCEPT ![d] = AnswerTo(@, store, c)]
      <3> HIDE DEF L
      <3> QED BY <1>5, <2>2, <2>3 DEF refreshGroups
    <2> HIDE DEF c
    <2>5. /\ OnlyDevice(d) /\ cache'[d] = StateOf(L) /\ refresh'[d] = "syncing"
          /\ inbox'[d] = AnswerTo(p, store, c)
      BY <1>2, <2>2, <2>4, Domains DEF OnlyDevice, ConvergenceInv
    <2>6. Held(d)'
      BY <2>3, <2>5 DEF Held
    <2>7. OnItsWay(d)'
      <3> HIDE DEF L
      <3>1. Orderly(AnswerTo(p, store, c), L, joining[d], store)
        BY <1>4, <1>5, OrderlyAnswer
      <3> QED BY <1>2, <1>5, <2>3, <2>5, <3>1 DEF OnItsWay
    <2>8. store = created /\ AllSupported(created)
      BY <2>1, CreatedSupported DEF Reliable, ConvergenceInv, Synced
    <2>9. Coming(L, AnswerTo(p, store, c), created)
      <3>1. CASE Coming(TakenOne(d, e), p, created)
        <4>1. Coming(L, p, created)
          BY <1>8, <3>1 DEF TakenOne
        <4> HIDE DEF L
        <4> QED BY <1>4, <2>3, <2>8, <4>1, ComingAnswer
      <3>2. CASE ledger[d] = {} /\ e.type = "Genesis" /\ ~Awaiting(p)
        <4> DEFINE m == [kind |-> "entries", entries |-> EntriesAfter(created, c)]
        <4>1. L = {e}
          BY <3>2
        <4>2. c = 0
          <5>1. Entries({e})
            BY <1>4, ChainFacts, SubsetEntries DEF Reliable, ConvergenceInv
          <5>2. StateOf({e}).clock = e.clock
            BY <5>1, StateClock
          <5>3. e.clock = 0
            BY <1>4, <3>2, OneGenesis DEF Reliable, ConvergenceInv
          <5> QED BY <4>1, <5>2, <5>3 DEF c
        <4>3. created \subseteq L \cup m.entries
          BY <1>4, <3>2, <4>1, <4>2, OneGenesis DEF Reliable, ConvergenceInv, EntriesAfter
        <4>4. m \in Message(created) /\ m.entries \subseteq created
          BY DEF Message, EntriesAfter
        <4>5. AnswerTo(p, store, c) = Append(p, m)
          BY <2>8, <3>2 DEF AnswerTo
        <4> HIDE DEF L, m
        <4>6. Anchored(L, Append(p, m), created)
          BY <1>4, <2>8, <4>3, <4>4, AnchorLast
        <4> QED BY <4>5, <4>6 DEF Coming
      <3> QED BY <1>6, <2>1, <3>1, <3>2
    <2> QED BY <1>2, <1>5, <2>1, <2>3, <2>5, <2>6, <2>7, <2>9, DeviceKeeps
            DEF ConvergenceInv
  <1> QED BY <1>7, <1>8

-----------------------------------------------------------------------------
(* The end of a sync.                                                      *)

LEMMA EmptyDropped ==
  ASSUME NEW X, NEW q \in Seq(X), q # <<>>, Head(q).entries = {}, NEW L, NEW C, Coming(L, q, C)
  PROVE  Coming(L, Tail(q), C)
  <1>1. CASE Anchored(L, q, C)
    <2>1. PICK k \in 1 .. Len(q) + 1 : Anchor(L, q, k, C)
      BY <1>1 DEF Anchored
    <2>2. L \subseteq L /\ (k = 1 => Head(q).entries \subseteq L)
      OBVIOUS
    <2>3. Anchored(L, Tail(q), C)
      BY <2>1, <2>2, AnchorDrop
    <2> QED BY <2>3 DEF Coming
  <1>2. CASE L = {} /\ Expecting(q)
    <2>1. ~HasGenesis(Head(q).entries)
      BY DEF HasGenesis
    <2> QED BY <1>2, <2>1, ExpectDrop DEF Coming
  <1> QED BY <1>1, <1>2 DEF Coming

\* Broadcasting its entries again the founder stores them all: the relay has
\* room, and no two of them have the same clock and sender.
LEMMA AllRepublished ==
  ASSUME Reliable, ConvergenceInv, NEW q \in Republished(created)
  PROVE  /\ ToSet(q) = Unsent(created)
         /\ q \in Seq(created)
         /\ \A i, j \in 1 .. Len(q) : q[i] = q[j] => i = j
  <1>1. /\ IsFiniteSet(created) /\ store \subseteq created /\ Cardinality(created) <= RelayLimit
        /\ \A e, f \in created : e.dev = f.dev /\ e.clock = f.clock => e = f
    <2>1. IsFiniteSet(created) /\ store \subseteq created /\ ClocksDistinct
      BY DEF ConvergenceInv, ChainInv, ClockInv, LinkedInv, IdsOnce, StorageTypeOK
    <2>2. Cardinality(created) \in Nat /\ MaxEntries \in Nat /\ RelayLimit \in Nat
      BY <2>1, FS_CardinalityType, SplitLedgerAssumption
    <2>3. Cardinality(created) <= MaxEntries /\ MaxEntries <= RelayLimit
      BY DEF ConvergenceInv, Reliable
    <2> QED BY <2>1, <2>2, <2>3 DEF ClocksDistinct
  <1>2. PICK T \in SUBSET Unsent(created) : Takes(created, T) /\ q \in SetToSeqs(T)
    BY DEF Republished
  <1>3. T = Unsent(created)
    <2> SUFFICES ASSUME NEW e \in Unsent(created) \ T PROVE FALSE
      OBVIOUS
    <2> DEFINE R == store \cup T
    <2>1. e \in created /\ e \notin R /\ R \in SUBSET created
      BY <1>1 DEF Unsent
    <2>2. ~Storable(e, R)
      BY <1>2 DEF Takes
    <2> HIDE DEF R
    <2>3. Cardinality(R) < RelayLimit
      <3>1. /\ Cardinality(R) <= Cardinality(created)
            /\ (Cardinality(created) = Cardinality(R) => created = R) /\ IsFiniteSet(R)
        BY <1>1, <2>1, FS_Subset
      <3>2. Cardinality(R) \in Nat /\ Cardinality(created) \in Nat /\ RelayLimit \in Nat
        BY <1>1, <3>1, FS_CardinalityType, SplitLedgerAssumption
      <3> QED BY <1>1, <2>1, <3>1, <3>2
    <2>4. \A f \in R : ~(f.clock = e.clock /\ f.dev = e.dev)
      BY <1>1, <2>1
    <2> QED BY <2>2, <2>3, <2>4 DEF Storable
  <1>4. IsFiniteSet(T) /\ T \in SUBSET created
    BY <1>1, <1>2, FS_Subset DEF Unsent
  <1> DEFINE n == Cardinality(T)
  <1>5. n \in Nat
    BY <1>4, FS_CardinalityType
  <1> HIDE DEF n
  <1>6. q \in [1 .. n -> T] /\ \A i, j \in 1 .. n : i # j => q[i] # q[j]
    BY <1>2 DEF SetToSeqs, n
  <1>7. q \in Seq(created) /\ Len(q) = n
    BY <1>4, <1>5, <1>6
  <1>8. \A t \in T : \E i \in 1 .. n : q[i] = t
    <2>1. IsFiniteSet(1 .. n) /\ Cardinality(1 .. n) = n
      BY <1>5, FS_Interval
    <2>2. q \in Injection(1 .. n, T)
      BY <1>6 DEF Injection, IsInjective
    <2>3. q \in Surjection(1 .. n, T)
      <3> DEFINE N == 1 .. n
      <3> HIDE DEF N
      <3> QED BY <1>4, <2>1, <2>2, FS_Injection DEF n, N
    <2> QED BY <2>3 DEF Surjection
  <1>9. ToSet(q) = T
    BY <1>6, <1>8 DEF ToSet
  <1> QED BY <1>3, <1>6, <1>7, <1>9

\* Several entries are pushed.
Pushes(q) == [i \in DOMAIN q |-> [kind |-> "new", entries |-> {q[i]}]]

LEMMA PushesIs ==
  ASSUME NEW C, NEW q \in Seq(C)
  PROVE  /\ Pushes(q) \in Seq(Message(C)) /\ Len(Pushes(q)) = Len(q)
         /\ \A i \in 1 .. Len(q) : /\ Pushes(q)[i].kind = "new"
                                   /\ Pushes(q)[i].entries = {q[i]} /\ q[i] \in C
  <1>1. DOMAIN q = 1 .. Len(q) /\ Len(q) \in Nat /\ \A i \in 1 .. Len(q) : q[i] \in C
    OBVIOUS
  <1>2. \A i \in 1 .. Len(q) : [kind |-> "new", entries |-> {q[i]}] \in Message(C)
    BY <1>1 DEF Message
  <1>3. Pushes(q) \in [1 .. Len(q) -> Message(C)]
    BY <1>1, <1>2 DEF Pushes
  <1>4. Pushes(q) \in Seq(Message(C)) /\ Len(Pushes(q)) = Len(q)
    BY <1>1, <1>3
  <1> QED BY <1>1, <1>4 DEF Pushes

LEMMA ConcatIs ==
  ASSUME NEW X, NEW p \in Seq(X), NEW m \in Seq(X)
  PROVE  /\ Len(p) \in Nat /\ Len(m) \in Nat /\ Len(p \o m) = Len(p) + Len(m)
         /\ \A i \in 1 .. Len(p) : (p \o m)[i] = p[i]
         /\ \A i \in Len(p) + 1 .. Len(p \o m) :
              i - Len(p) \in 1 .. Len(m) /\ (p \o m)[i] = m[i - Len(p)]
  OBVIOUS

LEMMA OrderlyConcat ==
  ASSUME NEW C, NEW p \in Seq(Message(C)), NEW q \in Seq(C), NEW L, NEW j, NEW R \in SUBSET C,
         Orderly(p, L, j, R)
  PROVE  Orderly(p \o Pushes(q), L, j, C)
  <1> DEFINE m == Pushes(q)
             s == p \o m
  <1>1. /\ m \in Seq(Message(C)) /\ Len(m) = Len(q)
        /\ \A i \in 1 .. Len(m) : m[i].kind = "new" /\ m[i].entries = {q[i]} /\ q[i] \in C
    BY PushesIs
  <1> HIDE DEF m
  <1>2. /\ Len(p) \in Nat /\ Len(m) \in Nat /\ Len(s) = Len(p) + Len(m)
        /\ \A i \in 1 .. Len(p) : s[i] = p[i]
        /\ \A i \in Len(p) + 1 .. Len(s) : i - Len(p) \in 1 .. Len(m) /\ s[i] = m[i - Len(p)]
    <2> HIDE DEF s
    <2>1. m \in Seq(Message(C))
      BY <1>1
    <2> QED BY <2>1, ConcatIs DEF s
  <1> HIDE DEF s
  <1>3. ASSUME NEW i \in 1 .. Len(s)
        PROVE  \/ i \in 1 .. Len(p) /\ s[i] = p[i]
               \/ s[i].kind = "new" /\ \E e \in C : s[i].entries = {e}
    <2>1. i \in 1 .. Len(p) \/ i \in Len(p) + 1 .. Len(s)
      BY <1>2
    <2>2. CASE i \in 1 .. Len(p)
      BY <1>2, <2>2
    <2>3. CASE i \in Len(p) + 1 .. Len(s)
      <3> DEFINE h == i - Len(p)
      <3>1. h \in 1 .. Len(m) /\ s[i] = m[h]
        BY <1>2, <2>3
      <3> HIDE DEF h
      <3>2. m[h].kind = "new" /\ m[h].entries = {q[h]} /\ q[h] \in C
        BY <1>1, <3>1
      <3> QED BY <3>1, <3>2
    <2> QED BY <2>1, <2>2, <2>3
  <1>4. BringsStored(s, C)
    BY <1>3 DEF Orderly, BringsStored
  <1>5. FullAsked(s, L, j)
    <2> SUFFICES ASSUME NEW i \in 1 .. Len(s), s[i].kind = "full"
                 PROVE  /\ j = "asked" /\ L \subseteq s[i].entries
                        /\ \A h \in 1 .. i - 1 : s[h].entries \subseteq s[i].entries
                        /\ \A h \in 1 .. Len(s) : s[h].kind = "full" => h = i
      BY DEF FullAsked
    <2>1. i \in 1 .. Len(p) /\ s[i] = p[i]
      BY <1>3
    <2>2. \A h \in 1 .. i - 1 : s[h] = p[h]
      BY <1>2, <2>1
    <2>3. \A h \in 1 .. Len(s) : s[h].kind = "full" => h \in 1 .. Len(p) /\ s[h] = p[h]
      BY <1>3
    <2> QED BY <2>1, <2>2, <2>3 DEF Orderly, FullAsked
  <1> QED BY <1>4, <1>5 DEF Orderly, s, m

LEMMA ExpectConcat ==
  ASSUME NEW C, NEW p \in Seq(Message(C)), NEW q \in Seq(C),
         \A i \in 1 .. Len(p) : ~HasGenesis(p[i].entries),
         NEW g \in 1 .. Len(q), q[g].type = "Genesis",
         \A i \in 1 .. Len(q) : q[i].type = "Genesis" => i = g
  PROVE  Expecting(p \o Pushes(q))
  <1> DEFINE m == Pushes(q)
             s == p \o m
             k == Len(p) + g
  <1>1. /\ m \in Seq(Message(C)) /\ Len(m) = Len(q)
        /\ \A i \in 1 .. Len(m) : m[i].kind = "new" /\ m[i].entries = {q[i]} /\ q[i] \in C
    BY PushesIs
  <1> HIDE DEF m
  <1>2. /\ Len(p) \in Nat /\ Len(m) \in Nat /\ Len(s) = Len(p) + Len(m)
        /\ \A i \in 1 .. Len(p) : s[i] = p[i]
        /\ \A i \in Len(p) + 1 .. Len(s) : i - Len(p) \in 1 .. Len(m) /\ s[i] = m[i - Len(p)]
    <2> HIDE DEF s
    <2>1. m \in Seq(Message(C))
      BY <1>1
    <2> QED BY <2>1, ConcatIs DEF s
  <1> HIDE DEF s
  <1>3. k \in 1 .. Len(s) /\ k \in Len(p) + 1 .. Len(s) /\ k - Len(p) = g
    BY <1>1, <1>2
  <1> HIDE DEF k
  <1>4. s[k].kind = "new" /\ HasGenesis(s[k].entries)
    BY <1>1, <1>2, <1>3 DEF HasGenesis
  <1>5. ASSUME NEW i \in 1 .. k - 1 PROVE ~HasGenesis(s[i].entries)
    <2>1. CASE i \in 1 .. Len(p)
      BY <1>2, <2>1
    <2>2. CASE i \notin 1 .. Len(p)
      <3> DEFINE h == i - Len(p)
      <3>1. i \in Len(p) + 1 .. Len(s) /\ h # g /\ h \in Int
        BY <1>2, <1>3, <2>2
      <3>2. h \in 1 .. Len(m) /\ s[i] = m[h]
        BY <1>2, <3>1
      <3> HIDE DEF h
      <3>3. q[h].type # "Genesis" /\ s[i].entries = {q[h]}
        BY <1>1, <3>1, <3>2
      <3> QED BY <3>3 DEF HasGenesis
    <2> QED BY <2>1, <2>2
  <1>6. ASSUME NEW i \in k + 1 .. Len(s) PROVE s[i].kind # "entries"
    <2>1. i \in Len(p) + 1 .. Len(s)
      BY <1>2, <1>3
    <2> QED BY <1>1, <1>2, <2>1
  <1>7. Expecting(s)
    BY <1>3, <1>4, <1>5, <1>6 DEF Expecting
  <1> QED BY <1>7 DEF s, m

\* The founder's first sync brings the genesis entry to the relay, and all the
\* others with it.
LEMMA FounderSyncs ==
  ASSUME Reliable, ConvergenceInv, ChainInv', ~HasGenesis(store), refresh[Founder] = "syncing",
         inbox[Founder] # <<>>,
         UNCHANGED <<created, ledger, cache, joining, conn>>,
         refresh' = [refresh EXCEPT ![Founder] = "idle"],
         NEW r \in Republished(created), store' = store \cup ToSet(r),
         inbox' = [Pushed(Founder, r) EXCEPT ![Founder] = Tail(@)]
  PROVE  ConvergenceInv'
  <1>1. /\ Founder \in Device /\ ledger[Founder] = created /\ conn[Founder]
        /\ created # {} /\ joining[Founder] = "no"
        /\ \A x \in Device \ {Founder} : ledger[x] = {}
        /\ \A x \in Device : Held(x) /\ OnItsWay(x)
    <2>1. Founder \in Device
      BY SplitLedgerAssumption
    <2>2. ledger[Founder] # {}
      BY <2>1 DEF ConvergenceInv, Held
    <2> QED BY <2>1, <2>2, InFlightConnected DEF ConvergenceInv, Unsynced
  <1>2. /\ inbox \in Inboxes(created) /\ store \in SUBSET created
        /\ \A x \in Device : inbox[x] \in Seq(Message(created))
    BY ChainFacts DEF Reliable, ConvergenceInv
  <1>3. /\ ToSet(r) = Unsent(created) /\ r \in Seq(created)
        /\ \A i, j \in 1 .. Len(r) : r[i] = r[j] => i = j
    BY AllRepublished
  <1>4. store' = created
    BY <1>2, <1>3 DEF Unsent
  <1>5. HasGenesis(created)
    BY <1>1, FounderActive DEF Reliable, ConvergenceInv
  <1>6. inbox'[Founder] = Tail(inbox[Founder])
    <2>1. Pushed(Founder, r)[Founder] = inbox[Founder] /\ DOMAIN Pushed(Founder, r) = Device
      BY <1>1 DEF Pushed
    <2> QED BY <1>1, <2>1
  <1>7. ASSUME NEW x \in Device \ {Founder}
        PROVE  inbox'[x] = IF conn[x] THEN inbox[x] \o Pushes(r) ELSE inbox[x]
    <2>1. inbox'[x] = Pushed(Founder, r)[x]
      BY DEF Pushed
    <2> QED BY <1>1, <2>1 DEF Pushed, Pushes
  <1>8. refresh'[Founder] = "idle" /\ \A x \in Device \ {Founder} : refresh'[x] = refresh[x]
    BY <1>1, Domains DEF ConvergenceInv
  <1>9. PICK g \in 1 .. Len(r) : r[g].type = "Genesis" /\ \A i \in 1 .. Len(r) : r[i].type = "Genesis" => i = g
    <2>1. PICK e \in created : e.type = "Genesis"
      BY <1>5 DEF HasGenesis
    <2>2. e \in ToSet(r)
      BY <1>3, <2>1 DEF Unsent, HasGenesis
    <2>3. DOMAIN r = 1 .. Len(r)
      BY <1>3
    <2>4. PICK g \in 1 .. Len(r) : r[g] = e
      BY <2>2, <2>3 DEF ToSet
    <2>5. \A i \in 1 .. Len(r) : r[i] \in created
      BY <1>3
    <2>6. \A i \in 1 .. Len(r) : r[i].type = "Genesis" => r[i] = e
      BY <2>1, <2>5, OneGenesis DEF Reliable, ConvergenceInv
    <2> QED BY <1>3, <2>1, <2>4, <2>6
  <1>10. Held(Founder)' /\ OnItsWay(Founder)'
    <2>1. Held(Founder)'
      BY <1>1, <1>8 DEF Held
    <2>2. Orderly(inbox[Founder], created, "no", store)
      BY <1>1 DEF OnItsWay
    <2>3. Orderly(Tail(inbox[Founder]), created, "no", store)
      BY <1>1, <1>2, <2>2, OrderlyDrop
    <2>4. Orderly(Tail(inbox[Founder]), created, "no", created)
      BY <1>2, <2>3 DEF Orderly, BringsStored
    <2> QED BY <1>1, <1>4, <1>6, <2>1, <2>4 DEF OnItsWay
  <1>11. ASSUME NEW x \in Device \ {Founder}
         PROVE  Held(x)' /\ OnItsWay(x)'
    <2>1. Held(x) /\ OnItsWay(x)
      BY <1>1
    <2>2. Held(x)'
      BY <1>8, <2>1 DEF Held
    <2>3. CASE conn[x]
      <3>1. Orderly(inbox[x] \o Pushes(r), ledger[x], joining[x], created)
        BY <1>2, <1>3, <2>1, OrderlyConcat DEF OnItsWay
      <3> QED BY <1>4, <1>7, <2>2, <2>3, <3>1 DEF OnItsWay
    <2>4. CASE ~conn[x]
      <3>1. Orderly(inbox[x], ledger[x], joining[x], created)
        BY <1>2, <2>1 DEF OnItsWay, Orderly, BringsStored
      <3> QED BY <1>4, <1>7, <2>1, <2>2, <2>4, <3>1 DEF OnItsWay
    <2> QED BY <2>3, <2>4
  <1>12. ASSUME NEW x \in Device, conn[x]
         PROVE  Coming(ledger[x], inbox'[x], created)
    <2>1. CASE x = Founder
      <3>1. Tail(inbox[Founder]) \in Seq(Message(created))
        BY <1>1, <1>2
      <3>2. Anchored(created, Tail(inbox[Founder]), created)
        BY <3>1, AnchorNothing
      <3> QED BY <1>1, <1>6, <2>1, <3>2 DEF Coming
    <2>2. CASE x # Founder
      <3>1. \A i \in 1 .. Len(inbox[x]) : inbox[x][i].entries \subseteq store
        BY <1>1 DEF OnItsWay, Orderly, BringsStored
      <3>2. \A i \in 1 .. Len(inbox[x]) : ~HasGenesis(inbox[x][i].entries)
        BY <3>1 DEF HasGenesis
      <3>3. Expecting(inbox[x] \o Pushes(r))
        BY <1>2, <1>3, <1>9, <3>2, ExpectConcat
      <3> QED BY <1>1, <1>7, <1>12, <2>2, <3>3 DEF Coming
    <2> QED BY <2>1, <2>2
  <1>13. Unsynced' /\ Synced'
    BY <1>1, <1>4, <1>5, <1>12 DEF Unsynced, Synced
  <1> QED BY <1>1, <1>10, <1>11, <1>13 DEF ConvergenceInv

LEMMA syncWithRelayDoneConverges ==
  ASSUME Reliable, ConvergenceInv, ChainInv', NEW d \in Device, syncWithRelayDone(d)
  PROVE  ConvergenceInv'
  <1> DEFINE q == inbox[d]
  <1>1. /\ q # <<>> /\ Head(q).entries = {}
        /\ UNCHANGED <<created, ledger, cache, joining, conn>>
    BY DEF syncWithRelayDone
  <1>2. /\ q \in Seq(Message(created)) /\ inbox \in Inboxes(created) /\ store \in SUBSET created
        /\ Held(d) /\ OnItsWay(d) /\ conn[d]
    BY <1>1, InFlightConnected, ChainFacts DEF Reliable, ConvergenceInv
  <1>3. CASE /\ inbox' = [inbox EXCEPT ![d] = Tail(q)] /\ store' = store
             /\ \/ refresh' = refresh
                \/ refresh' = [refresh EXCEPT ![d] = "idle"] /\ (d # Founder \/ HasGenesis(store))
    <2>1. /\ OnlyDevice(d) /\ inbox'[d] = Tail(q)
          /\ ledger'[d] = ledger[d] /\ cache'[d] = cache[d] /\ joining'[d] = joining[d]
          /\ conn'[d] = conn[d]
          /\ \/ refresh'[d] = refresh[d]
             \/ refresh'[d] = "idle" /\ (d # Founder \/ HasGenesis(store))
      BY <1>1, <1>3, Domains DEF OnlyDevice, ConvergenceInv
    <2>2. Held(d)'
      BY <1>2, <2>1 DEF Held
    <2>3. Orderly(Tail(q), ledger[d], joining[d], store)
      <3>1. ledger[d] \subseteq ledger[d] \cup Head(q).entries
        OBVIOUS
      <3> QED BY <1>1, <1>2, <3>1, OrderlyDrop DEF OnItsWay
    <2>4. OnItsWay(d)'
      BY <1>2, <1>3, <2>1, <2>3 DEF OnItsWay
    <2>5. HasGenesis(store) => Coming(ledger[d], Tail(q), created)
      BY <1>1, <1>2, EmptyDropped DEF ConvergenceInv, Synced
    <2>6. created # {}
      BY <1>2 DEF ConvergenceInv
    <2> QED BY <1>1, <1>2, <1>3, <2>1, <2>2, <2>4, <2>5, <2>6, DeviceKeeps
            DEF ConvergenceInv, Unsynced
  <1>4. CASE refresh[d] # "syncing"
    BY <1>3, <1>4 DEF syncWithRelayDone
  <1>5. CASE refresh[d] = "syncing"
    <2>1. PICK r \in Republished(ledger[d]) :
            /\ store' = store \cup ToSet(r)
            /\ inbox' = [Pushed(d, r) EXCEPT ![d] = Tail(@)]
            /\ refresh' = [refresh EXCEPT ![d] = "idle"]
      BY <1>5 DEF syncWithRelayDone
    <2>2. CASE d # Founder \/ HasGenesis(store)
      <3>1. ledger[d] \subseteq store
        BY <2>2, LedgerIsStored
      <3>2. ToSet(r) = {} /\ Pushed(d, r) = inbox
        BY <1>2, <3>1, NothingUnsent
      <3> QED BY <1>3, <2>1, <2>2, <3>2
    <2>3. CASE d = Founder /\ ~HasGenesis(store)
      <3>1. ledger[d] = created
        BY <2>3 DEF ConvergenceInv, Unsynced
      <3> QED BY <1>1, <1>5, <2>1, <2>3, <3>1, FounderSyncs
    <2> QED BY <2>2, <2>3
  <1> QED BY <1>4, <1>5

-----------------------------------------------------------------------------
(* Writing.                                                                *)

LEMMA OrderlyEmpty ==
  ASSUME NEW L, NEW j, NEW R
  PROVE  Orderly(<<>>, L, j, R)
  <1>1. Len(<<>>) = 0 /\ 1 .. 0 = {}
    OBVIOUS
  <1> QED BY <1>1 DEF Orderly, BringsStored, FullAsked

LEMMA createGroupConverges ==
  ASSUME Reliable, ConvergenceInv, ChainInv', NEW d \in Device, createGroup(d)
  PROVE  ConvergenceInv'
  <1> DEFINE g(ts) == [id |-> 1, prev |-> NoHash, clock |-> 0, ts |-> ts,
                       type |-> "Genesis", dev |-> d,
                       payload |-> [member |-> Owner[d]]]
  <1>1. PICK ts \in Stamp : /\ created' = {g(ts)}
                            /\ ledger' = [ledger EXCEPT ![d] = {g(ts)}]
                            /\ refreshGroups(d, {g(ts)}, cache[d], store, inbox, disk)
    BY DEF createGroup
  <1> DEFINE e == g(ts)
  <1> HIDE DEF g
  <1>2. /\ d = Founder /\ created = {} /\ MaxEntries > 0
        /\ UNCHANGED <<joining, conn, store>>
    BY DEF createGroup
  <1>3. /\ store = {} /\ \A x \in Device : /\ ledger[x] = {} /\ ~conn[x] /\ inbox[x] = <<>>
                                           /\ Held(x) /\ OnItsWay(x)
    BY <1>2, ChainFacts DEF Reliable, ConvergenceInv, OnItsWay
  <1>4. ledger'[d] = {e} /\ ChainValid({e}) /\ \A x \in Device \ {d} : ledger'[x] = {}
    <2>1. ledger'[d] = {e} /\ \A x \in Device \ {d} : ledger'[x] = ledger[x]
      BY <1>1, Domains DEF ConvergenceInv
    <2>2. ChainValid(ledger'[d])
      BY NextFacts DEF Reliable
    <2> QED BY <1>3, <2>1, <2>2
  <1>5. /\ cache' = [cache EXCEPT ![d] = StateOf({e})] /\ inbox' = inbox
        /\ refresh' = [refresh EXCEPT ![d] = "connecting"]
    BY <1>1, <1>3, <1>4 DEF refreshGroups
  <1>6. /\ cache'[d] = StateOf({e}) /\ refresh'[d] = "connecting"
        /\ \A x \in Device \ {d} : cache'[x] = cache[x] /\ refresh'[x] = refresh[x]
    BY <1>5, Domains DEF ConvergenceInv
  <1>7. \A x \in Device : Held(x)'
    BY <1>2, <1>3, <1>4, <1>6 DEF Held
  <1>8. \A x \in Device : OnItsWay(x)'
    BY <1>2, <1>3, <1>5, OrderlyEmpty DEF OnItsWay
  <1>9. ~HasGenesis(store')
    BY <1>2, <1>3 DEF HasGenesis
  <1>10. Unsynced' /\ Synced'
    BY <1>1, <1>2, <1>4, <1>6, <1>9 DEF Unsynced, Synced
  <1>11. Cardinality(created') <= MaxEntries
    <2>1. Cardinality({e}) = 1
      BY FS_Singleton
    <2> QED BY <1>1, <1>2, <2>1, SplitLedgerAssumption
  <1>12. joining'[Founder] = "no" /\ created' # {}
    BY <1>1, <1>2 DEF ConvergenceInv
  <1> QED BY <1>7, <1>8, <1>10, <1>11, <1>12 DEF ConvergenceInv

\* No full ledger is on its way to a page that has not asked.
LEMMA OrderlyOther ==
  ASSUME NEW q, NEW L, NEW j, NEW R, NEW M, NEW i, NEW Q, Orderly(q, L, j, R),
         j # "asked", R \subseteq Q
  PROVE  Orderly(q, M, i, Q)
  <1>1. \A h \in 1 .. Len(q) : q[h].kind # "full"
    BY DEF Orderly, FullAsked
  <1>2. FullAsked(q, M, i)
    BY <1>1 DEF FullAsked
  <1>3. BringsStored(q, Q)
    BY DEF Orderly, BringsStored
  <1> QED BY <1>2, <1>3 DEF Orderly

\* A device that has what is missing.
LEMMA AnchorWith ==
  ASSUME NEW L, NEW M, L \subseteq M, NEW q, NEW C, NEW D, D \subseteq M \cup C, Anchored(L, q, C)
  PROVE  Anchored(M, q, D)
  <1>1. PICK k \in 1 .. Len(q) + 1 : Anchor(L, q, k, C)
    BY DEF Anchored
  <1>2. Anchor(M, q, k, C)
    BY <1>1, AnchorMore
  <1>3. Anchor(M, q, k, D)
    BY <1>2 DEF Anchor
  <1> QED BY <1>3 DEF Anchored

\* Another device is pushed the entry e.
LEMMA ComingPushed ==
  ASSUME NEW D, NEW q \in Seq(Message(D)), NEW L, NEW C \in SUBSET D, NEW e \in D,
         D = C \cup {e}, AllSupported(D), Coming(L, q, C)
  PROVE  Coming(L, q \o Pushes(<<e>>), D)
  <1> DEFINE m == [kind |-> "new", entries |-> {e}]
  <1>1. m \in Message(D) /\ m.entries = {e} /\ m.kind = "new"
    BY DEF Message
  <1>2. q \o Pushes(<<e>>) = Append(q, m)
    <2> DEFINE r == <<e>>
    <2>1. r \in Seq(D) /\ Len(r) = 1 /\ r[1] = e
      OBVIOUS
    <2> HIDE DEF r
    <2>2. Pushes(r) \in Seq(Message(D)) /\ Len(Pushes(r)) = 1
      BY <2>1, PushesIs
    <2>3. Pushes(r)[1] = m
      <3>1. 1 \in DOMAIN r
        BY <2>1
      <3> QED BY <2>1, <3>1 DEF Pushes
    <2>4. Pushes(r) = <<m>>
      BY <2>2, <2>3
    <2>5. q \o <<m>> = Append(q, m)
      BY <1>1
    <2> QED BY <2>4, <2>5 DEF r
  <1> HIDE DEF m
  <1>3. CASE Anchored(L, q, C)
    <2>1. m.entries \subseteq D /\ C \subseteq D /\ D \subseteq L \cup C \cup m.entries
      BY <1>1
    <2>2. Anchored(L, Append(q, m), D)
      BY <1>1, <1>3, <2>1, AnchorAppend
    <2> QED BY <1>2, <2>2 DEF Coming
  <1>4. CASE L = {} /\ Expecting(q)
    BY <1>1, <1>2, <1>4, ExpectAppend DEF Coming
  <1> QED BY <1>3, <1>4 DEF Coming

LEMMA MessagesMore ==
  ASSUME NEW C, NEW D, C \subseteq D, NEW q \in Seq(Message(C))
  PROVE  q \in Seq(Message(D))
  <1>1. Message(C) \subseteq Message(D)
    BY DEF Message
  <1> QED BY <1>1

LEMMA InboxStored ==
  ASSUME NEW C, NEW q \in Seq(Message(C)), NEW R, BringsStored(q, R), NEW Q, R \subseteq Q
  PROVE  q \in Seq(Message(Q))
  <1>1. ASSUME NEW i \in 1 .. Len(q) PROVE q[i] \in Message(Q)
    <2>1. q[i] \in Message(C) /\ q[i].entries \subseteq Q
      BY DEF BringsStored
    <2> QED BY <2>1 DEF Message
  <1> QED BY <1>1

\* A device writes the entry e, broadcasts it and refreshes, or, when it settles,
\* derives the state only.
Sends(d, e) ==
  /\ e \notin created /\ e.type # "Genesis"
  /\ created' = created \cup {e}
  /\ ledger' = [ledger EXCEPT ![d] = ledger[d] \cup {e}]
  /\ conn' = conn
  /\ store' = StoreAfter(d, e)
  /\ \/ refreshGroups(d, ledger[d] \cup {e}, cache[d], StoreAfter(d, e), PushAfter(d, e), disk)
     \/ /\ inbox' = PushAfter(d, e) /\ refresh' = refresh
        /\ cache' = [cache EXCEPT ![d] = IF ChainValid(ledger[d] \cup {e})
                                        THEN StateOf(ledger[d] \cup {e}) ELSE cache[d]]

LEMMA WriteSends ==
  ASSUME IdsOnce, NEW d \in Device, NEW type, type # "Genesis", NEW payload,
         Write(d, type, payload)
  PROVE  ledger[d] # {} /\ \E e : Sends(d, e)
  <1>1. PICK last \in ledger[d], ts \in Stamp :
          Broadcast(d, buildEntry(d, last, ts, type, payload), editing[d])
    BY DEF Write, WriteAmid
  <1> DEFINE e == buildEntry(d, last, ts, type, payload)
  <1>2. e.type = type /\ e.id = Cardinality(created) + 1
    BY DEF buildEntry
  <1> HIDE DEF e
  <1>3. e \notin created
    <2>1. Cardinality(created) \in Nat
      BY FS_CardinalityType DEF IdsOnce
    <2> QED BY <1>2, <2>1 DEF IdsOnce
  <1>4. Broadcast(d, e, editing[d])
    BY <1>1 DEF e
  <1>5. Sends(d, e)
    BY <1>2, <1>3, <1>4 DEF Sends, Broadcast, appendEntry
  <1> QED BY <1>1, <1>5

\* What a connected device sends is stored: there is room, and no entry of the
\* device has the same clock.
LEMMA SentIsStored ==
  ASSUME Reliable, ConvergenceInv, ChainInv', NEW d \in Device, NEW e, Sends(d, e),
         Cardinality(created) < MaxEntries
  PROVE  /\ Published(d, e) <=> conn[d]
         /\ Cardinality(created') <= MaxEntries
  <1>1. IsFiniteSet(created) /\ store \in SUBSET created /\ Cardinality(created) \in Nat
    <2>1. IsFiniteSet(created) /\ store \in SUBSET created
      BY DEF ConvergenceInv, ChainInv, ClockInv, LinkedInv, IdsOnce, StorageTypeOK
    <2> QED BY <2>1, FS_CardinalityType
  <1>2. MaxEntries \in Nat /\ RelayLimit \in Nat /\ MaxEntries <= RelayLimit
    BY SplitLedgerAssumption DEF Reliable
  <1>3. Cardinality(store) < RelayLimit
    <2>1. Cardinality(store) <= Cardinality(created) /\ IsFiniteSet(store)
      BY <1>1, FS_Subset
    <2>2. Cardinality(store) \in Nat
      BY <2>1, FS_CardinalityType
    <2> QED BY <1>1, <1>2, <2>1, <2>2
  <1>4. \A f \in store : ~(f.clock = e.clock /\ f.dev = e.dev)
    <2>1. created' = created \cup {e} /\ e \notin created
      BY DEF Sends
    <2>2. \A f, g \in created' : f.dev = g.dev /\ f.clock = g.clock => f = g
      BY DEF ChainInv, ClockInv, ClocksDistinct
    <2> QED BY <1>1, <2>1, <2>2
  <1>5. Storable(e, store)
    BY <1>3, <1>4 DEF Storable
  <1>6. Cardinality(created') = Cardinality(created) + 1
    BY <1>1, FS_AddElement DEF Sends
  <1> QED BY <1>1, <1>2, <1>5, <1>6 DEF Published

LEMMA SendsConverges ==
  ASSUME Reliable, ConvergenceInv, ChainInv', NEW d \in Device, NEW e, Sends(d, e),
         Cardinality(created) < MaxEntries, ledger[d] # {}, joining[d] # "asked",
         joining'[d] # "asked", d = Founder => joining'[d] = "no",
         \A x \in Device \ {d} : joining'[x] = joining[x]
  PROVE  ConvergenceInv'
  <1> DEFINE L == ledger[d] \cup {e}
             c == StateOf(L).clock
             P == inbox[d]
  <1>1. /\ e \notin created /\ e.type # "Genesis" /\ created' = created \cup {e} /\ conn' = conn
        /\ ledger' = [ledger EXCEPT ![d] = L]
        /\ store' = IF conn[d] THEN store \cup {e} ELSE store
        /\ \/ refreshGroups(d, L, cache[d], store', PushAfter(d, e), disk)
           \/ /\ inbox' = PushAfter(d, e) /\ refresh' = refresh
              /\ cache' = [cache EXCEPT ![d] = IF ChainValid(L) THEN StateOf(L) ELSE cache[d]]
    BY SentIsStored DEF Sends, StoreAfter
  <1>2. /\ inbox \in Inboxes(created) /\ store \in SUBSET created /\ created # {}
        /\ \A x \in Device : inbox[x] \in Seq(Message(created)) /\ ledger[x] \subseteq created
    BY ChainFacts DEF Reliable, ConvergenceInv
  <1>3. /\ ledger'[d] = L /\ \A x \in Device \ {d} : ledger'[x] = ledger[x]
        /\ L # {} /\ ChainValid(L)
    <2>1. ledger'[d] = L /\ \A x \in Device \ {d} : ledger'[x] = ledger[x]
      BY <1>1, Domains DEF ConvergenceInv
    <2> QED BY <2>1, NextFacts DEF Reliable
  <1> HIDE DEF L
  <1>4. PushAfter(d, e) = [x \in Device |-> IF conn[d] /\ conn[x] /\ x # d
                                            THEN inbox[x] \o Pushes(<<e>>) ELSE inbox[x]]
    <2>1. CASE conn[d]
      BY <2>1, SentIsStored DEF PushAfter, Pushed, Pushes
    <2>2. CASE ~conn[d]
      <3>1. PushAfter(d, e) = inbox
        BY <2>2, SentIsStored DEF PushAfter
      <3>2. inbox = [x \in Device |-> inbox[x]]
        BY <1>2 DEF Inboxes
      <3> QED BY <2>2, <3>1, <3>2
    <2> QED BY <2>1, <2>2
  <1> DEFINE busy == IF conn[d] THEN "syncing" ELSE "connecting"
             A == IF conn[d] THEN AnswerTo(P, store', c) ELSE P
  <1>5. /\ cache' = [cache EXCEPT ![d] = StateOf(L)]
        /\ \/ IF conn[d]
              THEN /\ refresh' = [refresh EXCEPT ![d] = "syncing"]
                   /\ inbox' = [PushAfter(d, e) EXCEPT ![d] = AnswerTo(@, store', c)]
              ELSE /\ refresh' = [refresh EXCEPT ![d] = "connecting"]
                   /\ inbox' = PushAfter(d, e)
           \/ inbox' = PushAfter(d, e) /\ refresh' = refresh
    BY <1>1, <1>3 DEF refreshGroups
  <1> HIDE DEF c
  <1>6. /\ cache'[d] = StateOf(L) /\ refresh'[d] \in {refresh[d], busy}
        /\ \A x \in Device \ {d} : cache'[x] = cache[x] /\ refresh'[x] = refresh[x]
    BY <1>5, Domains DEF ConvergenceInv
  <1>7. /\ inbox'[d] \in {P, A}
        /\ \A x \in Device \ {d} : inbox'[x] = IF conn[d] /\ conn[x] THEN inbox[x] \o Pushes(<<e>>)
                                                                     ELSE inbox[x]
    BY <1>4, <1>5
  <1>8. \A x \in Device : inbox[x] \in Seq(Message(created'))
    BY <1>1, <1>2, MessagesMore
  <1>9. AllSupported(created') /\ store' \in SUBSET created'
    BY NextFacts DEF Reliable
  <1>10. \A x \in Device : Held(x)'
    <2> TAKE x \in Device
    <2>1. CASE x = d
      <3>1. refresh'[d] = "connecting" => ~conn[d]
        <4>1. refresh[d] = "connecting" => ~conn[d]
          BY DEF Held, ConvergenceInv
        <4> QED BY <1>6, <4>1
      <3> QED BY <1>1, <1>3, <1>6, <2>1, <3>1 DEF Held
    <2>2. CASE x # d
      BY <1>1, <1>3, <1>6, <2>2 DEF Held, ConvergenceInv
    <2> QED BY <2>1, <2>2
  <1>11. ASSUME NEW x \in Device
         PROVE  OnItsWay(x)'
    <2>1. OnItsWay(x)
      BY DEF ConvergenceInv
    <2>2. CASE x = d
      <3>1. Orderly(P, L, joining'[d], store')
        BY <1>1, <2>1, <2>2, OrderlyOther DEF OnItsWay
      <3>2. Orderly(AnswerTo(P, store', c), L, joining'[d], store')
        BY <1>8, <1>9, <3>1, OrderlyAnswer
      <3> QED BY <1>1, <1>3, <1>7, <2>1, <2>2, <3>1, <3>2 DEF OnItsWay
    <2>3. CASE x # d /\ conn[d] /\ conn[x]
      <3>1. e \in store'
        BY <1>1, <2>3
      <3>2. <<e>> \in Seq(store') /\ inbox[x] \in Seq(Message(store'))
        <4>1. BringsStored(inbox[x], store) /\ store \subseteq store'
          BY <1>1, <2>1 DEF OnItsWay, Orderly
        <4>2. inbox[x] \in Seq(Message(store'))
          BY <1>2, <4>1, InboxStored
        <4>3. <<e>> \in Seq(store')
          BY <3>1
        <4> QED BY <4>2, <4>3
      <3>3. Orderly(inbox[x], ledger[x], joining[x], store) /\ store \in SUBSET store'
        BY <1>1, <2>1 DEF OnItsWay
      <3>4. Orderly(inbox[x] \o Pushes(<<e>>), ledger[x], joining[x], store')
        BY <3>2, <3>3, OrderlyConcat
      <3> QED BY <1>1, <1>3, <1>7, <2>3, <3>4 DEF OnItsWay
    <2>4. CASE x # d /\ ~(conn[d] /\ conn[x])
      <3>1. Orderly(inbox[x], ledger[x], joining[x], store')
        BY <1>1, <2>1 DEF OnItsWay, Orderly, BringsStored
      <3> QED BY <1>1, <1>3, <1>7, <2>1, <2>4, <3>1 DEF OnItsWay
    <2> QED BY <2>2, <2>3, <2>4
  <1>12. Unsynced'
    <2> SUFFICES ASSUME ~HasGenesis(store')
                 PROVE  /\ ledger'[Founder] = created'
                        /\ \A x \in Device \ {Founder} : ledger'[x] = {}
                        /\ refresh'[Founder] # "idle"
      BY DEF Unsynced
    <2>1. ~HasGenesis(store)
      BY <1>1 DEF HasGenesis
    <2>2. ledger[Founder] = created /\ \A x \in Device \ {Founder} : ledger[x] = {}
      BY <2>1 DEF ConvergenceInv, Unsynced
    <2>3. d = Founder
      BY <2>2
    <2>4. refresh'[d] # "idle"
      <3>1. refresh[d] # "idle"
        BY <1>2, <2>1, <2>3 DEF ConvergenceInv, Unsynced
      <3> QED BY <1>6, <3>1
    <2> QED BY <1>1, <1>3, <2>2, <2>3, <2>4 DEF L
  <1>13. Synced'
    <2> SUFFICES ASSUME HasGenesis(store')
                 PROVE  /\ store' = created'
                        /\ \A x \in Device : ledger'[x] # {} => conn[x]
                        /\ \A x \in Device : conn[x] => Coming(ledger'[x], inbox'[x], created')
      BY <1>1 DEF Synced
    <2>1. HasGenesis(store)
      BY <1>1 DEF HasGenesis
    <2>2. /\ store = created
          /\ \A x \in Device : /\ ledger[x] # {} => conn[x]
                               /\ conn[x] => Coming(ledger[x], inbox[x], created)
      BY <2>1 DEF ConvergenceInv, Synced
    <2>3. conn[d]
      BY <2>2
    <2>4. store' = created'
      BY <1>1, <2>2, <2>3
    <2>5. \A x \in Device : ledger'[x] # {} => conn[x]
      BY <1>3, <2>2, <2>3
    <2>6. Coming(L, inbox'[d], created')
      <3>1. Anchored(ledger[d], P, created)
        BY <2>2, <2>3 DEF Coming
      <3>2. ledger[d] \subseteq L /\ created' \subseteq L \cup created
        BY <1>1 DEF L
      <3>3. Anchored(L, P, created')
        BY <3>1, <3>2, AnchorWith
      <3>4. Coming(L, AnswerTo(P, created', c), created')
        BY <1>3, <1>8, <1>9, <3>3, ComingAnswer DEF Coming
      <3> QED BY <1>7, <2>3, <2>4, <3>3, <3>4 DEF Coming
    <2>7. ASSUME NEW x \in Device \ {d}, conn[x]
          PROVE  Coming(ledger[x], inbox'[x], created')
      <3>1. Coming(ledger[x], inbox[x], created)
        BY <2>2, <2>7
      <3>2. created \in SUBSET created' /\ e \in created'
        BY <1>1
      <3>3. Coming(ledger[x], inbox[x] \o Pushes(<<e>>), created')
        BY <1>1, <1>8, <1>9, <3>1, <3>2, ComingPushed
      <3> QED BY <1>7, <2>3, <2>7, <3>3
    <2> QED BY <1>3, <1>7, <2>3, <2>4, <2>5, <2>6, <2>7
  <1>14. Cardinality(created') <= MaxEntries
    BY SentIsStored
  <1>15. joining'[Founder] = "no" /\ created' # {}
    <2>1. Founder \in Device
      BY SplitLedgerAssumption
    <2> QED BY <1>1, <2>1 DEF ConvergenceInv
  <1> QED BY <1>10, <1>11, <1>12, <1>13, <1>14, <1>15 DEF ConvergenceInv

LEMMA addExpenseConverges ==
  ASSUME Reliable, ConvergenceInv, ChainInv', NEW d \in Device, addExpense(d)
  PROVE  ConvergenceInv'
  <1> DEFINE payload == NewExpense(Owner[d], page[d].members)
  <1>1. /\ page[d] # NoPage /\ Cardinality(created) < MaxEntries /\ joining' = joining
        /\ Write(d, "ExpenseCreated", payload)
    BY DEF addExpense, Ready
  <1> HIDE DEF payload
  <1>2. IdsOnce /\ joining[d] = "no"
    BY <1>1 DEF ConvergenceInv, ChainInv, ClockInv, LinkedInv, OnePage
  <1>3. ledger[d] # {} /\ \E e : Sends(d, e)
    BY <1>1, <1>2, WriteSends
  <1> QED BY <1>1, <1>2, <1>3, SendsConverges

LEMMA settleUpConverges ==
  ASSUME Reliable, ConvergenceInv, ChainInv', NEW d \in Device, settleUp(d)
  PROVE  ConvergenceInv'
  <1> DEFINE Sent(e) ==
               /\ appendEntry(d, e, editing[d]) /\ store' = StoreAfter(d, e) /\ inbox' = PushAfter(d, e)
               /\ cache' = [cache EXCEPT ![d] = IF ChainValid(ledger[d] \cup {e})
                                               THEN StateOf(ledger[d] \cup {e}) ELSE @]
  <1>1. PICK from, to \in Member, amount \in Amount, last \in ledger[d], ts \in Stamp :
          Sent(buildEntry(d, last, ts, "ExpenseCreated", Settlement(from, to, amount)))
    <2>1. PICK from, to \in Member, amount \in Amount, last \in ledger[d], ts \in Stamp :
            LET e == buildEntry(d, last, ts, "ExpenseCreated", Settlement(from, to, amount))
                L == ledger[d] \cup {e}
            IN /\ [from |-> from, to |-> to, amount |-> amount]
                    \in computeSettlements(computeBalances(ledger[d]))
               /\ IsLatest(last, ledger[d])
               /\ appendEntry(d, e, editing[d])
               /\ store' = StoreAfter(d, e)
               /\ inbox' = PushAfter(d, e)
               /\ cache' = [cache EXCEPT ![d] = IF ChainValid(L) THEN StateOf(L) ELSE @]
      <3> HIDE DEF Sent
      <3> QED BY DEF settleUp
    <2>2. Sent(buildEntry(d, last, ts, "ExpenseCreated", Settlement(from, to, amount)))
      BY <2>1
    <2> HIDE DEF Sent
    <2> QED BY <2>2
  <1> DEFINE e == buildEntry(d, last, ts, "ExpenseCreated", Settlement(from, to, amount))
  <1>2. /\ Cardinality(created) < MaxEntries /\ joining[d] = "no"
        /\ joining' = joining /\ refresh' = refresh
    BY DEF settleUp, Ready, Free
  <1>3. e.type = "ExpenseCreated" /\ e.id = Cardinality(created) + 1
    BY DEF buildEntry
  <1> HIDE DEF e
  <1>4. e \notin created
    <2>1. IdsOnce /\ Cardinality(created) \in Nat
      BY FS_CardinalityType DEF IdsOnce, ConvergenceInv, ChainInv, ClockInv, LinkedInv
    <2> QED BY <1>3, <2>1 DEF IdsOnce
  <1>5. /\ appendEntry(d, e, editing[d]) /\ store' = StoreAfter(d, e) /\ inbox' = PushAfter(d, e)
        /\ cache' = [cache EXCEPT ![d] = IF ChainValid(ledger[d] \cup {e})
                                        THEN StateOf(ledger[d] \cup {e}) ELSE cache[d]]
    BY <1>1 DEF e
  <1>6. Sends(d, e)
    BY <1>2, <1>3, <1>4, <1>5 DEF Sends, appendEntry
  <1> QED BY <1>2, <1>6, SendsConverges

LEMMA joinGroupConverges ==
  ASSUME Reliable, ConvergenceInv, ChainInv', NEW d \in Device, joinGroup(d)
  PROVE  ConvergenceInv'
  <1>1. PICK inviter \in Member :
          Write(d, "MemberAdded", [member |-> Owner[d], inviter |-> inviter])
    BY DEF joinGroup
  <1>2. /\ joining[d] = "synced" /\ Cardinality(created) < MaxEntries
        /\ joining' = [joining EXCEPT ![d] = "no"]
    BY DEF joinGroup
  <1>3. IdsOnce
    BY DEF ConvergenceInv, ChainInv, ClockInv, LinkedInv
  <1> DEFINE payload == [member |-> Owner[d], inviter |-> inviter]
  <1>4. Write(d, "MemberAdded", payload)
    BY <1>1
  <1> HIDE DEF payload
  <1>5. ledger[d] # {} /\ \E e : Sends(d, e)
    BY <1>3, <1>4, WriteSends
  <1>6. joining'[d] = "no" /\ \A x \in Device \ {d} : joining'[x] = joining[x]
    BY <1>2, Domains DEF ConvergenceInv
  <1> QED BY <1>2, <1>5, <1>6, SendsConverges

-----------------------------------------------------------------------------
(* Convergence.                                                            *)

LEMMA NextConverges ==
  ASSUME Reliable, ConvergenceInv, [Next]_vars
  PROVE  ConvergenceInv'
  <1>1. ChainInv'
    BY NextChain DEF Reliable, ConvergenceInv
  <1>2. CASE UNCHANGED vars
    BY <1>1, <1>2 DEF vars, ConvergenceInv, Held, OnItsWay, Unsynced, Synced
  <1>3. ~pruneOldEntries
    BY DEF pruneOldEntries, Fault, Reliable
  <1>4. ASSUME NEW d \in Device, Step(d)
        PROVE  ConvergenceInv'
    <2>1. /\ ~editExpense(d) /\ ~removeMember(d) /\ ~authorizeDevice(d)
          /\ ~revokeDevice(d) /\ ~completeRecovery(d)
      BY DEF Reliable, StableGroup, editExpense, removeMember, authorizeDevice,
             revokeDevice, completeRecovery
    <2>2. ~finishEdit(d) /\ ~editFails(d)
      <3>1. EditsHeld /\ "edit" \notin Ops
        BY DEF Reliable, StableGroup, ConvergenceInv, ChainInv, ClockInv, LinkedInv
      <3> QED BY <3>1 DEF EditsHeld, finishEdit, editFails
    <2>3. /\ ~connectFails(d) /\ ~disconnect(d) /\ ~reload(d) /\ ~deleteGroup(d)
      BY DEF Reliable, connectFails, disconnect, reload, deleteGroup, Fault
    <2>4. ~reconnect(d)
      <3> SUFFICES ASSUME ~conn[d], refresh[d] = "idle", ledger[d] # {} PROVE FALSE
        BY DEF reconnect
      <3>1. created # {}
        BY ChainFacts DEF Reliable, ConvergenceInv
      <3> QED BY <3>1 DEF ConvergenceInv, Unsynced, Synced
    <2> QED BY <1>1, <1>4, <2>1, <2>2, <2>3, <2>4, createGroupConverges,
            syncGroupFromRelayConverges, initialSyncConverges, joinGroupConverges,
            joinGroupFailsConverges, viewConverges, addExpenseConverges,
            settleUpConverges,
            processIncomingEntryConverges, syncWithRelayDoneConverges, RequestsConverge DEF Step
  <1> QED BY <1>2, <1>3, <1>4 DEF Next

LEMMA InitConverges == Init => ConvergenceInv
  <1> SUFFICES ASSUME Init PROVE ConvergenceInv
    OBVIOUS
  <1>1. ChainInv /\ Founder \in Device
    BY InitChain, SplitLedgerAssumption
  <1>2. Cardinality(created) <= MaxEntries
    BY FS_EmptySet, SplitLedgerAssumption DEF Init
  <1>3. \A d \in Device : Held(d) /\ OnItsWay(d)
    BY OrderlyEmpty DEF Init, Held, OnItsWay
  <1>4. Unsynced /\ Synced
    BY <1>1 DEF Init, Unsynced, Synced, HasGenesis
  <1> QED BY <1>1, <1>2, <1>3, <1>4 DEF Init, ConvergenceInv

LEMMA ConvergenceAlways ==
  ASSUME Reliable
  PROVE  Spec => []ConvergenceInv
  <1>1. ConvergenceInv /\ [Next]_vars => ConvergenceInv'
    BY NextConverges
  <1> QED BY InitConverges, <1>1, PTL DEF Spec

LEMMA QuietHasAll ==
  ASSUME Reliable, ConvergenceInv, NEW d \in Device, inbox[d] = <<>>, HasGenesis(store),
         ledger[d] # {}
  PROVE  ledger[d] = created
  <1>1. Anchored(ledger[d], <<>>, created)
    BY DEF ConvergenceInv, Synced, Coming
  <1>2. Len(<<>>) = 0
    OBVIOUS
  <1>3. PICK k \in 1 .. 1 : created \subseteq ledger[d] \cup Carried(<<>>, k, 0)
    BY <1>1, <1>2 DEF Anchored, Anchor
  <1>4. Carried(<<>>, k, 0) = {}
    BY <1>3 DEF Carried
  <1>5. ledger[d] \subseteq created
    BY ChainFacts DEF Reliable, ConvergenceInv
  <1> QED BY <1>3, <1>4, <1>5

LEMMA FoundersOnly ==
  ASSUME ConvergenceInv, ~HasGenesis(store), NEW d \in Device, ledger[d] # {}
  PROVE  ledger[d] = created
  BY DEF ConvergenceInv, Unsynced

\* A device that has the group and nothing in its queue has all entries, though
\* others may be about to write, to join or to be answered: no push or answer
\* of the relay (handlePublishEntry, handleGetEntriesAfter) is refused by
\* processIncomingEntry or initialSync because of what it had to wait for.
THEOREM ReliableCaughtUp ==
  ASSUME Reliable
  PROVE  Spec => []CaughtUp
  <1>1. ConvergenceInv => CaughtUp
    <2> SUFFICES ASSUME ConvergenceInv, NEW d \in Device, ledger[d] # {}, inbox[d] = <<>>
                 PROVE  ledger[d] = created
      BY DEF CaughtUp
    <2> QED BY QuietHasAll, FoundersOnly
  <1> QED BY <1>1, ConvergenceAlways, PTL

\* Whenever nothing is under way, every device that has the group has all
\* entries ever built, and so does the relay.
THEOREM ReliableConverges ==
  ASSUME Reliable
  PROVE  Spec => []Converged
  <1>1. ConvergenceInv => Converged
    <2> SUFFICES ASSUME ConvergenceInv, Quiet
                 PROVE  /\ \A d \in Device : ledger[d] \in {{}, created}
                        /\ store = created
      BY DEF Converged
    <2>1. CASE created = {}
      BY <2>1, ChainFacts DEF Reliable, ConvergenceInv
    <2>2. CASE created # {}
      <3>1. HasGenesis(store)
        BY <2>2, SplitLedgerAssumption DEF ConvergenceInv, Unsynced, Quiet
      <3>2. store = created
        BY <3>1 DEF ConvergenceInv, Synced
      <3> QED BY <3>1, <3>2, QuietHasAll DEF Quiet
    <2> QED BY <2>1, <2>2
  <1> QED BY <1>1, ConvergenceAlways, PTL

\* What the documents say of the sync, that the missing entries are returned and
\* that all agree in the end, is so as long as nobody leaves and no connection
\* is lost: the counterexamples to it need a removal, or a push that was missed.
THEOREM ReliableAgreement ==
  ASSUME Reliable
  PROVE  Spec => [](NothingMissed /\ Agreement)
  <1>1. ConvergenceInv => CaughtUp
    BY QuietHasAll, FoundersOnly DEF CaughtUp
  <1>2. ConvergenceInv => store \subseteq created
    BY DEF ConvergenceInv, ChainInv, ClockInv, LinkedInv, StorageTypeOK
  <1>3. CaughtUp /\ store \subseteq created => NothingMissed
    BY DEF CaughtUp, NothingMissed, Quiet
  <1>4. CaughtUp => Agreement
    BY DEF CaughtUp, Agreement, Quiet
  <1>5. ConvergenceInv => NothingMissed /\ Agreement
    BY <1>1, <1>2, <1>3, <1>4
  <1> QED BY <1>5, ConvergenceAlways, PTL
=============================================================================
