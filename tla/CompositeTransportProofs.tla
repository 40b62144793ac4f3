---------------------- MODULE CompositeTransportProofs ----------------------
(***************************************************************************)
(* For any devices, entries, broadcasts and faults: as long as one device  *)
(* writes, everybody holds a prefix of what it has written, and what the   *)
(* composite transport has handed on it does not hand on again before the  *)
(* marks since then are too many to keep.                                  *)
(***************************************************************************)
EXTENDS CompositeTransport, FiniteSetTheorems, TLAPS

-----------------------------------------------------------------------------
(* The marks.                                                              *)

\* seenEntries is the end of all that was marked: all of it, or enough.
SeenIsEnd ==
  \A d \in Device :
    /\ Len(seen[d]) <= Len(marked[d])
    /\ \A i \in 1 .. Len(seen[d]) :
         seen[d][i] = marked[d][Len(marked[d]) - Len(seen[d]) + i]
    /\ Len(seen[d]) = Len(marked[d]) \/ Len(seen[d]) > SeenSize - Evicted

\* Marks are copies of any kind here: what they are does not matter.
MarksTyped(S) == seen \in [Device -> Seq(S)] /\ marked \in [Device -> Seq(S)]

\* What Evict leaves of a sequence.
LEMMA EvictKeeps ==
  ASSUME NEW S, NEW s \in Seq(S)
  PROVE  /\ Evict(s) \in Seq(S)
         /\ Len(Evict(s)) <= Len(s)
         /\ \A i \in 1 .. Len(Evict(s)) : Evict(s)[i] = s[Len(s) - Len(Evict(s)) + i]
         /\ Len(Evict(s)) = Len(s) \/ Len(Evict(s)) > SeenSize - Evicted
  <1>0. Len(s) \in Nat /\ SeenSize \in Nat
    BY CompositeAssumption
  <1>1. CASE Len(s) <= SeenSize
    <2>1. Evict(s) = s
      BY <1>1, <1>0 DEF Evict
    <2>2. \A i \in 1 .. Len(s) : Len(s) - Len(s) + i = i
      BY <1>0
    <2> QED BY <2>1, <2>2, <1>0
  <1>2. CASE Len(s) > SeenSize
    <2>1. Evict(s) = SubSeq(s, Evicted + 1, Len(s))
      BY <1>2 DEF Evict
    <2>2. Evicted \in Nat /\ Evicted + 1 \in 1 .. Len(s) /\ Len(s) \in Nat
      BY <1>2, CompositeAssumption
    <2>3. /\ Evict(s) \in Seq(S) /\ Len(Evict(s)) = Len(s) - Evicted
          /\ \A i \in 1 .. Len(s) - Evicted : Evict(s)[i] = s[Evicted + i]
      BY <2>1, <2>2
    <2> QED BY <1>2, <2>2, <2>3, CompositeAssumption
  <1> QED BY <1>1, <1>2, <1>0

LEMMA MarkTyped ==
  ASSUME NEW S, NEW d \in Device, NEW c \in S, MarksTyped(S), markSeen(d, c)
  PROVE  seen' \in [Device -> Seq(S)] /\ marked' \in [Device -> Seq(S)]
  <1>1. Append(seen[d], c) \in Seq(S) /\ Append(marked[d], c) \in Seq(S)
    BY DEF MarksTyped
  <1>2. Evict(Append(seen[d], c)) \in Seq(S)
    BY <1>1, EvictKeeps
  <1> QED BY <1>1, <1>2 DEF markSeen, MarksTyped

LEMMA MarkKeeps ==
  ASSUME NEW S, NEW d \in Device, NEW c \in S,
         MarksTyped(S), SeenIsEnd, HandedOnce, markSeen(d, c)
  PROVE  MarksTyped(S)' /\ SeenIsEnd' /\ HandedOnce'
  <1>1. CASE Seen(d, c)
    BY <1>1 DEF markSeen, MarksTyped, SeenIsEnd, HandedOnce
  <1>2. CASE ~Seen(d, c)
    <2> DEFINE m == marked[d]
               s == seen[d]
               t == Append(s, c)
    <2>1. m \in Seq(S) /\ s \in Seq(S) /\ t \in Seq(S) /\ Len(m) \in Nat /\ Len(s) \in Nat
      BY DEF MarksTyped
    <2>2. /\ seen' = [seen EXCEPT ![d] = Evict(t)]
          /\ marked' = [marked EXCEPT ![d] = Append(m, c)]
      BY <1>2 DEF markSeen
    <2>3. seen'[d] = Evict(t) /\ marked'[d] = Append(m, c)
      BY <2>2 DEF MarksTyped
    <2>4. \A x \in Device \ {d} : seen'[x] = seen[x] /\ marked'[x] = marked[x]
      BY <2>2 DEF MarksTyped
    <2>5. \A i \in 1 .. Len(s) : s[i] # c
      BY <1>2, <2>1 DEF Seen, ToSet
    <2>6. /\ Len(s) <= Len(m)
          /\ \A i \in 1 .. Len(s) : s[i] = m[Len(m) - Len(s) + i]
          /\ Len(s) = Len(m) \/ Len(s) > SeenSize - Evicted
      BY DEF SeenIsEnd
    <2>7. /\ Len(Append(m, c)) = Len(m) + 1 /\ Append(m, c) \in Seq(S)
          /\ \A i \in 1 .. Len(m) : Append(m, c)[i] = m[i]
          /\ Append(m, c)[Len(m) + 1] = c
      BY <2>1
    <2>8. /\ Len(t) = Len(s) + 1
          /\ \A i \in 1 .. Len(s) : t[i] = s[i]
          /\ t[Len(s) + 1] = c
      BY <2>1
    <2>9. /\ Evict(t) \in Seq(S)
          /\ Len(Evict(t)) <= Len(t) /\ Len(Evict(t)) \in Nat
          /\ \A i \in 1 .. Len(Evict(t)) : Evict(t)[i] = t[Len(t) - Len(Evict(t)) + i]
          /\ Len(Evict(t)) = Len(t) \/ Len(Evict(t)) > SeenSize - Evicted
      <3> HIDE DEF t
      <3>1. /\ Evict(t) \in Seq(S)
            /\ Len(Evict(t)) <= Len(t)
            /\ \A i \in 1 .. Len(Evict(t)) : Evict(t)[i] = t[Len(t) - Len(Evict(t)) + i]
            /\ Len(Evict(t)) = Len(t) \/ Len(Evict(t)) > SeenSize - Evicted
        BY <2>1, EvictKeeps
      <3>2. Len(Evict(t)) \in Nat
        BY <3>1
      <3> QED BY <3>1, <3>2
    <2> HIDE DEF t, m, s
    <2>10. MarksTyped(S)'
      BY <2>2, <2>7, <2>9 DEF MarksTyped
    <2>11. \A i \in 1 .. Len(t) : t[i] = Append(m, c)[Len(m) + 1 - Len(t) + i]
      <3> SUFFICES ASSUME NEW i \in 1 .. Len(t)
                   PROVE  t[i] = Append(m, c)[Len(m) + 1 - Len(t) + i]
        OBVIOUS
      <3>1. CASE i = Len(s) + 1
        <4>1. Len(m) + 1 - Len(t) + i = Len(m) + 1
          BY <2>1, <2>8, <3>1
        <4> QED BY <2>7, <2>8, <3>1, <4>1
      <3>2. CASE i \in 1 .. Len(s)
        <4>1. Len(m) - Len(s) + i \in 1 .. Len(m)
          BY <2>1, <2>6, <3>2
        <4> QED BY <2>1, <2>6, <2>7, <2>8, <3>2, <4>1
      <3>3. i = Len(s) + 1 \/ i \in 1 .. Len(s)
        <4>1. Len(t) = Len(s) + 1 /\ Len(s) \in Nat
          BY <2>1, <2>8
        <4> QED BY <4>1
      <3> QED BY <3>1, <3>2, <3>3
    <2>12. SeenIsEnd'
      <3> DEFINE u == Evict(t)
      <3>1. Len(u) <= Len(m) + 1
        BY <2>1, <2>6, <2>8, <2>9
      <3>2. \A i \in 1 .. Len(u) : u[i] = Append(m, c)[Len(m) + 1 - Len(u) + i]
        <4> SUFFICES ASSUME NEW i \in 1 .. Len(u)
                     PROVE  u[i] = Append(m, c)[Len(m) + 1 - Len(u) + i]
          OBVIOUS
        <4>1. u[i] = t[Len(t) - Len(u) + i] /\ Len(t) - Len(u) + i \in 1 .. Len(t)
          BY <2>1, <2>8, <2>9
        <4>2. t[Len(t) - Len(u) + i] = Append(m, c)[Len(m) + 1 - Len(t) + (Len(t) - Len(u) + i)]
          BY <2>11, <4>1
        <4>3. Len(m) + 1 - Len(t) + (Len(t) - Len(u) + i) = Len(m) + 1 - Len(u) + i
          BY <2>1, <2>8, <2>9
        <4> QED BY <4>1, <4>2, <4>3
      <3>3. Len(u) = Len(m) + 1 \/ Len(u) > SeenSize - Evicted
        BY <2>1, <2>6, <2>8, <2>9, CompositeAssumption
      <3> HIDE DEF u
      <3>4. ASSUME NEW x \in Device
            PROVE  /\ Len(seen'[x]) <= Len(marked'[x])
                   /\ \A i \in 1 .. Len(seen'[x]) :
                        seen'[x][i] = marked'[x][Len(marked'[x]) - Len(seen'[x]) + i]
                   /\ Len(seen'[x]) = Len(marked'[x]) \/ Len(seen'[x]) > SeenSize - Evicted
        <4>1. CASE x = d
          <5> DEFINE w == Append(m, c)
          <5>1. seen'[x] = u /\ marked'[x] = w
            BY <2>3, <4>1 DEF u, t, m, s
          <5>2. Len(w) = Len(m) + 1
            BY <2>7
          <5>3. \A i \in 1 .. Len(u) : u[i] = w[Len(m) + 1 - Len(u) + i]
            BY <3>2
          <5> HIDE DEF w
          <5> QED BY <3>1, <3>3, <5>1, <5>2, <5>3
        <4>2. CASE x # d
          BY <2>4, <4>2 DEF SeenIsEnd
        <4> QED BY <4>1, <4>2
      <3> QED BY <3>4 DEF SeenIsEnd
    <2>13. HandedOnce'
      <3> SUFFICES ASSUME NEW x \in Device,
                          NEW i \in DOMAIN marked'[x], NEW j \in DOMAIN marked'[x],
                          i < j, marked'[x][i] = marked'[x][j]
                   PROVE  j - i > SeenSize - Evicted + 1
        BY DEF HandedOnce
      <3>1. CASE x # d
        BY <2>4, <3>1 DEF HandedOnce
      <3>2. CASE x = d
        <4>1. i \in 1 .. Len(m) + 1 /\ j \in 1 .. Len(m) + 1 /\ i \in 1 .. Len(m)
          BY <2>1, <2>3, <2>7, <3>2
        <4>2. CASE j \in 1 .. Len(m)
          <5>1. m[i] = m[j]
            BY <2>3, <2>7, <3>2, <4>1, <4>2
          <5>2. DOMAIN m = 1 .. Len(m)
            BY <2>1
          <5> QED BY <4>1, <4>2, <5>1, <5>2 DEF HandedOnce, m
        <4>3. CASE j = Len(m) + 1
          <5>1. m[i] = c
            BY <2>3, <2>7, <3>2, <4>1, <4>3
          <5>2. i <= Len(m) - Len(s)
            <6>1. SUFFICES ASSUME i > Len(m) - Len(s) PROVE FALSE
              BY <2>1, <4>1
            <6>2. i - (Len(m) - Len(s)) \in 1 .. Len(s)
              BY <2>1, <2>6, <4>1, <6>1
            <6>3. s[i - (Len(m) - Len(s))] = m[i]
              BY <2>1, <2>6, <4>1, <6>2
            <6> QED BY <2>5, <5>1, <6>2, <6>3
          <5> QED BY <2>1, <2>6, <4>1, <4>3, <5>2, CompositeAssumption
        <4> QED BY <2>1, <4>1, <4>2, <4>3
      <3> QED BY <3>1, <3>2
    <2> QED BY <2>10, <2>12, <2>13
  <1> QED BY <1>1, <1>2

-----------------------------------------------------------------------------
(* Types.                                                                  *)

LEMMA Grow ==
  ASSUME TypeOK, NEW C, created \subseteq C
  PROVE  /\ ledger \in [Device -> SUBSET C]
         /\ MarksTyped(Copy(C))
         /\ inbox \in [Device -> Seq(Message(C))]
         /\ streams \subseteq Stream(C)
         /\ store \subseteq Copy(C)
  <1>1. Copy(created) \subseteq Copy(C)
    BY DEF Copy
  <1>2. Message(created) \subseteq Message(C)
    BY <1>1 DEF Message
  <1>3. Stream(created) \subseteq Stream(C)
    BY <1>1 DEF Stream
  <1>4. /\ Seq(Copy(created)) \subseteq Seq(Copy(C))
        /\ Seq(Message(created)) \subseteq Seq(Message(C))
    BY <1>1, <1>2
  <1>5. MarksTyped(Copy(C))
    BY <1>4 DEF TypeOK, MarksTyped
  <1>6. inbox \in [Device -> Seq(Message(C))]
    BY <1>4 DEF TypeOK
  <1> QED BY <1>1, <1>3, <1>5, <1>6 DEF TypeOK

LEMMA HandleTyped ==
  ASSUME TypeOK, NEW d \in Device, NEW c \in Copy(created), handleIncoming(d, c)
  PROVE  /\ seen' \in [Device -> Seq(Copy(created))]
         /\ marked' \in [Device -> Seq(Copy(created))]
         /\ ledger' \in [Device -> SUBSET created]
  <1>1. c.entry \in created
    BY DEF Copy
  <1>2. seen' \in [Device -> Seq(Copy(created))] /\ marked' \in [Device -> Seq(Copy(created))]
    BY MarkTyped, Grow DEF handleIncoming
  <1>3. ledger' \in [Device -> SUBSET created]
    <2>1. ledger \in [Device -> SUBSET created]
      BY DEF TypeOK
    <2>2. ledger' = ledger \/ process(d, c.entry)
      BY DEF handleIncoming
    <2> QED BY <1>1, <2>1, <2>2 DEF process
  <1> QED BY <1>2, <1>3

LEMMA BroadcastTyped ==
  ASSUME TypeOK, NEW d \in Device, NEW C \in SUBSET Entry, NEW e \in C,
         created \subseteq C, created' = C, ledger' \in [Device -> SUBSET C],
         broadcastEntry(d, e)
  PROVE  TypeOK'
  <1> DEFINE c == [entry |-> e, cipher |-> published + 1]
             m == [kind |-> "new", copies |-> {c}]
  <1>1. published \in Nat /\ published' \in 0 .. MaxPublished
    BY CompositeAssumption DEF TypeOK, broadcastEntry
  <1>2. c \in Copy(C)
    BY <1>1 DEF Copy
  <1>3. m \in Message(C)
    BY <1>2 DEF Message
  <1>4. /\ markSeen(d, c)
        /\ store' \in {store, store \cup {c}}
        /\ streams' = streams \cup { [to |-> x, copy |-> c] : x \in Peers(d) }
        /\ UNCHANGED <<heard, sync, online, node, faults>>
    BY DEF broadcastEntry
  <1>5. /\ inbox' = [x \in Device |-> inbox'[x]]
        /\ \A x \in Device : inbox'[x] \in {inbox[x], Append(inbox[x], m)}
    BY DEF broadcastEntry
  <1> HIDE DEF c, m
  <1>6. seen' \in [Device -> Seq(Copy(C))] /\ marked' \in [Device -> Seq(Copy(C))]
    BY <1>2, <1>4, MarkTyped, Grow
  <1>7. store' \subseteq Copy(C)
    BY <1>2, <1>4, Grow
  <1>8. streams' \subseteq Stream(C)
    BY <1>2, <1>4, Grow DEF Stream, Peers
  <1>9. inbox' \in [Device -> Seq(Message(C))]
    <2>1. \A x \in Device : inbox[x] \in Seq(Message(C))
      BY Grow
    <2>2. \A x \in Device : inbox'[x] \in Seq(Message(C))
      BY <1>3, <1>5, <2>1
    <2> QED BY <1>5, <2>2
  <1> QED BY <1>1, <1>4, <1>6, <1>7, <1>8, <1>9 DEF TypeOK, sync

LEMMA AskTyped ==
  ASSUME TypeOK, NEW d \in Device, ask(d)
  PROVE  inbox' \in [Device -> Seq(Message(created))]
  <1> DEFINE m == [kind |-> "entries", copies |-> Answer(d)]
  <1>1. m \in Message(created)
    BY DEF Message, Answer, CopiesAfter, TypeOK
  <1>2. inbox' \in {inbox, [inbox EXCEPT ![d] = Append(@, m)]}
    BY DEF ask
  <1> HIDE DEF m
  <1>3. Append(inbox[d], m) \in Seq(Message(created))
    BY <1>1 DEF TypeOK
  <1> QED BY <1>2, <1>3 DEF TypeOK

\* The entry that is written next, and what it makes of all that is written.
LEMMA NextEntry ==
  ASSUME TypeOK, IsFiniteSet(created), NEW d \in Device, write(d)
  PROVE  \E e \in Entry :
           /\ created' = created \cup {e} /\ IsFiniteSet(created')
           /\ ledger' = [ledger EXCEPT ![d] = @ \cup {e}]
           /\ broadcastEntry(d, e)
           /\ e.id = Cardinality(created) + 1 /\ Cardinality(created) \in Nat
           /\ \/ created = {} /\ e.prev = NoHash /\ e.clock = 0
              \/ \E f \in Latest(ledger[d]) : e.prev = f.id /\ e.clock = f.clock + 1
  <1>1. PICK last \in IF created = {} THEN {NoEntry} ELSE Latest(ledger[d]) :
          /\ created' = created \cup {buildEntry(d, last)}
          /\ ledger' = [ledger EXCEPT ![d] = @ \cup {buildEntry(d, last)}]
          /\ broadcastEntry(d, buildEntry(d, last))
    BY DEF write
  <1> DEFINE e == buildEntry(d, last)
  <1>2. Cardinality(created) \in Nat
    BY FS_CardinalityType
  <1>3. e.prev = last.id /\ e.clock = last.clock + 1 /\ e.id = Cardinality(created) + 1
    BY DEF buildEntry
  <1>4. CASE created = {}
    <2>1. last = NoEntry
      BY <1>1, <1>4
    <2>2. e \in Entry /\ e.prev = NoHash /\ e.clock = 0
      BY <1>2, <2>1 DEF buildEntry, NoEntry, NoHash, Entry
    <2> HIDE DEF e
    <2>3. IsFiniteSet(created \cup {e})
      BY FS_AddElement
    <2> QED BY <1>1, <1>2, <1>3, <1>4, <2>2, <2>3 DEF e
  <1>5. CASE created # {}
    <2>1. last \in Latest(ledger[d])
      BY <1>1, <1>5
    <2>2. last \in Entry
      BY <2>1 DEF Latest, TypeOK
    <2>3. e \in Entry
      BY <1>2, <2>2 DEF buildEntry, Entry, NoHash
    <2> HIDE DEF e
    <2>4. IsFiniteSet(created \cup {e})
      BY FS_AddElement
    <2> QED BY <1>1, <1>2, <1>3, <2>1, <2>3, <2>4 DEF e
  <1> QED BY <1>4, <1>5

Typed == TypeOK /\ IsFiniteSet(created)

LEMMA TypedStep ==
  ASSUME Typed, [Next]_vars
  PROVE  Typed'
  <1> USE DEF Typed
  <1>1. ASSUME NEW d \in Device, write(d)
        PROVE  Typed'
    <2>1. PICK e \in Entry :
            /\ created' = created \cup {e} /\ IsFiniteSet(created')
            /\ ledger' = [ledger EXCEPT ![d] = @ \cup {e}]
            /\ broadcastEntry(d, e)
      BY <1>1, NextEntry
    <2>2. created \cup {e} \in SUBSET Entry
      BY DEF TypeOK
    <2>3. ledger' \in [Device -> SUBSET (created \cup {e})]
      BY <2>1 DEF TypeOK
    <2> QED BY <2>1, <2>2, <2>3, BroadcastTyped
  <1>2. ASSUME NEW d \in Device, publishAgain(d)
        PROVE  Typed'
    <2>1. PICK e \in ledger[d] : broadcastEntry(d, e)
      BY <1>2 DEF publishAgain
    <2>2. e \in created /\ created \in SUBSET Entry /\ ledger \in [Device -> SUBSET created]
      BY DEF TypeOK
    <2>3. created' = created /\ ledger' = ledger
      BY <1>2 DEF publishAgain
    <2> QED BY <2>1, <2>2, <2>3, BroadcastTyped
  <1>3. ASSUME NEW d \in Device, pushed(d)
        PROVE  Typed'
    <2>1. inbox[d] \in Seq(Message(created)) /\ inbox[d] # <<>>
      BY <1>3 DEF pushed, TypeOK
    <2>2. Head(inbox[d]) \in Message(created) /\ Tail(inbox[d]) \in Seq(Message(created))
      BY <2>1
    <2>3. PICK c \in Head(inbox[d]).copies : handleIncoming(d, c)
      BY <1>3 DEF pushed
    <2>4. c \in Copy(created)
      BY <2>2, <2>3 DEF Message
    <2>5. inbox' \in [Device -> Seq(Message(created))]
      BY <1>3, <2>2 DEF pushed, TypeOK
    <2>6. /\ seen' \in [Device -> Seq(Copy(created))]
          /\ marked' \in [Device -> Seq(Copy(created))]
          /\ ledger' \in [Device -> SUBSET created]
      BY <2>3, <2>4, HandleTyped
    <2> QED BY <1>3, <2>5, <2>6 DEF pushed, TypeOK, sync
  <1>4. ASSUME NEW d \in Device, answered(d)
        PROVE  Typed'
    <2>1. inbox[d] \in Seq(Message(created)) /\ inbox[d] # <<>>
      BY <1>4 DEF answered, TypeOK
    <2> DEFINE h == Head(inbox[d])
               t == Tail(inbox[d])
    <2>2. h \in Message(created) /\ t \in Seq(Message(created))
      BY <2>1
    <2>3. PICK c \in h.copies :
            /\ process(d, c.entry)
            /\ inbox' = [inbox EXCEPT ![d] = <<[h EXCEPT !.copies = @ \ {c}]>> \o Tail(@)]
      BY <1>4 DEF answered
    <2> DEFINE k == [h EXCEPT !.copies = @ \ {c}]
    <2>4. k \in Message(created)
      BY <2>2 DEF Message
    <2>5. inbox' = [inbox EXCEPT ![d] = <<k>> \o t]
      BY <2>3
    <2> HIDE DEF k, t
    <2>6. <<k>> \o t \in Seq(Message(created))
      BY <2>2, <2>4
    <2>7. inbox' \in [Device -> Seq(Message(created))]
      BY <2>5, <2>6 DEF TypeOK
    <2>8. c.entry \in created
      BY <2>2, <2>3 DEF Message, Copy
    <2>9. ledger' \in [Device -> SUBSET created]
      BY <2>3, <2>8 DEF process, TypeOK
    <2> QED BY <1>4, <2>7, <2>9 DEF answered, TypeOK, sync
  <1>5. ASSUME NEW d \in Device, syncComplete(d)
        PROVE  Typed'
    <2>1. inbox[d] \in Seq(Message(created)) /\ inbox[d] # <<>>
      BY <1>5 DEF syncComplete, TypeOK
    <2>2. Tail(inbox[d]) \in Seq(Message(created))
      BY <2>1
    <2>3. inbox' \in [Device -> Seq(Message(created))]
      BY <1>5, <2>2 DEF syncComplete, TypeOK
    <2>4. timer' \in [Device -> BOOLEAN]
      BY <1>5, Zenon DEF syncComplete, TypeOK
    <2>5. call' \in [Device -> {"idle", "relay", "p2p", "answer"}]
      BY <1>5 DEF syncComplete, TypeOK
    <2> QED BY <1>5, <2>3, <2>4, <2>5 DEF syncComplete, TypeOK
  <1>6. ASSUME NEW d \in Device, streamArrives(d)
        PROVE  Typed'
    <2>1. PICK s \in streams :
            LET id == <<s.copy.entry.clock, s.copy.entry.dev>>
            IN /\ streams' = streams \ {s}
               /\ heard' = [heard EXCEPT ![d] = @ \cup {id}]
               /\ IF id \in heard[d] THEN UNCHANGED <<seen, marked, ledger>>
                  ELSE handleIncoming(d, s.copy)
      BY <1>6 DEF streamArrives
    <2>2. s.copy \in Copy(created)
      BY <2>1 DEF Stream, TypeOK
    <2>3. s.copy.entry \in Entry
      BY <2>2 DEF Copy, TypeOK
    <2>4. <<s.copy.entry.clock, s.copy.entry.dev>> \in Nat \X Device
      BY <2>3 DEF Entry
    <2>5. heard' \in [Device -> SUBSET (Nat \X Device)]
      BY <2>1, <2>4 DEF TypeOK
    <2>6. /\ seen' \in [Device -> Seq(Copy(created))]
          /\ marked' \in [Device -> Seq(Copy(created))]
          /\ ledger' \in [Device -> SUBSET created]
      BY <2>1, <2>2, HandleTyped DEF TypeOK
    <2> QED BY <1>6, <2>1, <2>5, <2>6 DEF streamArrives, TypeOK, sync
  <1>7. ASSUME NEW d \in Device, startSync(d)
        PROVE  Typed'
    BY <1>7 DEF startSync, TypeOK, network
  <1>8. ASSUME NEW d \in Device, relayConnects(d)
        PROVE  Typed'
    <2>1. faults \in 0 .. MaxFaults /\ call \in [Device -> {"idle", "relay", "p2p", "answer"}]
      BY DEF TypeOK
    <2>2. faults' \in 0 .. MaxFaults
      BY <1>8, <2>1, CompositeAssumption DEF relayConnects, Fault
    <2>3. call' \in [Device -> {"idle", "relay", "p2p", "answer"}]
      BY <1>8, <2>1 DEF relayConnects
    <2>4. online' \in [Device -> BOOLEAN]
      BY <1>8 DEF relayConnects, TypeOK
    <2> QED BY <1>8, <2>2, <2>3, <2>4 DEF relayConnects, TypeOK
  <1>9. ASSUME NEW d \in Device, p2pConnects(d)
        PROVE  Typed'
    <2>1. inbox' \in [Device -> Seq(Message(created))]
      BY <1>9, AskTyped DEF p2pConnects, TypeOK
    <2>2. node' \in [Device -> {"none", "dead", "up"}] /\ faults' \in 0 .. MaxFaults
      <3>1. /\ node \in [Device -> {"none", "dead", "up"}] /\ faults \in 0 .. MaxFaults
            /\ startNode(d)
        BY <1>9 DEF p2pConnects, TypeOK
      <3> QED BY <3>1, CompositeAssumption DEF startNode, Fault
    <2>3. call' \in [Device -> {"idle", "relay", "p2p", "answer"}]
      <3>1. /\ call \in [Device -> {"idle", "relay", "p2p", "answer"}]
            /\ \/ call' = [call EXCEPT ![d] = "answer"]
               \/ call' = [call EXCEPT ![d] = "idle"]
        BY <1>9 DEF p2pConnects, TypeOK
      <3> QED BY <3>1
    <2> QED BY <1>9, <2>1, <2>2, <2>3 DEF p2pConnects, TypeOK
  <1>10. ASSUME NEW d \in Device, tick(d)
         PROVE  Typed'
    BY <1>10, AskTyped DEF tick, TypeOK, sync
  <1>11. ASSUME NEW d \in Device, stopSync(d)
         PROVE  Typed'
    BY <1>11, CompositeAssumption DEF stopSync, TypeOK, Fault
  <1>12. ASSUME NEW d \in Device, drop(d)
         PROVE  Typed'
    <2>1. <<>> \in Seq(Message(created))
      OBVIOUS
    <2> QED BY <1>12, <2>1, CompositeAssumption DEF drop, TypeOK, Fault
  <1>13. ASSUME NEW d \in Device, reconnect(d)
         PROVE  Typed'
    BY <1>13 DEF reconnect, TypeOK, sync
  <1>14. CASE UNCHANGED vars
    BY <1>14 DEF vars, TypeOK
  <1> QED BY <1>1, <1>2, <1>3, <1>4, <1>5, <1>6, <1>7, <1>8, <1>9, <1>10, <1>11, <1>12, <1>13,
             <1>14 DEF Next, Step

LEMMA TypedInit ==
  ASSUME Init
  PROVE  Typed
  <1>1. /\ <<>> \in Seq(Copy(created)) /\ <<>> \in Seq(Message(created))
        /\ IsFiniteSet({}) /\ 0 \in 0 .. MaxFaults /\ 0 \in 0 .. MaxPublished
    BY FS_EmptySet, CompositeAssumption
  <1> QED BY <1>1 DEF Init, Typed, TypeOK

\* The state of CompositeTransport has its type.
THEOREM TypesHold == Spec => []TypeOK
  <1>1. Typed => TypeOK
    BY DEF Typed
  <1> QED BY <1>1, TypedInit, TypedStep, PTL DEF Spec

-----------------------------------------------------------------------------
(* What is handed on.                                                      *)

\* No step marks a copy otherwise than markSeen does.
LEMMA MarkSteps ==
  ASSUME Typed, [Next]_vars
  PROVE  \/ UNCHANGED <<seen, marked>>
         \/ \E d \in Device, c \in Copy(created') : markSeen(d, c)
  <1> USE DEF Typed
  <1>1. ASSUME NEW d \in Device, write(d)
        PROVE  \E c \in Copy(created') : markSeen(d, c)
    <2>1. PICK e \in Entry : created' = created \cup {e} /\ broadcastEntry(d, e)
      BY <1>1, NextEntry
    <2>2. [entry |-> e, cipher |-> published + 1] \in Copy(created')
      BY <2>1, CompositeAssumption DEF Copy, TypeOK
    <2> QED BY <2>1, <2>2 DEF broadcastEntry
  <1>2. ASSUME NEW d \in Device, publishAgain(d)
        PROVE  \E c \in Copy(created') : markSeen(d, c)
    <2>1. PICK e \in ledger[d] : broadcastEntry(d, e)
      BY <1>2 DEF publishAgain
    <2>2. e \in created /\ created' = created
      BY <1>2 DEF publishAgain, TypeOK
    <2>3. [entry |-> e, cipher |-> published + 1] \in Copy(created')
      BY <2>2, CompositeAssumption DEF Copy, TypeOK
    <2> QED BY <2>1, <2>3 DEF broadcastEntry
  <1>3. ASSUME NEW d \in Device, pushed(d)
        PROVE  \E c \in Copy(created') : markSeen(d, c)
    <2>1. Head(inbox[d]) \in Message(created)
      <3>1. inbox[d] \in Seq(Message(created)) /\ inbox[d] # <<>>
        BY <1>3 DEF pushed, TypeOK
      <3> QED BY <3>1
    <2> QED BY <1>3, <2>1 DEF pushed, handleIncoming, Message
  <1>4. ASSUME NEW d \in Device, streamArrives(d)
        PROVE  UNCHANGED <<seen, marked>> \/ \E c \in Copy(created') : markSeen(d, c)
    <2>1. PICK s \in streams : UNCHANGED <<seen, marked>> \/ handleIncoming(d, s.copy)
      BY <1>4 DEF streamArrives
    <2>2. s.copy \in Copy(created) /\ created' = created
      BY <1>4 DEF Stream, TypeOK, streamArrives
    <2> QED BY <2>1, <2>2 DEF handleIncoming
  <1>5. ASSUME NEW d \in Device,
               \/ answered(d) \/ syncComplete(d) \/ startSync(d) \/ relayConnects(d)
               \/ p2pConnects(d) \/ tick(d) \/ stopSync(d) \/ drop(d) \/ reconnect(d)
        PROVE  UNCHANGED <<seen, marked>>
    BY <1>5 DEF answered, syncComplete, startSync, relayConnects, p2pConnects, tick, stopSync,
                drop, reconnect
  <1>6. UNCHANGED vars => UNCHANGED <<seen, marked>>
    BY DEF vars
  <1> QED BY <1>1, <1>2, <1>3, <1>4, <1>5, <1>6 DEF Next, Step

\* The transport does not hand a copy on twice before the marks made since are
\* too many to keep, for any size of the memory and any number evicted at once
\* (markSeen of composite-transport.ts).
THEOREM HandedOnceHolds == Spec => []HandedOnce
  <1> DEFINE Inv == Typed /\ SeenIsEnd /\ HandedOnce
  <1>1. Init => Inv
    <2> SUFFICES ASSUME Init PROVE Inv
      OBVIOUS
    <2>1. SeenIsEnd /\ HandedOnce
      BY DEF Init, SeenIsEnd, HandedOnce
    <2> QED BY <2>1, TypedInit
  <1>2. Inv /\ [Next]_vars => Inv'
    <2> SUFFICES ASSUME Inv, [Next]_vars PROVE Inv'
      OBVIOUS
    <2>1. Typed' /\ created \subseteq created'
      <3>1. \A d \in Device : write(d) => created \subseteq created'
        BY DEF write
      <3>2. created \subseteq created' \/ created' = created
        BY <3>1 DEF Next, Step, publishAgain, pushed, answered, syncComplete, streamArrives,
                    startSync, relayConnects, p2pConnects, tick, stopSync, drop, reconnect, vars
      <3> QED BY <3>2, TypedStep
    <2>2. CASE UNCHANGED <<seen, marked>>
      BY <2>1, <2>2 DEF SeenIsEnd, HandedOnce
    <2>3. CASE \E d \in Device, c \in Copy(created') : markSeen(d, c)
      <3>1. PICK d \in Device, c \in Copy(created') : markSeen(d, c)
        BY <2>3
      <3>2. MarksTyped(Copy(created'))
        BY <2>1, Grow DEF Typed
      <3> QED BY <2>1, <3>1, <3>2, MarkKeeps
    <2> QED BY <2>2, <2>3, MarkSteps
  <1>3. Inv => HandedOnce
    OBVIOUS
  <1> QED BY <1>1, <1>2, <1>3, PTL DEF Spec

-----------------------------------------------------------------------------
(* What the readers hold.                                                  *)

\* No step changes a ledger otherwise than by writing or by processing an entry.
LEMMA LedgerSteps ==
  ASSUME Typed, [Next]_vars
  PROVE  \/ \E d \in Device : write(d)
         \/ /\ created' = created
            /\ ledger' = ledger \/ \E d \in Device, e \in created : process(d, e)
  <1> USE DEF Typed
  <1>1. ASSUME NEW d \in Device, pushed(d)
        PROVE  \E e \in created : ledger' = ledger \/ process(d, e)
    <2>1. PICK c \in Head(inbox[d]).copies : handleIncoming(d, c)
      BY <1>1 DEF pushed
    <2>2. Head(inbox[d]) \in Message(created)
      <3>1. inbox[d] \in Seq(Message(created)) /\ inbox[d] # <<>>
        BY <1>1 DEF pushed, TypeOK
      <3> QED BY <3>1
    <2>3. c.entry \in created
      BY <2>1, <2>2 DEF Message, Copy
    <2> QED BY <2>1, <2>3 DEF handleIncoming
  <1>2. ASSUME NEW d \in Device, answered(d)
        PROVE  \E e \in created : process(d, e)
    <2>1. PICK c \in Head(inbox[d]).copies : process(d, c.entry)
      BY <1>2 DEF answered
    <2>2. Head(inbox[d]) \in Message(created)
      <3>1. inbox[d] \in Seq(Message(created)) /\ inbox[d] # <<>>
        BY <1>2 DEF answered, TypeOK
      <3> QED BY <3>1
    <2> QED BY <2>1, <2>2 DEF Message, Copy
  <1>3. ASSUME NEW d \in Device, streamArrives(d)
        PROVE  ledger' = ledger \/ \E e \in created : process(d, e)
    <2>1. PICK s \in streams : ledger' = ledger \/ handleIncoming(d, s.copy)
      BY <1>3 DEF streamArrives
    <2>2. s.copy.entry \in created
      BY DEF Stream, Copy, TypeOK
    <2> QED BY <2>1, <2>2 DEF handleIncoming
  <1>4. ASSUME NEW d \in Device,
               \/ pushed(d) \/ answered(d) \/ streamArrives(d)
        PROVE  created' = created
    BY <1>4 DEF pushed, answered, streamArrives
  <1>5. ASSUME NEW d \in Device,
               \/ publishAgain(d) \/ syncComplete(d) \/ startSync(d) \/ relayConnects(d)
               \/ p2pConnects(d) \/ tick(d) \/ stopSync(d) \/ drop(d) \/ reconnect(d)
        PROVE  created' = created /\ ledger' = ledger
    BY <1>5 DEF publishAgain, syncComplete, startSync, relayConnects, p2pConnects, tick,
                stopSync, drop, reconnect
  <1>6. UNCHANGED vars => created' = created /\ ledger' = ledger
    BY DEF vars
  <1> QED BY <1>1, <1>2, <1>3, <1>4, <1>5, <1>6 DEF Next, Step

\* What w has written: all of it is in its ledger, and it is one chain, in
\* which every entry follows the one with the clock before.
OneChain(w) ==
  /\ \A e \in created : e.id \in 1 .. Cardinality(created)
  /\ \A e, f \in created : e.id = f.id \/ e.clock = f.clock => e = f
  /\ \A e \in created :
       \/ e.prev = NoHash /\ e.clock = 0
       \/ \E f \in created : f.id = e.prev /\ e.clock = f.clock + 1
  /\ created \subseteq ledger[w]

PrefixInv(w) == Typed /\ OneChain(w) /\ HoldsPrefix

LEMMA WritePrefix ==
  ASSUME NEW w \in Device, PrefixInv(w), write(w), Typed'
  PROVE  PrefixInv(w)'
  <1>1. PICK e \in Entry :
          /\ created' = created \cup {e} /\ IsFiniteSet(created')
          /\ ledger' = [ledger EXCEPT ![w] = @ \cup {e}]
          /\ e.id = Cardinality(created) + 1 /\ Cardinality(created) \in Nat
          /\ \/ created = {} /\ e.prev = NoHash /\ e.clock = 0
             \/ \E f \in Latest(ledger[w]) : e.prev = f.id /\ e.clock = f.clock + 1
    BY NextEntry DEF PrefixInv, Typed
  <1>2. /\ ledger \in [Device -> SUBSET created] /\ created \subseteq Entry
        /\ ledger[w] = created
    BY DEF PrefixInv, Typed, TypeOK, OneChain
  <1>3. \A f \in Entry : f.id \in Nat /\ f.clock \in Nat
    BY DEF Entry
  <1>4. \A f \in created : f.clock < e.clock /\ f.id < e.id
    <2>1. \A f \in created : f.id < e.id
      BY <1>1, <1>2, <1>3 DEF PrefixInv, OneChain
    <2>2. \A f \in created : f.clock < e.clock
      BY <1>1, <1>2, <1>3 DEF Latest
    <2> QED BY <2>1, <2>2
  <1>5. e \notin created
    BY <1>2, <1>3, <1>4
  <1>6. Cardinality(created') = Cardinality(created) + 1
    BY <1>1, <1>5, FS_AddElement DEF PrefixInv, Typed
  <1>7. OneChain(w)'
    <2>1. \A f \in created' : f.id \in 1 .. Cardinality(created')
      BY <1>1, <1>6 DEF PrefixInv, OneChain
    <2>2. \A f, g \in created' : f.id = g.id \/ f.clock = g.clock => f = g
      BY <1>1, <1>2, <1>3, <1>4 DEF PrefixInv, OneChain
    <2>3. \A f \in created' :
            \/ f.prev = NoHash /\ f.clock = 0
            \/ \E g \in created' : g.id = f.prev /\ f.clock = g.clock + 1
      BY <1>1, <1>2 DEF PrefixInv, OneChain, Latest
    <2>4. created' \subseteq ledger'[w]
      BY <1>1, <1>2
    <2> QED BY <2>1, <2>2, <2>3, <2>4 DEF OneChain
  <1>8. HoldsPrefix'
    <2> SUFFICES ASSUME NEW d \in Device, NEW f \in ledger'[d], NEW g \in created',
                        g.clock <= f.clock
                 PROVE  g \in ledger'[d]
      BY DEF HoldsPrefix
    <2>1. CASE d = w
      BY <1>1, <1>2, <2>1
    <2>2. CASE d # w
      <3>1. ledger'[d] = ledger[d] /\ f \in created
        BY <1>1, <1>2, <2>2
      <3>2. g # e
        BY <1>2, <1>3, <1>4, <3>1
      <3> QED BY <1>1, <3>1, <3>2 DEF PrefixInv, HoldsPrefix
    <2> QED BY <2>1, <2>2
  <1> QED BY <1>7, <1>8 DEF PrefixInv

\* An entry that is accepted is the next one: what is written no later than it
\* is no later than the one it follows, or is this entry.
LEMMA ProcessPrefix ==
  ASSUME NEW w \in Device, PrefixInv(w), NEW d \in Device, NEW e \in created,
         process(d, e), created' = created, Typed'
  PROVE  PrefixInv(w)'
  <1>1. /\ ledger \in [Device -> SUBSET created] /\ created \subseteq Entry
    BY DEF PrefixInv, Typed, TypeOK
  <1>2. \A f \in Entry : f.id \in Nat \ {NoHash} /\ f.clock \in Nat
    BY DEF Entry
  <1>3. CASE ~Accepts(e, ledger[d])
    <2>1. ledger' = ledger
      BY <1>1, <1>3 DEF process
    <2> QED BY <2>1 DEF PrefixInv, OneChain, HoldsPrefix
  <1>4. CASE Accepts(e, ledger[d])
    <2>1. ledger' = [ledger EXCEPT ![d] = @ \cup {e}]
      BY <1>4 DEF process
    <2>2. OneChain(w)'
      BY <1>1, <2>1 DEF PrefixInv, OneChain
    <2>3. ASSUME NEW g \in created, g.clock <= e.clock, g # e
          PROVE  g \in ledger[d]
      <3>1. g.clock # e.clock
        BY <2>3 DEF PrefixInv, OneChain
      <3>2. CASE e.prev = NoHash
        <4>1. e.clock = 0
          BY <1>1, <1>2, <3>2 DEF PrefixInv, OneChain
        <4> QED BY <1>1, <1>2, <2>3, <3>1, <4>1
      <3>3. CASE e.prev # NoHash
        <4>1. PICK f \in ledger[d] : f.id = e.prev
          BY <1>4, <3>3 DEF Accepts
        <4>2. PICK h \in created : h.id = e.prev /\ e.clock = h.clock + 1
          BY <3>3 DEF PrefixInv, OneChain
        <4>3. f = h
          BY <1>1, <4>1, <4>2 DEF PrefixInv, OneChain
        <4>4. g.clock <= f.clock
          BY <1>1, <1>2, <2>3, <3>1, <4>2, <4>3
        <4> QED BY <4>1, <4>4 DEF PrefixInv, HoldsPrefix
      <3> QED BY <3>2, <3>3
    <2>4. HoldsPrefix'
      <3> SUFFICES ASSUME NEW x \in Device, NEW f \in ledger'[x], NEW g \in created,
                          g.clock <= f.clock
                   PROVE  g \in ledger'[x]
        BY DEF HoldsPrefix
      <3>1. CASE f \in ledger[x]
        BY <1>1, <2>1, <3>1 DEF PrefixInv, HoldsPrefix
      <3>2. CASE f \notin ledger[x]
        <4>1. x = d /\ f = e
          BY <1>1, <2>1, <3>2
        <4> QED BY <1>1, <2>1, <2>3, <4>1
      <3> QED BY <3>1, <3>2
    <2> QED BY <2>2, <2>4 DEF PrefixInv
  <1> QED BY <1>3, <1>4

\* However streams, pushes and answers are ordered, lost or repeated, everybody
\* holds a prefix of what the one device that writes has written
\* (processIncomingEntry of sync-manager.ts).
THEOREM PrefixHolds ==
  ASSUME NEW w \in Device, Writers = {w}
  PROVE  Spec => []HoldsPrefix
  <1>1. Init => PrefixInv(w)
    <2> SUFFICES ASSUME Init PROVE PrefixInv(w)
      OBVIOUS
    <2>1. OneChain(w) /\ HoldsPrefix
      BY DEF Init, OneChain, HoldsPrefix
    <2> QED BY <2>1, TypedInit DEF PrefixInv
  <1>2. PrefixInv(w) /\ [Next]_vars => PrefixInv(w)'
    <2> SUFFICES ASSUME PrefixInv(w), [Next]_vars PROVE PrefixInv(w)'
      OBVIOUS
    <2>1. Typed'
      BY TypedStep DEF PrefixInv
    <2>2. CASE \E d \in Device : write(d)
      <3>1. write(w)
        BY <2>2 DEF write
      <3> QED BY <2>1, <3>1, WritePrefix
    <2>3. CASE created' = created /\ ledger' = ledger
      BY <2>1, <2>3 DEF PrefixInv, OneChain, HoldsPrefix
    <2>4. CASE created' = created /\ \E d \in Device, e \in created : process(d, e)
      BY <2>1, <2>4, ProcessPrefix
    <2> QED BY <2>2, <2>3, <2>4, LedgerSteps DEF PrefixInv
  <1>3. PrefixInv(w) => HoldsPrefix
    BY DEF PrefixInv
  <1> QED BY <1>1, <1>2, <1>3, PTL DEF Spec
=============================================================================
