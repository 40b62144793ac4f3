------------------------- MODULE SplitLedgerProofs -------------------------
(***************************************************************************)
(* For any members, devices, faults and bounds, the state of SplitLedger   *)
(* has its type and nothing is kept without the entry it names; where      *)
(* nothing is edited, clocks grow along these links, and the devices       *)
(* implement the replicated log.                                           *)
(*                                                                         *)
(* The inductive invariant is LinkedInv.  LinkedLedgers alone is not       *)
(* inductive: a device accepts an entry whose previous one it knows by its *)
(* id, and that this one has the smaller clock follows only from what is   *)
(* known of the entries built so far, that ids are issued once and that an *)
(* entry was built on one with a smaller clock.                            *)
(***************************************************************************)
EXTENDS SplitLedgerProperties, LedgerProofs

-----------------------------------------------------------------------------
(* Inboxes.                                                                *)

LEMMA InboxesGrow ==
  ASSUME NEW C, NEW D, C \subseteq D
  PROVE  Inboxes(C) \subseteq Inboxes(D)
  <1>1. Message(C) \subseteq Message(D)
    BY DEF Message
  <1>2. Seq(Message(C)) \subseteq Seq(Message(D))
    BY <1>1
  <1> QED BY <1>2 DEF Inboxes

LEMMA PushedTyped ==
  ASSUME NEW C, inbox \in Inboxes(C), NEW d \in Device, NEW q \in Seq(C)
  PROVE  Pushed(d, q) \in Inboxes(C)
  <1> DEFINE m == [i \in DOMAIN q |-> [kind |-> "new", entries |-> {q[i]}]]
  <1>1. m \in Seq(Message(C))
    <2>1. DOMAIN q = 1 .. Len(q) /\ Len(q) \in Nat
      OBVIOUS
    <2>2. \A i \in DOMAIN q : [kind |-> "new", entries |-> {q[i]}] \in Message(C)
      BY DEF Message
    <2>3. m \in [1 .. Len(q) -> Message(C)]
      BY <2>1, <2>2
    <2> QED BY <2>1, <2>3
  <1> HIDE DEF m
  <1>2. \A x \in Device : inbox[x] \in Seq(Message(C))
    BY DEF Inboxes
  <1>3. \A x \in Device : inbox[x] \o m \in Seq(Message(C))
    BY <1>1, <1>2
  <1> QED BY <1>2, <1>3 DEF Pushed, Inboxes, m

LEMMA PushTyped ==
  ASSUME NEW C, inbox \in Inboxes(C), NEW e \in C, NEW d \in Device
  PROVE  PushAfter(d, e) \in Inboxes(C)
  <1>1. <<e>> \in Seq(C)
    OBVIOUS
  <1> QED BY <1>1, PushedTyped DEF PushAfter

\* What is broadcast again are entries of the ledger.
LEMMA RepublishedTyped ==
  ASSUME NEW L, IsFiniteSet(L), NEW q \in Republished(L)
  PROVE  q \in Seq(L) /\ ToSet(q) \subseteq L
  <1>1. PICK T \in SUBSET Unsent(L) : q \in SetToSeqs(T)
    BY DEF Republished
  <1>2. T \subseteq L
    BY DEF Unsent
  <1>3. Cardinality(T) \in Nat
    BY <1>2, FS_Subset, FS_CardinalityType
  <1>4. q \in [1 .. Cardinality(T) -> L]
    BY <1>1, <1>2 DEF SetToSeqs
  <1>5. q \in Seq(L)
    BY <1>3, <1>4
  <1> QED BY <1>4, <1>5 DEF ToSet

LEMMA AnswerTyped ==
  ASSUME NEW C, NEW q \in Seq(Message(C)), NEW R \in SUBSET C, NEW clock
  PROVE  AnswerTo(q, R, clock) \in Seq(Message(C))
  <1> DEFINE m == [kind |-> "entries", entries |-> EntriesAfter(R, clock)]
  <1>1. m \in Message(C)
    BY DEF Message, EntriesAfter
  <1> HIDE DEF m
  <1>2. Append(q, m) \in Seq(Message(C))
    BY <1>1
  <1> QED BY <1>2 DEF AnswerTo, m

LEMMA StoreTyped ==
  ASSUME NEW C, store \subseteq C, NEW e \in C, NEW d \in Device
  PROVE  StoreAfter(d, e) \subseteq C
  BY DEF StoreAfter

(***************************************************************************)
(* refreshGroups keeps the types, and saves no other entries than it is    *)
(* given.                                                                  *)
(***************************************************************************)
LEMMA RefreshTyped ==
  ASSUME NEW C, NEW d \in Device, NEW L \in SUBSET C, NEW st,
         NEW R \in SUBSET C, NEW B \in Inboxes(C), NEW K \in [Device -> SUBSET C],
         refresh \in [Device -> Phase],
         refreshGroups(d, L, st, R, B, K)
  PROVE  /\ refresh' \in [Device -> Phase]
         /\ inbox' \in Inboxes(C)
         /\ disk' \in [Device -> SUBSET C]
         /\ \A x \in Device : disk'[x] \in {K[x], L}
  <1>1. CASE L # {} /\ ChainValid(L) /\ conn[d]
    <2>1. AnswerTo(B[d], R, StateOf(L).clock) \in Seq(Message(C))
      BY AnswerTyped DEF Inboxes
    <2>2. inbox' = [B EXCEPT ![d] = AnswerTo(B[d], R, StateOf(L).clock)]
      BY <1>1 DEF refreshGroups
    <2>3. inbox' \in Inboxes(C)
      BY <2>1, <2>2 DEF Inboxes
    <2> QED BY <1>1, <2>3 DEF refreshGroups, Phase
  <1>2. CASE L # {} /\ ChainValid(L) /\ ~conn[d]
    BY <1>2 DEF refreshGroups, Phase
  <1>3. CASE ~(L # {} /\ ChainValid(L))
    BY <1>3 DEF refreshGroups
  <1> QED BY <1>1, <1>2, <1>3

-----------------------------------------------------------------------------
(* Links.                                                                  *)

LEMMA ChainedIsUnbroken ==
  ASSUME NEW S, Chained(S)
  PROVE  Unbroken(S)
  BY DEF Chained, Linked, Unbroken

LEMMA LinkedAdd ==
  ASSUME NEW S, Chained(S), NEW e,
         \/ e.type = "Genesis"
         \/ \E f \in S : f.id = e.prev /\ ("edit" \in Ops \/ f.clock < e.clock)
  PROVE  Chained(S \cup {e})
  BY DEF Chained, Linked, Unbroken

LEMMA LinkedUnion ==
  ASSUME NEW S, NEW T, Chained(S), Chained(T)
  PROVE  Chained(S \cup T)
  BY DEF Chained, Linked, Unbroken

\* A set that holds the previous entry of each of its entries is linked: the
\* id of that entry decides which one it is, and with it the clock.
LEMMA ClosedIsChained ==
  ASSUME LinkedInv, NEW S \in SUBSET created, Unbroken(S)
  PROVE  Chained(S)
  <1> SUFFICES ASSUME "edit" \notin Ops, NEW e \in S, e.type # "Genesis"
               PROVE  \E f \in S : f.id = e.prev /\ f.clock < e.clock
    BY DEF Chained, Linked
  <1>1. PICK f \in S : f.id = e.prev
    BY DEF Unbroken
  <1>2. PICK g \in created : g.id = e.prev /\ g.clock < e.clock
    BY DEF LinkedInv, Chained, Linked
  <1>3. f = g
    BY <1>1, <1>2 DEF LinkedInv, IdsOnce
  <1> QED BY <1>1, <1>2, <1>3

LEMMA ValidIsChained ==
  ASSUME LinkedInv, NEW S \in SUBSET created, ChainValid(S)
  PROVE  Chained(S)
  <1>1. ASSUME NEW e \in S, e.type # "Genesis"
        PROVE  \E f \in S : f.id = e.prev
    <2>1. <<e, StateOf(Preceding(S, e))>> \in Replay(S)
      BY DEF Replay
    <2>2. validateEntry(e, Preceding(S, e), StateOf(Preceding(S, e)))
      BY <2>1 DEF ChainValid
    <2> QED BY <1>1, <2>2 DEF validateEntry, PreviousHashOK, Preceding
  <1> QED BY <1>1, ClosedIsChained DEF Unbroken

LEMMA AcceptedIsChained ==
  ASSUME LinkedInv, NEW d \in Device, NEW e \in created, Accepts(d, e)
  PROVE  Chained(ledger[d] \cup {e})
  <1>1. Unbroken(ledger[d])
    BY ChainedIsUnbroken DEF LinkedInv
  <1>2. e.type # "Genesis" => \E f \in ledger[d] : f.id = e.prev
    BY DEF Accepts, validateEntry, PreviousHashOK
  <1>3. ledger[d] \cup {e} \in SUBSET created
    BY DEF LinkedInv, StorageTypeOK
  <1>4. Unbroken(ledger[d] \cup {e})
    BY <1>1, <1>2 DEF Unbroken
  <1> QED BY <1>3, <1>4, ClosedIsChained

-----------------------------------------------------------------------------
(* Building an entry.                                                      *)

LEMMA BuiltTyped ==
  ASSUME StorageTypeOK, IsFiniteSet(created), NEW d \in Device, NEW last \in ledger[d],
         NEW ts \in Stamp, NEW type \in EntryType, NEW payload \in PayloadOf[type]
  PROVE  buildEntry(d, last, ts, type, payload) \in Entry
  <1>1. last.id \in Nat /\ last.clock \in Nat
    BY EntryFields DEF StorageTypeOK
  <1>2. Cardinality(created) \in Nat
    BY FS_CardinalityType
  <1>3. buildEntry(d, last, ts, type, payload) \in EntryOf(type)
    BY <1>1, <1>2 DEF buildEntry, EntryOf, NoHash
  <1> QED BY <1>3, EntryFields

LEMMA NextId ==
  ASSUME IdsOnce, NEW e, e.id = Cardinality(created) + 1, created' = created \cup {e}
  PROVE  IdsOnce'
  <1>1. Cardinality(created) \in Nat
    BY FS_CardinalityType DEF IdsOnce
  <1>2. e \notin created
    BY <1>1 DEF IdsOnce
  <1>3. IsFiniteSet(created') /\ Cardinality(created') = Cardinality(created) + 1
    BY <1>2, FS_AddElement DEF IdsOnce
  <1>4. \A f \in created' : f.id \in 1 .. Cardinality(created')
    BY <1>1, <1>3 DEF IdsOnce
  <1>5. \A f, g \in created' : f.id = g.id => f = g
    BY <1>1 DEF IdsOnce
  <1> QED BY <1>3, <1>4, <1>5 DEF IdsOnce

\* What the pages of a device keep, and its edits.
PagesTyped ==
  /\ page \in [Device -> Page]
  /\ joining \in [Device -> {"no", "asked", "synced"}]

EditsTyped == editing \in [Device -> SUBSET Edit] /\ EditsHeld

LEMMA FollowingTyped ==
  ASSUME NEW S \in SUBSET Edit, NEW e, e.id \in Nat
  PROVE  /\ Following(S, e) \subseteq Edit
         /\ \A x \in Following(S, e) : x.latest = e.id
         /\ Following(S, e) # {} => S # {}
  <1>1. ASSUME NEW x \in S
        PROVE  [x EXCEPT !.latest = e.id] \in Edit /\ [x EXCEPT !.latest = e.id].latest = e.id
    BY DEF Edit
  <1>2. ASSUME NEW y \in Following(S, e)
        PROVE  y \in Edit /\ y.latest = e.id /\ S # {}
    <2>1. PICK x \in S : y = [x EXCEPT !.latest = e.id]
      BY DEF Following
    <2> QED BY <1>1, <2>1
  <1> QED BY <1>2

LEMMA ResumedTyped ==
  ASSUME NEW S \in SUBSET Edit
  PROVE  /\ Resumed(S) \subseteq Edit
         /\ \A x \in Resumed(S) : \E y \in S : x.latest = y.latest
  <1>1. ASSUME NEW x \in S
        PROVE  [x EXCEPT !.waits = FALSE] \in Edit /\ [x EXCEPT !.waits = FALSE].latest = x.latest
    BY DEF Edit
  <1> QED BY <1>1 DEF Resumed

\* Edits are held if they follow an entry of the ledger that is new there, ...
LEMMA FollowingHeld ==
  ASSUME LinkedInv, NEW d \in Device, NEW S \in SUBSET Edit, S # {} => "edit" \in Ops,
         NEW L, NEW e \in L, e.id \in Nat, created' # {}, ledger' = [ledger EXCEPT ![d] = L],
         editing' = [editing EXCEPT ![d] = Following(S, e)]
  PROVE  EditsTyped'
  <1>1. Following(S, e) \subseteq Edit
        /\ (\A x \in Following(S, e) : x.latest = e.id)
        /\ (Following(S, e) # {} => S # {})
    BY FollowingTyped
  <1> QED BY <1>1 DEF LinkedInv, StorageTypeOK, EditsTyped, EditsHeld

\* ... if nothing happens to them and to the ledgers, ...
LEMMA EditsKept ==
  ASSUME LinkedInv, UNCHANGED <<created, ledger, editing>>
  PROVE  EditsTyped'
  BY DEF LinkedInv, StorageTypeOK, EditsTyped, EditsHeld

\* ... and if they only go on.
LEMMA ResumedHeld ==
  ASSUME LinkedInv, NEW d \in Device, UNCHANGED <<created, ledger>>,
         editing' = [editing EXCEPT ![d] = Resumed(@)]
  PROVE  EditsTyped'
  <1>1. Resumed(editing[d]) \subseteq Edit
        /\ (\A x \in Resumed(editing[d]) : \E y \in editing[d] : x.latest = y.latest)
    BY ResumedTyped DEF LinkedInv, StorageTypeOK
  <1> QED BY <1>1 DEF LinkedInv, StorageTypeOK, EditsTyped, EditsHeld

(***************************************************************************)
(* A new entry, appended and published, keeps the invariant if it names an *)
(* entry of the ledger, with a larger clock unless there are edits, and if *)
(* the rest of the step keeps its types and saves only the entries of the  *)
(* ledger.                                                                 *)
(***************************************************************************)
LEMMA AppendKeeps ==
  ASSUME LinkedInv, NEW d \in Device, NEW e \in Entry,
         e.id = Cardinality(created) + 1,
         \E f \in ledger[d] : f.id = e.prev /\ ("edit" \in Ops \/ f.clock < e.clock),
         NEW S \in SUBSET Edit, S # {} => "edit" \in Ops,
         appendEntry(d, e, S),
         store' \in {store, StoreAfter(d, e)},
         inbox' \in Inboxes(created'),
         disk' \in [Device -> SUBSET created'],
         \A x \in Device : disk'[x] \in {disk[x], ledger[d] \cup {e}},
         PagesTyped',
         refresh' \in [Device -> Phase]
  PROVE  LinkedInv'
  <1>1. created' = created \cup {e} /\ ledger' = [ledger EXCEPT ![d] = ledger[d] \cup {e}]
    BY DEF appendEntry
  <1>0. EditsTyped'
    <2>1. e.id \in Nat
      BY FS_CardinalityType DEF LinkedInv, IdsOnce
    <2>2. editing' = [editing EXCEPT ![d] = Following(S, e)]
      BY DEF appendEntry
    <2> QED BY <1>1, <2>1, <2>2, FollowingHeld
  <1>2. StorageTypeOK'
    BY <1>0, <1>1, StoreTyped
       DEF LinkedInv, StorageTypeOK, appendEntry, StoreAfter, PagesTyped, EditsTyped
  <1>3. IdsOnce'
    BY <1>1, NextId DEF LinkedInv
  <1>4. \E f \in created : f.id = e.prev /\ ("edit" \in Ops \/ f.clock < e.clock)
    BY DEF LinkedInv, StorageTypeOK
  <1>5. Chained(created')
    BY <1>1, <1>4, LinkedAdd DEF LinkedInv
  <1>6. Chained(ledger[d] \cup {e})
    BY LinkedAdd DEF LinkedInv
  <1>7. \A x \in Device : Chained(ledger'[x]) /\ Chained(disk'[x])
    BY <1>1, <1>6 DEF LinkedInv, StorageTypeOK
  <1> QED BY <1>0, <1>2, <1>3, <1>5, <1>7 DEF LinkedInv, EditsTyped

LEMMA BroadcastKeeps ==
  ASSUME LinkedInv, NEW d \in Device, NEW e \in Entry,
         e.id = Cardinality(created) + 1,
         \E f \in ledger[d] : f.id = e.prev /\ ("edit" \in Ops \/ f.clock < e.clock),
         NEW S \in SUBSET Edit, S # {} => "edit" \in Ops,
         Broadcast(d, e, S),
         PagesTyped'
  PROVE  LinkedInv'
  <1> DEFINE C == created \cup {e}
             L == ledger[d] \cup {e}
  <1>1. appendEntry(d, e, S) /\ store' = StoreAfter(d, e) /\ created' = C
    BY DEF Broadcast, appendEntry
  <1>2. refreshGroups(d, L, cache[d], StoreAfter(d, e), PushAfter(d, e), disk)
    BY DEF Broadcast
  <1>3. L \in SUBSET C /\ StoreAfter(d, e) \in SUBSET C /\ disk \in [Device -> SUBSET C]
    BY DEF LinkedInv, StorageTypeOK, StoreAfter
  <1>4. PushAfter(d, e) \in Inboxes(C)
    <2>1. inbox \in Inboxes(C)
      BY InboxesGrow DEF LinkedInv, StorageTypeOK
    <2> QED BY <2>1, PushTyped
  <1>5. refresh \in [Device -> Phase]
    BY DEF LinkedInv, StorageTypeOK
  <1> HIDE DEF C, L
  <1>6. /\ refresh' \in [Device -> Phase]
        /\ inbox' \in Inboxes(C)
        /\ disk' \in [Device -> SUBSET C]
        /\ \A x \in Device : disk'[x] \in {disk[x], L}
    BY <1>2, <1>3, <1>4, <1>5, RefreshTyped
  <1> QED BY <1>1, <1>6, AppendKeeps DEF L

LEMMA WriteAmidKeeps ==
  ASSUME LinkedInv, NEW d \in Device, NEW type \in EntryType, NEW payload \in PayloadOf[type],
         NEW S \in SUBSET Edit, S # {} => "edit" \in Ops,
         WriteAmid(d, type, payload, S), PagesTyped'
  PROVE  LinkedInv'
  <1>1. PICK last \in ledger[d], ts \in Stamp :
          Broadcast(d, buildEntry(d, last, ts, type, payload), S)
    BY DEF WriteAmid
  <1> DEFINE e == buildEntry(d, last, ts, type, payload)
  <1>2. e \in Entry
    BY BuiltTyped DEF LinkedInv, IdsOnce
  <1>3. e.id = Cardinality(created) + 1
    BY DEF buildEntry
  <1>4. last.id = e.prev /\ last.clock < e.clock
    BY EntryFields DEF LinkedInv, StorageTypeOK, buildEntry
  <1> HIDE DEF e
  <1> QED BY <1>1, <1>2, <1>3, <1>4, BroadcastKeeps DEF e

LEMMA WriteKeeps ==
  ASSUME LinkedInv, NEW d \in Device, NEW type \in EntryType, NEW payload \in PayloadOf[type],
         Write(d, type, payload), PagesTyped'
  PROVE  LinkedInv'
  <1>1. editing[d] \in SUBSET Edit /\ (editing[d] # {} => "edit" \in Ops)
    BY DEF LinkedInv, StorageTypeOK, EditsHeld
  <1> QED BY <1>1, WriteAmidKeeps DEF Write

LEMMA ExpensePayload ==
  /\ PayloadOf["ExpenseCreated"] = Expense
  /\ \A e \in Entry : e.type = "ExpenseCreated" => e.payload \in Expense
  <1>1. PayloadOf["ExpenseCreated"] = Expense
    BY DEF PayloadOf
  <1> QED BY <1>1, EntryFields

LEMMA ExpenseTyped ==
  ASSUME NEW payer \in Member, NEW S \in SUBSET Member
  PROVE  NewExpense(payer, S) \in PayloadOf["ExpenseCreated"]
  <1>1. IsFiniteSet(Member)
    BY LedgerAssumption
  <1>2. IsFiniteSet(S) /\ Cardinality(S) \in Nat /\ Cardinality(S) <= Cardinality(Member)
    BY <1>1, FS_Subset, FS_CardinalityType
  <1>3. Cardinality(Member) \in Nat /\ Cardinality(Member) # 0
    BY <1>1, FS_CardinalityType, FS_EmptySet
  <1>4. Cardinality(S) \in Amount /\ 1 \in Amount
    <2>1. Cardinality(S) \in 0 .. Cardinality(Member) /\ 1 \in 0 .. Cardinality(Member)
      BY <1>2, <1>3
    <2>2. 0 .. Cardinality(Member) \subseteq Amount
      BY LedgerAssumption
    <2> QED BY <2>1, <2>2
  <1>5. [m \in S |-> 1] \in Shares
    BY <1>4 DEF Shares
  <1> QED BY <1>4, <1>5, ExpensePayload DEF NewExpense, Expense

LEMMA SettlementTyped ==
  ASSUME NEW from \in Member, NEW to \in Member, NEW amount \in Amount
  PROVE  Settlement(from, to, amount) \in PayloadOf["ExpenseCreated"]
  <1>1. [m \in {to} |-> amount] \in Shares
    <2>1. [m \in {to} |-> amount] \in [{to} -> Amount] /\ {to} \in SUBSET Member
      OBVIOUS
    <2> QED BY <2>1 DEF Shares
  <1> QED BY <1>1, ExpensePayload DEF Settlement, Expense

-----------------------------------------------------------------------------
(* The initial state and the steps.                                        *)

LEMMA InitLinked == Init => LinkedInv
  <1> SUFFICES ASSUME Init PROVE LinkedInv
    OBVIOUS
  <1>1. StorageTypeOK
    BY SplitLedgerAssumption
       DEF Init, StorageTypeOK, Phase, Inboxes, Message, Page, NoPage
  <1>2. IdsOnce
    BY FS_EmptySet DEF Init, IdsOnce
  <1>3. Chained({})
    BY DEF Chained, Linked, Unbroken
  <1> QED BY <1>1, <1>2, <1>3 DEF LinkedInv, Init, EditsHeld

\* The steps that build no entry: the ledgers, the localStorages and the rest
\* stay within what was built, and what a ledger or a localStorage holds is
\* linked.
LEMMA OtherStepKeeps ==
  ASSUME LinkedInv, created' = created,
         ledger' \in [Device -> SUBSET created],
         disk' \in [Device -> SUBSET created],
         \A x \in Device : Chained(ledger'[x]) /\ Chained(disk'[x]),
         PagesTyped', EditsTyped',
         refresh' \in [Device -> Phase],
         conn' \in [Device -> BOOLEAN],
         inbox' \in Inboxes(created),
         store' \subseteq created,
         faults' \in 0 .. MaxFaults
  PROVE  LinkedInv'
  BY DEF LinkedInv, StorageTypeOK, IdsOnce, Chained, Linked, Unbroken, PagesTyped, EditsTyped

LEMMA PagesKept ==
  ASSUME LinkedInv, UNCHANGED <<page, joining>>
  PROVE  PagesTyped'
  BY DEF LinkedInv, StorageTypeOK, PagesTyped

LEMMA RepublishedIsBuilt ==
  ASSUME LinkedInv, NEW L \in SUBSET created, NEW q \in Republished(L)
  PROVE  q \in Seq(created) /\ ToSet(q) \subseteq created
  <1>1. IsFiniteSet(L)
    BY FS_Subset DEF LinkedInv, IdsOnce
  <1>2. q \in Seq(L) /\ ToSet(q) \subseteq L
    BY <1>1, RepublishedTyped
  <1> QED BY <1>2

LEMMA FaultTyped ==
  ASSUME LinkedInv, NEW kind, Fault(kind)
  PROVE  faults' \in 0 .. MaxFaults
  BY SplitLedgerAssumption DEF LinkedInv, StorageTypeOK, Fault

LEMMA createGroupKeeps ==
  ASSUME LinkedInv, NEW d \in Device, createGroup(d)
  PROVE  LinkedInv'
  <1> USE DEF LinkedInv
  <1> DEFINE g(ts) == [id |-> 1, prev |-> NoHash, clock |-> 0, ts |-> ts,
                       type |-> "Genesis", dev |-> d,
                       payload |-> [member |-> Owner[d]]]
  <1>1. PICK ts \in Stamp :
          /\ created' = {g(ts)}
          /\ ledger' = [ledger EXCEPT ![d] = {g(ts)}]
          /\ refreshGroups(d, {g(ts)}, cache[d], store, inbox, disk)
    BY DEF createGroup
  <1>2. created = {} /\ UNCHANGED <<page, editing, joining, conn, store, faults>>
    BY DEF createGroup
  <1> DEFINE e == g(ts)
             C == {e}
  <1>3. e \in Entry /\ e.id = 1 /\ e.type = "Genesis"
    <2>1. [member |-> Owner[d]] \in PayloadOf["Genesis"]
      BY SplitLedgerAssumption DEF PayloadOf
    <2>2. e \in EntryOf("Genesis")
      BY <2>1 DEF EntryOf, NoHash
    <2> QED BY <2>2, EntryFields DEF EntryType
  <1> HIDE DEF g
  <1>4. /\ refresh' \in [Device -> Phase]
        /\ inbox' \in Inboxes(C)
        /\ disk' \in [Device -> SUBSET C]
    <2>1. inbox \in Inboxes(C)
      BY <1>2, InboxesGrow DEF StorageTypeOK
    <2>2. /\ refresh \in [Device -> Phase]
          /\ disk \in [Device -> SUBSET C]
          /\ store \in SUBSET C
      BY <1>2 DEF StorageTypeOK
    <2> QED BY <1>1, <2>1, <2>2, RefreshTyped
  <1>5. StorageTypeOK'
    BY <1>1, <1>2, <1>3, <1>4 DEF StorageTypeOK
  <1>6. IdsOnce'
    <2>1. IsFiniteSet({e}) /\ Cardinality({e}) = 1
      BY FS_Singleton
    <2>2. 1 \in 1 .. 1
      OBVIOUS
    <2> HIDE DEF e
    <2> QED BY <1>1, <1>3, <2>1, <2>2 DEF IdsOnce, e
  <1>7. \A S \in SUBSET C : Chained(S)
    BY <1>3 DEF Chained, Linked, Unbroken
  <1>9. EditsHeld'
    <2>1. \A x \in Device : editing[x] = {}
      BY <1>2 DEF EditsHeld
    <2> QED BY <1>2, <2>1 DEF EditsHeld
  <1>8. Chained(created') /\ \A x \in Device : Chained(ledger'[x]) /\ Chained(disk'[x])
    BY <1>1, <1>4, <1>5, <1>7 DEF StorageTypeOK
  <1> QED BY <1>2, <1>5, <1>6, <1>8, <1>9

LEMMA processIncomingEntryKeeps ==
  ASSUME LinkedInv, NEW d \in Device, processIncomingEntry(d)
  PROVE  LinkedInv'
  <1> USE DEF LinkedInv
  <1> DEFINE m == Head(inbox[d])
  <1>1. inbox[d] # <<>> /\ inbox[d] \in Seq(Message(created))
    BY DEF processIncomingEntry, StorageTypeOK, Inboxes
  <1>2. PICK e \in m.entries :
          LET rest == IF m.kind = "new" THEN Tail(inbox[d])
                      ELSE [inbox[d] EXCEPT ![1].entries = @ \ {e}]
              B == [inbox EXCEPT ![d] = rest]
              L == ledger[d] \cup {e}
          IN IF Accepts(d, e)
             THEN /\ ledger' = [ledger EXCEPT ![d] = L]
                  /\ refreshGroups(d, L, applyEntry(e, cache[d]), store, B,
                                   [disk EXCEPT ![d] = L])
                  /\ page' = [page EXCEPT ![d] =
                                PageAfter(@, applyEntry(e, cache[d]), L)]
                  /\ editing' = [editing EXCEPT ![d] = Following(@, e)]
             ELSE /\ inbox' = B
                  /\ UNCHANGED <<ledger, cache, disk, page, editing, refresh>>
    BY DEF processIncomingEntry
  <1> DEFINE rest == IF m.kind = "new" THEN Tail(inbox[d])
                     ELSE [inbox[d] EXCEPT ![1].entries = @ \ {e}]
             B == [inbox EXCEPT ![d] = rest]
             L == ledger[d] \cup {e}
  <1>3. m \in Message(created) /\ e \in created
    <2>1. m \in Message(created)
      BY <1>1
    <2> QED BY <2>1 DEF Message
  <1>4. B \in Inboxes(created)
    <2>1. m.entries \ {e} \in SUBSET created
      BY <1>3 DEF Message
    <2>2. Tail(inbox[d]) \in Seq(Message(created))
      BY <1>1
    <2>3. [inbox[d] EXCEPT ![1].entries = @ \ {e}] \in Seq(Message(created))
      <3> DEFINE n == [m EXCEPT !.entries = @ \ {e}]
      <3>1. n \in Message(created)
        BY <1>3, <2>1 DEF Message
      <3>2. m = inbox[d][1]
        BY <1>1
      <3>3. [inbox[d] EXCEPT ![1] = n] \in Seq(Message(created))
        BY <1>1, <3>1
      <3> QED BY <3>2, <3>3
    <2>4. rest \in Seq(Message(created))
      BY <2>2, <2>3
    <2> HIDE DEF rest
    <2> QED BY <2>4 DEF Inboxes, StorageTypeOK
  <1>5. UNCHANGED <<created, joining, conn, store, faults>>
    BY DEF processIncomingEntry
  <1> HIDE DEF B, m
  <1>6. CASE Accepts(d, e)
    <2>1. ledger' = [ledger EXCEPT ![d] = L]
      BY <1>2, <1>6
    <2>2. refreshGroups(d, L, applyEntry(e, cache[d]), store, B, [disk EXCEPT ![d] = L])
      BY <1>2, <1>6 DEF B, m
    <2>3. L \in SUBSET created /\ [disk EXCEPT ![d] = L] \in [Device -> SUBSET created]
      BY <1>3 DEF StorageTypeOK
    <2>4. Chained(L)
      BY <1>3, <1>6, AcceptedIsChained
    <2>7. PagesTyped'
      <3>1. page' = [page EXCEPT ![d] = PageAfter(@, applyEntry(e, cache[d]), L)]
        BY <1>2, <1>6
      <3>2. page' \in [Device -> Page]
        BY <3>1 DEF StorageTypeOK, PageAfter, Page, ActiveMembers
      <3> QED BY <1>5, <3>2 DEF StorageTypeOK, PagesTyped
    <2>8. EditsTyped'
      <3>1. editing' = [editing EXCEPT ![d] = Following(editing[d], e)]
        BY <1>2, <1>6
      <3>2. editing[d] \in SUBSET Edit /\ (editing[d] # {} => "edit" \in Ops)
        BY DEF StorageTypeOK, EditsHeld
      <3>3. e.id \in Nat /\ created' # {} /\ e \in L
        BY <1>3, <1>5, EntryFields DEF StorageTypeOK
      <3> HIDE DEF L, LinkedInv
      <3> QED BY <2>1, <3>1, <3>2, <3>3, FollowingHeld
    <2> HIDE DEF L
    <2>5. /\ refresh' \in [Device -> Phase]
          /\ inbox' \in Inboxes(created)
          /\ disk' \in [Device -> SUBSET created]
          /\ \A x \in Device : disk'[x] \in {[disk EXCEPT ![d] = L][x], L}
      <3>1. refresh \in [Device -> Phase] /\ store \in SUBSET created
        BY DEF StorageTypeOK
      <3> QED BY <1>4, <2>2, <2>3, <3>1, RefreshTyped
    <2>6. \A x \in Device : Chained(ledger'[x]) /\ Chained(disk'[x])
      BY <2>1, <2>4, <2>5 DEF StorageTypeOK
    <2> QED BY <1>5, <2>1, <2>3, <2>5, <2>6, <2>7, <2>8, OtherStepKeeps DEF StorageTypeOK
  <1>7. CASE ~Accepts(d, e)
    <2>1. inbox' = B /\ UNCHANGED <<ledger, cache, disk, page, editing, refresh>>
      BY <1>2, <1>7 DEF B, m
    <2> QED BY <1>4, <1>5, <2>1, PagesKept, EditsKept, OtherStepKeeps DEF StorageTypeOK
  <1> QED BY <1>6, <1>7

LEMMA initialSyncKeeps ==
  ASSUME LinkedInv, NEW d \in Device, initialSync(d)
  PROVE  LinkedInv'
  <1> USE DEF LinkedInv
  <1> DEFINE S  == Head(inbox[d]).entries
             L  == IF ChainValid(S) THEN ledger[d] \cup S ELSE ledger[d]
             st == IF S # {} /\ ChainValid(S) THEN StateOf(S) ELSE cache[d]
  <1>1. inbox[d] # <<>> /\ inbox[d] \in Seq(Message(created))
    BY DEF initialSync, StorageTypeOK, Inboxes
  <1>2. S \in SUBSET created
    <2>1. Head(inbox[d]) \in Message(created)
      BY <1>1
    <2> QED BY <2>1 DEF Message
  <1>3. PICK q \in Republished(L) :
          /\ ledger' = [ledger EXCEPT ![d] = L]
          /\ store' = store \cup ToSet(q)
          /\ inbox' = [Pushed(d, q) EXCEPT ![d] = AnswerTo(Tail(@), store, st.clock)]
          /\ joining' = [joining EXCEPT ![d] = IF @ = "asked" THEN "synced" ELSE @]
          /\ UNCHANGED <<created, disk, page, refresh, conn, faults>>
    BY DEF initialSync
  <1>8. \/ L = ledger[d] /\ UNCHANGED editing
        \/ \E last \in L \ ledger[d] :
             editing' = [editing EXCEPT ![d] = Following(@, last)]
    BY DEF initialSync
  <1>4. L \in SUBSET created /\ Chained(L)
    <2>1. ledger[d] \in SUBSET created /\ Chained(ledger[d])
      BY DEF StorageTypeOK
    <2>2. CASE ChainValid(S)
      <3>1. Chained(S)
        BY <1>2, <2>2, ValidIsChained
      <3> HIDE DEF S
      <3> QED BY <1>2, <2>1, <2>2, <3>1, LinkedUnion
    <2>3. CASE ~ChainValid(S)
      BY <2>1, <2>3
    <2> QED BY <2>2, <2>3
  <1> HIDE DEF S, L, st
  <1>5. store' \subseteq created /\ inbox' \in Inboxes(created)
    <2>1. q \in Seq(created) /\ ToSet(q) \subseteq created
      BY <1>3, <1>4, RepublishedIsBuilt
    <2>2. Pushed(d, q) \in Inboxes(created) /\ Pushed(d, q)[d] = inbox[d]
      BY <2>1, PushedTyped DEF StorageTypeOK, Pushed
    <2>3. Tail(inbox[d]) \in Seq(Message(created)) /\ store \in SUBSET created
      BY <1>1 DEF StorageTypeOK
    <2>4. AnswerTo(Tail(inbox[d]), store, st.clock) \in Seq(Message(created))
      BY <2>3, AnswerTyped
    <2> QED BY <1>3, <2>1, <2>2, <2>3, <2>4 DEF Inboxes
  <1>6. \A x \in Device : Chained(ledger'[x]) /\ Chained(disk'[x])
    BY <1>3, <1>4 DEF StorageTypeOK
  <1>7. PagesTyped'
    BY <1>3 DEF StorageTypeOK, PagesTyped
  <1>9. EditsTyped'
    <2>1. CASE L = ledger[d] /\ UNCHANGED editing
      <3>1. UNCHANGED <<created, ledger, editing>>
        BY <1>3, <2>1 DEF StorageTypeOK
      <3> QED BY <3>1, EditsKept
    <2>2. CASE \E last \in L \ ledger[d] :
                 editing' = [editing EXCEPT ![d] = Following(@, last)]
      <3>1. PICK last \in L :
              editing' = [editing EXCEPT ![d] = Following(editing[d], last)]
        BY <2>2
      <3>2. editing[d] \in SUBSET Edit /\ (editing[d] # {} => "edit" \in Ops)
        BY DEF StorageTypeOK, EditsHeld
      <3>3. last.id \in Nat /\ created' # {}
        BY <1>3, <1>4, EntryFields DEF StorageTypeOK
      <3> HIDE DEF LinkedInv
      <3> QED BY <1>3, <3>1, <3>2, <3>3, FollowingHeld
    <2> QED BY <1>8, <2>1, <2>2
  <1> QED BY <1>3, <1>4, <1>5, <1>6, <1>7, <1>9, OtherStepKeeps DEF StorageTypeOK

LEMMA settleUpKeeps ==
  ASSUME LinkedInv, NEW d \in Device, settleUp(d)
  PROVE  LinkedInv'
  <1> USE DEF LinkedInv
  <1>1. PICK from, to \in Member, amount \in Amount, last \in ledger[d], ts \in Stamp :
          LET e == buildEntry(d, last, ts, "ExpenseCreated", Settlement(from, to, amount))
          IN appendEntry(d, e, editing[d]) /\ store' = StoreAfter(d, e) /\ inbox' = PushAfter(d, e)
    BY DEF settleUp
  <1> DEFINE p == Settlement(from, to, amount)
             e == buildEntry(d, last, ts, "ExpenseCreated", p)
  <1>2. UNCHANGED <<disk, page, refresh, joining>>
    BY DEF settleUp
  <1>10. editing[d] \in SUBSET Edit /\ (editing[d] # {} => "edit" \in Ops)
    BY DEF StorageTypeOK, EditsHeld
  <1>3. p \in PayloadOf["ExpenseCreated"] /\ "ExpenseCreated" \in EntryType
    BY SettlementTyped DEF EntryType
  <1> HIDE DEF p
  <1>4. e \in Entry /\ e.id = Cardinality(created) + 1
    BY <1>3, BuiltTyped DEF IdsOnce, buildEntry
  <1>5. last.id = e.prev /\ last.clock < e.clock
    BY EntryFields DEF StorageTypeOK, buildEntry
  <1>6. /\ appendEntry(d, e, editing[d]) /\ created' = created \cup {e}
        /\ store' = StoreAfter(d, e) /\ inbox' = PushAfter(d, e)
    BY <1>1 DEF appendEntry, p
  <1> HIDE DEF e
  <1>7. inbox' \in Inboxes(created')
    <2>1. inbox \in Inboxes(created')
      BY <1>6, InboxesGrow DEF StorageTypeOK
    <2> QED BY <1>6, <2>1, PushTyped
  <1>8. disk' \in [Device -> SUBSET created']
    BY <1>2, <1>6 DEF StorageTypeOK
  <1>9. /\ refresh' \in [Device -> Phase]
        /\ \A x \in Device : disk'[x] \in {disk[x], ledger[d] \cup {e}}
    BY <1>2 DEF StorageTypeOK
  <1> QED BY <1>2, <1>4, <1>5, <1>6, <1>7, <1>8, <1>9, <1>10, PagesKept, AppendKeeps

LEMMA completeRecoveryKeeps ==
  ASSUME LinkedInv, NEW d \in Device, completeRecovery(d)
  PROVE  LinkedInv'
  <1> USE DEF LinkedInv
  <1>1. PICK m, next \in Member, ts \in Stamp, last \in ledger[d], signers \in SUBSET Member :
          LET e == buildEntry(d, last, ts, "RootKeyRotation",
                              [member |-> m, next |-> next, signers |-> signers])
          IN /\ appendEntry(d, e, editing[d])
             /\ refreshGroups(d, ledger[d] \cup {e}, cache[d], store, inbox, disk)
    BY DEF completeRecovery, ActiveMembers, NewRootKeys, CoSigners
  <1> DEFINE p == [member |-> m, next |-> next, signers |-> signers]
             e == buildEntry(d, last, ts, "RootKeyRotation", p)
             C == created \cup {e}
             L == ledger[d] \cup {e}
  <1>2. UNCHANGED <<page, joining, store>>
    BY DEF completeRecovery
  <1>3. p \in PayloadOf["RootKeyRotation"] /\ "RootKeyRotation" \in EntryType
    BY DEF PayloadOf, EntryType
  <1>4. appendEntry(d, e, editing[d]) /\ refreshGroups(d, L, cache[d], store, inbox, disk)
    BY <1>1
  <1> HIDE DEF p
  <1>5. e \in Entry /\ e.id = Cardinality(created) + 1
    BY <1>3, BuiltTyped DEF IdsOnce, buildEntry
  <1>6. last.id = e.prev /\ last.clock < e.clock
    BY EntryFields DEF StorageTypeOK, buildEntry
  <1> HIDE DEF e
  <1>7. created' = C /\ inbox \in Inboxes(C)
    BY <1>4, InboxesGrow DEF StorageTypeOK, appendEntry
  <1>8. L \in SUBSET C /\ store \in SUBSET C /\ disk \in [Device -> SUBSET C]
    BY DEF StorageTypeOK
  <1>9. refresh \in [Device -> Phase]
    BY DEF StorageTypeOK
  <1> HIDE DEF C, L
  <1>10. /\ refresh' \in [Device -> Phase]
         /\ inbox' \in Inboxes(C)
         /\ disk' \in [Device -> SUBSET C]
         /\ \A x \in Device : disk'[x] \in {disk[x], L}
    BY <1>4, <1>7, <1>8, <1>9, RefreshTyped
  <1>11. PagesTyped'
    BY <1>2, PagesKept
  <1>12. editing[d] \in SUBSET Edit /\ (editing[d] # {} => "edit" \in Ops)
    BY DEF StorageTypeOK, EditsHeld
  <1> HIDE DEF LinkedInv
  <1> QED BY <1>2, <1>4, <1>5, <1>6, <1>7, <1>10, <1>11, <1>12, AppendKeeps DEF L

LEMMA finishEditKeeps ==
  ASSUME LinkedInv, NEW d \in Device, finishEdit(d)
  PROVE  LinkedInv'
  <1> USE DEF LinkedInv
  <1> DEFINE g(x, ts) == [id |-> Cardinality(created) + 1, prev |-> x.latest,
                          clock |-> x.clock, ts |-> ts, type |-> "ExpenseCreated",
                          dev |-> d, payload |-> NewExpense(x.payer, x.members)]
  <1>1. PICK x \in editing[d], ts \in Stamp : Broadcast(d, g(x, ts), editing[d] \ {x})
    BY DEF finishEdit
  <1>2. editing[d] \in SUBSET Edit /\ x \in Edit /\ ledger[d] # {} /\ "edit" \in Ops
    BY DEF finishEdit, StorageTypeOK, EditsHeld
  <1>3. NewExpense(x.payer, x.members) \in PayloadOf["ExpenseCreated"]
    BY <1>2, ExpenseTyped DEF Edit
  <1> DEFINE e == g(x, ts)
  <1>4. e \in Entry /\ e.id = Cardinality(created) + 1 /\ e.prev = x.latest
    <2>1. Cardinality(created) \in Nat
      BY FS_CardinalityType DEF IdsOnce
    <2>2. x.latest \in Nat /\ x.clock \in Nat
      BY <1>2 DEF Edit
    <2>3. e \in EntryOf("ExpenseCreated")
      BY <1>3, <2>1, <2>2 DEF EntryOf, NoHash
    <2> QED BY <2>3, EntryFields DEF EntryType
  <1>5. PagesTyped'
    BY DEF finishEdit, StorageTypeOK, PagesTyped
  <1>6. Broadcast(d, e, editing[d] \ {x})
    BY <1>1
  <1> HIDE DEF e
  <1>7. \E f \in ledger[d] : f.id = e.prev /\ ("edit" \in Ops \/ f.clock < e.clock)
    BY <1>1, <1>2, <1>4 DEF EditsHeld
  <1>8. editing[d] \ {x} \in SUBSET Edit
    BY <1>2
  <1> QED BY <1>2, <1>4, <1>5, <1>6, <1>7, <1>8, BroadcastKeeps

LEMMA editFailsKeeps ==
  ASSUME LinkedInv, NEW d \in Device, editFails(d)
  PROVE  LinkedInv'
  <1>1. EditsTyped'
    BY DEF editFails, LinkedInv, StorageTypeOK, EditsTyped, EditsHeld
  <1> QED BY <1>1, PagesKept, OtherStepKeeps DEF editFails, LinkedInv, StorageTypeOK

\* The handlers that go through Write.
LEMMA WritersKeep ==
  ASSUME LinkedInv, NEW d \in Device,
         \/ joinGroup(d) \/ addExpense(d) \/ editExpense(d)
         \/ removeMember(d) \/ authorizeDevice(d) \/ revokeDevice(d)
  PROVE  LinkedInv'
  <1> USE SplitLedgerAssumption DEF LinkedInv, StorageTypeOK, EntryType
  <1>1. CASE joinGroup(d)
    <2>1. PICK i \in Member :
            Write(d, "MemberAdded", [member |-> Owner[d], inviter |-> i])
      BY <1>1 DEF joinGroup
    <2>2. [member |-> Owner[d], inviter |-> i] \in PayloadOf["MemberAdded"]
      BY DEF PayloadOf
    <2>3. PagesTyped'
      BY <1>1 DEF joinGroup, PagesTyped
    <2> QED BY <2>1, <2>2, <2>3, WriteKeeps
  <1>2. CASE addExpense(d)
    <2>1. Write(d, "ExpenseCreated", NewExpense(Owner[d], page[d].members))
      BY <1>2 DEF addExpense
    <2>2. NewExpense(Owner[d], page[d].members) \in PayloadOf["ExpenseCreated"]
      BY ExpenseTyped DEF Page
    <2>3. PagesTyped'
      BY <1>2 DEF addExpense, Close, PagesTyped, Page, NoPage
    <2> QED BY <2>1, <2>2, <2>3, WriteKeeps
  <1>3. CASE editExpense(d)
    <2> DEFINE n(x, last) == [latest  |-> last.id, clock |-> EditClock(last),
                              payer   |-> x.payload.payer, members |-> page[d].members,
                              waits   |-> ChainValid(ledger'[d])]
    <2>1. PICK x, last \in ledger[d] :
            /\ x.type = "ExpenseCreated"
            /\ WriteAmid(d, "ExpenseVoided", [ref |-> x.id], editing[d] \cup {n(x, last)})
      BY <1>3 DEF editExpense
    <2> DEFINE S == editing[d] \cup {n(x, last)}
    <2>2. x.id \in Nat /\ last.id \in Nat /\ last.clock \in Nat /\ x.payload.payer \in Member
      <3>1. x \in Entry /\ last \in Entry
        OBVIOUS
      <3>2. x.id \in Nat /\ last.id \in Nat /\ last.clock \in Nat
        BY <3>1, EntryFields
      <3>3. x.payload \in Expense
        BY <2>1, <3>1, ExpensePayload
      <3> QED BY <3>2, <3>3 DEF Expense
    <2>3. [ref |-> x.id] \in PayloadOf["ExpenseVoided"]
      BY <2>2 DEF PayloadOf
    <2>4. PagesTyped' /\ "edit" \in Ops
      BY <1>3 DEF editExpense, Close, PagesTyped, Page, NoPage
    <2>5. n(x, last) \in Edit
      <3>1. ChainValid(ledger'[d]) \in BOOLEAN
        BY DEF ChainValid
      <3>2. page[d].members \in SUBSET Member /\ EditClock(last) \in Nat
        BY <2>2 DEF Page, EditClock
      <3> QED BY <2>2, <3>1, <3>2 DEF Edit
    <2>6. WriteAmid(d, "ExpenseVoided", [ref |-> x.id], S)
      BY <2>1
    <2> HIDE DEF n
    <2>7. S \in SUBSET Edit
      BY <2>5
    <2> HIDE DEF S
    <2> QED BY <2>3, <2>4, <2>6, <2>7, WriteAmidKeeps
  <1>4. CASE removeMember(d)
    <2>1. PICK m \in Member : Write(d, "MemberRemoved", [member |-> m])
      BY <1>4 DEF removeMember, ActiveMembers
    <2>2. [member |-> m] \in PayloadOf["MemberRemoved"]
      BY DEF PayloadOf
    <2>3. PagesTyped'
      BY <1>4, PagesKept DEF removeMember
    <2> QED BY <2>1, <2>2, <2>3, WriteKeeps
  <1>5. CASE authorizeDevice(d)
    <2>1. PICK x \in Device :
            Write(d, "DeviceAuthorized", [member |-> Owner[d], device |-> x])
      BY <1>5 DEF authorizeDevice
    <2>2. [member |-> Owner[d], device |-> x] \in PayloadOf["DeviceAuthorized"]
      BY DEF PayloadOf
    <2>3. PagesTyped'
      BY <1>5, PagesKept DEF authorizeDevice
    <2> QED BY <2>1, <2>2, <2>3, WriteKeeps
  <1>6. CASE revokeDevice(d)
    <2>1. PICK x \in Device :
            Write(d, "DeviceRevoked", [member |-> Owner[d], device |-> x])
      BY <1>6 DEF revokeDevice
    <2>2. [member |-> Owner[d], device |-> x] \in PayloadOf["DeviceRevoked"]
      BY DEF PayloadOf
    <2>3. PagesTyped'
      BY <1>6, PagesKept DEF revokeDevice
    <2> QED BY <2>1, <2>2, <2>3, WriteKeeps
  <1> QED BY <1>1, <1>2, <1>3, <1>4, <1>5, <1>6

-----------------------------------------------------------------------------
(* The steps that only move what is there.                                 *)

LEMMA JoiningKeeps ==
  ASSUME LinkedInv, NEW d \in Device,
         \/ syncGroupFromRelay(d) \/ joinGroupFails(d)
         \/ viewGroup(d) \/ openAddExpense(d)
  PROVE  LinkedInv'
  <1> USE DEF LinkedInv, StorageTypeOK, PagesTyped
  <1>1. CASE syncGroupFromRelay(d)
    <2> DEFINE m == [kind |-> "full", entries |-> store]
    <2>1. Append(inbox[d], m) \in Seq(Message(created))
      <3>1. m \in Message(created)
        BY DEF Message
      <3> HIDE DEF m
      <3> QED BY <3>1 DEF Inboxes
    <2>2. UNCHANGED <<created, ledger, cache, disk, page, editing, refresh, store>>
      BY <1>1 DEF syncGroupFromRelay
    <2>3. CASE /\ conn' = [conn EXCEPT ![d] = TRUE]
               /\ inbox' = [inbox EXCEPT ![d] = Append(@, m)]
               /\ joining' = [joining EXCEPT ![d] = "asked"]
               /\ UNCHANGED faults
      <3>1. inbox' \in Inboxes(created)
        BY <2>1, <2>3 DEF Inboxes
      <3> QED BY <2>2, <2>3, <3>1, EditsKept, OtherStepKeeps
    <2>4. CASE /\ Fault("offline")
               /\ joining' = [joining EXCEPT ![d] = "synced"]
               /\ UNCHANGED <<conn, inbox>>
      BY <2>2, <2>4, FaultTyped, EditsKept, OtherStepKeeps
    <2> QED BY <1>1, <2>3, <2>4 DEF syncGroupFromRelay
  <1>2. CASE joinGroupFails(d)
    BY <1>2, EditsKept, OtherStepKeeps DEF joinGroupFails
  <1>3. CASE openAddExpense(d)
    BY <1>3, EditsKept, OtherStepKeeps DEF openAddExpense, ActiveMembers, Page
  <1>4. CASE viewGroup(d)
    BY <1>4, EditsKept, OtherStepKeeps DEF viewGroup
  <1> QED BY <1>1, <1>2, <1>3, <1>4

LEMMA SyncDoneKeeps ==
  ASSUME LinkedInv, NEW d \in Device, syncWithRelayDone(d)
  PROVE  LinkedInv'
  <1> USE DEF LinkedInv, StorageTypeOK, PagesTyped
  <1>1. inbox[d] # <<>> /\ UNCHANGED <<created, ledger, page, joining, conn, faults>>
    BY DEF syncWithRelayDone
  <1>5. EditsTyped'
    BY <1>1, ResumedHeld DEF syncWithRelayDone
  <1>2. Tail(inbox[d]) \in Seq(Message(created))
    BY <1>1 DEF Inboxes
  <1>3. CASE refresh[d] = "syncing"
    <2>1. PICK q \in Republished(ledger[d]) :
            /\ store' = store \cup ToSet(q)
            /\ inbox' = [Pushed(d, q) EXCEPT ![d] = Tail(@)]
      BY <1>3 DEF syncWithRelayDone
    <2>2. q \in Seq(created) /\ ToSet(q) \subseteq created
      BY RepublishedIsBuilt
    <2>3. Pushed(d, q) \in Inboxes(created) /\ Pushed(d, q)[d] = inbox[d]
      BY <2>2, PushedTyped DEF Pushed
    <2>4. store' \subseteq created /\ inbox' \in Inboxes(created)
      BY <1>2, <2>1, <2>2, <2>3 DEF Inboxes
    <2>5. /\ refresh' = [refresh EXCEPT ![d] = "idle"]
          /\ disk' = [disk EXCEPT ![d] = ledger[d]]
      BY <1>3 DEF syncWithRelayDone
    <2>6. \A x \in Device : Chained(disk'[x])
      BY <2>5
    <2> QED BY <1>1, <1>5, <2>4, <2>5, <2>6, OtherStepKeeps DEF Phase
  <1>4. CASE refresh[d] # "syncing"
    <2>1. inbox' = [inbox EXCEPT ![d] = Tail(@)] /\ UNCHANGED <<store, refresh, disk>>
      BY <1>4 DEF syncWithRelayDone
    <2> QED BY <1>1, <1>2, <1>5, <2>1, OtherStepKeeps DEF Inboxes
  <1> QED BY <1>3, <1>4

LEMMA PruneKeeps ==
  ASSUME LinkedInv, pruneOldEntries
  PROVE  LinkedInv'
  <1>1. store' \subseteq store /\ UNCHANGED <<created, device, conn, inbox>>
    BY DEF pruneOldEntries
  <1>2. faults' \in 0 .. MaxFaults
    BY FaultTyped DEF pruneOldEntries
  <1> QED BY <1>1, <1>2, EditsKept, OtherStepKeeps DEF LinkedInv, StorageTypeOK, PagesTyped, device

LEMMA RequestKeeps ==
  ASSUME LinkedInv, NEW d \in Device,
         refreshAgain(d) \/ backgroundSync(d) \/ connect(d)
  PROVE  LinkedInv'
  <1> USE DEF LinkedInv, StorageTypeOK, PagesTyped
  <1>1. CASE refreshAgain(d)
    <2>1. /\ refreshGroups(d, ledger[d], cache[d], store, inbox, disk)
          /\ page' = [page EXCEPT ![d].live = @ /\ ~ChainValid(ledger[d])]
          /\ UNCHANGED <<created, ledger, editing, joining, conn, store, faults>>
      BY <1>1 DEF refreshAgain
    <2>2. /\ refresh' \in [Device -> Phase]
          /\ inbox' \in Inboxes(created)
          /\ disk' \in [Device -> SUBSET created]
          /\ \A x \in Device : disk'[x] \in {disk[x], ledger[d]}
      BY <2>1, RefreshTyped
    <2>3. page' \in [Device -> Page]
      BY <2>1 DEF Page
    <2> QED BY <2>1, <2>2, <2>3, EditsKept, OtherStepKeeps
  <1> DEFINE q == AnswerTo(inbox[d], store, cache[d].clock)
  <1>2. [inbox EXCEPT ![d] = q] \in Inboxes(created)
    <2>1. q \in Seq(Message(created))
      BY AnswerTyped DEF Inboxes
    <2> QED BY <2>1 DEF Inboxes
  <1>3. CASE backgroundSync(d)
    BY <1>2, <1>3, EditsKept, OtherStepKeeps DEF backgroundSync
  <1>4. CASE connect(d)
    BY <1>2, <1>4, EditsKept, OtherStepKeeps DEF connect, Phase
  <1> QED BY <1>1, <1>3, <1>4

LEMMA NothingInFlight ==
  ASSUME LinkedInv, NEW d \in Device
  PROVE  [inbox EXCEPT ![d] = <<>>] \in Inboxes(created)
  <1>1. <<>> \in Seq(Message(created))
    OBVIOUS
  <1> QED BY <1>1 DEF LinkedInv, StorageTypeOK, Inboxes

LEMMA FailureKeeps ==
  ASSUME LinkedInv, NEW d \in Device,
         \/ connectFails(d) \/ reconnect(d) \/ disconnect(d)
         \/ reload(d) \/ deleteGroup(d)
  PROVE  LinkedInv'
  <1> USE DEF LinkedInv, StorageTypeOK, PagesTyped, Phase
  <1>1. CASE connectFails(d)
    BY <1>1, FaultTyped, ResumedHeld, OtherStepKeeps DEF connectFails
  <1>2. CASE reconnect(d)
    BY <1>2, EditsKept, OtherStepKeeps DEF reconnect, device
  <1>3. CASE disconnect(d)
    <2>1. EditsTyped'
      BY <1>3, EditsKept, ResumedHeld DEF disconnect
    <2> QED BY <1>3, <2>1, FaultTyped, NothingInFlight, OtherStepKeeps DEF disconnect
  <1>4. CASE reload(d)
    <2>1. EditsTyped'
      BY <1>4 DEF reload, EditsTyped, EditsHeld
    <2> QED BY <1>4, <2>1, FaultTyped, NothingInFlight, OtherStepKeeps
            DEF reload, Close, Page, NoPage
  <1>5. CASE deleteGroup(d)
    <2>1. Chained({})
      BY DEF Chained, Linked, Unbroken
    <2>2. EditsTyped'
      BY <1>5 DEF deleteGroup, EditsTyped, EditsHeld
    <2> QED BY <1>5, <2>1, <2>2, FaultTyped, OtherStepKeeps DEF deleteGroup
  <1> QED BY <1>1, <1>2, <1>3, <1>4, <1>5

LEMMA NextLinked == LinkedInv /\ [Next]_vars => LinkedInv'
  <1> SUFFICES ASSUME LinkedInv, [Next]_vars PROVE LinkedInv'
    OBVIOUS
  <1>1. ASSUME NEW d \in Device, Step(d) PROVE LinkedInv'
    BY <1>1, createGroupKeeps, initialSyncKeeps, JoiningKeeps, WritersKeep,
       settleUpKeeps, completeRecoveryKeeps, finishEditKeeps, editFailsKeeps,
       processIncomingEntryKeeps,
       SyncDoneKeeps, RequestKeeps, FailureKeeps DEF Step
  <1>2. CASE UNCHANGED vars
    BY <1>2 DEF vars, LinkedInv, StorageTypeOK, IdsOnce, Chained, Linked, Unbroken, EditsHeld
  <1> QED BY <1>1, <1>2, PruneKeeps DEF Next

-----------------------------------------------------------------------------
(* The theorems.                                                           *)

\* What devices, relay and messages hold are entries that were built.  (StateProofs
\* has the group states too.)
THEOREM StorageTypeCorrect == Spec => []StorageTypeOK
  <1>1. LinkedInv => StorageTypeOK
    BY DEF LinkedInv
  <1> QED BY InitLinked, NextLinked, <1>1, PTL DEF Spec

\* Whatever arrives in which order, is lost, reloaded or deleted, every
\* storage and every localStorage holds the hash chain of what it holds, as
\* long as nobody edits an expense.
THEOREM LedgersLinked ==
  ASSUME "edit" \notin Ops
  PROVE  Spec => []LinkedLedgers
  <1>1. LinkedInv => LinkedLedgers
    BY DEF LinkedInv, Chained, LinkedLedgers
  <1> QED BY InitLinked, NextLinked, <1>1, PTL DEF Spec

\* Whatever is edited, lost, reloaded or deleted, no storage and no localStorage
\* holds an entry without the one it names: also where a handler of AddExpense
\* goes on after its page was left.
THEOREM LedgersUnbroken == Spec => []UnbrokenLedgers
  <1>1. LinkedInv => UnbrokenLedgers
    BY ChainedIsUnbroken DEF LinkedInv, UnbrokenLedgers
  <1> QED BY InitLinked, NextLinked, <1>1, PTL DEF Spec

\* orderEntries has one outcome: whatever the clocks, timestamps and devices,
\* Before is a strict total order of the entries built.
OneOrder ==
  /\ \A e, f \in created : e # f => (Before(e, f) <=> ~Before(f, e))
  /\ \A e, f, g \in created : Before(e, f) /\ Before(f, g) => Before(e, g)

LEMMA LinkedInvOrders == LinkedInv => OneOrder
  <1> SUFFICES ASSUME LinkedInv PROVE OneOrder
    OBVIOUS
  <1>1. \A e \in created : e.clock \in Nat /\ e.ts \in Nat /\ e.dev \in Nat /\ e.id \in Nat
    <2>1. created \subseteq Entry /\ Device \subseteq Nat /\ Stamp \subseteq Nat
      BY LedgerAssumption DEF LinkedInv, StorageTypeOK
    <2>2. ASSUME NEW e \in Entry
          PROVE  e.clock \in Nat /\ e.ts \in Stamp /\ e.dev \in Device /\ e.id \in Nat
      BY EntryFields
    <2> QED BY <2>1, <2>2
  <1>2. ASSUME NEW e \in created, NEW f \in created, e # f
        PROVE  Before(e, f) <=> ~Before(f, e)
    <2>1. e.id # f.id
      BY <1>2 DEF LinkedInv, IdsOnce
    <2> QED BY <1>1, <2>1 DEF Before
  <1>3. ASSUME NEW e \in created, NEW f \in created, NEW g \in created,
               Before(e, f), Before(f, g)
        PROVE  Before(e, g)
    BY <1>1, <1>3 DEF Before
  <1> QED BY <1>2, <1>3 DEF OneOrder

THEOREM OrderIsTotal == Spec => []OneOrder
  BY InitLinked, NextLinked, LinkedInvOrders, PTL DEF Spec

-----------------------------------------------------------------------------
(***************************************************************************)
(* SplitLedger implements ReplicatedLog, if nobody edits an expense.       *)
(*                                                                         *)
(* A handler that builds an entry is an Issue, whatever brings entries is  *)
(* a Learn, and so is a step that only saves; a reload is a Restart.  The  *)
(* invariant that this rests on is LinkedInv, before and after the step:   *)
(* an id not yet used follows from IdsOnce, and that a ledger is closed    *)
(* after it has learnt is Chained, for an id names one entry only.         *)
(***************************************************************************)

LEMMA AppendIssues ==
  ASSUME LinkedInv, NEW d \in Device, NEW e,
         e.id = Cardinality(created) + 1, e.type # "Genesis",
         \E f \in ledger[d] : f.id = e.prev,
         \A f \in ledger[d] : f.clock < e.clock,
         NEW S, appendEntry(d, e, S),
         disk' = disk \/ disk' = [disk EXCEPT ![d] = ledger[d] \cup {e}]
  PROVE  Log!Issue(d)
  <1>1. \A f \in created : f.id # e.id
    <2>1. Cardinality(created) \in Nat
      BY FS_CardinalityType DEF LinkedInv, IdsOnce
    <2> QED BY <2>1 DEF LinkedInv, IdsOnce
  <1>2. created' = created \cup {e} /\ ledger' = [ledger EXCEPT ![d] = @ \cup {e}]
    BY DEF appendEntry
  <1>3. e \in created' \ created
    BY <1>1, <1>2
  <1>4. disk' = disk \/ disk' = [disk EXCEPT ![d] = ledger'[d]]
    BY <1>2 DEF LinkedInv, StorageTypeOK
  <1> QED BY <1>1, <1>2, <1>3, <1>4 DEF Log!Issue, Log!Save

LEMMA LearnsSome ==
  ASSUME "edit" \notin Ops, LinkedInv, LinkedInv', NEW d \in Device,
         created' = created, NEW S \in SUBSET created,
         ledger' = [ledger EXCEPT ![d] = @ \cup S],
         disk' = disk \/ disk' = [disk EXCEPT ![d] = ledger'[d]]
  PROVE  Log!Learn(d)
  <1>1. Linked(ledger'[d])
    BY DEF LinkedInv, Chained
  <1>2. ledger'[d] = ledger[d] \cup S
    BY DEF LinkedInv, StorageTypeOK
  <1>3. Log!Closed(ledger[d] \cup S)
    BY <1>1, <1>2 DEF Linked, Log!Closed
  <1> QED BY <1>3 DEF Log!Learn, Log!Save

LEMMA SavesOnly ==
  ASSUME "edit" \notin Ops, LinkedInv, LinkedInv', NEW d \in Device,
         UNCHANGED <<created, ledger>>,
         disk' = disk \/ disk' = [disk EXCEPT ![d] = ledger[d]]
  PROVE  Log!Learn(d)
  <1>1. ledger' = [ledger EXCEPT ![d] = @ \cup {}]
    BY DEF LinkedInv, StorageTypeOK
  <1>2. {} \in SUBSET created
    OBVIOUS
  <1>3. disk' = disk \/ disk' = [disk EXCEPT ![d] = ledger'[d]]
    OBVIOUS
  <1> QED BY <1>1, <1>2, <1>3, LearnsSome

-----------------------------------------------------------------------------
(* The handlers.                                                           *)

\* An entry built on the last one of a ledger follows one of the ledger and is
\* later than all of it.
LEMMA BuiltIsLatest ==
  ASSUME LinkedInv, NEW d \in Device, NEW last \in ledger[d], IsLatest(last, ledger[d]),
         NEW ts, NEW type, NEW payload, NEW e, e = buildEntry(d, last, ts, type, payload)
  PROVE  /\ e.id = Cardinality(created) + 1 /\ e.type = type
         /\ \E f \in ledger[d] : f.id = e.prev
         /\ \A f \in ledger[d] : f.clock < e.clock
  <1>1. \A f \in ledger[d] : f.clock \in Nat
    BY EntryFields DEF LinkedInv, StorageTypeOK
  <1>2. \A f \in ledger[d] : f.clock <= last.clock
    BY <1>1 DEF IsLatest, Before
  <1>3. e.clock = last.clock + 1 /\ e.prev = last.id
    BY DEF buildEntry
  <1> QED BY <1>1, <1>2, <1>3 DEF buildEntry

LEMMA RefreshSaves ==
  ASSUME NEW d \in Device, NEW L, NEW st, NEW R, NEW B, NEW K,
         refreshGroups(d, L, st, R, B, K)
  PROVE  disk' = K \/ disk' = [K EXCEPT ![d] = L]
  BY DEF refreshGroups

LEMMA WriteIssues ==
  ASSUME LinkedInv, NEW d \in Device, NEW type, NEW payload, NEW S,
         type # "Genesis", WriteAmid(d, type, payload, S)
  PROVE  Log!Issue(d)
  <1>1. PICK last \in ledger[d], ts \in Stamp :
          /\ IsLatest(last, ledger[d])
          /\ Broadcast(d, buildEntry(d, last, ts, type, payload), S)
    BY DEF WriteAmid
  <1> DEFINE e == buildEntry(d, last, ts, type, payload)
  <1>2. /\ e.id = Cardinality(created) + 1 /\ e.type = type
        /\ \E f \in ledger[d] : f.id = e.prev
        /\ \A f \in ledger[d] : f.clock < e.clock
    BY <1>1, BuiltIsLatest
  <1> HIDE DEF e
  <1>3. appendEntry(d, e, S)
    BY <1>1 DEF Broadcast, e
  <1>4. disk' = disk \/ disk' = [disk EXCEPT ![d] = ledger[d] \cup {e}]
    BY <1>1, RefreshSaves DEF Broadcast, e
  <1> QED BY <1>2, <1>3, <1>4, AppendIssues

LEMMA WritersIssue ==
  ASSUME LinkedInv, NEW d \in Device,
         \/ joinGroup(d) \/ addExpense(d) \/ editExpense(d)
         \/ removeMember(d) \/ authorizeDevice(d) \/ revokeDevice(d)
  PROVE  Log!Issue(d)
  <1>1. CASE joinGroup(d)
    BY <1>1, WriteIssues DEF joinGroup, Write
  <1>2. CASE addExpense(d)
    BY <1>2, WriteIssues DEF addExpense, Write
  <1>3. CASE editExpense(d)
    BY <1>3, WriteIssues DEF editExpense
  <1>4. CASE removeMember(d)
    BY <1>4, WriteIssues DEF removeMember, Write
  <1>5. CASE authorizeDevice(d)
    BY <1>5, WriteIssues DEF authorizeDevice, Write
  <1>6. CASE revokeDevice(d)
    BY <1>6, WriteIssues DEF revokeDevice, Write
  <1> QED BY <1>1, <1>2, <1>3, <1>4, <1>5, <1>6

LEMMA settleUpIssues ==
  ASSUME LinkedInv, NEW d \in Device, settleUp(d)
  PROVE  Log!Issue(d)
  <1>1. PICK from, to \in Member, amount \in Amount, last \in ledger[d], ts \in Stamp :
          /\ IsLatest(last, ledger[d])
          /\ appendEntry(d, buildEntry(d, last, ts, "ExpenseCreated",
                                       Settlement(from, to, amount)), editing[d])
    BY DEF settleUp
  <1> DEFINE e == buildEntry(d, last, ts, "ExpenseCreated", Settlement(from, to, amount))
  <1>2. /\ e.id = Cardinality(created) + 1 /\ e.type = "ExpenseCreated"
        /\ \E f \in ledger[d] : f.id = e.prev
        /\ \A f \in ledger[d] : f.clock < e.clock
    BY <1>1, BuiltIsLatest
  <1>3. disk' = disk
    BY DEF settleUp
  <1> HIDE DEF e
  <1>4. appendEntry(d, e, editing[d])
    BY <1>1 DEF e
  <1> QED BY <1>2, <1>3, <1>4, AppendIssues

LEMMA completeRecoveryIssues ==
  ASSUME LinkedInv, NEW d \in Device, completeRecovery(d)
  PROVE  Log!Issue(d)
  <1>1. PICK m \in ActiveMembers(Derived(d)), next \in NewRootKeys, ts \in Stamp,
             last \in ledger[d] :
          \E signers \in SUBSET CoSigners(d, m) :
            LET e == buildEntry(d, last, ts, "RootKeyRotation",
                                [member |-> m, next |-> next, signers |-> signers])
            IN /\ IsLatest(last, ledger[d])
               /\ appendEntry(d, e, editing[d])
               /\ refreshGroups(d, ledger[d] \cup {e}, cache[d], store, inbox, disk)
    BY DEF completeRecovery
  <1>2. PICK signers \in SUBSET CoSigners(d, m) :
          LET e == buildEntry(d, last, ts, "RootKeyRotation",
                              [member |-> m, next |-> next, signers |-> signers])
          IN /\ IsLatest(last, ledger[d])
             /\ appendEntry(d, e, editing[d])
             /\ refreshGroups(d, ledger[d] \cup {e}, cache[d], store, inbox, disk)
    BY <1>1
  <1> DEFINE p == [member |-> m, next |-> next, signers |-> signers]
             e == buildEntry(d, last, ts, "RootKeyRotation", p)
  <1> HIDE DEF p
  <1>3. /\ e.id = Cardinality(created) + 1 /\ e.type = "RootKeyRotation"
        /\ \E f \in ledger[d] : f.id = e.prev
        /\ \A f \in ledger[d] : f.clock < e.clock
    BY <1>2, BuiltIsLatest
  <1> HIDE DEF e
  <1>4. appendEntry(d, e, editing[d]) /\ refreshGroups(d, ledger[d] \cup {e}, cache[d], store, inbox, disk)
    BY <1>2 DEF e, p
  <1>5. disk' = disk \/ disk' = [disk EXCEPT ![d] = ledger[d] \cup {e}]
    BY <1>4, RefreshSaves
  <1> QED BY <1>3, <1>4, <1>5, AppendIssues

LEMMA createGroupIssues ==
  ASSUME LinkedInv, NEW d \in Device, createGroup(d)
  PROVE  Log!Issue(d)
  <1> DEFINE g(ts) == [id |-> 1, prev |-> NoHash, clock |-> 0, ts |-> ts,
                       type |-> "Genesis", dev |-> d,
                       payload |-> [member |-> Owner[d]]]
  <1>1. PICK ts \in Stamp :
          /\ created' = {g(ts)}
          /\ ledger' = [ledger EXCEPT ![d] = {g(ts)}]
          /\ refreshGroups(d, {g(ts)}, cache[d], store, inbox, disk)
    BY DEF createGroup
  <1> DEFINE e == g(ts)
  <1>2. created = {} /\ ledger[d] = {} /\ ledger \in [Device -> SUBSET {}]
    BY DEF createGroup, LinkedInv, StorageTypeOK
  <1>3. e.type = "Genesis"
    OBVIOUS
  <1> HIDE DEF e
  <1>4. created' = created \cup {e} /\ ledger' = [ledger EXCEPT ![d] = @ \cup {e}]
    BY <1>1, <1>2 DEF e
  <1>5. disk' = disk \/ disk' = [disk EXCEPT ![d] = {e}]
    BY <1>1, RefreshSaves DEF e
  <1>6. disk' = disk \/ disk' = [disk EXCEPT ![d] = ledger'[d]]
    BY <1>2, <1>4, <1>5
  <1> QED BY <1>2, <1>3, <1>4, <1>6 DEF Log!Issue, Log!Save

LEMMA ReceivingLearns ==
  ASSUME "edit" \notin Ops, LinkedInv, LinkedInv', NEW d \in Device,
         processIncomingEntry(d) \/ initialSync(d)
  PROVE  Log!Learn(d) \/ UNCHANGED <<created, ledger, disk>>
  <1> DEFINE m == Head(inbox[d])
  <1>1. inbox[d] # <<>> /\ inbox[d] \in Seq(Message(created))
    BY DEF processIncomingEntry, initialSync, LinkedInv, StorageTypeOK, Inboxes
  <1>2. m \in Message(created)
    BY <1>1
  <1>3. m.entries \in SUBSET created
    BY <1>2 DEF Message
  <1>4. created' = created
    BY DEF processIncomingEntry, initialSync
  <1>5. CASE processIncomingEntry(d)
    <2>1. PICK e \in m.entries :
            \/ /\ ledger' = [ledger EXCEPT ![d] = ledger[d] \cup {e}]
               /\ \E B : refreshGroups(d, ledger[d] \cup {e}, applyEntry(e, cache[d]), store, B,
                                [disk EXCEPT ![d] = ledger[d] \cup {e}])
            \/ UNCHANGED <<ledger, disk>>
      BY <1>5 DEF processIncomingEntry
    <2>2. CASE UNCHANGED <<ledger, disk>>
      BY <1>4, <2>2
    <2>3. CASE /\ ledger' = [ledger EXCEPT ![d] = ledger[d] \cup {e}]
               /\ \E B : refreshGroups(d, ledger[d] \cup {e}, applyEntry(e, cache[d]), store, B,
                                [disk EXCEPT ![d] = ledger[d] \cup {e}])
      <3> DEFINE K == [disk EXCEPT ![d] = ledger[d] \cup {e}]
      <3>1. ledger'[d] = ledger[d] \cup {e}
        BY <2>3 DEF LinkedInv, StorageTypeOK
      <3>2. disk' = K \/ disk' = [K EXCEPT ![d] = ledger[d] \cup {e}]
        BY <2>3, RefreshSaves
      <3>3. disk' = [disk EXCEPT ![d] = ledger'[d]]
        BY <3>1, <3>2 DEF LinkedInv, StorageTypeOK
      <3>4. {e} \in SUBSET created
        BY <1>3
      <3> QED BY <1>4, <2>3, <3>3, <3>4, LearnsSome
    <2> QED BY <2>1, <2>2, <2>3
  <1>6. CASE initialSync(d)
    <2> DEFINE S == IF ChainValid(m.entries) THEN m.entries ELSE {}
    <2>1. ledger' = [ledger EXCEPT ![d] = IF ChainValid(m.entries)
                                          THEN ledger[d] \cup m.entries ELSE ledger[d]]
          /\ disk' = disk
      BY <1>6 DEF initialSync
    <2>2. S \in SUBSET created
      BY <1>3
    <2>3. ledger' = [ledger EXCEPT ![d] = @ \cup S]
      BY <2>1
    <2> HIDE DEF S, m
    <2> QED BY <1>4, <2>1, <2>2, <2>3, LearnsSome
  <1> QED BY <1>5, <1>6

LEMMA OthersSave ==
  ASSUME "edit" \notin Ops, LinkedInv, LinkedInv', NEW d \in Device,
         \/ syncGroupFromRelay(d) \/ joinGroupFails(d) \/ viewGroup(d) \/ openAddExpense(d)
         \/ syncWithRelayDone(d) \/ refreshAgain(d) \/ backgroundSync(d)
         \/ connect(d) \/ connectFails(d) \/ reconnect(d) \/ disconnect(d)
  PROVE  Log!Learn(d)
  <1>1. UNCHANGED <<created, ledger>>
    BY DEF syncGroupFromRelay, joinGroupFails, viewGroup, openAddExpense, syncWithRelayDone,
           refreshAgain, backgroundSync, connect, connectFails, reconnect, disconnect, device
  <1>2. disk' = disk \/ disk' = [disk EXCEPT ![d] = ledger[d]]
    <2>1. CASE refreshAgain(d)
      BY <2>1, RefreshSaves DEF refreshAgain
    <2>2. CASE syncWithRelayDone(d)
      BY <2>2 DEF syncWithRelayDone
    <2>3. CASE disconnect(d)
      BY <2>3 DEF disconnect
    <2>4. CASE ~(refreshAgain(d) \/ syncWithRelayDone(d) \/ disconnect(d))
      BY <2>4 DEF syncGroupFromRelay, joinGroupFails, viewGroup, openAddExpense,
                  backgroundSync, connect, connectFails, reconnect, device
    <2> QED BY <2>1, <2>2, <2>3, <2>4
  <1> QED BY <1>1, <1>2, SavesOnly

-----------------------------------------------------------------------------
(* The theorem.                                                            *)

LEMMA NextRefines ==
  ASSUME "edit" \notin Ops
  PROVE  LinkedInv /\ LinkedInv' /\ [Next]_vars => [Log!Next]_(Log!vars)
  <1> SUFFICES ASSUME LinkedInv, LinkedInv', [Next]_vars
               PROVE  [Log!Next]_(Log!vars)
    OBVIOUS
  <1>1. ASSUME NEW d \in Device, Step(d)
        PROVE  Log!Next \/ UNCHANGED <<created, ledger, disk>>
    <2>1. CASE createGroup(d)
      BY <2>1, createGroupIssues DEF Log!Next
    <2>2. CASE \/ joinGroup(d) \/ addExpense(d) \/ editExpense(d)
               \/ removeMember(d) \/ authorizeDevice(d) \/ revokeDevice(d)
      BY <2>2, WritersIssue DEF Log!Next
    <2>3. CASE settleUp(d) \/ completeRecovery(d)
      BY <2>3, settleUpIssues, completeRecoveryIssues DEF Log!Next
    <2>4. CASE finishEdit(d) \/ editFails(d)
      BY <2>4 DEF finishEdit, editFails, LinkedInv, EditsHeld
    <2>5. CASE processIncomingEntry(d) \/ initialSync(d)
      BY <2>5, ReceivingLearns DEF Log!Next
    <2>6. CASE \/ syncGroupFromRelay(d) \/ joinGroupFails(d) \/ viewGroup(d) \/ openAddExpense(d)
               \/ syncWithRelayDone(d) \/ refreshAgain(d) \/ backgroundSync(d)
               \/ connect(d) \/ connectFails(d) \/ reconnect(d) \/ disconnect(d)
      BY <2>6, OthersSave DEF Log!Next
    <2>7. CASE reload(d)
      <3>1. Log!Restart(d)
        BY <2>7 DEF reload, Log!Restart
      <3> QED BY <3>1 DEF Log!Next
    <2>8. CASE deleteGroup(d)
      <3>1. Log!Leave(d)
        BY <2>8 DEF deleteGroup, Log!Leave
      <3> QED BY <3>1 DEF Log!Next
    <2> QED BY <1>1, <2>1, <2>2, <2>3, <2>4, <2>5, <2>6, <2>7, <2>8 DEF Step
  <1>2. CASE pruneOldEntries
    BY <1>2 DEF pruneOldEntries, device, Log!vars
  <1>3. CASE UNCHANGED vars
    BY <1>3 DEF vars, Log!vars
  <1> QED BY <1>1, <1>2, <1>3 DEF Next, Log!vars

LEMMA InitRefines == Init => Log!Init
  BY DEF Init, Log!Init

\* Devices that write, receive, join, lose their connection, reload and delete,
\* over a relay that refuses and drops entries, are replicas of one log, as
\* long as nobody edits an expense.
THEOREM LogImplemented ==
  ASSUME "edit" \notin Ops
  PROVE  Spec => ImplementsLog
  <1>1. Spec => []LinkedInv
    BY InitLinked, NextLinked, PTL DEF Spec
  <1> QED BY <1>1, InitRefines, NextRefines, PTL DEF Spec, ImplementsLog, Log!Spec
=============================================================================
