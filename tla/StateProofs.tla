----------------------------- MODULE StateProofs -----------------------------
(***************************************************************************)
(* The group states in the storages: for any members, devices, operations, *)
(* faults and bounds they have their type, their clock is not beyond the   *)
(* entries they are stored with, and whoever they let write has been let   *)
(* in by one of these. In a group whose members only join, spend and       *)
(* settle, every ledger stays a valid chain.                               *)
(***************************************************************************)
EXTENDS ClockProofs

-----------------------------------------------------------------------------
(* What a step of a device does to its entries and its group state.        *)

\* The states that valid chains among the entries L give.
StatesOf(L) == { StateOf(S) : S \in { T \in SUBSET L : T # {} /\ ChainValid(T) } }

Cached == cache \in [Device -> GroupStates]

Elsewhere(d) ==
  /\ \A x \in Device \ {d} : ledger'[x] = ledger[x] /\ disk'[x] = disk[x]
  /\ cache' = [cache EXCEPT ![d] = cache'[d]]
  /\ disk'[d] \in {disk[d], ledger'[d]}

\* The device builds an entry of its own.
Builds(d) ==
  \E e : /\ e.dev = d
         /\ created' = created \cup {e} /\ ledger'[d] = ledger[d] \cup {e}
         /\ cache'[d] \in {cache[d]} \cup StatesOf(ledger'[d])

\* It takes over a valid chain, which may have nothing in it.
TakesChain(d) ==
  \E S \in SUBSET created :
    /\ ChainValid(S)
    /\ created' = created /\ ledger'[d] = ledger[d] \cup S
    /\ cache'[d] \in {cache[d]} \cup StatesOf(ledger'[d])

\* It takes one entry, which is valid where it arrives.
TakesOne(d) ==
  \E e \in created :
    /\ Accepts(d, e)
    /\ created' = created /\ ledger'[d] = ledger[d] \cup {e}
    /\ cache'[d] \in {applyEntry(e, cache[d])} \cup StatesOf(ledger'[d])

\* It starts again from localStorage, or from nothing.
Restarts(d) ==
  /\ created' = created /\ ledger'[d] \in {disk[d], {}}
  /\ cache'[d] \in {NoState} \cup StatesOf(ledger'[d])

DeviceStep(d) ==
  Elsewhere(d) /\ (Builds(d) \/ TakesChain(d) \/ TakesOne(d) \/ Restarts(d))

LEMMA RefreshCaches ==
  ASSUME Cached, NEW d \in Device, NEW L, NEW st, NEW R, NEW B, NEW K,
         refreshGroups(d, L, st, R, B, K)
  PROVE  /\ cache' = [cache EXCEPT ![d] = cache'[d]]
         /\ cache'[d] \in {st} \cup StatesOf(L)
  <1>1. CASE L # {} /\ ChainValid(L)
    <2>1. cache' = [cache EXCEPT ![d] = StateOf(L)] /\ cache'[d] = StateOf(L)
      BY <1>1 DEF refreshGroups, Cached
    <2>2. StateOf(L) \in StatesOf(L)
      BY <1>1 DEF StatesOf
    <2> QED BY <2>1, <2>2
  <1>2. CASE ~(L # {} /\ ChainValid(L))
    BY <1>2 DEF refreshGroups, Cached
  <1> QED BY <1>1, <1>2

LEMMA DerivedStates ==
  ASSUME NEW L, L # {}, ChainValid(L)
  PROVE  StateOf(L) \in StatesOf(L)
  BY DEF StatesOf

LEMMA NothingIsValid == ChainValid({})
  BY DEF ChainValid, Replay

\* The handlers that append an entry.
LEMMA AppendBuilds ==
  ASSUME LinkedInv, NEW d \in Device, NEW e, NEW S, e.dev = d, appendEntry(d, e, S),
         disk' = disk \/ disk' = [disk EXCEPT ![d] = ledger[d] \cup {e}],
         cache' = [cache EXCEPT ![d] = cache'[d]],
         cache'[d] \in {cache[d]} \cup StatesOf(ledger[d] \cup {e})
  PROVE  Elsewhere(d) /\ Builds(d)
  <1>1. /\ created' = created \cup {e}
        /\ ledger'[d] = ledger[d] \cup {e}
        /\ \A x \in Device \ {d} : ledger'[x] = ledger[x]
    BY DEF appendEntry, LinkedInv, StorageTypeOK
  <1>2. disk'[d] \in {disk[d], ledger'[d]} /\ \A x \in Device \ {d} : disk'[x] = disk[x]
    BY <1>1 DEF LinkedInv, StorageTypeOK
  <1> QED BY <1>1, <1>2 DEF Elsewhere, Builds

LEMMA BroadcastBuilds ==
  ASSUME LinkedInv, Cached, NEW d \in Device, NEW e, NEW S, e.dev = d,
         Broadcast(d, e, S)
  PROVE  Elsewhere(d) /\ Builds(d)
  <1>1. appendEntry(d, e, S)
    BY DEF Broadcast
  <1>2. refreshGroups(d, ledger[d] \cup {e}, cache[d], StoreAfter(d, e), PushAfter(d, e), disk)
    BY DEF Broadcast
  <1> QED BY <1>1, <1>2, RefreshCaches, RefreshSaves, AppendBuilds

LEMMA WriteBuilds ==
  ASSUME LinkedInv, Cached, NEW d \in Device, NEW type, NEW payload, NEW S,
         WriteAmid(d, type, payload, S)
  PROVE  Elsewhere(d) /\ Builds(d)
  <1>1. PICK last \in ledger[d], ts \in Stamp :
          Broadcast(d, buildEntry(d, last, ts, type, payload), S)
    BY DEF WriteAmid
  <1>2. buildEntry(d, last, ts, type, payload).dev = d
    BY DEF buildEntry
  <1> QED BY <1>1, <1>2, BroadcastBuilds

LEMMA WritersBuild ==
  ASSUME LinkedInv, Cached, NEW d \in Device,
         \/ joinGroup(d) \/ addExpense(d) \/ editExpense(d)
         \/ removeMember(d) \/ authorizeDevice(d) \/ revokeDevice(d)
  PROVE  Elsewhere(d) /\ Builds(d)
  <1>1. CASE joinGroup(d)
    BY <1>1, WriteBuilds DEF joinGroup, Write
  <1>2. CASE addExpense(d)
    BY <1>2, WriteBuilds DEF addExpense, Write
  <1>3. CASE editExpense(d)
    BY <1>3, WriteBuilds DEF editExpense
  <1>4. CASE removeMember(d)
    BY <1>4, WriteBuilds DEF removeMember, Write
  <1>5. CASE authorizeDevice(d)
    BY <1>5, WriteBuilds DEF authorizeDevice, Write
  <1>6. CASE revokeDevice(d)
    BY <1>6, WriteBuilds DEF revokeDevice, Write
  <1> QED BY <1>1, <1>2, <1>3, <1>4, <1>5, <1>6

LEMMA finishEditBuilds ==
  ASSUME LinkedInv, Cached, NEW d \in Device, finishEdit(d)
  PROVE  Elsewhere(d) /\ Builds(d)
  <1> DEFINE g(x, ts) == [id |-> Cardinality(created) + 1, prev |-> x.latest,
                          clock |-> x.clock, ts |-> ts, type |-> "ExpenseCreated",
                          dev |-> d, payload |-> NewExpense(x.payer, x.members)]
  <1>1. \E y \in editing[d], t \in Stamp : Broadcast(d, g(y, t), editing[d] \ {y})
    BY DEF finishEdit
  <1>2. \A y, t : g(y, t).dev = d
    OBVIOUS
  <1> HIDE DEF g
  <1> QED BY <1>1, <1>2, BroadcastBuilds

LEMMA settleUpBuilds ==
  ASSUME LinkedInv, Cached, NEW d \in Device, settleUp(d)
  PROVE  Elsewhere(d) /\ Builds(d)
  <1> DEFINE Built(e) ==
               /\ appendEntry(d, e, editing[d])
               /\ cache' = [cache EXCEPT ![d] = IF ChainValid(ledger[d] \cup {e})
                                               THEN StateOf(ledger[d] \cup {e}) ELSE @]
  <1>1. PICK from, to \in Member, amount \in Amount, last \in ledger[d], ts \in Stamp :
          Built(buildEntry(d, last, ts, "ExpenseCreated", Settlement(from, to, amount)))
    <2>1. PICK from, to \in Member, amount \in Amount, last \in ledger[d], ts \in Stamp :
            LET e == buildEntry(d, last, ts, "ExpenseCreated", Settlement(from, to, amount))
                L == ledger[d] \cup {e}
            IN /\ [from |-> from, to |-> to, amount |-> amount]
                    \in computeSettlements(computeBalances(ledger[d]))
               /\ IsLatest(last, ledger[d])
               /\ appendEntry(d, e, editing[d])
               /\ store' = StoreAfter(d, e)
               /\ inbox' = PushAfter(d, e)
               /\ cache' = [cache EXCEPT ![d] = IF ChainValid(L) THEN StateOf(L) ELSE @]
      <3> HIDE DEF Built
      <3> QED BY DEF settleUp
    <2>2. Built(buildEntry(d, last, ts, "ExpenseCreated", Settlement(from, to, amount)))
      BY <2>1
    <2> HIDE DEF Built
    <2> QED BY <2>2
  <1> DEFINE e == buildEntry(d, last, ts, "ExpenseCreated", Settlement(from, to, amount))
             L == ledger[d] \cup {e}
  <1>2. e.dev = d
    BY DEF buildEntry
  <1> HIDE DEF e
  <1>3. appendEntry(d, e, editing[d]) /\ disk' = disk
    <2>1. appendEntry(d, e, editing[d])
      BY <1>1 DEF e
    <2>2. disk' = disk
      BY DEF settleUp
    <2> QED BY <2>1, <2>2
  <1>4. cache' = [cache EXCEPT ![d] = IF ChainValid(L) THEN StateOf(L) ELSE cache[d]]
    BY <1>1 DEF e
  <1>5. ChainValid(L) => StateOf(L) \in StatesOf(L)
    BY DerivedStates
  <1> HIDE DEF L
  <1>6. /\ cache' = [cache EXCEPT ![d] = cache'[d]]
        /\ cache'[d] \in {cache[d]} \cup StatesOf(L)
    BY <1>4, <1>5 DEF Cached
  <1> QED BY <1>2, <1>3, <1>6, AppendBuilds DEF L

LEMMA completeRecoveryBuilds ==
  ASSUME LinkedInv, Cached, NEW d \in Device, completeRecovery(d)
  PROVE  Elsewhere(d) /\ Builds(d)
  <1>1. PICK m, next \in Member, ts \in Stamp, last \in ledger[d], signers \in SUBSET Member :
          LET e == buildEntry(d, last, ts, "RootKeyRotation",
                              [member |-> m, next |-> next, signers |-> signers])
          IN /\ appendEntry(d, e, editing[d])
             /\ refreshGroups(d, ledger[d] \cup {e}, cache[d], store, inbox, disk)
    BY DEF completeRecovery, ActiveMembers, NewRootKeys, CoSigners
  <1> DEFINE e == buildEntry(d, last, ts, "RootKeyRotation",
                             [member |-> m, next |-> next, signers |-> signers])
  <1>2. e.dev = d
    BY DEF buildEntry
  <1> HIDE DEF e
  <1>3. appendEntry(d, e, editing[d]) /\ refreshGroups(d, ledger[d] \cup {e}, cache[d], store, inbox, disk)
    BY <1>1 DEF e
  <1> QED BY <1>2, <1>3, RefreshCaches, RefreshSaves, AppendBuilds

LEMMA createGroupBuilds ==
  ASSUME LinkedInv, Cached, NEW d \in Device, createGroup(d)
  PROVE  Elsewhere(d) /\ Builds(d)
  <1> DEFINE g(ts) == [id |-> 1, prev |-> NoHash, clock |-> 0, ts |-> ts,
                       type |-> "Genesis", dev |-> d,
                       payload |-> [member |-> Owner[d]]]
  <1>1. PICK ts \in Stamp :
          /\ created' = {g(ts)}
          /\ ledger' = [ledger EXCEPT ![d] = {g(ts)}]
          /\ refreshGroups(d, {g(ts)}, cache[d], store, inbox, disk)
    BY DEF createGroup
  <1> DEFINE e == g(ts)
  <1>2. created = {} /\ ledger \in [Device -> SUBSET {}] /\ UNCHANGED <<conn, faults>>
    BY DEF createGroup, LinkedInv, StorageTypeOK
  <1>3. e.dev = d
    OBVIOUS
  <1> HIDE DEF g
  <1>4. appendEntry(d, e, {})
    <2>1. editing[d] = {} /\ editing' = editing /\ editing \in [Device -> SUBSET Edit]
      BY <1>2 DEF createGroup, LinkedInv, EditsHeld, StorageTypeOK
    <2>2. Following({}, e) = {}
      BY DEF Following
    <2> QED BY <1>1, <1>2, <2>1, <2>2 DEF appendEntry
  <1>5. refreshGroups(d, ledger[d] \cup {e}, cache[d], store, inbox, disk)
    BY <1>1, <1>2
  <1> QED BY <1>3, <1>4, <1>5, RefreshCaches, RefreshSaves, AppendBuilds

\* The steps that take entries over, or none.
LEMMA TakesNothing ==
  ASSUME LinkedInv, NEW d \in Device, UNCHANGED <<created, ledger>>,
         disk' = disk \/ disk' = [disk EXCEPT ![d] = ledger[d]],
         cache' = [cache EXCEPT ![d] = cache'[d]],
         cache'[d] \in {cache[d]} \cup StatesOf(ledger[d])
  PROVE  Elsewhere(d) /\ TakesChain(d)
  <1>1. {} \in SUBSET created /\ ledger'[d] = ledger[d] \cup {}
    OBVIOUS
  <1>2. Elsewhere(d)
    BY DEF Elsewhere, LinkedInv, StorageTypeOK
  <1>3. TakesChain(d)
    BY <1>1, NothingIsValid DEF TakesChain
  <1> QED BY <1>2, <1>3

LEMMA OthersTakeNothing ==
  ASSUME LinkedInv, Cached, NEW d \in Device,
         \/ syncGroupFromRelay(d) \/ joinGroupFails(d) \/ viewGroup(d) \/ openAddExpense(d)
         \/ syncWithRelayDone(d) \/ refreshAgain(d) \/ backgroundSync(d)
         \/ connect(d) \/ connectFails(d) \/ reconnect(d) \/ disconnect(d) \/ editFails(d)
  PROVE  Elsewhere(d) /\ TakesChain(d)
  <1>1. UNCHANGED <<created, ledger>>
    BY DEF syncGroupFromRelay, joinGroupFails, viewGroup, openAddExpense, syncWithRelayDone,
           refreshAgain, backgroundSync, connect, connectFails, reconnect, disconnect,
           editFails, device
  <1>2. ASSUME UNCHANGED cache
        PROVE  cache' = [cache EXCEPT ![d] = cache'[d]]
    BY <1>2 DEF Cached
  <1>3. CASE refreshAgain(d)
    <2>1. refreshGroups(d, ledger[d], cache[d], store, inbox, disk)
      BY <1>3 DEF refreshAgain
    <2> QED BY <1>1, <2>1, RefreshCaches, RefreshSaves, TakesNothing
  <1>4. CASE viewGroup(d) \/ openAddExpense(d)
    <2>1. /\ ledger[d] # {} /\ ChainValid(ledger[d])
          /\ cache' = [cache EXCEPT ![d] = StateOf(ledger[d])] /\ UNCHANGED disk
      BY <1>4 DEF viewGroup, openAddExpense, Ready, Derived
    <2>2. cache' = [cache EXCEPT ![d] = cache'[d]] /\ cache'[d] \in StatesOf(ledger[d])
      BY <2>1, DerivedStates DEF Cached
    <2> QED BY <1>1, <2>1, <2>2, TakesNothing
  <1>5. CASE syncWithRelayDone(d)
    BY <1>1, <1>2, <1>5, TakesNothing DEF syncWithRelayDone
  <1>6. CASE disconnect(d)
    BY <1>1, <1>2, <1>6, TakesNothing DEF disconnect
  <1>7. CASE \/ syncGroupFromRelay(d) \/ joinGroupFails(d) \/ backgroundSync(d)
             \/ connect(d) \/ connectFails(d) \/ reconnect(d) \/ editFails(d)
    BY <1>1, <1>2, <1>7, TakesNothing
       DEF syncGroupFromRelay, joinGroupFails, backgroundSync, connect, connectFails,
           reconnect, editFails, device
  <1> QED BY <1>3, <1>4, <1>5, <1>6, <1>7

LEMMA processIncomingEntryTakes ==
  ASSUME LinkedInv, Cached, NEW d \in Device, processIncomingEntry(d)
  PROVE  Elsewhere(d) /\ (TakesChain(d) \/ TakesOne(d))
  <1> DEFINE m == Head(inbox[d])
  <1>1. m.entries \in SUBSET created
    <2>1. inbox[d] # <<>> /\ inbox[d] \in Seq(Message(created))
      BY DEF processIncomingEntry, LinkedInv, StorageTypeOK, Inboxes
    <2>2. m \in Message(created)
      BY <2>1
    <2> QED BY <2>2 DEF Message
  <1>2. PICK e \in m.entries :
          \/ /\ Accepts(d, e)
             /\ ledger' = [ledger EXCEPT ![d] = ledger[d] \cup {e}]
             /\ \E B : refreshGroups(d, ledger[d] \cup {e}, applyEntry(e, cache[d]), store, B,
                                     [disk EXCEPT ![d] = ledger[d] \cup {e}])
          \/ UNCHANGED <<ledger, cache, disk>>
    BY DEF processIncomingEntry
  <1>3. created' = created
    BY DEF processIncomingEntry
  <1>4. CASE UNCHANGED <<ledger, cache, disk>>
    <2>1. cache' = [cache EXCEPT ![d] = cache'[d]] /\ cache'[d] = cache[d]
      BY <1>4 DEF Cached
    <2> QED BY <1>3, <1>4, <2>1, TakesNothing
  <1>5. CASE /\ Accepts(d, e)
             /\ ledger' = [ledger EXCEPT ![d] = ledger[d] \cup {e}]
             /\ \E B : refreshGroups(d, ledger[d] \cup {e}, applyEntry(e, cache[d]), store, B,
                                     [disk EXCEPT ![d] = ledger[d] \cup {e}])
    <2> DEFINE L == ledger[d] \cup {e}
               K == [disk EXCEPT ![d] = L]
    <2>1. ledger'[d] = L /\ \A x \in Device \ {d} : ledger'[x] = ledger[x]
      BY <1>5 DEF LinkedInv, StorageTypeOK
    <2>2. PICK B : refreshGroups(d, L, applyEntry(e, cache[d]), store, B, K)
      BY <1>5
    <2> HIDE DEF L
    <2>3. disk' = K \/ disk' = [K EXCEPT ![d] = L]
      BY <2>2, RefreshSaves
    <2>4. disk'[d] = L /\ \A x \in Device \ {d} : disk'[x] = disk[x]
      BY <2>3 DEF LinkedInv, StorageTypeOK
    <2>5. /\ cache' = [cache EXCEPT ![d] = cache'[d]]
          /\ cache'[d] \in {applyEntry(e, cache[d])} \cup StatesOf(L)
      BY <2>2, RefreshCaches
    <2>6. Elsewhere(d)
      BY <2>1, <2>4, <2>5 DEF Elsewhere
    <2>7. TakesOne(d)
      BY <1>1, <1>3, <1>5, <2>1, <2>5 DEF TakesOne, L
    <2> QED BY <2>6, <2>7
  <1> QED BY <1>2, <1>4, <1>5

LEMMA initialSyncTakes ==
  ASSUME LinkedInv, Cached, NEW d \in Device, initialSync(d)
  PROVE  Elsewhere(d) /\ TakesChain(d)
  <1> DEFINE S  == Head(inbox[d]).entries
             T  == IF ChainValid(S) THEN S ELSE {}
             st == IF S # {} /\ ChainValid(S) THEN StateOf(S) ELSE cache[d]
  <1>1. S \in SUBSET created
    <2>1. inbox[d] # <<>> /\ inbox[d] \in Seq(Message(created))
      BY DEF initialSync, LinkedInv, StorageTypeOK, Inboxes
    <2>2. Head(inbox[d]) \in Message(created)
      BY <2>1
    <2> QED BY <2>2 DEF Message
  <1>2. /\ ledger' = [ledger EXCEPT ![d] = IF ChainValid(S) THEN ledger[d] \cup S ELSE ledger[d]]
        /\ cache' = [cache EXCEPT ![d] = st]
        /\ UNCHANGED <<created, disk>>
    BY DEF initialSync
  <1>3. ledger'[d] = ledger[d] \cup T /\ \A x \in Device \ {d} : ledger'[x] = ledger[x]
    BY <1>2 DEF LinkedInv, StorageTypeOK
  <1>4. ChainValid(T) /\ T \in SUBSET created
    BY <1>1, NothingIsValid
  <1>5. st \in {cache[d]} \cup StatesOf(ledger'[d])
    <2>1. CASE S # {} /\ ChainValid(S)
      <3>1. S \in SUBSET ledger'[d]
        BY <1>3, <2>1
      <3> HIDE DEF S
      <3> QED BY <2>1, <3>1 DEF StatesOf
    <2>2. CASE ~(S # {} /\ ChainValid(S))
      BY <2>2
    <2> QED BY <2>1, <2>2
  <1> HIDE DEF T, st
  <1>6. cache' = [cache EXCEPT ![d] = cache'[d]] /\ cache'[d] = st
    BY <1>2 DEF Cached
  <1>7. Elsewhere(d)
    BY <1>2, <1>3, <1>6 DEF Elsewhere
  <1>8. TakesChain(d)
    BY <1>2, <1>3, <1>4, <1>5, <1>6 DEF TakesChain
  <1> QED BY <1>7, <1>8

LEMMA RestartsRestart ==
  ASSUME LinkedInv, Cached, NEW d \in Device, reload(d) \/ deleteGroup(d)
  PROVE  Elsewhere(d) /\ Restarts(d)
  <1>1. CASE reload(d)
    <2> DEFINE L == disk[d]
               st == IF L # {} /\ ChainValid(L) THEN StateOf(L) ELSE NoState
    <2>1. /\ ledger' = [ledger EXCEPT ![d] = L] /\ cache' = [cache EXCEPT ![d] = st]
          /\ UNCHANGED <<created, disk>>
      BY <1>1 DEF reload
    <2>2. st \in {NoState} \cup StatesOf(L)
      BY DerivedStates
    <2> HIDE DEF st
    <2>3. cache' = [cache EXCEPT ![d] = cache'[d]] /\ cache'[d] = st
      BY <2>1 DEF Cached
    <2>4. ledger'[d] = L /\ \A x \in Device \ {d} : ledger'[x] = ledger[x]
      BY <2>1 DEF LinkedInv, StorageTypeOK
    <2> QED BY <2>1, <2>2, <2>3, <2>4 DEF Elsewhere, Restarts
  <1>2. CASE deleteGroup(d)
    <2>1. /\ ledger' = [ledger EXCEPT ![d] = {}] /\ cache' = [cache EXCEPT ![d] = NoState]
          /\ disk' = [disk EXCEPT ![d] = {}] /\ created' = created
      BY <1>2 DEF deleteGroup
    <2>2. cache' = [cache EXCEPT ![d] = cache'[d]] /\ cache'[d] = NoState
      BY <2>1 DEF Cached
    <2>3. /\ ledger'[d] = {} /\ \A x \in Device \ {d} : ledger'[x] = ledger[x]
          /\ disk'[d] = {} /\ \A x \in Device \ {d} : disk'[x] = disk[x]
      BY <2>1 DEF LinkedInv, StorageTypeOK
    <2> QED BY <2>1, <2>2, <2>3 DEF Elsewhere, Restarts
  <1> QED BY <1>1, <1>2

LEMMA NextIsDeviceStep ==
  ASSUME LinkedInv, Cached, [Next]_vars
  PROVE  (\E d \in Device : DeviceStep(d)) \/ UNCHANGED <<created, ledger, cache, disk>>
  <1>1. ASSUME NEW d \in Device, Step(d) PROVE DeviceStep(d)
    BY <1>1, createGroupBuilds, WritersBuild, finishEditBuilds, settleUpBuilds,
       completeRecoveryBuilds, OthersTakeNothing, processIncomingEntryTakes,
       initialSyncTakes, RestartsRestart DEF Step, DeviceStep
  <1>2. CASE pruneOldEntries
    BY <1>2 DEF pruneOldEntries, device
  <1>3. CASE UNCHANGED vars
    BY <1>3 DEF vars
  <1> QED BY <1>1, <1>2, <1>3 DEF Next

-----------------------------------------------------------------------------
(* Types.                                                                  *)

\* The entries built, and any of them, are those of a ledger.
LEMMA BuiltEntries ==
  ASSUME LinkedInv, NEW S \in SUBSET created
  PROVE  Entries(S)
  BY FS_Subset DEF LinkedInv, StorageTypeOK, IdsOnce, Entries

LEMMA HeldEntries ==
  ASSUME LinkedInv, NEW d \in Device
  PROVE  /\ ledger[d] \in SUBSET created /\ disk[d] \in SUBSET created
         /\ Entries(ledger[d]) /\ Entries(disk[d])
  BY BuiltEntries DEF LinkedInv, StorageTypeOK

LEMMA NextHeldEntries ==
  ASSUME LinkedInv', NEW d \in Device
  PROVE  Entries(ledger'[d])
  <1>1. ledger'[d] \subseteq created' /\ created' \subseteq Entry /\ IdsOnce'
    BY DEF LinkedInv, StorageTypeOK
  <1> QED BY <1>1, FS_Subset DEF IdsOnce, Entries

LEMMA StatesOfTyped ==
  ASSUME NEW L, Entries(L), NEW st \in StatesOf(L)
  PROVE  st \in GroupState
  BY SubsetEntries, StateOfStep DEF StatesOf

LEMMA NoStateTyped == NoState \in GroupStates
  BY DEF NoState, GroupStates

LEMMA InitCached == Init => Cached
  BY NoStateTyped DEF Init, Cached

LEMMA NextCached ==
  ASSUME LinkedInv, LinkedInv', Cached, [Next]_vars
  PROVE  Cached'
  <1>1. ASSUME NEW d \in Device, DeviceStep(d)
        PROVE  Cached'
    <2>1. cache' = [cache EXCEPT ![d] = cache'[d]]
      BY <1>1 DEF DeviceStep, Elsewhere
    <2>2. StatesOf(ledger'[d]) \subseteq GroupState
      BY NextHeldEntries, StatesOfTyped
    <2>3. \A e \in created : applyEntry(e, cache[d]) \in GroupState
      BY ApplyTyped DEF LinkedInv, StorageTypeOK, Cached
    <2>4. cache'[d] \in GroupStates
      BY <1>1, <2>2, <2>3, NoStateTyped
         DEF DeviceStep, Builds, TakesChain, TakesOne, Restarts, Cached, GroupStates
    <2> QED BY <2>1, <2>4 DEF Cached
  <1>2. CASE UNCHANGED <<created, ledger, cache, disk>>
    BY <1>2 DEF Cached
  <1> QED BY <1>1, <1>2, NextIsDeviceStep

\* What the other theorems of this module start from.
CachedInv == LinkedInv /\ Cached

LEMMA CachedAlways == Spec => []CachedInv
  <1>1. Init => CachedInv
    BY InitLinked, InitCached DEF CachedInv
  <1>2. CachedInv /\ [Next]_vars => CachedInv'
    BY NextLinked, NextCached DEF CachedInv
  <1> QED BY <1>1, <1>2, PTL DEF Spec

\* The whole state has its type, the group states in the storages too: whatever
\* arrives in which order, deriving and applying entries gives group states.
THEOREM TypeCorrect == Spec => []TypeOK
  <1>1. CachedInv => TypeOK
    BY DEF CachedInv, LinkedInv, TypeOK, Cached, GroupStates, NoState
  <1> QED BY <1>1, CachedAlways, PTL

-----------------------------------------------------------------------------
(* The clocks of the group states.                                         *)

\* The clock of st is not beyond the entries L.
NotAhead(st, L) == st # NoState => \E e \in L : st.clock <= e.clock

LEMMA StatesNotAhead ==
  ASSUME NEW L, Entries(L), NEW st \in StatesOf(L)
  PROVE  NotAhead(st, L)
  <1>1. PICK S \in SUBSET L : S # {} /\ st = StateOf(S)
    BY DEF StatesOf
  <1>2. Entries(S)
    BY SubsetEntries
  <1>3. PICK e \in S : e.clock = StateOf(S).clock
    BY <1>1, <1>2, StateClock
  <1>4. e.clock \in Nat
    BY <1>2, EntryFields DEF Entries
  <1> QED BY <1>1, <1>3, <1>4 DEF NotAhead

LEMMA AppliedNotAhead ==
  ASSUME NEW L, Entries(L), NEW st \in GroupStates, NotAhead(st, L), NEW e \in Entry
  PROVE  NotAhead(applyEntry(e, st), L \cup {e})
  <1>1. applyEntry(e, st).clock = IF e.clock > st.clock THEN e.clock ELSE st.clock
    BY ApplyFields
  <1>2. e.clock \in Nat /\ st.clock \in Nat \cup {-1}
    BY EntryFields, GroupStateFields
  <1>3. st = NoState => st.clock = -1
    BY DEF NoState, createEmptyGroupState
  <1>4. CASE e.clock > st.clock
    BY <1>1, <1>2, <1>4 DEF NotAhead
  <1>5. CASE ~(e.clock > st.clock)
    <2>1. st # NoState
      BY <1>2, <1>3, <1>5
    <2> QED BY <1>1, <1>5, <2>1 DEF NotAhead
  <1> QED BY <1>4, <1>5

LEMMA NextNotAhead ==
  ASSUME CachedInv, CachedInv', CacheNeverAhead, [Next]_vars
  PROVE  CacheNeverAhead'
  <1> USE DEF CachedInv
  <1>1. ASSUME NEW d \in Device, DeviceStep(d)
        PROVE  CacheNeverAhead'
    <2>1. \A x \in Device \ {d} : ledger'[x] = ledger[x] /\ cache'[x] = cache[x]
      BY <1>1 DEF DeviceStep, Elsewhere, Cached
    <2>2. NotAhead(cache[d], ledger[d])
      BY DEF CacheNeverAhead, NotAhead
    <2>3. Entries(ledger[d]) /\ Entries(ledger'[d])
      BY HeldEntries, NextHeldEntries
    <2>4. \A st \in StatesOf(ledger'[d]) : NotAhead(st, ledger'[d])
      BY <2>3, StatesNotAhead
    <2>5. NotAhead(NoState, ledger'[d])
      BY DEF NotAhead
    <2>6. ledger[d] \subseteq ledger'[d] => NotAhead(cache[d], ledger'[d])
      BY <2>2 DEF NotAhead
    <2>7. ASSUME TakesOne(d) PROVE NotAhead(cache'[d], ledger'[d])
      <3>1. PICK e \in created :
              /\ ledger'[d] = ledger[d] \cup {e}
              /\ cache'[d] \in {applyEntry(e, cache[d])} \cup StatesOf(ledger'[d])
        BY <2>7 DEF TakesOne
      <3>2. e \in Entry /\ cache[d] \in GroupStates
        BY DEF LinkedInv, StorageTypeOK, Cached
      <3>3. NotAhead(applyEntry(e, cache[d]), ledger[d] \cup {e})
        BY <2>2, <2>3, <3>2, AppliedNotAhead
      <3> QED BY <2>4, <3>1, <3>3
    <2>8. NotAhead(cache'[d], ledger'[d])
      <3>1. CASE Builds(d) \/ TakesChain(d)
        <4>1. ledger[d] \subseteq ledger'[d] /\ cache'[d] \in {cache[d]} \cup StatesOf(ledger'[d])
          BY <3>1 DEF Builds, TakesChain
        <4> QED BY <2>4, <2>6, <4>1
      <3>2. CASE Restarts(d)
        BY <2>4, <2>5, <3>2 DEF Restarts
      <3> QED BY <1>1, <2>7, <3>1, <3>2 DEF DeviceStep
    <2> QED BY <2>1, <2>8 DEF CacheNeverAhead, NotAhead
  <1>2. CASE UNCHANGED <<created, ledger, cache, disk>>
    BY <1>2 DEF CacheNeverAhead
  <1> QED BY <1>1, <1>2, NextIsDeviceStep

\* Whatever is lost, reloaded, deleted, pruned or refused, the clock from which
\* a device asks the relay (getEntriesAfter) is not beyond the entries it has.
THEOREM CacheBehindLedger == Spec => []CacheNeverAhead
  <1>1. Init => CacheNeverAhead
    BY DEF Init, CacheNeverAhead
  <1>2. CachedInv /\ CachedInv' /\ CacheNeverAhead /\ [Next]_vars => CacheNeverAhead'
    BY NextNotAhead
  <1> QED BY <1>1, <1>2, CachedAlways, PTL DEF Spec

-----------------------------------------------------------------------------
(* Who was let in.                                                         *)

\* The devices that entries of L let in.
Admitted(L) == { x \in Device : \E f \in L : Admits(f, x) }

\* All devices that st lists were let in by an entry of L.
ListsAdmitted(st, L) == \A m \in Member : st.members[m].devices \subseteq Admitted(L)

LEMMA AppliedListsAdmitted ==
  ASSUME NEW L, NEW e \in Entry, NEW st \in GroupStates, ListsAdmitted(st, L)
  PROVE  ListsAdmitted(applyEntry(e, st), L \cup {e})
  <1> SUFFICES ASSUME NEW m \in Member, NEW x \in applyEntry(e, st).members[m].devices
               PROVE  x \in Admitted(L \cup {e})
    BY DEF ListsAdmitted
  <1> DEFINE ms == st.members
  <1>1. applyEntry(e, st).members = MembersAfter(e, ms)
    BY ApplyFields
  <1>2. ms \in [Member -> [active : BOOLEAN, devices : SUBSET Device]]
    BY GroupStateFields
  <1>3. MembersAfter(e, ms) \in [Member -> [active : BOOLEAN, devices : SUBSET Device]]
    BY <1>2, MembersTyped
  <1>4. x \in MembersAfter(e, ms)[m].devices /\ x \in Device
    BY <1>1, <1>3
  <1>5. CASE x \in ms[m].devices
    BY <1>5 DEF ListsAdmitted, Admitted
  <1>6. CASE x \notin ms[m].devices
    <2> HIDE DEF ms
    <2>1. e.type \in EntryType /\ e.payload \in PayloadOf[e.type]
      BY EntryFields
    <2>2. CASE e.type \in {"Genesis", "MemberAdded"}
      <3>1. MembersAfter(e, ms) = [ms EXCEPT ![e.payload.member] = Joined(e.dev)]
        BY <2>2 DEF MembersAfter
      <3>2. x = e.dev
        BY <1>2, <1>4, <1>6, <3>1 DEF Joined
      <3>3. Admits(e, x)
        BY <2>2, <3>2 DEF Admits
      <3> QED BY <1>4, <3>3 DEF Admitted
    <2>3. CASE e.type = "DeviceAuthorized"
      <3>1. MembersAfter(e, ms) = [ms EXCEPT ![e.payload.member].devices = @ \cup {e.payload.device}]
        BY <2>3 DEF MembersAfter
      <3>2. x = e.payload.device
        BY <1>2, <1>4, <1>6, <3>1
      <3>3. Admits(e, x)
        BY <2>3, <3>2 DEF Admits
      <3> QED BY <1>4, <3>3 DEF Admitted
    <2>4. CASE e.type = "MemberRemoved"
      BY <1>2, <1>4, <1>6, <2>4 DEF MembersAfter
    <2>5. CASE e.type = "DeviceRevoked"
      BY <1>2, <1>4, <1>6, <2>5 DEF MembersAfter
    <2>6. CASE e.type = "RootKeyRotation"
      BY <1>2, <1>4, <1>6, <2>6 DEF MembersAfter
    <2>7. CASE e.type \notin {"Genesis", "MemberAdded", "DeviceAuthorized", "MemberRemoved",
                              "DeviceRevoked", "RootKeyRotation"}
      BY <1>4, <1>6, <2>7 DEF MembersAfter
    <2> QED BY <2>2, <2>3, <2>4, <2>5, <2>6, <2>7
  <1> QED BY <1>5, <1>6

LEMMA EmptyListsNobody ==
  ASSUME NEW L
  PROVE  ListsAdmitted(createEmptyGroupState, L) /\ ListsAdmitted(NoState, L)
  <1>1. \A m \in Member : createEmptyGroupState.members[m].devices = {}
    BY DEF createEmptyGroupState
  <1>2. NoState.members = createEmptyGroupState.members
    BY DEF NoState, createEmptyGroupState
  <1> QED BY <1>1, <1>2 DEF ListsAdmitted

LEMMA StateListsAdmitted ==
  ASSUME NEW S, Entries(S)
  PROVE  ListsAdmitted(StateOf(S), S)
  <1> DEFINE G == { T \in SUBSET S : ListsAdmitted(StateOf(T), T) }
  <1>1. ASSUME NEW T \in SUBSET S, \A x \in T : T \ {x} \in G
        PROVE  T \in G
    <2>1. Entries(T)
      BY SubsetEntries
    <2>2. CASE T = {}
      BY <2>1, <2>2, StateOfStep, EmptyListsNobody
    <2>3. CASE T # {}
      <3>1. PICK last \in T : StateOf(T) = applyEntry(last, StateOf(T \ {last}))
        BY <2>1, <2>3, StateOfStep
      <3>2. StateOf(T \ {last}) \in GroupStates
        BY SubsetEntries, StateOfStep DEF GroupStates
      <3>3. ListsAdmitted(StateOf(T \ {last}), T \ {last}) /\ last \in Entry
        BY <1>1, <2>1 DEF Entries
      <3>4. (T \ {last}) \cup {last} = T
        OBVIOUS
      <3>5. ListsAdmitted(applyEntry(last, StateOf(T \ {last})), (T \ {last}) \cup {last})
        BY <3>2, <3>3, AppliedListsAdmitted
      <3> QED BY <3>1, <3>4, <3>5
    <2> QED BY <2>2, <2>3
  <1>2. S \in G
    <2> HIDE DEF G
    <2> QED BY <1>1, SubsetInduction DEF Entries
  <1> QED BY <1>2

\* Accountable of the entries L of device d.
Known(d, L) ==
  \A e \in L : e.dev # d /\ e.type \notin {"Genesis", "MemberAdded"} =>
    \E f \in L \ {e} : Admits(f, e.dev)

LEMMA AuthorIsAdmitted ==
  ASSUME NEW e, e.type \notin {"Genesis", "MemberAdded"}, NEW L,
         NEW st, ListsAdmitted(st, L), validateCreatorAuthorization(e, st)
  PROVE  \E f \in L : Admits(f, e.dev)
  BY DEF validateCreatorAuthorization, Owners, ListsAdmitted, Admitted

LEMMA ChainIsKnown ==
  ASSUME NEW S, Entries(S), ChainValid(S), NEW d
  PROVE  Known(d, S)
  <1> SUFFICES ASSUME NEW e \in S, e.type \notin {"Genesis", "MemberAdded"}
               PROVE  \E f \in S \ {e} : Admits(f, e.dev)
    BY DEF Known
  <1> DEFINE P == Preceding(S, e)
  <1>1. P \in SUBSET S /\ e \notin P
    BY EntriesSortable, BeforeOrders DEF Preceding
  <1>2. validateCreatorAuthorization(e, StateOf(P))
    <2>1. <<e, StateOf(P)>> \in Replay(S)
      BY DEF Replay
    <2>2. validateEntry(e, P, StateOf(P))
      BY <2>1 DEF ChainValid
    <2> QED BY <2>2 DEF validateEntry
  <1> HIDE DEF P
  <1>3. ListsAdmitted(StateOf(P), P)
    BY <1>1, SubsetEntries, StateListsAdmitted
  <1> QED BY <1>1, <1>2, <1>3, AuthorIsAdmitted

KnownInv ==
  \A d \in Device : /\ Known(d, ledger[d]) /\ Known(d, disk[d])
                    /\ ListsAdmitted(cache[d], ledger[d])

LEMMA NextKnown ==
  ASSUME CachedInv, CachedInv', KnownInv, [Next]_vars
  PROVE  KnownInv'
  <1> USE DEF CachedInv
  <1>1. ASSUME NEW d \in Device, DeviceStep(d)
        PROVE  KnownInv'
    <2> DEFINE L == ledger'[d]
    <2>1. /\ \A x \in Device \ {d} :
               ledger'[x] = ledger[x] /\ disk'[x] = disk[x] /\ cache'[x] = cache[x]
          /\ disk'[d] \in {disk[d], L}
      BY <1>1 DEF DeviceStep, Elsewhere, Cached
    <2>2. /\ Known(d, ledger[d]) /\ Known(d, disk[d])
          /\ ListsAdmitted(cache[d], ledger[d])
      BY DEF KnownInv
    <2>3. ListsAdmitted(NoState, L) /\ \A st \in StatesOf(L) : ListsAdmitted(st, L)
      <3>1. Entries(L)
        BY NextHeldEntries
      <3>2. \A S \in SUBSET L : ListsAdmitted(StateOf(S), S)
        BY <3>1, SubsetEntries, StateListsAdmitted
      <3>3. \A S \in SUBSET L : ListsAdmitted(StateOf(S), L)
        BY <3>2 DEF ListsAdmitted, Admitted
      <3> QED BY <3>3, EmptyListsNobody DEF StatesOf
    <2>4. ledger[d] \subseteq L => ListsAdmitted(cache[d], L)
      BY <2>2 DEF ListsAdmitted, Admitted
    <2>5. ASSUME Builds(d) PROVE Known(d, L) /\ ListsAdmitted(cache'[d], L)
      BY <2>2, <2>3, <2>4, <2>5 DEF Builds, Known
    <2>6. ASSUME TakesChain(d) PROVE Known(d, L) /\ ListsAdmitted(cache'[d], L)
      <3>1. PICK S \in SUBSET created : ChainValid(S) /\ L = ledger[d] \cup S
        BY <2>6 DEF TakesChain
      <3>2. Known(d, S)
        BY <3>1, BuiltEntries, ChainIsKnown
      <3>3. Known(d, L)
        BY <2>2, <3>1, <3>2 DEF Known
      <3> QED BY <2>3, <2>4, <2>6, <3>1, <3>3 DEF TakesChain
    <2>7. ASSUME TakesOne(d) PROVE Known(d, L) /\ ListsAdmitted(cache'[d], L)
      <3>1. PICK e \in created :
              /\ Accepts(d, e) /\ L = ledger[d] \cup {e}
              /\ cache'[d] \in {applyEntry(e, cache[d])} \cup StatesOf(L)
        BY <2>7 DEF TakesOne
      <3>2. e \in Entry /\ cache[d] \in GroupStates
        BY DEF LinkedInv, StorageTypeOK, Cached
      <3>3. ListsAdmitted(applyEntry(e, cache[d]), L)
        BY <2>2, <3>1, <3>2, AppliedListsAdmitted
      <3>4. e \notin ledger[d] /\ validateCreatorAuthorization(e, cache[d])
        BY <3>1 DEF Accepts, validateEntry
      <3>5. e.type \notin {"Genesis", "MemberAdded"} => \E f \in ledger[d] : Admits(f, e.dev)
        BY <2>2, <3>4, AuthorIsAdmitted
      <3>6. Known(d, L)
        BY <2>2, <3>1, <3>4, <3>5 DEF Known
      <3> QED BY <2>3, <3>1, <3>3, <3>6
    <2>8. ASSUME Restarts(d) PROVE Known(d, L) /\ ListsAdmitted(cache'[d], L)
      <3>1. Known(d, {})
        BY DEF Known
      <3> QED BY <2>2, <2>3, <2>8, <3>1 DEF Restarts
    <2>9. Known(d, L) /\ ListsAdmitted(cache'[d], L)
      BY <1>1, <2>5, <2>6, <2>7, <2>8 DEF DeviceStep
    <2> HIDE DEF L
    <2> QED BY <2>1, <2>2, <2>9 DEF KnownInv, L
  <1>2. CASE UNCHANGED <<created, ledger, cache, disk>>
    BY <1>2 DEF KnownInv
  <1> QED BY <1>1, <1>2, NextIsDeviceStep

\* For any members, devices, operations and faults: whoever wrote an entry that
\* a device has from others was let in by another entry the device has
\* (validateCreatorAuthorization), in a chain it took whole or one by one.
THEOREM WritersAccountable == Spec => []Accountable
  <1>1. Init => KnownInv
    BY EmptyListsNobody DEF Init, KnownInv, Known
  <1>2. CachedInv /\ CachedInv' /\ KnownInv /\ [Next]_vars => KnownInv'
    BY NextKnown
  <1>3. KnownInv => Accountable
    BY DEF KnownInv, Known, Accountable
  <1> QED BY <1>1, <1>2, <1>3, CachedAlways, PTL DEF Spec


-----------------------------------------------------------------------------
(* Chains.                                                                 *)

\* Entry f lets member m in; the members that entries of L let in.
Joins(f, m) == f.type \in {"Genesis", "MemberAdded"} /\ f.payload.member = m
JoinedIn(L) == { m \in Member : \E f \in L : Joins(f, m) }

\* The members that must be in the group for e to be valid.
Needs(e) ==
  CASE e.type = "ExpenseCreated" -> {Owner[e.dev], e.payload.payer} \cup DOMAIN e.payload.splits
    [] e.type = "MemberAdded"    -> {e.payload.inviter}
    [] OTHER                     -> {}

Complete(L) == \A e \in L : Needs(e) \subseteq JoinedIn(L)

\* An expense whose shares make up its amount.
SharedOut(x) ==
  /\ x.amount > 0 /\ \A m \in DOMAIN x.splits : x.splits[m] >= 0
  /\ SumFunction(x.splits) = x.amount

\* The entries that are built in a group in which members only join, spend and
\* settle.
WellBuilt(e) ==
  \/ /\ e.type = "Genesis" /\ e.dev = Founder /\ e.payload.member = Owner[e.dev]
     /\ e.clock = 0 /\ e.prev = NoHash
  \/ e.type = "MemberAdded" /\ e.payload.member = Owner[e.dev]
  \/ e.type = "ExpenseCreated" /\ SharedOut(e.payload)

\* Of all the entries built: everyone joins once, and an entry that needs them
\* has the larger clock.
Sound(C) ==
  /\ \A e \in C : WellBuilt(e)
  /\ \A e, f \in C, m \in Member : Joins(e, m) /\ Joins(f, m) => e = f
  /\ \A e, f \in C : \A m \in Needs(e) : Joins(f, m) => f.clock < e.clock

OwnDevices == \A c, d \in Device : Owner[c] = Owner[d] => c = d

LEMMA OwnersAreMembers == \A d \in Device : Owner[d] \in Member
  BY SplitLedgerAssumption

LEMMA WellBuiltFields ==
  ASSUME NEW e \in Entry, WellBuilt(e)
  PROVE  /\ e.dev \in Device /\ Owner[e.dev] \in Member /\ e.clock \in Nat
         /\ e.type \in {"Genesis", "MemberAdded", "ExpenseCreated"}
         /\ e.type \in {"Genesis", "MemberAdded"} => e.payload.member = Owner[e.dev]
         /\ Needs(e) \subseteq Member
  <1>1. e.dev \in Device /\ e.clock \in Nat /\ e.payload \in PayloadOf[e.type]
    BY EntryFields
  <1>2. Owner[e.dev] \in Member
    BY <1>1, OwnersAreMembers
  <1>3. CASE e.type = "Genesis"
    BY <1>1, <1>2, <1>3 DEF WellBuilt, Needs
  <1>4. CASE e.type = "MemberAdded"
    <2>1. e.payload.inviter \in Member
      BY <1>1, <1>4 DEF PayloadOf
    <2> QED BY <1>1, <1>2, <1>4, <2>1 DEF WellBuilt, Needs
  <1>5. CASE e.type = "ExpenseCreated"
    <2>1. e.payload.payer \in Member /\ e.payload.splits \in Shares
      BY <1>5, ExpensePayload DEF Expense
    <2>2. DOMAIN e.payload.splits \subseteq Member
      BY <2>1 DEF Shares
    <2> QED BY <1>1, <1>2, <1>5, <2>1, <2>2 DEF Needs
  <1> QED BY <1>3, <1>4, <1>5 DEF WellBuilt

\* Whoever joined is active and has their own device.
Status(m, L) ==
  IF m \in JoinedIn(L) THEN [active |-> TRUE, devices |-> { x \in Device : Owner[x] = m }]
                       ELSE [active |-> FALSE, devices |-> {}]

LEMMA JoinState ==
  ASSUME OwnDevices, NEW S, Entries(S), \A e \in S : WellBuilt(e)
  PROVE  \A m \in Member : StateOf(S).members[m] = Status(m, S)
  <1> DEFINE G == { T \in SUBSET S : \A m \in Member : StateOf(T).members[m] = Status(m, T) }
  <1>1. ASSUME NEW T \in SUBSET S, \A x \in T : T \ {x} \in G
        PROVE  T \in G
    <2>1. Entries(T)
      BY SubsetEntries
    <2>2. CASE T = {}
      <3>1. StateOf(T) = createEmptyGroupState
        BY <2>1, <2>2, StateOfStep
      <3>2. \A m \in Member : StateOf(T).members[m] = [active |-> FALSE, devices |-> {}]
        BY <3>1 DEF createEmptyGroupState
      <3>3. JoinedIn(T) = {}
        BY <2>2 DEF JoinedIn
      <3>4. \A m \in Member : Status(m, T) = [active |-> FALSE, devices |-> {}]
        BY <3>3 DEF Status
      <3> QED BY <3>2, <3>4
    <2>3. CASE T # {}
      <3>1. PICK last \in T : StateOf(T) = applyEntry(last, StateOf(T \ {last}))
        BY <2>1, <2>3, StateOfStep
      <3> DEFINE R == T \ {last}
                 ms == StateOf(R).members
      <3>2. StateOf(R) \in GroupStates
        BY SubsetEntries, StateOfStep DEF GroupStates
      <3>3. StateOf(T).members = MembersAfter(last, ms)
        BY <3>1, <3>2, ApplyFields
      <3>4. ms \in [Member -> [active : BOOLEAN, devices : SUBSET Device]]
        BY <3>2, GroupStateFields
      <3>5. \A m \in Member : ms[m] = Status(m, R)
        BY <1>1
      <3>6. last \in Entry /\ WellBuilt(last)
        BY <2>1 DEF Entries
      <3> HIDE DEF ms
      <3>7. CASE last.type \in {"Genesis", "MemberAdded"}
        <4> DEFINE o == Owner[last.dev]
        <4>1. last.payload.member = o /\ o \in Member /\ last.dev \in Device
          BY <3>6, <3>7, WellBuiltFields
        <4>2. StateOf(T).members = [ms EXCEPT ![o] = Joined(last.dev)]
          BY <3>3, <3>7, <4>1 DEF MembersAfter
        <4>3. JoinedIn(T) = JoinedIn(R) \cup {o}
          BY <3>7, <4>1 DEF JoinedIn, Joins
        <4>4. { x \in Device : Owner[x] = o } = {last.dev}
          BY <4>1 DEF OwnDevices
        <4>5. Status(o, T) = Joined(last.dev)
          BY <4>3, <4>4 DEF Status, Joined
        <4>6. \A m \in Member : m # o => Status(m, T) = Status(m, R)
          BY <4>3 DEF Status
        <4> HIDE DEF o, R
        <4>7. \A m \in Member : StateOf(T).members[m] = Status(m, T)
          BY <3>4, <3>5, <4>1, <4>2, <4>5, <4>6
        <4> QED BY <4>7
      <3>8. CASE last.type = "ExpenseCreated"
        <4>1. StateOf(T).members = ms
          BY <3>3, <3>8 DEF MembersAfter
        <4>2. JoinedIn(T) = JoinedIn(R)
          BY <3>8 DEF JoinedIn, Joins
        <4>3. \A m \in Member : Status(m, T) = Status(m, R)
          BY <4>2 DEF Status
        <4> HIDE DEF R
        <4>4. \A m \in Member : StateOf(T).members[m] = Status(m, T)
          BY <3>5, <4>1, <4>3
        <4> QED BY <4>4
      <3> QED BY <3>6, <3>7, <3>8 DEF WellBuilt
    <2> QED BY <2>2, <2>3
  <1>2. S \in G
    <2> HIDE DEF G
    <2> QED BY <1>1, SubsetInduction DEF Entries
  <1> QED BY <1>2

LEMMA JoinedActive ==
  ASSUME OwnDevices, NEW S, Entries(S), \A e \in S : WellBuilt(e)
  PROVE  /\ ActiveMembers(StateOf(S)) = JoinedIn(S)
         /\ \A d \in Device : Owners(d, StateOf(S)) = JoinedIn(S) \cap {Owner[d]}
  <1>1. \A m \in Member : /\ StateOf(S).members[m].active <=> m \in JoinedIn(S)
                          /\ \A d \in Device : d \in StateOf(S).members[m].devices <=>
                               m \in JoinedIn(S) /\ Owner[d] = m
    <2> TAKE m \in Member
    <2> DEFINE own == { x \in Device : Owner[x] = m }
    <2>1. StateOf(S).members[m] = IF m \in JoinedIn(S) THEN [active |-> TRUE, devices |-> own]
                                  ELSE [active |-> FALSE, devices |-> {}]
      BY JoinState DEF Status
    <2>2. \A d \in Device : d \in own <=> Owner[d] = m
      OBVIOUS
    <2> HIDE DEF own
    <2> QED BY <2>1, <2>2
  <1>2. JoinedIn(S) \subseteq Member
    BY DEF JoinedIn
  <1> QED BY <1>1, <1>2 DEF ActiveMembers, isActiveMember, Owners

\* A member that an entry in S needs, and who joined somewhere in C, did so
\* before the entry.
LEMMA JoinedBefore ==
  ASSUME NEW C, Sound(C), NEW S \in SUBSET C, Entries(S), NEW e \in S, NEW m \in Needs(e),
         m \in JoinedIn(S)
  PROVE  m \in JoinedIn(Preceding(S, e))
  <1>1. PICK f \in S : m \in Member /\ Joins(f, m)
    BY DEF JoinedIn
  <1>2. f.clock < e.clock
    BY <1>1 DEF Sound
  <1> QED BY <1>1, <1>2 DEF Preceding, Before, JoinedIn

\* A valid chain has everyone its entries need.
LEMMA ValidIsComplete ==
  ASSUME OwnDevices, NEW C, Sound(C), NEW S \in SUBSET C, Entries(S), ChainValid(S)
  PROVE  Complete(S)
  <1> SUFFICES ASSUME NEW e \in S, NEW m \in Needs(e)
               PROVE  m \in JoinedIn(S)
    BY DEF Complete
  <1> DEFINE P == Preceding(S, e)
             st == StateOf(P)
  <1>1. P \in SUBSET S /\ Entries(P) /\ \A f \in P : WellBuilt(f)
    BY SubsetEntries DEF Preceding, Sound
  <1>2. e \in Entry /\ WellBuilt(e)
    BY DEF Entries, Sound
  <1>3. validateEntry(e, P, st)
    <2>1. <<e, st>> \in Replay(S)
      BY DEF Replay
    <2> QED BY <2>1 DEF ChainValid
  <1> HIDE DEF P
  <1>4. /\ ActiveMembers(st) = JoinedIn(P)
        /\ \A d \in Device : Owners(d, st) = JoinedIn(P) \cap {Owner[d]}
    BY <1>1, JoinedActive
  <1>5. JoinedIn(P) \subseteq JoinedIn(S)
    BY <1>1 DEF JoinedIn
  <1> HIDE DEF st
  <1>6. CASE e.type = "ExpenseCreated"
    <2>1. /\ validateCreatorAuthorization(e, st) /\ validateExpense(e.payload, st)
      BY <1>3, <1>6 DEF validateEntry, validatePayload
    <2>2. Owners(e.dev, st) # {}
      BY <1>6, <2>1 DEF validateCreatorAuthorization
    <2>3. Owner[e.dev] \in JoinedIn(P)
      BY <1>2, <1>4, <2>2, WellBuiltFields
    <2>4. m = Owner[e.dev] \/ isActiveMember(m, st)
      BY <1>6, <2>1 DEF Needs, validateExpense
    <2>5. m \in Member
      BY <1>2, WellBuiltFields
    <2> QED BY <1>4, <1>5, <2>3, <2>4, <2>5 DEF ActiveMembers
  <1>7. CASE e.type = "MemberAdded"
    <2>1. isActiveMember(e.payload.inviter, st)
      BY <1>3, <1>7 DEF validateEntry, validatePayload
    <2>2. m = e.payload.inviter /\ m \in Member
      BY <1>2, <1>7, WellBuiltFields DEF Needs
    <2> QED BY <1>4, <1>5, <2>1, <2>2 DEF ActiveMembers
  <1>8. CASE e.type = "Genesis"
    BY <1>8 DEF Needs
  <1> QED BY <1>2, <1>6, <1>7, <1>8 DEF WellBuilt

LEMMA NewExpenseShared ==
  ASSUME NEW payer, NEW S \in SUBSET Member, S # {}
  PROVE  SharedOut(NewExpense(payer, S))
  <1> DEFINE x == NewExpense(payer, S)
  <1>1. /\ x.amount = Cardinality(S)
        /\ DOMAIN x.splits = S /\ \A m \in S : x.splits[m] = 1
    BY DEF NewExpense
  <1>2. IsFiniteSet(S)
    BY LedgerAssumption, FS_Subset
  <1>3. Cardinality(S) \in Nat /\ Cardinality(S) # 0
    BY <1>2, FS_CardinalityType, FS_EmptySet
  <1> HIDE DEF x
  <1>4. SumFunction(x.splits) = Cardinality(S)
    BY <1>1, <1>2, SumOfOnes DEF SumFunction
  <1> QED BY <1>1, <1>3, <1>4 DEF SharedOut, x

LEMMA SettlementShared ==
  ASSUME NEW from \in Member, NEW to \in Member, NEW amount \in Int, amount > 0
  PROVE  SharedOut(Settlement(from, to, amount))
  <1> DEFINE x == Settlement(from, to, amount)
  <1>1. x.amount = amount /\ \A m \in DOMAIN x.splits : x.splits[m] = amount
    BY DEF Settlement
  <1>2. x \in BalancedExpense
    BY SettlementBalanced
  <1> HIDE DEF x
  <1> QED BY <1>1, <1>2 DEF SharedOut, BalancedExpense, x

\* Who owes or is owed has joined.
LEMMA SettlersJoined ==
  ASSUME NEW L, Entries(L), \A e \in L : WellBuilt(e), Complete(L),
         NEW s \in computeSettlements(computeBalances(L))
  PROVE  s.from \in JoinedIn(L) /\ s.to \in JoinedIn(L) /\ s.amount > 0
  <1> DEFINE K == { e.id : e \in L }
             J == JoinedIn(L)
             P == { x \in BalancedExpense : x.payer \in J /\ DOMAIN x.splits \subseteq J }
             X == getEffectiveExpenses(L)
             b == computeBalances(L)
  <1>1. Sortable(L) /\ IsFiniteSet(K)
    <2>1. Sortable(L) /\ IsFiniteSet(L)
      BY EntriesSortable DEF Entries
    <2>2. [e \in L |-> e.id] \in Surjection(L, K)
      BY DEF Surjection
    <2> HIDE DEF K
    <2> QED BY <2>1, <2>2, FS_Surjection
  <1>2. Said(L, K, P)
    <2>1. ASSUME NEW e \in L, e.type = "ExpenseCreated" PROVE e.payload \in P
      <3>1. e \in Entry /\ SharedOut(e.payload)
        BY <2>1 DEF Entries, WellBuilt
      <3>2. e.payload \in Expense
        BY <2>1, <3>1, ExpensePayload
      <3>3. PICK M \in SUBSET Member : e.payload.splits \in [M -> Amount]
        BY <3>2 DEF Expense, Shares
      <3>4. e.payload.splits \in [M -> Int]
        BY <3>3, LedgerAssumption
      <3>5. e.payload.splits \in UNION { [N -> Int] : N \in SUBSET Member }
        BY <3>4
      <3>6. e.payload \in [amount : Int, payer : Member,
                            splits : UNION { [N -> Int] : N \in SUBSET Member }]
        BY <3>2, <3>5, LedgerAssumption DEF Expense
      <3>7. e.payload \in BalancedExpense
        BY <3>1, <3>6 DEF BalancedExpense, SharedOut
      <3>8. e.payload.payer \in J /\ DOMAIN e.payload.splits \subseteq J
        BY <2>1 DEF Complete, Needs
      <3> QED BY <3>7, <3>8
    <2>2. \A e \in L : e.type \in {"Genesis", "MemberAdded", "ExpenseCreated"}
      BY DEF WellBuilt
    <2> HIDE DEF P
    <2> QED BY <2>1, <2>2 DEF Said
  <1> HIDE DEF K, P
  <1>3. X \in Maps(K, P)
    BY <1>1, <1>2, EffectiveTyped
  <1>4. IsFiniteSet(DOMAIN X) /\ \A i \in DOMAIN X : X[i] \in P
    <2> HIDE DEF X
    <2>1. PICK D \in SUBSET K : X \in [D -> P]
      BY <1>3 DEF Maps
    <2> QED BY <1>1, <2>1, FS_Subset
  <1>5. ASSUME NEW m \in Member, m \notin J PROVE b[m] = 0
    <2> HIDE DEF X
    <2>1. \A i \in DOMAIN X : Credit(X[i], m) = 0
      BY <1>4, <1>5 DEF P, Credit
    <2>2. \A i \in DOMAIN X : Share(X, m)[i] = 0
      BY <2>1 DEF Share
    <2>3. SumFunctionOnSet(Share(X, m), DOMAIN X) = Cardinality(DOMAIN X) * 0
      BY <1>4, <2>2, SumOfSame
    <2>4. Cardinality(DOMAIN X) \in Nat
      BY <1>4, FS_CardinalityType
    <2>5. SumFunctionOnSet(Share(X, m), DOMAIN X) = 0
      BY <2>3, <2>4
    <2> QED BY <2>5, BalanceIsSum DEF X
  <1> HIDE DEF b
  <1>6. s.from \in Member /\ s.to \in Member /\ b[s.from] < 0 /\ b[s.to] > 0 /\ s.amount > 0
    <2>1. PICK f \in Debtors(b), t \in Creditors(b) : s.from = f /\ s.to = t
      BY DEF computeSettlements, b
    <2>2. s.amount > 0
      BY DEF computeSettlements
    <2> QED BY <2>1, <2>2 DEF Debtors, Creditors
  <1> QED BY <1>5, <1>6

\* L has what entry e depends on: the entry it comes after, and the members
\* that must be in the group.
Supported(e, L) ==
  /\ e.type # "Genesis" => \E f \in L : f.id = e.prev
  /\ Needs(e) \subseteq JoinedIn(L)

\* An entry is valid after entries, all earlier or not, that support it.
LEMMA SupportedIsValid ==
  ASSUME OwnDevices, NEW C, Sound(C), NEW P \in SUBSET C, Entries(P),
         NEW e \in C, e \in Entry, e \notin P, Supported(e, P), e.type = "Genesis" => P = {}
  PROVE  validateEntry(e, P, StateOf(P))
  <1> DEFINE st == StateOf(P)
  <1>1. WellBuilt(e) /\ \A f \in P : WellBuilt(f)
    BY DEF Sound
  <1>2. \A m \in Needs(e) : m \in JoinedIn(P)
    BY DEF Supported
  <1>3. /\ ActiveMembers(st) = JoinedIn(P)
        /\ \A d \in Device : Owners(d, st) = JoinedIn(P) \cap {Owner[d]}
    BY <1>1, JoinedActive
  <1> HIDE DEF st
  <1>4. \A m \in JoinedIn(P) : isActiveMember(m, st)
    BY <1>3 DEF ActiveMembers
  <1>5. PreviousHashOK(e, P)
    <2>1. e.type # "Genesis" => e.prev # NoHash /\ \E f \in P : f.id = e.prev
      BY EntryFields DEF Supported, Entries
    <2>2. e.type = "Genesis" => e.prev = NoHash
      BY <1>1 DEF WellBuilt
    <2> QED BY <2>1, <2>2 DEF PreviousHashOK
  <1>6. CASE e.type = "Genesis"
    BY <1>5, <1>6 DEF validateEntry, validateCreatorAuthorization, validatePayload, st
  <1>7. CASE e.type = "MemberAdded"
    <2> DEFINE m == e.payload.member
    <2>1. m \in Member /\ Joins(e, m)
      BY <1>1, <1>7, WellBuiltFields DEF Joins
    <2>2. m \notin JoinedIn(P)
      BY <2>1 DEF Sound, JoinedIn
    <2>3. ~isActiveMember(m, st)
      BY <1>3, <2>1, <2>2 DEF ActiveMembers
    <2>4. isActiveMember(e.payload.inviter, st)
      BY <1>2, <1>4, <1>7 DEF Needs
    <2> QED BY <1>5, <1>7, <2>3, <2>4
            DEF validateEntry, validateCreatorAuthorization, validatePayload, st
  <1>8. CASE e.type = "ExpenseCreated"
    <2>1. SharedOut(e.payload)
      BY <1>1, <1>8 DEF WellBuilt
    <2>2. Needs(e) = {Owner[e.dev], e.payload.payer} \cup DOMAIN e.payload.splits
      BY <1>8 DEF Needs
    <2>3. /\ Owner[e.dev] \in JoinedIn(P) /\ e.payload.payer \in JoinedIn(P)
          /\ DOMAIN e.payload.splits \subseteq JoinedIn(P)
      BY <1>2, <2>2
    <2>4. validateExpense(e.payload, st)
      BY <1>4, <2>1, <2>3 DEF validateExpense, SharedOut
    <2>5. Owners(e.dev, st) = {Owner[e.dev]}
      BY <1>3, <2>3, EntryFields
    <2>6. validateCreatorAuthorization(e, st)
      BY <1>4, <2>3, <2>5 DEF validateCreatorAuthorization
    <2> QED BY <1>5, <1>8, <2>4, <2>6 DEF validateEntry, validatePayload, st
  <1> QED BY <1>1, <1>6, <1>7, <1>8 DEF WellBuilt

\* A linked chain that has everyone its entries need is valid.
LEMMA CompleteIsValid ==
  ASSUME OwnDevices, NEW C, Sound(C), NEW S \in SUBSET C, Entries(S), Complete(S), Linked(S)
  PROVE  ChainValid(S)
  <1> SUFFICES ASSUME NEW e \in S
               PROVE  validateEntry(e, Preceding(S, e), StateOf(Preceding(S, e)))
    BY DEF ChainValid, Replay
  <1> DEFINE P == Preceding(S, e)
  <1>1. P \in SUBSET S /\ Entries(P) /\ e \notin P
    BY SubsetEntries, EntriesSortable, BeforeOrders DEF Preceding
  <1>2. e \in Entry /\ WellBuilt(e) /\ \A f \in S : f \in Entry /\ WellBuilt(f) /\ f.clock \in Nat
    BY EntryFields DEF Entries, Sound
  <1>3. Supported(e, P)
    <2>1. Needs(e) \subseteq JoinedIn(P)
      BY JoinedBefore DEF Complete
    <2>2. \A f \in S : f.clock < e.clock => f \in P
      BY DEF Preceding, Before
    <2> HIDE DEF P
    <2> QED BY <2>1, <2>2 DEF Supported, Linked
  <1>4. ASSUME e.type = "Genesis", NEW f \in P PROVE FALSE
    <2>1. e.prev = NoHash /\ e.clock = 0 /\ e.payload.member = Owner[Founder] /\ Owner[Founder] \in Member
      BY <1>2, <1>4, SplitLedgerAssumption DEF WellBuilt
    <2>2. f \in S /\ Before(f, e) /\ f # e
      BY <1>1 DEF Preceding
    <2>3. f.clock = 0
      BY <1>2, <2>1, <2>2 DEF Before
    <2>4. f.type = "Genesis"
      BY <1>2, <2>2, <2>3 DEF Linked
    <2>5. Joins(f, Owner[Founder]) /\ Joins(e, Owner[Founder])
      BY <1>2, <1>4, <2>1, <2>2, <2>4 DEF WellBuilt, Joins
    <2> QED BY <2>1, <2>2, <2>5 DEF Sound
  <1> HIDE DEF P
  <1> QED BY <1>1, <1>2, <1>3, <1>4, SupportedIsValid DEF P

-----------------------------------------------------------------------------
(* Chains in the storages.                                                 *)

StableGroup ==
  /\ Ops \subseteq {"expense", "settle"} /\ CarefulUsers
  /\ Faults \cap {"reload", "delete"} = {}
  /\ OwnDevices

\* An open page of d shows members who joined, and d's own member did.
PageJoined(p, d, L) ==
  p # NoPage => /\ p.members # {} /\ p.members \subseteq JoinedIn(L)
                /\ Owner[d] \in JoinedIn(L)

KnowsMembers(d) ==
  /\ Complete(ledger[d])
  /\ ActiveMembers(cache[d]) \subseteq JoinedIn(ledger[d])
  /\ PageJoined(page[d], d, ledger[d])

ChainInv ==
  /\ ClockInv /\ Cached /\ KnownInv
  /\ Sound(created)
  /\ \A d \in Device : KnowsMembers(d)

LEMMA JoinedGrows ==
  ASSUME NEW L, NEW K, L \subseteq K
  PROVE  /\ JoinedIn(L) \subseteq JoinedIn(K)
         /\ \A p, d : PageJoined(p, d, L) => PageJoined(p, d, K)
  <1>1. JoinedIn(L) \subseteq JoinedIn(K)
    BY DEF JoinedIn
  <1> QED BY <1>1 DEF PageJoined

LEMMA CompleteUnion ==
  ASSUME NEW L, NEW K, Complete(L), \A e \in K : Needs(e) \subseteq JoinedIn(L \cup K)
  PROVE  Complete(L \cup K)
  <1>1. JoinedIn(L) \subseteq JoinedIn(L \cup K)
    BY DEF JoinedIn
  <1> QED BY <1>1 DEF Complete

\* The state of a chain that was taken has those who joined in it.
LEMMA StatesJoined ==
  ASSUME OwnDevices, NEW L, Entries(L), \A e \in L : WellBuilt(e), NEW st \in StatesOf(L)
  PROVE  ActiveMembers(st) \subseteq JoinedIn(L)
  <1>1. PICK S \in SUBSET L : st = StateOf(S)
    BY DEF StatesOf
  <1>2. Entries(S) /\ \A e \in S : WellBuilt(e)
    BY SubsetEntries
  <1>3. ActiveMembers(st) = JoinedIn(S)
    BY <1>1, <1>2, JoinedActive
  <1> QED BY <1>3, JoinedGrows

LEMMA AppliedJoined ==
  ASSUME NEW e \in Entry, WellBuilt(e), NEW st \in GroupStates, NEW L,
         ActiveMembers(st) \subseteq JoinedIn(L)
  PROVE  /\ ActiveMembers(applyEntry(e, st)) \subseteq JoinedIn(L \cup {e})
         /\ validateEntry(e, L, st) => ActiveMembers(applyEntry(e, st)) # {}
  <1> DEFINE ms == st.members
  <1>1. applyEntry(e, st).members = MembersAfter(e, ms)
    BY ApplyFields
  <1>2. ms \in [Member -> [active : BOOLEAN, devices : SUBSET Device]]
    BY GroupStateFields
  <1>3. ActiveMembers(st) = { m \in Member : ms[m].active }
    BY DEF ActiveMembers, isActiveMember
  <1>4. ActiveMembers(applyEntry(e, st)) = { m \in Member : MembersAfter(e, ms)[m].active }
    BY <1>1 DEF ActiveMembers, isActiveMember
  <1>5. JoinedIn(L) \subseteq JoinedIn(L \cup {e})
    BY JoinedGrows
  <1> HIDE DEF ms
  <1>6. CASE e.type \in {"Genesis", "MemberAdded"}
    <2> DEFINE o == e.payload.member
    <2>1. o \in Member
      BY <1>6, WellBuiltFields
    <2>2. MembersAfter(e, ms) = [ms EXCEPT ![o] = Joined(e.dev)]
      BY <1>6 DEF MembersAfter
    <2>3. o \in JoinedIn(L \cup {e})
      BY <1>6, <2>1 DEF JoinedIn, Joins
    <2>4. Joined(e.dev).active
      BY DEF Joined
    <2> HIDE DEF o
    <2>5. \A m \in Member : MembersAfter(e, ms)[m] = IF m = o THEN Joined(e.dev) ELSE ms[m]
      BY <1>2, <2>1, <2>2
    <2>6. ActiveMembers(applyEntry(e, st)) = ActiveMembers(st) \cup {o}
      BY <1>3, <1>4, <2>1, <2>4, <2>5
    <2> QED BY <1>5, <2>3, <2>6
  <1>7. CASE e.type = "ExpenseCreated"
    <2>1. MembersAfter(e, ms) = ms
      BY <1>7 DEF MembersAfter
    <2>2. ActiveMembers(applyEntry(e, st)) = ActiveMembers(st)
      BY <1>3, <1>4, <2>1
    <2>3. ASSUME validateEntry(e, L, st) PROVE e.payload.payer \in ActiveMembers(st)
      <3>1. isActiveMember(e.payload.payer, st)
        BY <1>7, <2>3 DEF validateEntry, validatePayload, validateExpense
      <3>2. e.payload.payer \in Member
        BY <1>7, ExpensePayload DEF Expense
      <3> QED BY <3>1, <3>2 DEF ActiveMembers
    <2> QED BY <1>5, <2>2, <2>3
  <1> QED BY <1>6, <1>7 DEF WellBuilt

\* The device builds an entry that is sound.
LEMMA BuildKeeps ==
  ASSUME ChainInv, NEW d \in Device, NEW e \in Entry, e.dev = d, WellBuilt(e),
         Needs(e) \subseteq JoinedIn(ledger[d]),
         \A f \in ledger[d] : f.clock < e.clock,
         \A m : Joins(e, m) => m \notin JoinedIn(created)
  PROVE  Sound(created \cup {e}) /\ Complete(ledger[d] \cup {e})
  <1> DEFINE C == created \cup {e}
  <1>1. /\ ledger[d] \subseteq created /\ created \subseteq Entry
        /\ \A f \in created : f.dev \in Device /\ f \in ledger[f.dev]
    BY EntryFields DEF ChainInv, ClockInv, LinkedInv, StorageTypeOK
  <1>2. /\ \A f \in created : WellBuilt(f)
        /\ \A f, g \in created, m \in Member : Joins(f, m) /\ Joins(g, m) => f = g
        /\ \A f, g \in created : \A m \in Needs(f) : Joins(g, m) => g.clock < f.clock
    BY DEF ChainInv, Sound
  <1>3. Complete(ledger[d] \cup {e})
    <2>1. Needs(e) \subseteq JoinedIn(ledger[d] \cup {e}) /\ Complete(ledger[d])
      BY JoinedGrows DEF ChainInv, KnowsMembers
    <2> QED BY <2>1, CompleteUnion
  <1>4. \A f \in C : WellBuilt(f)
    BY <1>2
  <1>5. \A f, g \in C, m \in Member : Joins(f, m) /\ Joins(g, m) => f = g
    BY <1>2 DEF JoinedIn
  <1>6. ASSUME NEW f \in C, NEW g \in C, NEW m \in Needs(f), Joins(g, m)
        PROVE  g.clock < f.clock
    <2>1. CASE f \in created /\ g \in created
      BY <1>2, <1>6, <2>1
    <2>2. CASE f \in created /\ g = e
      <3>1. Complete(ledger[f.dev]) /\ f \in ledger[f.dev] /\ ledger[f.dev] \subseteq created
        BY <1>1, <2>2 DEF ChainInv, KnowsMembers, ClockInv, LinkedInv, StorageTypeOK
      <3>2. m \in JoinedIn(created)
        BY <3>1, JoinedGrows DEF Complete
      <3> QED BY <1>6, <2>2, <3>2
    <2>3. CASE f = e
      <3>1. PICK h \in ledger[d] : m \in Member /\ Joins(h, m)
        BY <2>3 DEF JoinedIn
      <3>2. g = h
        BY <1>1, <1>5, <1>6, <3>1
      <3> QED BY <2>3, <3>2
    <2> QED BY <2>1, <2>2, <2>3
  <1> HIDE DEF C
  <1>7. Sound(C)
    BY <1>4, <1>5, <1>6 DEF Sound
  <1> QED BY <1>3, <1>7 DEF C

\* The handlers that build an entry here.
SoundlyBuilt(d) ==
  \E e \in Entry :
    /\ e.dev = d /\ WellBuilt(e)
    /\ created' = created \cup {e} /\ ledger'[d] = ledger[d] \cup {e}
    /\ Needs(e) \subseteq JoinedIn(ledger[d])
    /\ \A f \in ledger[d] : f.clock < e.clock
    /\ \A m : Joins(e, m) => m \notin JoinedIn(created)

LEMMA WrittenEntry ==
  ASSUME ClockInv, LinkedInv', NEW d \in Device, NEW type, NEW payload,
         Write(d, type, payload)
  PROVE  \E e \in Entry : /\ e.dev = d /\ e.type = type /\ e.payload = payload
                          /\ created' = created \cup {e} /\ ledger'[d] = ledger[d] \cup {e}
                          /\ \A f \in ledger[d] : f.clock < e.clock
  <1>1. PICK last \in ledger[d], ts \in Stamp :
          /\ IsLatest(last, ledger[d])
          /\ Broadcast(d, buildEntry(d, last, ts, type, payload), editing[d])
    BY DEF Write, WriteAmid
  <1> DEFINE e == buildEntry(d, last, ts, type, payload)
  <1>2. e.dev = d /\ e.type = type /\ e.payload = payload
    BY DEF buildEntry
  <1>3. \A f \in ledger[d] : f.clock < e.clock
    BY <1>1, BuiltIsLatest DEF ClockInv
  <1> HIDE DEF e
  <1>4. /\ created' = created \cup {e}
        /\ ledger' = [ledger EXCEPT ![d] = ledger[d] \cup {e}]
    BY <1>1 DEF Broadcast, appendEntry, e
  <1>5. ledger'[d] = ledger[d] \cup {e}
    BY <1>4 DEF ClockInv, LinkedInv, StorageTypeOK
  <1>6. e \in Entry
    BY <1>4 DEF LinkedInv, StorageTypeOK
  <1> QED BY <1>2, <1>3, <1>4, <1>5, <1>6

\* The members of the derived state are those who joined.
LEMMA DerivedJoined ==
  ASSUME StableGroup, ChainInv, NEW d \in Device
  PROVE  ActiveMembers(Derived(d)) = JoinedIn(ledger[d])
  <1>1. Entries(ledger[d]) /\ ledger[d] \subseteq created
    BY HeldEntries DEF ChainInv, ClockInv
  <1>2. \A e \in ledger[d] : WellBuilt(e)
    BY <1>1 DEF ChainInv, Sound
  <1> QED BY <1>1, <1>2, JoinedActive DEF StableGroup, Derived

LEMMA addExpenseSound ==
  ASSUME ChainInv, LinkedInv', NEW d \in Device, addExpense(d)
  PROVE  SoundlyBuilt(d)
  <1> DEFINE S == page[d].members
             x == NewExpense(Owner[d], S)
  <1>1. /\ page[d] # NoPage /\ Write(d, "ExpenseCreated", x)
    BY DEF addExpense
  <1>2. S # {} /\ S \subseteq JoinedIn(ledger[d]) /\ Owner[d] \in JoinedIn(ledger[d])
    BY <1>1 DEF ChainInv, KnowsMembers, PageJoined
  <1>3. S \subseteq Member
    BY <1>2 DEF JoinedIn
  <1> HIDE DEF S
  <1>4. x.payer = Owner[d] /\ DOMAIN x.splits = S
    BY DEF NewExpense
  <1> HIDE DEF x
  <1>5. PICK e \in Entry :
          /\ e.dev = d /\ e.type = "ExpenseCreated" /\ e.payload = x
          /\ created' = created \cup {e} /\ ledger'[d] = ledger[d] \cup {e}
          /\ \A f \in ledger[d] : f.clock < e.clock
    BY <1>1, WrittenEntry DEF ChainInv
  <1>6. WellBuilt(e)
    <2>1. SharedOut(x)
      BY <1>2, <1>3, NewExpenseShared DEF x
    <2> QED BY <1>5, <2>1 DEF WellBuilt
  <1>7. Needs(e) \subseteq JoinedIn(ledger[d])
    BY <1>2, <1>4, <1>5 DEF Needs
  <1>8. \A m : ~Joins(e, m)
    BY <1>5 DEF Joins
  <1> QED BY <1>5, <1>6, <1>7, <1>8 DEF SoundlyBuilt

LEMMA settleUpSound ==
  ASSUME StableGroup, ChainInv, LinkedInv', NEW d \in Device, settleUp(d)
  PROVE  SoundlyBuilt(d)
  <1> DEFINE Due(from, to, amount) ==
               [from |-> from, to |-> to, amount |-> amount]
                 \in computeSettlements(computeBalances(ledger[d]))
             g(from, to, amount, last, ts) ==
               buildEntry(d, last, ts, "ExpenseCreated", Settlement(from, to, amount))
  <1>1. PICK from, to \in Member, amount \in Amount, last \in ledger[d], ts \in Stamp :
          /\ Due(from, to, amount) /\ IsLatest(last, ledger[d])
          /\ appendEntry(d, g(from, to, amount, last, ts), editing[d])
    BY DEF settleUp
  <1> DEFINE x == Settlement(from, to, amount)
             e == g(from, to, amount, last, ts)
  <1>2. Entries(ledger[d]) /\ Complete(ledger[d]) /\ \A f \in ledger[d] : WellBuilt(f)
    BY HeldEntries DEF ChainInv, ClockInv, LinkedInv, StorageTypeOK, KnowsMembers, Sound
  <1>3. from \in JoinedIn(ledger[d]) /\ to \in JoinedIn(ledger[d]) /\ amount > 0
    <2> DEFINE s == [from |-> from, to |-> to, amount |-> amount]
    <2>1. s.from = from /\ s.to = to /\ s.amount = amount
      OBVIOUS
    <2>2. s \in computeSettlements(computeBalances(ledger[d]))
      BY <1>1
    <2> HIDE DEF s
    <2> QED BY <1>2, <2>1, <2>2, SettlersJoined
  <1>4. SharedOut(x)
    <2>1. amount \in Int
      BY LedgerAssumption
    <2> QED BY <1>3, <2>1, SettlementShared
  <1>5. x.payer = from /\ DOMAIN x.splits = {to}
    BY DEF Settlement
  <1>6. e.dev = d /\ e.type = "ExpenseCreated" /\ e.payload = x
    BY DEF buildEntry
  <1> HIDE DEF Due, x, e
  <1>7. \A f \in ledger[d] : f.clock < e.clock
    BY <1>1, BuiltIsLatest DEF ChainInv, ClockInv, e
  <1> HIDE DEF g
  <1>8. /\ created' = created \cup {e} /\ ledger'[d] = ledger[d] \cup {e}
        /\ e \in Entry
    BY <1>1 DEF e, appendEntry, ChainInv, ClockInv, LinkedInv, StorageTypeOK
  <1>9. Owner[d] \in JoinedIn(ledger[d])
    <2>1. Active(d)
      BY DEF settleUp, MayWrite, StableGroup
    <2> QED BY <2>1, DerivedJoined, OwnersAreMembers DEF Active, ActiveMembers
  <1>10. Needs(e) \subseteq JoinedIn(ledger[d])
    BY <1>3, <1>5, <1>6, <1>9 DEF Needs
  <1>11. WellBuilt(e) /\ \A m : ~Joins(e, m)
    BY <1>4, <1>6 DEF WellBuilt, Joins
  <1> QED BY <1>6, <1>7, <1>8, <1>10, <1>11 DEF SoundlyBuilt

LEMMA joinGroupSound ==
  ASSUME StableGroup, ChainInv, LinkedInv', NEW d \in Device, joinGroup(d)
  PROVE  SoundlyBuilt(d)
  <1>1. PICK inviter \in Member :
          /\ Invited(d, inviter)
          /\ Write(d, "MemberAdded", [member |-> Owner[d], inviter |-> inviter])
    BY DEF joinGroup
  <1> DEFINE p == [member |-> Owner[d], inviter |-> inviter]
  <1>2. p.member = Owner[d] /\ p.inviter = inviter
    OBVIOUS
  <1>3. Write(d, "MemberAdded", p)
    BY <1>1
  <1> HIDE DEF p
  <1>4. PICK e \in Entry :
          /\ e.dev = d /\ e.type = "MemberAdded" /\ e.payload = p
          /\ created' = created \cup {e} /\ ledger'[d] = ledger[d] \cup {e}
          /\ \A f \in ledger[d] : f.clock < e.clock
    BY <1>3, WrittenEntry DEF ChainInv
  <1>5. WellBuilt(e)
    BY <1>2, <1>4 DEF WellBuilt
  <1>6. inviter \in JoinedIn(ledger[d]) /\ Owner[d] \notin JoinedIn(ledger[d])
    BY <1>1, DerivedJoined, OwnersAreMembers DEF Invited, Active, ActiveMembers
  <1>7. Needs(e) \subseteq JoinedIn(ledger[d])
    BY <1>2, <1>4, <1>6 DEF Needs
  <1>8. ASSUME NEW m, Joins(e, m), m \in JoinedIn(created) PROVE FALSE
    <2>1. m = Owner[d]
      BY <1>2, <1>4, <1>8 DEF Joins
    <2>2. PICK f \in created : Joins(f, Owner[d])
      BY <1>8, <2>1 DEF JoinedIn
    <2>3. f \in Entry /\ WellBuilt(f) /\ f \in ledger[f.dev]
      BY DEF ChainInv, Sound, ClockInv, LinkedInv, StorageTypeOK
    <2>4. f.dev \in Device /\ Owner[f.dev] = Owner[d]
      BY <2>2, <2>3, WellBuiltFields DEF Joins
    <2>5. f.dev = d
      BY <2>4 DEF StableGroup, OwnDevices
    <2> QED BY <1>6, <2>2, <2>3, <2>5, OwnersAreMembers DEF JoinedIn
  <1> QED BY <1>4, <1>5, <1>7, <1>8 DEF SoundlyBuilt

LEMMA createGroupSound ==
  ASSUME ChainInv, LinkedInv', NEW d \in Device, createGroup(d)
  PROVE  SoundlyBuilt(d)
  <1> DEFINE g(ts) == [id |-> 1, prev |-> NoHash, clock |-> 0, ts |-> ts,
                       type |-> "Genesis", dev |-> d,
                       payload |-> [member |-> Owner[d]]]
  <1>1. PICK ts \in Stamp : created' = {g(ts)} /\ ledger' = [ledger EXCEPT ![d] = {g(ts)}]
    BY DEF createGroup
  <1> DEFINE e == g(ts)
  <1>2. /\ e.dev = d /\ e.type = "Genesis" /\ e.payload.member = Owner[d]
        /\ e.clock = 0 /\ e.prev = NoHash
    OBVIOUS
  <1> HIDE DEF g
  <1>3. d = Founder /\ created = {} /\ ledger \in [Device -> SUBSET {}]
    BY DEF createGroup, ChainInv, ClockInv, LinkedInv, StorageTypeOK
  <1>4. /\ e \in Entry /\ created' = created \cup {e} /\ ledger'[d] = ledger[d] \cup {e}
        /\ ledger[d] = {}
    BY <1>1, <1>3 DEF LinkedInv, StorageTypeOK
  <1>5. WellBuilt(e) /\ Needs(e) = {}
    BY <1>2, <1>3 DEF WellBuilt, Needs
  <1>6. JoinedIn(created) = {}
    BY <1>3 DEF JoinedIn
  <1> QED BY <1>2, <1>4, <1>5, <1>6 DEF SoundlyBuilt

\* What the group does not do.
LEMMA StableSteps ==
  ASSUME StableGroup, LinkedInv, Cached, NEW d \in Device, Step(d)
  PROVE  \/ createGroup(d) \/ joinGroup(d) \/ addExpense(d) \/ settleUp(d)
         \/ TakesChain(d) \/ TakesOne(d)
  <1>1. /\ ~editExpense(d) /\ ~removeMember(d) /\ ~authorizeDevice(d)
        /\ ~revokeDevice(d) /\ ~completeRecovery(d)
    BY DEF StableGroup, editExpense, removeMember, authorizeDevice, revokeDevice,
           completeRecovery
  <1>2. ~finishEdit(d)
    BY DEF StableGroup, finishEdit, LinkedInv, EditsHeld
  <1>3. ~reload(d) /\ ~deleteGroup(d)
    BY DEF StableGroup, reload, deleteGroup, Fault
  <1> QED BY <1>1, <1>2, <1>3, OthersTakeNothing, processIncomingEntryTakes, initialSyncTakes
          DEF Step

LEMMA NextEntriesKnown ==
  ASSUME StableGroup, ChainInv, LinkedInv, LinkedInv', NEW d \in Device, Step(d)
  PROVE  /\ Sound(created') /\ Complete(ledger'[d]) /\ ledger[d] \subseteq ledger'[d]
         /\ ActiveMembers(cache'[d]) \subseteq JoinedIn(ledger'[d])
  <1> DEFINE L == ledger'[d]
  <1>1. DeviceStep(d) /\ Cached
    <2>1. Cached
      BY DEF ChainInv
    <2> QED BY <2>1, createGroupBuilds, WritersBuild, finishEditBuilds, settleUpBuilds,
            completeRecoveryBuilds, OthersTakeNothing, processIncomingEntryTakes,
            initialSyncTakes, RestartsRestart DEF Step, DeviceStep
  <1>2. /\ ledger[d] \subseteq created /\ created \subseteq Entry /\ Entries(L) /\ L \subseteq created'
        /\ Entries(ledger[d])
    BY HeldEntries, NextHeldEntries DEF LinkedInv, StorageTypeOK
  <1>3. /\ Sound(created) /\ Complete(ledger[d])
        /\ ActiveMembers(cache[d]) \subseteq JoinedIn(ledger[d])
        /\ ListsAdmitted(cache[d], ledger[d])
    BY DEF ChainInv, KnowsMembers, KnownInv
  <1>4. ASSUME Sound(created') PROVE \A st \in StatesOf(L) : ActiveMembers(st) \subseteq JoinedIn(L)
    <2>1. \A e \in L : WellBuilt(e)
      BY <1>2, <1>4 DEF Sound
    <2> QED BY <1>2, <2>1, StatesJoined DEF StableGroup
  <1>5. ledger[d] \subseteq L => ActiveMembers(cache[d]) \subseteq JoinedIn(L)
    BY <1>3, JoinedGrows
  <1>6. CASE createGroup(d) \/ joinGroup(d) \/ addExpense(d) \/ settleUp(d)
    <2>1. SoundlyBuilt(d)
      BY <1>6, createGroupSound, joinGroupSound, addExpenseSound, settleUpSound
    <2>2. PICK e \in Entry :
            /\ e.dev = d /\ WellBuilt(e)
            /\ created' = created \cup {e} /\ L = ledger[d] \cup {e}
            /\ Needs(e) \subseteq JoinedIn(ledger[d])
            /\ \A f \in ledger[d] : f.clock < e.clock
            /\ \A m : Joins(e, m) => m \notin JoinedIn(created)
      BY <2>1 DEF SoundlyBuilt
    <2>3. Sound(created') /\ Complete(L)
      BY <2>2, BuildKeeps
    <2>4. Builds(d)
      BY <1>1, <1>6, createGroupBuilds, WritersBuild, settleUpBuilds DEF ChainInv
    <2>5. cache'[d] \in {cache[d]} \cup StatesOf(L)
      BY <2>4 DEF Builds
    <2> QED BY <1>4, <1>5, <2>2, <2>3, <2>5
  <1>7. CASE TakesChain(d)
    <2>1. PICK S \in SUBSET created :
            /\ ChainValid(S) /\ created' = created /\ L = ledger[d] \cup S
            /\ cache'[d] \in {cache[d]} \cup StatesOf(L)
      BY <1>7 DEF TakesChain
    <2>2. Entries(S)
      BY BuiltEntries
    <2>3. Complete(S)
      BY <1>3, <2>1, <2>2, ValidIsComplete DEF StableGroup
    <2>4. JoinedIn(S) \subseteq JoinedIn(ledger[d] \cup S)
      BY JoinedGrows
    <2>5. Complete(L)
      BY <1>3, <2>1, <2>3, <2>4, CompleteUnion DEF Complete
    <2> QED BY <1>3, <1>4, <1>5, <2>1, <2>5
  <1>8. CASE TakesOne(d)
    <2>1. PICK e \in created :
            /\ Accepts(d, e) /\ created' = created /\ L = ledger[d] \cup {e}
            /\ cache'[d] \in {applyEntry(e, cache[d])} \cup StatesOf(L)
      BY <1>8 DEF TakesOne
    <2>2. e \in Entry /\ WellBuilt(e) /\ cache[d] \in GroupStates
      BY <1>1, <1>2, <1>3 DEF Sound, Cached
    <2>3. validateEntry(e, ledger[d], cache[d])
      BY <2>1 DEF Accepts
    <2>4. ActiveMembers(applyEntry(e, cache[d])) \subseteq JoinedIn(L)
      BY <1>3, <2>1, <2>2, AppliedJoined
    <2>5. \A m \in Member : isActiveMember(m, cache[d]) => m \in JoinedIn(ledger[d])
      BY <1>3 DEF ActiveMembers
    <2>6. Needs(e) \subseteq JoinedIn(ledger[d])
      <3>1. CASE e.type = "ExpenseCreated"
        <4>1. validateCreatorAuthorization(e, cache[d]) /\ validateExpense(e.payload, cache[d])
          BY <2>3, <3>1 DEF validateEntry, validatePayload
        <4>2. PICK f \in ledger[d] : Admits(f, e.dev)
          BY <1>3, <3>1, <4>1, AuthorIsAdmitted
        <4>3. f \in Entry /\ WellBuilt(f)
          BY <1>2, <1>3 DEF Sound
        <4>4. Joins(f, Owner[e.dev]) /\ Owner[e.dev] \in Member
          BY <2>2, <4>2, <4>3, WellBuiltFields DEF Admits, Joins
        <4>5. Owner[e.dev] \in JoinedIn(ledger[d])
          BY <4>4 DEF JoinedIn
        <4>6. \A m \in Needs(e) : m \in Member /\ (m = Owner[e.dev] \/ isActiveMember(m, cache[d]))
          BY <2>2, <3>1, <4>1, WellBuiltFields DEF Needs, validateExpense
        <4> QED BY <2>5, <4>5, <4>6
      <3>2. CASE e.type = "MemberAdded"
        <4>1. isActiveMember(e.payload.inviter, cache[d])
          BY <2>3, <3>2 DEF validateEntry, validatePayload
        <4> QED BY <2>2, <2>5, <3>2, <4>1, WellBuiltFields DEF Needs
      <3>3. CASE e.type = "Genesis"
        BY <3>3 DEF Needs
      <3> QED BY <2>2, <3>1, <3>2, <3>3 DEF WellBuilt
    <2>7. Needs(e) \subseteq JoinedIn(ledger[d] \cup {e})
      BY <2>6, JoinedGrows
    <2>8. Complete(L)
      BY <1>3, <2>1, <2>7, CompleteUnion
    <2> QED BY <1>3, <1>4, <2>1, <2>4, <2>8
  <1> QED BY <1>1, <1>6, <1>7, <1>8, StableSteps

\* What an open page shows stays true.
LEMMA NextPageJoined ==
  ASSUME StableGroup, ChainInv, LinkedInv, LinkedInv', NEW d \in Device, Step(d)
  PROVE  /\ PageJoined(page'[d], d, ledger'[d])
         /\ \A x \in Device \ {d} : page'[x] = page[x]
  <1>1. page \in [Device -> Page] /\ page' \in [Device -> Page]
    BY DEF LinkedInv, StorageTypeOK
  <1>2. PageJoined(page[d], d, ledger'[d])
    <2>1. ledger[d] \subseteq ledger'[d]
      BY NextEntriesKnown
    <2> QED BY <2>1, JoinedGrows DEF ChainInv, KnowsMembers
  <1>3. PageJoined(NoPage, d, ledger'[d])
    BY DEF PageJoined
  <1>4. CASE openAddExpense(d)
    <2>1. /\ page' = [page EXCEPT ![d] = [members |-> ActiveMembers(Derived(d)), live |-> TRUE]]
          /\ ledger' = ledger /\ Active(d)
      BY <1>4 DEF openAddExpense, MayWrite, StableGroup
    <2>2. ActiveMembers(Derived(d)) = JoinedIn(ledger[d]) /\ Owner[d] \in ActiveMembers(Derived(d))
      BY <2>1, DerivedJoined, OwnersAreMembers DEF Active, ActiveMembers
    <2> QED BY <1>1, <2>1, <2>2 DEF PageJoined
  <1>5. CASE refreshAgain(d)
    <2>1. /\ page' = [page EXCEPT ![d].live = page[d].live /\ ~ChainValid(ledger[d])]
      BY <1>5 DEF refreshAgain
    <2>2. page'[d].members = page[d].members /\ (page'[d] # NoPage => page[d] # NoPage)
      <3> DEFINE p == page[d]
                 still == p.live /\ ~ChainValid(ledger[d])
      <3>1. page'[d] = [p EXCEPT !.live = still]
        BY <1>1, <2>1
      <3>2. p = [members |-> p.members, live |-> p.live]
        BY <1>1 DEF Page
      <3> HIDE DEF p, still
      <3>3. page'[d] = [members |-> p.members, live |-> still]
        BY <3>1, <3>2
      <3>4. p = NoPage => still = FALSE
        BY DEF still, NoPage
      <3>5. CASE p = NoPage
        <4>1. p.members = {} /\ still = FALSE
          BY <3>4, <3>5 DEF NoPage
        <4>2. page'[d] = [members |-> {}, live |-> FALSE]
          BY <3>3, <4>1
        <4> QED BY <3>5, <4>2 DEF p, NoPage
      <3>6. CASE p # NoPage
        BY <3>3, <3>6 DEF p
      <3> QED BY <3>5, <3>6
    <2>3. \A x \in Device \ {d} : page'[x] = page[x]
      BY <1>1, <2>1
    <2> QED BY <1>2, <2>2, <2>3 DEF PageJoined
  <1>6. CASE processIncomingEntry(d)
    <2>1. PICK e \in Head(inbox[d]).entries :
            \/ /\ Accepts(d, e)
               /\ ledger' = [ledger EXCEPT ![d] = ledger[d] \cup {e}]
               /\ page' = [page EXCEPT ![d] =
                             PageAfter(@, applyEntry(e, cache[d]), ledger[d] \cup {e})]
            \/ UNCHANGED <<ledger, cache, disk, page, editing, refresh>>
      BY <1>6 DEF processIncomingEntry
    <2>2. Head(inbox[d]).entries \subseteq created
      <3>1. inbox[d] # <<>> /\ inbox[d] \in Seq(Message(created))
        BY <1>6 DEF processIncomingEntry, LinkedInv, StorageTypeOK, Inboxes
      <3>2. Head(inbox[d]) \in Message(created)
        BY <3>1
      <3> QED BY <3>2 DEF Message
    <2>3. CASE UNCHANGED page
      BY <1>2, <2>3
    <2>4. CASE /\ Accepts(d, e)
               /\ ledger' = [ledger EXCEPT ![d] = ledger[d] \cup {e}]
               /\ page' = [page EXCEPT ![d] =
                             PageAfter(@, applyEntry(e, cache[d]), ledger[d] \cup {e})]
      <3> DEFINE L == ledger[d] \cup {e}
                 st == applyEntry(e, cache[d])
      <3>1. \A x \in Device \ {d} : page'[x] = page[x]
        BY <1>1, <2>4
      <3>2. page'[d] = PageAfter(page[d], st, L) /\ ledger'[d] = L
        BY <1>1, <2>4 DEF LinkedInv, StorageTypeOK
      <3>3. e \in Entry /\ WellBuilt(e) /\ cache[d] \in GroupStates
        BY <2>2 DEF ChainInv, Sound, Cached, LinkedInv, StorageTypeOK
      <3>4. validateEntry(e, ledger[d], cache[d])
        BY <2>4 DEF Accepts
      <3>5. ActiveMembers(st) # {} /\ ActiveMembers(st) \subseteq JoinedIn(L)
        BY <3>3, <3>4, AppliedJoined DEF ChainInv, KnowsMembers
      <3> HIDE DEF st, L
      <3>6. CASE page[d].live
        <4>1. page[d] # NoPage
          BY <3>6 DEF NoPage
        <4>2. Owner[d] \in JoinedIn(L)
          BY <1>2, <3>2, <4>1 DEF PageJoined
        <4>3. page'[d].members = ActiveMembers(st)
          BY <3>2, <3>6 DEF PageAfter
        <4> QED BY <3>1, <3>2, <3>5, <4>2, <4>3 DEF PageJoined
      <3>7. CASE ~page[d].live
        BY <1>2, <3>1, <3>2, <3>7 DEF PageAfter
      <3> QED BY <3>6, <3>7
    <2> QED BY <2>1, <2>3, <2>4
  <1>7. CASE page' = page \/ page' = [page EXCEPT ![d] = NoPage]
    BY <1>1, <1>2, <1>3, <1>7
  <1>8. ASSUME ~openAddExpense(d), ~refreshAgain(d), ~processIncomingEntry(d)
        PROVE  page' = page \/ page' = [page EXCEPT ![d] = NoPage]
    BY <1>8 DEF Step, createGroup, syncGroupFromRelay, initialSync, joinGroup, joinGroupFails,
       viewGroup, addExpense, editExpense, finishEdit, editFails, settleUp, removeMember,
       authorizeDevice, revokeDevice, completeRecovery, syncWithRelayDone, backgroundSync, connect, connectFails,
       reconnect, disconnect, reload, deleteGroup, Close, device
  <1> QED BY <1>4, <1>5, <1>6, <1>7, <1>8

LEMMA NextChain ==
  ASSUME StableGroup, ChainInv, [Next]_vars
  PROVE  ChainInv'
  <1>1. ClockInv' /\ LinkedInv /\ LinkedInv'
    BY NextClock DEF StableGroup, ChainInv, ClockInv
  <1>2. Cached' /\ KnownInv'
    BY <1>1, NextCached, NextKnown DEF ChainInv, CachedInv
  <1>3. ASSUME NEW d \in Device, Step(d)
        PROVE  Sound(created)' /\ \A x \in Device : KnowsMembers(x)'
    <2>1. /\ Sound(created') /\ Complete(ledger'[d])
          /\ ActiveMembers(cache'[d]) \subseteq JoinedIn(ledger'[d])
          /\ PageJoined(page'[d], d, ledger'[d])
          /\ \A x \in Device \ {d} : page'[x] = page[x]
      BY <1>1, <1>3, NextEntriesKnown, NextPageJoined
    <2>2. DeviceStep(d)
      BY <1>1, <1>3, createGroupBuilds, WritersBuild, finishEditBuilds, settleUpBuilds,
         completeRecoveryBuilds, OthersTakeNothing, processIncomingEntryTakes,
         initialSyncTakes, RestartsRestart DEF Step, DeviceStep, ChainInv
    <2>3. \A x \in Device \ {d} : ledger'[x] = ledger[x] /\ cache'[x] = cache[x]
      BY <2>2 DEF DeviceStep, Elsewhere, ChainInv, Cached
    <2> QED BY <2>1, <2>3 DEF ChainInv, KnowsMembers
  <1>4. CASE pruneOldEntries \/ UNCHANGED vars
    <2>1. UNCHANGED <<created, ledger, cache, page>>
      BY <1>4 DEF pruneOldEntries, device, vars
    <2> QED BY <1>1, <1>2, <2>1 DEF ChainInv, KnowsMembers
  <1> QED BY <1>1, <1>2, <1>3, <1>4 DEF Next, ChainInv

LEMMA InitChain == Init => ChainInv
  <1> SUFFICES ASSUME Init PROVE ChainInv
    OBVIOUS
  <1>1. ClockInv /\ Cached
    BY InitClock, InitCached
  <1>2. KnownInv
    BY EmptyListsNobody DEF Init, KnownInv, Known
  <1>3. Sound(created)
    BY DEF Init, Sound
  <1>4. \A d \in Device : KnowsMembers(d)
    <2> TAKE d \in Device
    <2>1. ledger[d] = {} /\ cache[d] = NoState /\ page[d] = NoPage
      BY DEF Init
    <2>2. \A m \in Member : ~NoState.members[m].active
      BY DEF NoState, createEmptyGroupState
    <2> QED BY <2>1, <2>2 DEF KnowsMembers, Complete, PageJoined, ActiveMembers, isActiveMember
  <1> QED BY <1>1, <1>2, <1>3, <1>4 DEF ChainInv

LEMMA ChainInvIsValid ==
  ASSUME StableGroup, ChainInv, NEW d \in Device
  PROVE  ChainValid(ledger[d])
  <1>1. Linked(ledger[d])
    BY DEF StableGroup, ChainInv, ClockInv, LinkedInv, Chained
  <1>2. Entries(ledger[d]) /\ ledger[d] \in SUBSET created
    BY HeldEntries DEF ChainInv, ClockInv
  <1>3. Sound(created) /\ Complete(ledger[d])
    BY DEF ChainInv, KnowsMembers
  <1> QED BY <1>1, <1>2, <1>3, CompleteIsValid DEF StableGroup

\* In a group in which members, each with a device of their own, only join, enter
\* expenses and settle what they owe, and no device forgets its entries, every ledger is a valid
\* chain at all times, whatever the order of arrival, the failures of the
\* network and what the relay prunes: what was validated where it arrived
\* (processIncomingEntry), or not at all by the device that built it, is valid
\* in the total order.
THEOREM StableChainsValid ==
  ASSUME StableGroup
  PROVE  Spec => []ChainsValid
  <1>1. ChainInv /\ [Next]_vars => ChainInv'
    BY NextChain
  <1>2. ChainInv => ChainsValid
    BY ChainInvIsValid DEF ChainsValid
  <1> QED BY InitChain, <1>1, <1>2, PTL DEF Spec

LEMMA NextChainsValid ==
  ASSUME StableGroup
  PROVE  ChainInv' => ChainsValid'
  <1>1. ChainInv => ChainsValid
    BY ChainInvIsValid DEF ChainsValid
  <1> QED BY <1>1, PTL

\* An entry that comes after all others of a valid chain was checked against
\* exactly these.
LEMMA LatestIsChecked ==
  ASSUME NEW L, NEW e, Entries(L \cup {e}), ChainValid(L \cup {e}),
         \A f \in L : f.clock < e.clock
  PROVE  validateEntry(e, L, StateOf(L))
  <1>1. ~Before(e, e) /\ \A f \in L : Before(f, e)
    <2>1. ~Before(e, e)
      BY EntriesSortable, BeforeOrders
    <2> QED BY <2>1 DEF Before
  <1>2. Preceding(L \cup {e}, e) = L
    BY <1>1 DEF Preceding
  <1>3. <<e, StateOf(L)>> \in Replay(L \cup {e})
    BY <1>2 DEF Replay
  <1>4. <<e, StateOf(L)>>[1] = e /\ <<e, StateOf(L)>>[2] = StateOf(L)
    OBVIOUS
  <1> QED BY <1>2, <1>3, <1>4 DEF ChainValid

\* In such a group no handler appends an entry that its own device would refuse:
\* what addExpense, settleUp and joinGroup build is valid after the ledger it
\* extends, though it was decided on what a page showed earlier, on balances of
\* everybody who ever joined, or before a join was answered.
THEOREM StableSelfChecked ==
  ASSUME StableGroup
  PROVE  Spec => SelfChecked
  <1>1. ChainInv /\ [Next]_vars => ChainInv'
    BY NextChain
  <1> DEFINE Checked ==
               \A d \in Device : \A e \in created' \ created :
                 e.dev = d /\ ledger[d] # {} => validateEntry(e, ledger[d], StateOf(ledger[d]))
  <1>2. ChainInv /\ ChainInv' /\ [Next]_vars => [Checked]_vars
    <2> SUFFICES ASSUME ChainInv, ChainInv', [Next]_vars,
                        NEW d \in Device, NEW e \in created' \ created, e.dev = d
                 PROVE  validateEntry(e, ledger[d], StateOf(ledger[d]))
      OBVIOUS
    <2>1. LinkedInv /\ Cached /\ LinkedInv'
      BY DEF ChainInv, ClockInv
    <2>2. PICK x \in Device : Step(x)
      BY DEF Next, vars, pruneOldEntries, device
    <2>3. SoundlyBuilt(x)
      BY <2>1, <2>2, StableSteps, createGroupSound, joinGroupSound, addExpenseSound,
         settleUpSound DEF TakesChain, TakesOne
    <2>4. /\ x = d /\ ledger'[d] = ledger[d] \cup {e}
          /\ \A f \in ledger[d] : f.clock < e.clock
      BY <2>3 DEF SoundlyBuilt
    <2>5. Entries(ledger[d] \cup {e})
      BY <2>1, <2>4, NextHeldEntries
    <2>6. ChainValid(ledger'[d])
      BY NextChainsValid DEF ChainsValid
    <2> QED BY <2>4, <2>5, <2>6, LatestIsChecked
  <1> QED BY InitChain, <1>1, <1>2, PTL DEF Spec, SelfChecked
=============================================================================
