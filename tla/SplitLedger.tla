----------------------------- MODULE SplitLedger -----------------------------
(***************************************************************************)
(* One group replicated by the devices of its members through a relay.     *)
(* Each device runs the web application: AppContext.tsx and the pages over *)
(* GroupManager, SyncManager, RelayTransport and the in-memory storage of  *)
(* packages/core; the relay is packages/relay.                             *)
(*                                                                         *)
(* Atomicity.  The storage of the web application is in memory, so an      *)
(* asynchronous handler runs without interruption from one network await   *)
(* (a connection being opened, an answer of the relay) to the next; each   *)
(* such stretch is one action.  The loop that processes an answer is one step   *)
(* per entry, because each entry it accepts starts a refresh of its own;   *)
(* the loop that broadcasts the local entries again only sends, and is one *)
(* step.                                                                   *)
(*                                                                         *)
(* The network.  A socket is FIFO both ways.  The relay handles a message  *)
(* in the step that sends it; what it sends waits in inbox[d].  A closed   *)
(* socket loses what was in flight, and a message sent on a closed socket  *)
(* is dropped without an error.                                            *)
(***************************************************************************)
EXTENDS Balance, Sequences, SequencesExt

CONSTANTS
  Owner,         \* the member whose root key certifies a device
  Founder,       \* the device that creates the group
  Ops,           \* the user operations of the instance
  CarefulUsers,  \* TRUE: only active members write to the ledger
  PatientUsers,  \* TRUE: nobody leaves the page of an edit under way
  Faults,        \* the faults of the instance
  RelayLimit,    \* config.maxEntriesPerGroup
  MaxEntries,    \* bound: entries ever built
  MaxFaults      \* bound: faults in a behaviour

ASSUME SplitLedgerAssumption ==
  /\ Owner \in [Device -> Member]
  /\ Founder \in Device
  /\ Ops \subseteq {"expense", "edit", "settle", "remove", "authorize", "revoke", "recover"}
  /\ Faults \subseteq {"offline", "disconnect", "reload", "delete", "prune"}
  /\ CarefulUsers \in BOOLEAN /\ PatientUsers \in BOOLEAN
  /\ RelayLimit \in Nat /\ MaxEntries \in Nat /\ MaxFaults \in Nat

VARIABLES
  created,   \* every entry any device has built
  ledger,    \* ledger[d]: entries in d's storage
  cache,     \* cache[d]: the group state in d's storage, or NoState
  disk,      \* disk[d]: the entries in d's localStorage
  page,      \* page[d]: d's open AddExpense page, or NoPage
  editing,   \* editing[d]: the edits d has begun and not finished
  refresh,   \* refresh[d]: how far refreshGroups has come
  joining,   \* joining[d]: how far the JoinGroup page has come
  conn,      \* conn[d]: d's socket is open, which subscribes it to the room
  inbox,     \* inbox[d]: what the relay has sent d, oldest first
  store,     \* the relay's entries
  faults     \* faults so far

\* What device d keeps: its storage, localStorage, pages and handlers.
device == <<ledger, cache, disk, page, editing, refresh, joining>>
vars == <<created, ledger, cache, disk, page, editing, refresh, joining,
          conn, inbox, store, faults>>

\* `state?.currentLamportClock ?? -1`: no state is a state whose clock is -1.
NoState == [createEmptyGroupState EXCEPT !.clock = -1]

(***************************************************************************)
(* The AddExpense page shows the active members of the state it got when   *)
(* it was opened.  As long as that state is also the one in storage, it is *)
(* live: applying an entry changes it in place.  NoPage is a closed page.  *)
(***************************************************************************)
Page   == [members : SUBSET Member, live : BOOLEAN]
NoPage == [members |-> {}, live |-> FALSE]

(***************************************************************************)
(* An edit voids an expense and awaits the refresh that follows; then it   *)
(* appends the new expense with the clock and the members of its           *)
(* beginning, after `latest`, the entry that was last to be appended.      *)
(***************************************************************************)
Edit == [latest : Nat, clock : Nat, payer : Member, members : SUBSET Member,
         waits : BOOLEAN]

\* The edits in S when e is appended, and when a refresh is over.  (The refresh
\* an edit awaits may be over later than another: a request whose place another
\* has taken ends by its timeout.)
Following(S, e) == { [x EXCEPT !.latest = e.id] : x \in S }
Resumed(S)      == { [x EXCEPT !.waits = FALSE] : x \in S }

\* What the relay sends, and the inboxes, when the entries built are those of C.
Message(C) == [kind : {"new", "entries", "full"}, entries : SUBSET C]
Inboxes(C) == [Device -> Seq(Message(C))]

Phase == {"idle", "connecting", "syncing"}

StorageTypeOK ==
  /\ created \subseteq Entry
  /\ ledger \in [Device -> SUBSET created]
  /\ disk \in [Device -> SUBSET created]
  /\ page \in [Device -> Page]
  /\ editing \in [Device -> SUBSET Edit]
  /\ refresh \in [Device -> Phase]
  /\ joining \in [Device -> {"no", "asked", "synced"}]
  /\ conn \in [Device -> BOOLEAN]
  /\ inbox \in Inboxes(created)
  /\ store \subseteq created
  /\ faults \in 0 .. MaxFaults

TypeOK ==
  /\ StorageTypeOK
  /\ cache \in [Device -> GroupState \cup {NoState}]

Init ==
  /\ created = {}
  /\ ledger  = [d \in Device |-> {}]
  /\ cache   = [d \in Device |-> NoState]
  /\ disk    = [d \in Device |-> {}]
  /\ page    = [d \in Device |-> NoPage]
  /\ editing = [d \in Device |-> {}]
  /\ refresh = [d \in Device |-> "idle"]
  /\ joining = [d \in Device |-> "no"]
  /\ conn    = [d \in Device |-> FALSE]
  /\ inbox   = [d \in Device |-> <<>>]
  /\ store   = {}
  /\ faults  = 0

\* One of the faults of the instance happens: the network is out of reach, a
\* socket closes, the page is loaded again, the user deletes the group, the
\* relay deletes old entries.
Fault(kind) ==
  /\ kind \in Faults /\ faults < MaxFaults
  /\ faults' = faults + 1

-----------------------------------------------------------------------------
(***************************************************************************)
(* The relay: handlePublishEntry and handleGetEntriesAfter.                *)
(***************************************************************************)

\* Mutant: UNIQUE(group, clock).
StorableByClock(e, R) ==
  /\ Cardinality(R) < RelayLimit
  /\ \A f \in R : f.clock # e.clock

\* GROUP_FULL, then INSERT OR IGNORE under UNIQUE(group, clock, sender), when
\* the relay holds R.
Storable(e, R) ==
  /\ Cardinality(R) < RelayLimit
  /\ \A f \in R : ~ (f.clock = e.clock /\ f.dev = e.dev)

Published(d, e) == conn[d] /\ Storable(e, store)

StoreAfter(d, e) == IF Published(d, e) THEN store \cup {e} ELSE store

\* The stored entries q are pushed to the room one by one, d excluded.
Pushed(d, q) ==
  [x \in Device |->
     IF conn[d] /\ conn[x] /\ x # d
     THEN inbox[x] \o [i \in DOMAIN q |-> [kind |-> "new", entries |-> {q[i]}]]
     ELSE inbox[x]]

PushAfter(d, e) == IF Published(d, e) THEN Pushed(d, <<e>>) ELSE inbox

\* What broadcasting all local entries again may add to the relay.
Unsent(L) == L \ store

\* What it then stores of them: those it takes, and it takes what it can.
Takes(L, T) ==
  /\ \A e \in T : Storable(e, store \cup (T \ {e}))
  /\ \A e \in Unsent(L) \ T : ~Storable(e, store \cup T)

\* They are sent in the order of storage, which no entry enters before the one
\* it follows.
Republished(L) ==
  { q \in UNION { SetToSeqs(T) : T \in { T \in SUBSET Unsent(L) : Takes(L, T) } } :
      \A i, j \in DOMAIN q : q[i].prev = q[j].id => j < i }

EntriesAfter(R, clock) == { e \in R : e.clock > clock }

\* A second request made before the first is answered takes over its place in
\* pendingGetEntries and is settled by the answer to the first.
Awaiting(q) == \E i \in DOMAIN q : q[i].kind = "entries"

AnswerTo(q, R, clock) ==
  IF Awaiting(q) THEN q
  ELSE Append(q, [kind |-> "entries", entries |-> EntriesAfter(R, clock)])

-----------------------------------------------------------------------------
(***************************************************************************)
(* AppContext.refreshGroups on device d, whose storage holds the entries L *)
(* and the state st, when the relay holds R, the inboxes are B and the     *)
(* localStorage K: getGroupState derives the state and saves it, and the   *)
(* sync of the group starts.  A group whose chain is invalid is skipped    *)
(* and the entries are saved at once.                                      *)
(***************************************************************************)
refreshGroups(d, L, st, R, B, K) ==
  IF L # {} /\ ChainValid(L)
  THEN /\ cache' = [cache EXCEPT ![d] = StateOf(L)]
       /\ disk' = K
       /\ IF conn[d]
          THEN /\ refresh' = [refresh EXCEPT ![d] = "syncing"]
               /\ inbox' = [B EXCEPT ![d] = AnswerTo(@, R, StateOf(L).clock)]
          ELSE /\ refresh' = [refresh EXCEPT ![d] = "connecting"]
               /\ inbox' = B
  ELSE /\ cache' = [cache EXCEPT ![d] = st]
       /\ disk' = [K EXCEPT ![d] = L]
       /\ inbox' = B
       /\ UNCHANGED refresh

(***************************************************************************)
(* A handler that appends the entry it built, broadcasts it and refreshes. *)
(* S is what is then under way of the device's edits.                      *)
(***************************************************************************)
appendEntry(d, e, S) ==
  /\ created' = created \cup {e}
  /\ ledger' = [ledger EXCEPT ![d] = @ \cup {e}]
  /\ editing' = [editing EXCEPT ![d] = Following(S, e)]
  /\ UNCHANGED <<conn, faults>>

Broadcast(d, e, S) ==
  /\ appendEntry(d, e, S)
  /\ store' = StoreAfter(d, e)
  /\ refreshGroups(d, ledger[d] \cup {e}, cache[d], StoreAfter(d, e),
                   PushAfter(d, e), disk)

\* deriveGroupState succeeds, and the bound allows another entry.
Ready(d) ==
  /\ Cardinality(created) < MaxEntries
  /\ ledger[d] # {}
  /\ ChainValid(ledger[d])

Derived(d) == StateOf(ledger[d])
Active(d)  == isActiveMember(Owner[d], Derived(d))

\* The user is on one page at a time, and stays on the JoinGroup page until it
\* is done.  The page of an edit under way may be left: its handler goes on.
Free(d) ==
  /\ page[d] = NoPage /\ joining[d] = "no"
  /\ PatientUsers => editing[d] = {}

\* What CarefulUsers rules out: writing without being a member.
MayWrite(d) == CarefulUsers => Active(d)

(***************************************************************************)
(* buildEntry after the last entry in the order.  The clock of the derived *)
(* state is the clock of that entry.                                       *)
(***************************************************************************)
buildEntry(d, last, ts, type, payload) ==
  [id |-> Cardinality(created) + 1, prev |-> last.id, clock |-> last.clock + 1,
   ts |-> ts, type |-> type, dev |-> d, payload |-> payload]

WriteAmid(d, type, payload, S) ==
  \E last \in ledger[d], ts \in Stamp :
    /\ IsLatest(last, ledger[d])
    /\ Broadcast(d, buildEntry(d, last, ts, type, payload), S)

Write(d, type, payload) == WriteAmid(d, type, payload, editing[d])

-----------------------------------------------------------------------------
(***************************************************************************)
(* Creating and joining.                                                   *)
(***************************************************************************)

\* GroupManager.createGroup; the page then only calls refreshGroups.
createGroup(d) ==
  /\ d = Founder /\ created = {} /\ MaxEntries > 0
  /\ \E ts \in Stamp :
       LET e == [id |-> 1, prev |-> NoHash, clock |-> 0, ts |-> ts,
                 type |-> "Genesis", dev |-> d,
                 payload |-> [member |-> Owner[d]]]
       IN /\ created' = {e}
          /\ ledger' = [ledger EXCEPT ![d] = {e}]
          /\ refreshGroups(d, {e}, cache[d], store, inbox, disk)
  /\ UNCHANGED <<page, editing, joining, conn, store, faults>>

\* The JoinGroup page asks for the full ledger.  Without a connection
\* initialSync throws, and the page goes on to joinGroup all the same.
syncGroupFromRelay(d) ==
  /\ created # {} /\ Free(d)
  /\ ledger[d] # {} /\ ChainValid(ledger[d]) => ~Active(d)
  /\ \/ /\ conn' = [conn EXCEPT ![d] = TRUE]
        /\ inbox' = [inbox EXCEPT ![d] =
                       Append(@, [kind |-> "full", entries |-> store])]
        /\ joining' = [joining EXCEPT ![d] = "asked"]
        /\ UNCHANGED faults
     \/ /\ ~conn[d] /\ Fault("offline")
        /\ joining' = [joining EXCEPT ![d] = "synced"]
        /\ UNCHANGED <<conn, inbox>>
  /\ UNCHANGED <<created, ledger, cache, disk, page, editing, refresh, store>>

\* initialSync takes the full ledger if it is a valid chain and nothing of it
\* otherwise.  (The state of an empty ledger is saved under an empty group
\* id.)  startSync follows, and the local entries are broadcast again.
initialSync(d) ==
  /\ inbox[d] # <<>> /\ Head(inbox[d]).kind = "full"
  /\ LET S  == Head(inbox[d]).entries
         L  == IF ChainValid(S) THEN ledger[d] \cup S ELSE ledger[d]
         st == IF S # {} /\ ChainValid(S) THEN StateOf(S) ELSE cache[d]
     IN /\ ledger' = [ledger EXCEPT ![d] = L]
        /\ cache'  = [cache EXCEPT ![d] = st]
        /\ \E q \in Republished(L) :
             /\ store' = store \cup ToSet(q)
             /\ inbox' = [Pushed(d, q) EXCEPT ![d] = AnswerTo(Tail(@), store, st.clock)]
        /\ \/ L = ledger[d] /\ UNCHANGED editing
           \/ \E last \in L \ ledger[d] :
                /\ IsLatest(last, L \ ledger[d])
                /\ editing' = [editing EXCEPT ![d] = Following(@, last)]
  /\ joining' = [joining EXCEPT ![d] = IF @ = "asked" THEN "synced" ELSE @]
  /\ UNCHANGED <<created, disk, page, refresh, conn, faults>>

\* Mutant: who is a member already may join.
InvitedAgain(d, inviter) ==
  /\ ledger[d] # {} /\ ChainValid(ledger[d])
  /\ isActiveMember(inviter, Derived(d))

\* The checks of GroupManager.joinGroup on an invite signed by inviter.
Invited(d, inviter) ==
  /\ ledger[d] # {} /\ ChainValid(ledger[d])
  /\ isActiveMember(inviter, Derived(d))
  /\ ~Active(d)

joinGroup(d) ==
  /\ joining[d] = "synced" /\ Cardinality(created) < MaxEntries
  /\ \E inviter \in Member :
       /\ Invited(d, inviter)
       /\ Write(d, "MemberAdded", [member |-> Owner[d], inviter |-> inviter])
  /\ joining' = [joining EXCEPT ![d] = "no"]
  /\ UNCHANGED page

joinGroupFails(d) ==
  /\ joining[d] = "synced"
  /\ \E inviter \in Member : ~Invited(d, inviter)
  /\ joining' = [joining EXCEPT ![d] = "no"]
  /\ UNCHANGED <<created, ledger, cache, disk, page, editing, refresh,
                 conn, inbox, store, faults>>

-----------------------------------------------------------------------------
(***************************************************************************)
(* Writing to the ledger.                                                  *)
(***************************************************************************)

\* GroupDetail.refresh: getGroupState saves the state it derives.
viewGroup(d) ==
  /\ Free(d) /\ ledger[d] # {} /\ ChainValid(ledger[d]) /\ cache[d] # Derived(d)
  /\ cache' = [cache EXCEPT ![d] = Derived(d)]
  /\ UNCHANGED <<created, ledger, disk, page, editing, refresh, joining,
                 conn, inbox, store, faults>>

openAddExpense(d) ==
  /\ Ops \cap {"expense", "edit"} # {} /\ Free(d) /\ Ready(d) /\ MayWrite(d)
  /\ page' = [page EXCEPT ![d] = [members |-> ActiveMembers(Derived(d)), live |-> TRUE]]
  /\ cache' = [cache EXCEPT ![d] = Derived(d)]
  /\ UNCHANGED <<created, ledger, disk, editing, refresh, joining,
                 conn, inbox, store, faults>>

Close(d) == page' = [page EXCEPT ![d] = NoPage]

\* An expense paid by payer that the members in S share.
NewExpense(payer, S) ==
  [amount |-> Cardinality(S), payer |-> payer, splits |-> [m \in S |-> 1]]

\* AddExpense.handleSubmit.  The page offers its own user as the payer.
addExpense(d) ==
  /\ "expense" \in Ops /\ page[d] # NoPage /\ Ready(d)
  /\ Write(d, "ExpenseCreated", NewExpense(Owner[d], page[d].members))
  /\ Close(d)
  /\ UNCHANGED joining

\* Mutant: the voiding is not counted.
EditClockOfVoid(last) == last.clock + 1

\* The clock of an edit's new expense: two after the entry that was last.
EditClock(last) == last.clock + 2

(***************************************************************************)
(* handleSubmit of a page that edits the expense x, up to the refreshGroups*)
(* that AppContext.voidExpense awaits, and which skips a group whose chain *)
(* the voiding made invalid.  The clock and the members of the new expense *)
(* are decided before the voiding.                                         *)
(***************************************************************************)
editExpense(d) ==
  /\ "edit" \in Ops /\ page[d] # NoPage /\ Ready(d)
  /\ Cardinality(created) + 1 < MaxEntries
  /\ \E x, last \in ledger[d] :
       /\ x.type = "ExpenseCreated" /\ IsLatest(last, ledger[d])
       /\ WriteAmid(d, "ExpenseVoided", [ref |-> x.id],
                    editing[d] \cup {[latest  |-> last.id,
                                     clock   |-> EditClock(last),
                                     payer   |-> x.payload.payer,
                                     members |-> page[d].members,
                                     waits   |-> ChainValid(ledger'[d])]})
  /\ Close(d)
  /\ UNCHANGED joining

\* Mutant: an edit goes on where there is no entry to name.
finishEditBlindly(d) ==
  /\ Cardinality(created) < MaxEntries
  /\ \E x \in editing[d], ts \in Stamp :
       /\ ~x.waits
       /\ Broadcast(d, [id |-> Cardinality(created) + 1, prev |-> x.latest,
                        clock |-> x.clock, ts |-> ts,
                        type |-> "ExpenseCreated", dev |-> d,
                        payload |-> NewExpense(x.payer, x.members)],
                    editing[d] \ {x})
  /\ UNCHANGED <<page, joining>>

\* The rest of handleSubmit, once its refresh is over, on whatever page the user
\* is by then.
finishEdit(d) ==
  /\ ledger[d] # {} /\ Cardinality(created) < MaxEntries
  /\ \E x \in editing[d], ts \in Stamp :
       /\ ~x.waits
       /\ Broadcast(d, [id |-> Cardinality(created) + 1, prev |-> x.latest,
                        clock |-> x.clock, ts |-> ts,
                        type |-> "ExpenseCreated", dev |-> d,
                        payload |-> NewExpense(x.payer, x.members)],
                    editing[d] \ {x})
  /\ UNCHANGED <<page, joining>>

\* The group was deleted meanwhile: getLatestEntry finds nothing, and the rest
\* of handleSubmit is left out.
editFails(d) ==
  /\ ledger[d] = {}
  /\ \E x \in editing[d] : /\ ~x.waits
                           /\ editing' = [editing EXCEPT ![d] = @ \ {x}]
  /\ UNCHANGED <<created, ledger, cache, disk, page, refresh, joining,
                 conn, inbox, store, faults>>

\* GroupDetail.handleSettleUp on a page just opened: any settlement of the
\* balances, whoever it is between, if more than one member is active.  The
\* derived state is saved; the group is neither synced nor saved on disk.
settleUp(d) ==
  /\ "settle" \in Ops /\ Free(d) /\ Ready(d) /\ MayWrite(d)
  /\ Cardinality(ActiveMembers(Derived(d))) > 1
  /\ \E from, to \in Member, amount \in Amount, last \in ledger[d], ts \in Stamp :
       LET e == buildEntry(d, last, ts, "ExpenseCreated", Settlement(from, to, amount))
           L == ledger[d] \cup {e}
       IN /\ [from |-> from, to |-> to, amount |-> amount]
               \in computeSettlements(computeBalances(ledger[d]))
          /\ IsLatest(last, ledger[d])
          /\ appendEntry(d, e, editing[d])
          /\ store' = StoreAfter(d, e)
          /\ inbox' = PushAfter(d, e)
          /\ cache' = [cache EXCEPT ![d] = IF ChainValid(L) THEN StateOf(L) ELSE @]
  /\ UNCHANGED <<disk, page, refresh, joining>>

\* GroupManager.removeMember behind the buttons of GroupDetail: the creator
\* removes others, the others remove themselves.
removeMember(d) ==
  /\ "remove" \in Ops /\ Free(d) /\ Ready(d) /\ MayWrite(d)
  /\ \E m \in ActiveMembers(Derived(d)) :
       /\ (m # Owner[d]) <=> (Derived(d).creator = Owner[d])
       /\ Write(d, "MemberRemoved", [member |-> m])
  /\ UNCHANGED <<page, joining>>

authorizeDevice(d) ==
  /\ "authorize" \in Ops /\ Free(d) /\ Ready(d) /\ Active(d)
  /\ \E x \in Device :
       /\ Owner[x] = Owner[d]
       /\ Write(d, "DeviceAuthorized", [member |-> Owner[d], device |-> x])
  /\ UNCHANGED <<page, joining>>

revokeDevice(d) ==
  /\ "revoke" \in Ops /\ Free(d) /\ Ready(d) /\ Active(d)
  /\ \E x \in Device :
       /\ deviceBelongsToMember(x, Owner[d], Derived(d))
       /\ Write(d, "DeviceRevoked", [member |-> Owner[d], device |-> x])
  /\ UNCHANGED <<page, joining>>

(***************************************************************************)
(* GroupRecovery.handleComplete.  The request holds a root key generated   *)
(* for it, which belongs to no device; any of the other members have       *)
(* signed it out of band.  completeRecovery only appends, and the entry    *)
(* goes out when the refresh broadcasts the local ones.                    *)
(***************************************************************************)
NewRootKeys ==
  { k \in Member : /\ \A x \in Device : Owner[x] # k
                   /\ \A f \in created : f.type = "RootKeyRotation" => f.payload.next # k }

CoSigners(d, m) ==
  { h \in ActiveMembers(Derived(d)) \ {m} : \E x \in Device : Owner[x] = h }

completeRecovery(d) ==
  /\ "recover" \in Ops /\ Free(d) /\ Ready(d)
  /\ \E m \in ActiveMembers(Derived(d)), next \in NewRootKeys, ts \in Stamp, last \in ledger[d] :
       \E signers \in SUBSET CoSigners(d, m) :
         LET e == buildEntry(d, last, ts, "RootKeyRotation",
                             [member |-> m, next |-> next, signers |-> signers])
         IN /\ Cardinality(signers) >= Threshold(m, Derived(d))
            /\ IsLatest(last, ledger[d])
            /\ appendEntry(d, e, editing[d])
            /\ refreshGroups(d, ledger[d] \cup {e}, cache[d], store, inbox, disk)
  /\ UNCHANGED <<page, joining, store>>

-----------------------------------------------------------------------------
(***************************************************************************)
(* Receiving.  processIncomingEntry drops a duplicate, refuses anything    *)
(* but a genesis entry while there is no state, and validates against the  *)
(* entries and the state in storage, in the order of arrival.              *)
(***************************************************************************)
\* Mutant: an entry is stored before it is validated.
AcceptsAll(d, e) == \A f \in ledger[d] : f.id # e.id

Accepts(d, e) ==
  /\ \A f \in ledger[d] : f.id # e.id
  /\ cache[d] = NoState => e.type = "Genesis"
  /\ validateEntry(e, ledger[d], cache[d])

\* The open page when the state in storage has become st and then, if the
\* entries L are a valid chain, another object.
PageAfter(p, st, L) ==
  IF p.live THEN [members |-> ActiveMembers(st), live |-> ~ChainValid(L)] ELSE p

\* One entry of the oldest message: a pushed one, or the next of an answer,
\* which comes in the order of the clocks.
processIncomingEntry(d) ==
  /\ inbox[d] # <<>> /\ Head(inbox[d]).kind # "full"
  /\ LET m == Head(inbox[d]) IN
     \E e \in m.entries :
       LET rest == IF m.kind = "new" THEN Tail(inbox[d])
                   ELSE [inbox[d] EXCEPT ![1].entries = @ \ {e}]
           B == [inbox EXCEPT ![d] = rest]
           L == ledger[d] \cup {e}
       IN /\ \A f \in m.entries : e.clock <= f.clock
          /\ IF Accepts(d, e)
             THEN /\ ledger' = [ledger EXCEPT ![d] = L]
                  /\ refreshGroups(d, L, applyEntry(e, cache[d]), store, B,
                                   [disk EXCEPT ![d] = L])
                  /\ page' = [page EXCEPT ![d] =
                                PageAfter(@, applyEntry(e, cache[d]), L)]
                  /\ editing' = [editing EXCEPT ![d] = Following(@, e)]
             ELSE /\ inbox' = B
                  /\ UNCHANGED <<ledger, cache, disk, page, editing, refresh>>
  /\ UNCHANGED <<created, joining, conn, store, faults>>

\* The answer is processed.  syncGroupWithRelay broadcasts all local entries
\* again, and refreshGroups saves.
syncWithRelayDone(d) ==
  /\ inbox[d] # <<>>
  /\ Head(inbox[d]).kind = "entries" /\ Head(inbox[d]).entries = {}
  /\ IF refresh[d] = "syncing"
     THEN /\ \E q \in Republished(ledger[d]) :
               /\ store' = store \cup ToSet(q)
               /\ inbox' = [Pushed(d, q) EXCEPT ![d] = Tail(@)]
          /\ refresh' = [refresh EXCEPT ![d] = "idle"]
          /\ disk' = [disk EXCEPT ![d] = ledger[d]]
     ELSE /\ inbox' = [inbox EXCEPT ![d] = Tail(@)]
          /\ UNCHANGED <<store, refresh, disk>>
  /\ editing' = [editing EXCEPT ![d] = Resumed(@)]
  /\ UNCHANGED <<created, ledger, cache, page, joining, conn, faults>>

-----------------------------------------------------------------------------
(***************************************************************************)
(* Background activity, connections, reloads, deletion.                    *)
(***************************************************************************)

(***************************************************************************)
(* A bound on the two actions that ask the relay again and again: they are *)
(* left out when they would find nothing to do.                            *)
(***************************************************************************)
WouldFetch(d) == EntriesAfter(store, cache[d].clock) # {}
WouldSync(d)  == WouldFetch(d) \/ ledger[d] \ store # {} \/ ledger[d] # disk[d]

\* refreshGroups runs again whenever React re-runs its effect.
refreshAgain(d) ==
  /\ refresh[d] = "idle" /\ ledger[d] # {} /\ WouldSync(d)
  /\ refreshGroups(d, ledger[d], cache[d], store, inbox, disk)
  /\ page' = [page EXCEPT ![d].live = @ /\ ~ChainValid(ledger[d])]
  /\ UNCHANGED <<created, ledger, editing, joining, conn, store, faults>>

\* The timer of startBackgroundSync.
backgroundSync(d) ==
  /\ conn[d] /\ ledger[d] # {} /\ ~Awaiting(inbox[d]) /\ WouldFetch(d)
  /\ inbox' = [inbox EXCEPT ![d] = AnswerTo(@, store, cache[d].clock)]
  /\ UNCHANGED <<created, ledger, cache, disk, page, editing, refresh, joining,
                 conn, store, faults>>

\* The connection that startSync awaits.
connect(d) ==
  /\ refresh[d] = "connecting"
  /\ conn' = [conn EXCEPT ![d] = TRUE]
  /\ inbox' = [inbox EXCEPT ![d] = AnswerTo(@, store, cache[d].clock)]
  /\ refresh' = [refresh EXCEPT ![d] = "syncing"]
  /\ UNCHANGED <<created, ledger, cache, disk, page, editing, joining, store, faults>>

\* startSync fails; what is broadcast all the same is dropped.
connectFails(d) ==
  /\ refresh[d] = "connecting" /\ ~conn[d] /\ Fault("offline")
  /\ refresh' = [refresh EXCEPT ![d] = "idle"]
  /\ disk' = [disk EXCEPT ![d] = ledger[d]]
  /\ editing' = [editing EXCEPT ![d] = Resumed(@)]
  /\ UNCHANGED <<created, ledger, cache, page, joining, conn, inbox, store>>

\* scheduleReconnect opens a socket, which subscribes; it asks for nothing.
reconnect(d) ==
  /\ ~conn[d] /\ refresh[d] = "idle" /\ ledger[d] # {}
  /\ conn' = [conn EXCEPT ![d] = TRUE]
  /\ UNCHANGED <<created, device, inbox, store, faults>>

\* Mutant: cleanup forgets the pending requests and does not reject them.
disconnectKeepsWaiting(d) ==
  /\ conn[d] /\ Fault("disconnect")
  /\ conn' = [conn EXCEPT ![d] = FALSE]
  /\ inbox' = [inbox EXCEPT ![d] = <<>>]
  /\ joining' = [joining EXCEPT ![d] = IF @ = "asked" THEN "synced" ELSE @]
  /\ UNCHANGED <<created, ledger, cache, disk, page, editing, refresh, store>>

\* The socket closes.  Pending requests are rejected; what is still to be
\* broadcast is dropped.
disconnect(d) ==
  /\ conn[d] /\ Fault("disconnect")
  /\ conn' = [conn EXCEPT ![d] = FALSE]
  /\ inbox' = [inbox EXCEPT ![d] = <<>>]
  /\ joining' = [joining EXCEPT ![d] = IF @ = "asked" THEN "synced" ELSE @]
  /\ IF refresh[d] = "syncing"
     THEN /\ refresh' = [refresh EXCEPT ![d] = "idle"]
          /\ disk' = [disk EXCEPT ![d] = ledger[d]]
          /\ editing' = [editing EXCEPT ![d] = Resumed(@)]
     ELSE UNCHANGED <<refresh, disk, editing>>
  /\ UNCHANGED <<created, ledger, cache, page, store>>

\* Mutant: the group state outlives the page, the unsaved entries do not.
reloadKeepsState(d) ==
  /\ ledger[d] # {} /\ Fault("reload")
  /\ ledger' = [ledger EXCEPT ![d] = disk[d]]
  /\ refresh' = [refresh EXCEPT ![d] = "idle"]
  /\ conn' = [conn EXCEPT ![d] = FALSE]
  /\ inbox' = [inbox EXCEPT ![d] = <<>>]
  /\ Close(d) /\ editing' = [editing EXCEPT ![d] = {}]
  /\ joining' = [joining EXCEPT ![d] = "no"]
  /\ UNCHANGED <<created, cache, disk, store>>

\* The page is loaded again: entries come back from localStorage, the group
\* state does not, and refreshGroups runs before any message can arrive.
reload(d) ==
  /\ ledger[d] # {} /\ Fault("reload")
  /\ LET L == disk[d]
         ok == L # {} /\ ChainValid(L)
     IN /\ ledger' = [ledger EXCEPT ![d] = L]
        /\ cache' = [cache EXCEPT ![d] = IF ok THEN StateOf(L) ELSE NoState]
        /\ refresh' = [refresh EXCEPT ![d] = IF ok THEN "connecting" ELSE "idle"]
  /\ conn' = [conn EXCEPT ![d] = FALSE]
  /\ inbox' = [inbox EXCEPT ![d] = <<>>]
  /\ Close(d) /\ editing' = [editing EXCEPT ![d] = {}]
  /\ joining' = [joining EXCEPT ![d] = "no"]
  /\ UNCHANGED <<created, disk, store>>

\* Mutant: the group state is left behind.
deleteGroupKeepsState(d) ==
  /\ ledger[d] # {} /\ Free(d) /\ Fault("delete")
  /\ ledger' = [ledger EXCEPT ![d] = {}]
  /\ disk' = [disk EXCEPT ![d] = {}]
  /\ UNCHANGED <<created, cache, page, editing, refresh, joining, conn, inbox, store>>

\* AppContext.deleteGroup.  The socket stays open and subscribed, and a refresh
\* that is under way goes on.
deleteGroup(d) ==
  /\ ledger[d] # {} /\ Free(d) /\ Fault("delete")
  /\ ledger' = [ledger EXCEPT ![d] = {}]
  /\ cache' = [cache EXCEPT ![d] = NoState]
  /\ disk' = [disk EXCEPT ![d] = {}]
  /\ UNCHANGED <<created, page, editing, refresh, joining, conn, inbox, store>>

(***************************************************************************)
(* RelayDatabase.pruneOldEntries: the relay drops the entries it received  *)
(* before some time, active group or not, the genesis entry first.  It has *)
(* received the entries of a chain in the order of the chain.              *)
(***************************************************************************)
pruneOldEntries ==
  /\ Fault("prune")
  /\ \E old \in SUBSET store \ {{}} :
       /\ \A e \in old, f \in store : f.id = e.prev => f \in old
       /\ store' = store \ old
  /\ UNCHANGED <<created, device, conn, inbox>>

-----------------------------------------------------------------------------
Step(d) ==
  \/ createGroup(d) \/ syncGroupFromRelay(d) \/ initialSync(d)
  \/ joinGroup(d) \/ joinGroupFails(d)
  \/ viewGroup(d) \/ openAddExpense(d) \/ addExpense(d)
  \/ editExpense(d) \/ finishEdit(d) \/ editFails(d) \/ settleUp(d)
  \/ removeMember(d) \/ authorizeDevice(d) \/ revokeDevice(d)
  \/ completeRecovery(d)
  \/ processIncomingEntry(d) \/ syncWithRelayDone(d)
  \/ refreshAgain(d) \/ backgroundSync(d)
  \/ connect(d) \/ connectFails(d) \/ reconnect(d) \/ disconnect(d)
  \/ reload(d) \/ deleteGroup(d)

Next == (\E d \in Device : Step(d)) \/ pruneOldEntries

Spec == Init /\ [][Next]_vars
=============================================================================
