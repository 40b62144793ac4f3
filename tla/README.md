# Verification of split-ledger

split-ledger is a local-first expense splitter. A group is an append-only, hash-chained ledger of
signed entries; every device of every member holds a replica, validates what it receives on its
own, and exchanges entries through a relay that stores and forwards them without understanding
them. There is no server that decides, so what makes the system correct is what the replicas do
with entries that arrive late, out of order, twice or never. This directory models that in TLA+,
checks it with TLC on small instances, and proves parts of it with TLAPS for all instances.

## 1. The system

### Components, their state and their operations

| Component (source) | State | Operations | What makes it correct |
|---|---|---|---|
| Ledger engine (`core/src/ledger.ts`, `types.ts`) | none, pure functions over entries and a `GroupState` | `orderEntries`, `validateEntry`, `applyEntry`, `validateFullChain`, `buildEntry` | the order is total and the same everywhere; a valid chain is linked; applying is deterministic |
| Balances (`core/src/balance.ts`) | none | `getEffectiveExpenses`, `computeBalances`, `computeSettlements` | the last word on an expense counts, balances cancel, settlements settle |
| Group manager (`core/src/group-manager.ts`) | the storage | create, join, remove, authorize, revoke, void, derive, delete | what it appends is valid where it is appended |
| Sync manager (`core/src/sync/sync-manager.ts`) | handlers, group keys, background timers | `startSync`, `initialSync`, `syncWithRelay`, `broadcastEntry`, `processIncomingEntry` | nothing invalid is taken, nothing that exists is missed |
| Storage (`core/src/storage.ts`) | entries and group state in memory | append, read, delete | an entry is kept once |
| Relay transport (`core/src/sync/relay-transport.ts`) | the socket, pending requests by group, subscribed groups, timers | connect, requests, reconnection after a delay | each request is settled once, by its own answer or its own failure |
| Relay (`relay/src/ws-handler.ts`, `db.ts`) | SQLite table of entries, rooms | publish, get after, get all, push, prune | every stored entry reaches the room; a duplicate changes nothing |
| Web state (`web/src/context/AppContext.tsx`) | React state, `localStorage` | refresh, sync, join, delete, load, save | what was written survives a reload |
| Pages (`AddExpense`, `GroupDetail`, `JoinGroup`, ...) | form state, kept across awaits | the user's actions | a form does not act on a state that is gone |
| Recovery (`core/src/recovery-manager.ts`, `GroupRecovery.tsx`) | a request and its co-signatures | request, co-sign, rotate | a majority of the others has signed |
| Composite transport (`core/src/sync/composite-transport.ts`) and P2P transport (`p2p-transport.ts`) | marks of what has been seen, connected groups, a libp2p node | fan out, deduplicate, connect to peers | what a peer sends too early or twice does no harm, the relay makes up for what peers do not deliver. The application uses the relay alone at this commit |
| REST API, start-up, crypto, schemas | - | - | - |

### How they interact

A page calls the group manager or builds an entry itself, the entry is appended to the storage of
the device, broadcast on the socket (or dropped, when there is none), and `refreshGroups` derives
the state, saves it, and syncs: it asks the relay for everything after the clock of the saved state
(`GET_ENTRIES_AFTER`), processes the answer, and broadcasts all its own entries again. At its end
the entries go to `localStorage`. The relay stores an entry under (group, clock, sender) and pushes
it to the other sockets of the room. A pushed entry runs `processIncomingEntry`, which drops it for
good unless it is valid against the entries and the state in storage at that time, and then
refreshes in turn. A timer asks the relay again; a closed socket reconnects and subscribes, but asks
for nothing.

### What is hard

* The same entries are validated twice, in two orders: one by one as they arrive, and all together
  in the total order. The two can disagree.
* State is read before an await and used after it: the members of a form, the clock and the latest
  entry of an edit, the entries of a sync.
* The device tracks what it has by one number, the largest clock it has applied.
* A reload loses everything that is not in `localStorage`, which is written last.
* Two devices write at the same clock; one device may write twice at the same clock.

The full list, line by line, is under `hazards` in `PROJECT.json`.

## 2. The modules

    Ledger            entries, order, validation, application       (constants only, pure)
      Balance         expenses in effect, balances, settlements      (pure)
        LedgerProofs        lemmas: what the folds of both modules compute
        SettlementLoop      the settlement loop, step by step
        Corrections         corrections and voidings, any order of arrival
          Accounts          both under the page that shows them      <- MCAccounts
            AccountsProofs        theorems: balances, payments
        SplitLedger         devices, relay, network, faults
          SplitLedgerProperties   invariants, action properties, liveness, the refinement
            MCSplitLedger         instances for TLC
            SplitLedgerProofs     theorems: types, hash chains, the order, the refinement
              ClockProofs         theorems: clocks
                StateProofs       theorems: group states, valid chains
                  ConvergenceProofs   theorems: convergence
    ReplicatedLog     abstract specification of the replicas of a group
    RelayTransport    sockets, requests and timers of several groups (instance: `transport.cfg`)
      RelayTransportProofs        theorems
    CompositeTransport  relay and peers together (instance: `composite.cfg`)
      CompositeTransportProofs    theorems

**`Ledger`** translates `ledger.ts` operator by operator under the names of the source. Hashes are
the numbers in which entries are issued: equal entries have equal ids and nothing else does. The
total order (`Before`) is clock, then timestamp, then the key of the device, then the hash, which is
an arbitrary tie-break and here the number. A signature is that of the creator's device, so signature checks have no
counterpart. `validateEntry` keeps every check that depends on the ledger: previous hash, author,
and the payload rules of all nine types. The state is a function from members to their status and
devices, and `StateOf` folds `applyEntry` over the entries in the total order, which is
`validateFullChain` without its verdict; `ChainValid` is the verdict.

**`Balance`** translates `balance.ts`. `computeSettlements` is stated as the overlaps of the
stretches that debtors and creditors occupy on two lines; **`SettlementLoop`** is the loop of the
source, and `PaysOverlaps` says the two are the same. `Settlement` is the expense as which
`GroupDetail` enters a payment.

**`SplitLedger`** is the composition: for each device the storage (`ledger`, `cache`),
`localStorage` (`disk`), the open form (`page`), the edits under way (`editing`), how far
`refreshGroups` and the join page have come (`refresh`, `joining`), the socket and what is in
flight to it (`conn`, `inbox`); and the relay's `store`. One action is one handler from one network await to the next:

| Action | Code |
|---|---|
| `createGroup` | `GroupManager.createGroup` and the refresh after it |
| `syncGroupFromRelay`, `initialSync`, `joinGroup`, `joinGroupFails` | `JoinGroup.handleJoin`: request for the full ledger, its answer, the join |
| `viewGroup`, `openAddExpense`, `addExpense`, `settleUp` | the pages; `settleUp` on a page just opened, `Accounts` has one that is behind |
| `editExpense`, `finishEdit`, `editFails` | `AddExpense.handleSubmit` before and after the await of `voidExpense`; it fails where the group was deleted meanwhile and has no latest entry. The page is reached with `?edit=` in its URL |
| `removeMember`, `authorizeDevice`, `revokeDevice` | `GroupManager` |
| `completeRecovery` | `RecoveryManager.completeRecovery`, with a new root key (a member of the model nobody has) and any sufficient set of co-signers; making the request and the signatures changes no state |
| `processIncomingEntry` | a pushed entry, or one entry of an answer, with the refresh it triggers |
| `syncWithRelayDone` | the rest of `syncGroupWithRelay`, with the broadcast of all local entries, and the save |
| `refreshAgain`, `backgroundSync` | the refresh effect, the timer |
| `connect`, `connectFails`, `reconnect`, `disconnect` | `RelayTransport` |
| `reload`, `deleteGroup` | the browser, `AppContext.deleteGroup` |
| `pruneOldEntries` | `RelayDatabase.pruneOldEntries`: the relay drops the entries received before some time. It has received those of a chain in the order of the chain, so the genesis entry goes first |

*Atomicity.* The storage is in memory and JavaScript runs to the next await; awaits on promises
that are already settled are not interruptible by network events in a way that matters, so a
stretch without network is one step. The loop over an answer takes one step per entry, since each
accepted entry starts a refresh. The loop that broadcasts the local entries again only sends and is
part of one step: a socket that closes loses all of that burst or none.
*Network.* Sockets are FIFO; the relay, which is synchronous, handles a message in the step that
sends it, and its messages wait in `inbox`. Messages to a closed socket are dropped without an
error, messages in flight are lost when a socket closes. Requests do not time out in this model,
which has one group; that is `RelayTransport`.
*Users.* `CarefulUsers` says that somebody who is no longer a member does not write; where it is
FALSE they do. A form that was open when its owner was removed is submitted in any case.
`PatientUsers` says that nobody leaves the page of an edit while `voidExpense` is awaited. The code does
not ask for that: Cancel and the navigation stay enabled, and `handleSubmit` goes on when its page is
gone. Where `PatientUsers` is FALSE they leave it, open other pages, write on, begin more edits or delete
the group, and each edit under way goes on by itself when the refresh it awaits (`waits`) is over.
Closing a page without submitting it leads to a state in which it was never opened, and is left out;
so is the navigation at the end of an edit.

**`ReplicatedLog`** is what the replicas promise together, whatever the network does: a replica
issues an entry on top of everything it holds; it learns only entries that some replica issued, with
each the one it follows; a restart brings back what it last saved. `SplitLedger` implements it
(`ImplementsLog`), with `Replica <- Device`, `issued <- created`, `log <- ledger`, `saved <- disk`.
Which message carries an entry, and when it is saved, is all hidden.

**`Accounts`** is `GroupDetail` over the entries of its group. `Corrections` lets expenses,
corrections of corrections and voidings of either, by two authors, arrive in every order that
`processIncomingEntry` accepts. The page reads the entries when it is opened (`refresh`) and after a
click on it, not when one arrives: `shown` is what it has read. It then runs the loop
of `SettlementLoop` (`render`) on their balances, and `handleSettleUp` appends one of the payments it
shows to whatever the storage holds by then. The initial entries are either none or expenses that
leave the members with any balances up to the bound, so the loop runs on all of those.

| Action | Code |
|---|---|
| `arrival` | an entry enters the storage (`processIncomingEntry`); the page does not notice |
| `refresh`, `show` | `refresh` of `GroupDetail`: `computeBalances`, and `computeSettlements` begins |
| `render` | one iteration of the `while` loop of `computeSettlements` |
| `handleSettleUp` | a payment is marked as paid, and the page reads again |

**`RelayTransport`** is the transport of one device with several groups, whose background timers and
`startSync` calls share one `ws`: `sockets` is its sockets, with the rooms the relay has them
in and the answers in flight; `pending` is `pendingGetEntries`, keyed by group; `calls` is where each
call stands. The entries an answer holds are left to `SplitLedger`. There is no end to the sockets
made, so a place in `Slot` is used again when its socket is closed and nothing refers to it.

| Action | Code |
|---|---|
| `startSync`, `stopSync` | `SyncManager`, with `RelayTransport.connect` and `disconnect` |
| `tick` | the timer of `startBackgroundSync` |
| `opens` | `onOpen` of `ensureConnection`, the relay's `handleConnection`, and what the awaiting call does next |
| `answer`, `timeout` | `ENTRIES_RESPONSE` in `handleMessage`; the timer of `getEntriesAfter` |
| `disconnected`, `fails` | a socket breaks or does not open: the `close` and `error` handlers, of whichever socket: `cleanup` and `scheduleReconnect` |
| `idles` | the relay closes a socket on which it has heard nothing for five minutes (`ws-handler.ts`), any number of times; the same `close` handler |
| `reconnect` | the callback of `scheduleReconnect` |

What makes it hard is that handlers act on the transport, not on their socket. `connect` of two groups
at once makes two sockets; the later one is `ws`, the other stays open, is pinged by nobody, and when
it is closed as idle its handler rejects the requests of the current one and starts a reconnection.
That replaces a current socket that is open, which is then the one that nobody pings: without any
failure this need not end, and TLC finds behaviours in which it does not. `idles` is therefore no fault and not bounded. It waits for what
five minutes leave time for (`TimePassed`): sockets that connect have opened, answers have come, and the
reconnection timer (at most 30 seconds) and the background timers (30 seconds) have fired.
A call whose own socket opened may send its request on one that is still connecting, where `send`
drops it. The timeout of a request deletes whatever is pending for the group. The model has all that.

Two things it shows that no run states as a property. The error of a socket is ignored while
`_connected` is true, so if one of two sockets made at once fails after the other has opened, its
`connect` never returns, and `refreshGroups`, which waits for all groups, never saves the entries.
And `stopSync` during `startSync` leaves the group with a background timer that nothing stops.

**`CompositeTransport`** is `SyncManager` over the transport that sends every entry both through the
relay and straight to the connected peers, and drops what comes in a second time. What a broadcast
sends is encrypted anew, so that the copies of two broadcasts of one entry differ (`cipher`), and
deduplication works on copies, not entries. `seen` is `seenEntries`, `marked` the history of what was
ever put there, `heard` the marks of the P2P transport, which tell an entry by clock and sender.
Streams between peers are a set: each arrives on its own, late or never. An entry is valid once its
predecessor is there; everything else about validity is in `SplitLedger`.

| Action | Code |
|---|---|
| `write`, `publishAgain` | `broadcastEntry` and `CompositeTransport.publishEntry`, for a new entry or for one again |
| `pushed` | a push of the relay: `handleIncoming`, which marks first and hands on what is new |
| `answered`, `syncComplete` | `syncWithRelay`, whose answer goes past the marks; the end of `startSync` |
| `streamArrives` | the libp2p handler of the protocol, then `handleIncoming` |
| `startSync`, `relayConnects`, `p2pConnects` | `startSync` of `SyncManager`, with `CompositeTransport.connect`: first the relay, then the peers, whose failure is ignored |
| `tick`, `stopSync` | the background timer; `SyncManager.stopSync`, which stops the node |
| `drop`, `reconnect` | the relay's socket closes; `scheduleReconnect` |

The hard part is that a copy is marked before it is known to be of use. A peer's copy that comes
before its predecessor is refused and marked, and when the relay pushes the same copy, it is dropped.
With one writer this loses nothing, because the reader then has a prefix and its next request asks
for all the rest (`HoldsPrefix`, `Delivered`). With two writers it may: an entry of the other moves the
clock of the reader past the refused one, so that it is never asked for: a loss like that of the run
`gap`, here without any fault.
The properties are therefore for one writer. Two more things the model has and no property is about:
a libp2p node that was created and did not start is never started again until the group is
disconnected (`"dead"`), and `stopSync` during `startSync` leaves a timer on.

Instances of `SplitLedger`: 2 devices of two members, 3 devices of two members (two of them ann's), or
3 members, of whom the third may have no device. `SpecFormed` starts when each member's first device
has joined and everything is delivered, which leaves more of the bound on entries to what follows.

### Bounds

`MaxEntries` bounds the entries ever built, `MaxFaults` the faults; `RelayLimit` is the relay's own
limit, kept out of reach; `Stamp` and `Amount` are the timestamps and amounts. Two replicas, two
concurrent entries and one more that follows either are what every failure we know of needs: four to
six entries, the first two of which form the group. With one timestamp, entries of one clock are
ordered by device; a second timestamp would only turn that order round, which the symmetric roles of
the devices do as well. Requests that would find nothing to do are left out
(`WouldFetch`, `WouldSync`), because they change nothing and would go on for ever.

In `online.cfg` six entries: two form the group, an edit takes two, and two more may run into it. In
`edits.cfg` five, for its users leave their edits: an expense, its voiding, and either the end of the
edit or something else; a fault closes a socket or deletes the group meanwhile.

In `accounts.cfg` five members with balances between -3 and 3: enough for three debtors to meet two
creditors, with payments that end one line, the other, or both. From no entries, four arrive
(`MaxEntries`): an expense, a correction, a correction of that and a voiding, with clocks up to
`MaxClock`. In a group that starts with balances, one arrives after a single opening expense
(`MaxLate`), and payments are marked up to the fifth entry (`MaxPaid`). `MaxBehind` keeps an open page
at most one entry behind.

In `composite.cfg` one device writes three entries and one reads; three entries, because a copy that
comes too early needs a predecessor that is missing and one after it. `MaxPublished` bounds the
broadcasts, so that a repeated broadcast takes the place of a new entry. A memory of two marks, of
which one is evicted at a time, overflows with the third copy; the code has 10000 and 1000, and
`HandedOnceHolds` is proved for every size. One fault: a connection or node that fails, a
socket that closes, a group that is left.

In `transport.cfg` two groups, two calls of `startSync` (for both groups, or twice for one, which is
how a request takes the place of another) and two faults: one socket lost while another connects, and
one more loss during the recovery. `MaxSockets` bounds the sockets that exist at a time, four: two calls
of `startSync`, the current socket, and one a reconnection makes; those the relay closes are
unbounded.

## 3. The runs

| Run | Instance | Shows |
|---|---|---|
| `join` | 2 devices, from nothing, expenses and settlements, 4 entries, one fault of any kind (a connection fails, a socket closes, a reload, the group deleted and joined again, the relay pruned) | `TypeOK`; `CacheNeverAhead`: the clock a device asks from is not beyond what it has; `ChainsValid`: as long as nobody leaves and nothing is edited, checking in the order of arrival and checking in the total order agree; `ImplementsLog`: every step is one of `ReplicatedLog`; `SelfChecked`: no device appends an entry that it would itself refuse |
| `faults` | 2 devices and a third member, expenses, settlements, removals (after which the removed go on writing) and root key rotations, a closed socket or a reload | `LinkedLedgers`: every storage and every `localStorage` is a linked hash chain, and `CacheNeverAhead`, also where chains become invalid |
| `devices` | 3 devices, 2 of one member, authorisations and revocations | `Accountable`: no device keeps an entry of a device that nothing in its ledger admits |
| `online` | 2 devices, expenses and edits by users who stay on the page of an edit, 6 entries, no faults, fair | `ClocksDistinct`; `CaughtUp`: who has taken in all that was sent misses nothing; `Converged`: whenever nothing is under way, everybody has everything; `Delivered`: every entry reaches every device that has the group |
| `edits` | 2 devices, expenses and edits by users who leave them at any time, 5 entries, a closed socket or the group deleted, fair | `UnbrokenLedgers`: no storage and no `localStorage` is ever without the entry that one of its entries names; `EditsGoOn`: no edit waits for ever, although other refreshes take the place of its request |
| `accounts` | 5 members, balances -3..3; or expenses, corrections and voidings of two authors | `SettlesAll`: the payments, as the page enters them, bring everybody to zero, with fewer of them than members; `PaysOverlaps`: the loop pays what `computeSettlements` of `Balance` says; `Returns`: it ends; `LastWordCounts`: what counts of an expense is what the last correction or voiding in the total order says; `BalancesCancel`; `PaidApproaches`: marking a payment on an up-to-date page brings its two members closer to zero, never past it, and moves nobody else |
| `composite` | 1 writer, 1 reader, relay and peers, a memory of two marks, one fault, fair | `TypeOK`; `HoldsPrefix`: the reader holds a prefix of what was written; `HandedOnce`: a copy is handed on again only once its mark was evicted; `Delivered`: a reader that syncs gets what the relay stores |
| `transport` | 2 groups, 2 calls of `startSync`, 2 faults, any number of idle closes, fair | `PendingAsks`: only a request that waits for its group is pending; `ConnectedIsOpen`; `NeverStranded`: a device that has connected groups has a current socket that is open or connecting, or a timer that makes one; `RequestsSettle`: every request is settled; `Reconnects`: a device with groups is connected again and again, however often an idle close makes it give up its socket (it need not stay connected); `Subscribed`: once nothing fails, the relay pushes it all connected groups that have a background timer, though a reconnection subscribes one |

Four runs end in a violation; each refutes something the repository says of the program, quoted in
the findings of `PROJECT.json`:

| Run | What happens |
|---|---|
| `gap` | ann adds an expense and her socket closes; bob, who has not yet received it, adds one with the same clock. The relay cannot push his to her. Connected again, she asks for what comes after that clock, which is also that of her own expense: bob's never comes, although nothing is left to sync. bob has both. (An entry that follows his would name it and be refused.) |
| `concurrent_removal` | ann removes bob while he writes an entry: in the shortest behaviour he leaves the group himself, and with an expense, one step longer, it is the same. His device has his entry; hers refuses it, now and for ever. The two ledgers stay different. |
| `settle_removed` | a removed member's debt is still offered for settlement. Settling it appends an expense with an inactive member; from then on the device cannot derive its own group. |
| `edit_cancelled` | ann edits an expense, leaves the page while the voiding is being synced, and adds another expense: it gets the clock after the voiding, which the edit has foreseen for its new expense. The relay takes the later of the two for a duplicate and drops it, without any fault. |

`ChainsValid` is not checked where members are removed or expenses edited: there it does not hold.
With removals that is `concurrent_removal`. With edits it is a race: an entry that arrives while an edit
waits for the network becomes the predecessor of the new expense, which may have the
clock of its predecessor, and the total order may put it first. `ClocksDistinct`, `CaughtUp`, `Converged` and `Delivered`
hold in `online` only because its users wait for their edits, which is an assumption about users and
not about the code: what `edit_cancelled` shows breaks all four. `Converged` is not checked with faults (`gap`).

Remarks without a run, on what the models reach besides and what the comments and pages say of it:

* A reload before the first save brings back an older ledger. The next entry has a clock that was used,
  and the relay drops it as in `edit_cancelled`.
* An entry of bob that arrives while an edit of ann waits for the network is the one her new expense
  names, and not the voiding, as the comment in `handleSubmit` has it ("the absolutely latest hash (which
  is the void entry)").
* A rotated root key is a member without devices. Only an authorised device of the group could authorise
  one, so its owner has not "regained access", which is what `GroupRecovery` says.
* The pings keep a device connected only while it has one socket. Two groups connected at once make two;
  the relay closes the one that is not pinged, its handler replaces the other, which is pinged no longer,
  and so on, though nothing fails. Hence `Reconnects` says "again and again" and not "for good".
* A page that is behind may pay twice: `handleSettleUp` does not look whether
  the debt still exists, and two members, or one member on two devices, may mark the same one
  (`PaidApproaches` is about a page that is up to date).
* The comment of `computeSettlements` promises a minimal set. It always has
  fewer payments than members (`SettlesAll`), but debts 4 and 3 against credits 3, 3 and 1 are paid
  with four where three suffice. Nor does the number of payments fall with each that is marked: debts 3
  and 3 against credits 2, 2 and 2 take four, and still four after one of them is paid out of turn. Only
  the amounts fall.

Deadlock is not checked: entries and faults are bounded, so every behaviour of an instance ends.

### Fairness

`Fairness` is weak fairness of what runs without the user: a socket opens, a message that has
arrived is processed, a sync that is answered ends, a join goes on once the ledger is there. The
event loop of the browser and a network that is up do that. There is no fairness for users, for the
background timer (throttled in a hidden tab) or for repeated refreshes; `Delivered` and `EditsGoOn` hold
without.

The fairness of `RelayTransport` has the timers in it, for that is the code they are in: a request's
timeout, the background timer, the reconnection timer, each weakly fair; and a socket that is made
opens or fails, an answer that has arrived is handled. Faults, idle closes, `startSync` and `stopSync`
are not fair: `Reconnects` and `Subscribed` hold however many idle closes there are.
An answer that would settle its request comes before the timeout unless a fault makes it late: ten
seconds against a round trip.

In `Accounts` only `render` is fair: a loop goes on. In `CompositeTransport` what the relay sends is
handled, the background timer fires and a lost socket is opened again, each weakly fair. Nothing is
assumed of peers: a stream may break, so `Delivered` rests on the relay alone, and it asks for nothing
once the reader has left the group.

## 4. The proofs

TLAPS checks what follows for any sets of devices and members, any owners, operations, faults and
bounds, unless a restriction is named, which is then an assumption of the theorem. Of `SplitLedger`,
`SplitLedgerProofs` proves:

* `LedgersLinked`: `Spec => []LinkedLedgers`, where nobody edits. With edits it is false (the race of section 3:
  the clocks need not grow), which is why `"edit" \notin Ops` is an assumption of the theorem.
* `LedgersUnbroken`: `Spec => []UnbrokenLedgers`, with edits and without assumptions: what an entry
  names is there.
* `StorageTypeCorrect`: `Spec => []StorageTypeOK`: everything a device, a message or the relay
  holds is an entry that was built, and is one of the nine shapes.
* `OrderIsTotal`: `Before` is a strict total order of the entries ever built. Replicas that have
  the same entries therefore validate and apply them in the same order.

`LinkedLedgers` is not inductive. An accepted entry names a predecessor that is in the ledger, but
that the predecessor has a smaller clock is a fact about the device that built the entry, which the
receiver does not check (`validateEntry` has no such rule). So the invariant speaks of all entries
ever built: `LinkedInv` says that ids are issued once (`IdsOnce`), that all built entries are linked
(`Chained(created)`: with growing clocks where nobody edits), that what devices hold is among them
(`StorageTypeOK`), and that an edit will name an entry of its ledger (`EditsHeld`). Then a received
entry is linked because it was when it was built, and its predecessor, found by its id, is that one
entry. The proof has a lemma per action, and under it a step per conjunct that the action disturbs;
the handlers that append (`WriteAmid`) share one lemma.

It also proves `LogImplemented`: `Spec => ImplementsLog`, again where nobody edits,
with any faults and at any limit of the relay. The refinement mapping renames four variables and the
rest is hidden. `LinkedInv` is what it rests on: a handler that writes builds on the last entry of its
ledger, whose clock is the largest there (`BuiltIsLatest`), so its step is an `Issue`; what a push, an
answer or a full ledger adds is among `created` and linked after the step, so it is a `Learn`; the
steps that only save are a `Learn` of nothing. One lemma per kind of step, put together in
`NextRefines`. With edits `Issue` fails: the new expense follows what arrived last, with a clock
that was foreseen before.

`ClockProofs` proves `ClocksNeverReused`: without reloads and deletions, and where users do not leave the
page of an edit under way (`PatientUsers`), `Spec => []ClocksDistinct`, edits included. A reload or
a deletion can make a device forget what it has issued, and the run `edit_cancelled` has an edit that
was left: the code does not promise this property, its users have to. That no clock is issued twice is not inductive. `ClockInv` adds that a device holds
every entry it has issued, so that the next one, later than all it holds, is later than all it
has issued; that the clock foreseen for an edit (`Foreseen`) is larger than those of all its entries
too; and that there is one edit at a time, with no other page (`OnePage`, from `PatientUsers`), so that
nothing else is written until it is finished. `DuplicatesOnly` follows: what the relay then refuses as a
duplicate is one. That is the property of the run `edit_cancelled`, which therefore needs the edit that
was left.

`RelayTransportProofs`, for any groups and bounds: `PendingAsksHolds`, `ConnectedIsOpenHolds`,
`NeverStrandedHolds` and `TypeHolds`. The inductive invariant `IInv` is the three with `Fresh`: the calls of `startSync` that
have not been made are unused, so a call that begins to connect is not pending already. A new socket
takes a place that nothing refers to (`UnusedChosen`), so no call waits for it but its own. The rest is
that a request (`AskKeeps`) changes the state of no socket, and that `close`, from whichever socket,
empties `pending` and resets `connected` together.

`CompositeTransportProofs`, for any devices, memory sizes and bounds:

* `TypesHold`, whose inductive form adds that finitely many entries are written, which gives each a
  number of its own.
* `HandedOnceHolds`. The invariant is `SeenIsEnd`: what is remembered is the end of the history of
  marks, all of it or more than `SeenSize - Evicted`. A copy that is marked again is not in it, hence at
  least that far back.
* `PrefixHolds`, with one device that writes. `PrefixInv` adds `OneChain`: the writer holds all it has
  written, and it is one chain whose clocks go up by one; so an entry that is accepted is
  preceded by the one with the clock before, and by induction over the steps by all the others.

`LedgerProofs` is about the functions of `Ledger` and `Balance`, which are folds over finite sets:
the state of a group, the expenses in effect, sums. The induction theorems of the library take an
operator as a parameter, which the provers do not accept; what they say can be had with sets instead:
`NumberInduction` (a set of numbers that has 0 and with n also n + 1 has all) and `SubsetInduction`
(a set of subsets that has a finite S' whenever it has all S' without one element). From these:
`FoldExists` and `FoldUnique`, so that the recursive function inside a fold is the one that its
equation describes; and then the equations themselves, which the other proofs use in place of the
folds: `StateOfStep` (the state after the last entry is `applyEntry` of it on the state before),
`StateClock` (the clock of a state is the largest of its entries), `EffectOfStep` (the same for
`getEffectiveExpenses`), `SumStep`, `SumRemove` and what follows about sums (`RowsCancel`: a table
whose rows all cancel has columns that cancel).

`StateProofs` is about states that are derived from ledgers:

* `TypeCorrect`: `Spec => []TypeOK`, now with the type of `cache`.
* `CacheBehindLedger`: `Spec => []CacheNeverAhead`, with any operations and faults. It is inductive
  given the types: a state that is derived from a ledger has the clock of one of its entries, one that
  is saved after an entry was applied has that of the entry or the one before, and whatever forgets
  entries forgets the state too.
* `WritersAccountable`: `Spec => []Accountable`, with any operations, edits included, and any faults.
  `KnownInv` says the same of the ledger on disk, and that every device in a saved state was let in by
  an entry of the ledger; then so was whoever `validateCreatorAuthorization` accepts.
* `StableChainsValid`: `Spec => []ChainsValid`, under the assumption `StableGroup`: members join, enter
  expenses and settle, each owner has one device, users are careful, sockets and connections fail at
  will, but no device is reloaded and no group deleted. Each of these is needed. TLC finds `ChainsValid`
  violated with edits, with removals, with two devices of one owner and with users who write while they
  are not members; a device that forgets its own join by a reload or a deletion may join twice. The
  proof distinguishes four kinds of step: a device builds an entry, takes a whole chain, takes one
  entry, or starts again. The chain invariant says what validation in the total order needs and
  validation in the order of arrival cannot see: everybody joins once, an entry is later than the joins
  it depends on, and a ledger holds all that its entries follow. Every initial part of the total order
  is then valid, by induction over it. Settlements need one more fact: whoever owes or is owed has
  joined (`SettlersJoined`), since the balance of anybody else is a sum of zeros.
* `StableSelfChecked`: `Spec => SelfChecked` in a stable group. No handler checks what it appends; this
  says it need not. The new entry comes after all others of a ledger that is a valid chain with it, so
  the chain's check of it is the one against its own ledger. The violation of the run
  `settle_removed` therefore needs its removal.

`ConvergenceProofs` is about delivery. Its theorems have the assumption `Reliable`: a stable group, no
faults, and a relay with room (`MaxEntries <= RelayLimit`). After a lost push `gap` happens, a removal
gives `concurrent_removal`, an edit may race with what arrives, and a full relay refuses entries.

* `ReliableCaughtUp`: `Spec => []CaughtUp`. A device that has the group and an empty queue has every
  entry ever built, even while others join, write or are answered.
* `ReliableConverges`: `Spec => []Converged`.
* `ReliableAgreement`: `NothingMissed` and `Agreement`, the statements that `gap` and
  `concurrent_removal` refute, hold.

That nothing is missed when nothing is under way follows only from an account of what is under way.
`ConvergenceInv` gives it for every device and message:

* `Held`: the state in storage is the one of the ledger.
* `OnItsWay`: a queue is `Orderly`. Pushes carry one entry each, there is at most one full ledger,
  it was asked for, and nothing before it has more.
* `Unsynced`: until the relay has the genesis entry, only the founder has entries, and is about to send
  them (`createGroup` itself broadcasts nothing).
* `Synced`: from then on the relay has all entries at all times, and all of them are `Coming` to each
  connected device. Either the queue is `Anchored`: from some message on, it brings all that the device
  does not have, and no entry before what it depends on, so that each is accepted when it is handled.
  Or the device has nothing and is `Expecting` the genesis entry, after which it asks for the rest.

The two come together in an answer that was overtaken: what it holds was right for the clock it was
asked from, but pushes may be in the queue before it. So `Anchor` asks only that each entry has what it
depends on in the ledger or in messages up to its own; that inside an answer it comes in time follows
from the order by clocks in which the relay returns them. Before the proof, TLC checked the invariant
for 2 devices and 5 entries, settlements included. Of `Delivered`, under these conditions, it leaves
only that queues are drained.

`AccountsProofs` is about the page over its entries, for any members, balances and bounds:

* `BalancesAlwaysCancel`: `Spec => []BalancesCancel`, through any corrections and voidings. Every
  expense in effect is balanced, and the order of two sums may be exchanged.
* `LastWordHolds`: `Spec => []LastWordCounts`. The map `root` of `getEffectiveExpenses` is built in the
  total order, so whatever an entry refers to has been taken before it (`RefersBack`) and is already
  mapped to its expense: the loop that looks for the original ends after one step (`OriginalIs`), at
  the expense where the references end (`RootTracks`). By induction over the initial parts of the
  order, what is in effect is the last word on every expense in that part (`LastWordKept`).
* `PaymentsOverlap` and `PaymentsSettle`: `Spec => []PaysOverlaps` and `Spec => []SettlesAll`. The
  loop of `computeSettlements` walks two lines, and its invariant is `LoopInv`: both have been paid
  equally far (`BothPaidUpTo`); every pair of members of which one is already passed has been paid the
  overlap of its stretches once (`PaidSoFar`); what is left of a balance is what its line still has
  (`WhatIsLeft`); and each payment moves on one line, the last one both (`FewPayments`), hence fewer
  payments than members. The loop stops when one line is used up; what remains on the other is all of
  one sign and cancels, so nothing remains.
* `MarkingApproaches`: `Spec => PaidApproaches`. An expense that comes last moves the balances by what
  it gives and takes (`BalancesMove`), and an overlap is no larger than either stretch.

`AccountsInv` adds `PageInv` to that: the entries have the ids 1 to n, their expenses are balanced, the
page shows some of them, and its balances are those of what it shows.

Only model-checked is liveness (`Delivered`, `EditsGoOn`, `Returns`, `RequestsSettle`, `Reconnects`, `Subscribed`),
which is out of the prover's reach. Every invariant and every action property of a passing run is
proved, but some under an assumption that the run does not make: `ChainsValid` and `SelfChecked` are
also checked with deletions and reloads (`join`), `Converged` and `CaughtUp` with edits of patient users
(`online`), and `ClocksDistinct` is proved with such edits but without reloads, as in its run.

## 5. What is not modelled, and the plan

Abstracted: cryptography (hashes do not collide, signatures cannot be forged), encryption, key
exchange, display names, currencies, categories, wording, wall-clock expiry of invitations.

Not modelled: of the P2P transport, how nodes find each other, the states of its connections and the
entries it keeps for requests that the composite transport sends to the relay alone; the
REST API of the relay, which keeps invitations and reports its health; start-up and configuration; schemas, which
check shapes and not the ledger; creating, exporting and importing an identity in `Settings`, except
that a device key may be in use twice (a hazard); the pages that change nothing.

Next, in this order:

1. `RelayTransport`: `getFullLedger`, whose requests share the connection; an abstract specification of
   a request (asked, settled once) that it implements.
2. The relay's early return on a duplicate, before the sender is subscribed: it matters for the
   second group on one socket, so it needs the entries in `RelayTransport` or the rooms in
   `SplitLedger`.
3. `CompositeTransport` with several groups, which share the socket and the node, and with two writers,
   for what can still be promised then.
4. Proofs: `CaughtUp` where expenses are edited, which needs the order of arrival of a voiding and of
   the expense that replaces it; `ChainsValid` where a device that was reloaded asks for what it forgot
   before it writes; that a `calls` entry once settled stays settled until it is made again.
