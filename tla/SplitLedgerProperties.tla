------------------------ MODULE SplitLedgerProperties ------------------------
(***************************************************************************)
(* What the replicated ledger promises.                                    *)
(***************************************************************************)
EXTENDS SplitLedger

(***************************************************************************)
(* The hash chain: the entry another one names as its previous one is      *)
(* there, and comes before it in the total order.                          *)
(***************************************************************************)
Linked(S) ==
  \A e \in S : e.type # "Genesis" => \E f \in S : f.id = e.prev /\ f.clock < e.clock

\* Every storage and every localStorage holds a linked set of entries,
\* whatever arrived in which order and whatever was lost or reloaded:
\* validateEntry, initialSync and the handlers that append locally.
LinkedLedgers == \A d \in Device : Linked(ledger[d]) /\ Linked(disk[d])

\* What LinkedLedgers rests on.  An id is issued once, and the entry another
\* one names was built before it, with a smaller clock.
IdsOnce ==
  /\ IsFiniteSet(created)
  /\ \A e \in created : e.id \in 1 .. Cardinality(created)
  /\ \A e, f \in created : e.id = f.id => e = f

\* The entry another one names as its previous one is there.
Unbroken(S) == \A e \in S : e.type # "Genesis" => \E f \in S : f.id = e.prev

\* Nothing is ever without the entry it names: storages and localStorages stay
\* unbroken, also where an edit goes on after the user has left its page, the
\* group has been deleted and joined again, or other entries have come
\* (handleSubmit of AddExpense names whatever entry was last to be stored).
UnbrokenLedgers == \A d \in Device : Unbroken(ledger[d]) /\ Unbroken(disk[d])

\* The new expense of an edit has the clock foreseen when the edit began; its
\* previous entry, the last one to arrive meanwhile, may have as large a clock.
\* So only where nothing is edited do the clocks grow along the chain.
Chained(S) == IF "edit" \in Ops THEN Unbroken(S) ELSE Linked(S)

\* An edit can name the entry that was last to be stored.
EditsHeld ==
  \A d \in Device :
    /\ editing[d] # {} => "edit" \in Ops /\ created # {}
    /\ ledger[d] # {} => \A x \in editing[d] : \E f \in ledger[d] : f.id = x.latest

LinkedInv ==
  /\ StorageTypeOK
  /\ IdsOnce
  /\ Chained(created)
  /\ \A d \in Device : Chained(ledger[d]) /\ Chained(disk[d])
  /\ EditsHeld

(***************************************************************************)
(* The devices and their relay, with all that is in flight, are replicas   *)
(* of one log: localStorage is what a restart brings back.  An edit breaks *)
(* the promise, for its second entry has a clock that was foreseen.        *)
(***************************************************************************)
Log == INSTANCE ReplicatedLog
         WITH Replica <- Device, issued <- created, log <- ledger, saved <- disk

ImplementsLog == Log!Spec

\* The clock syncWithRelay asks the relay from is one of an entry the device
\* has: a cached state from before a deletion or a reload, or of entries that
\* were not stored, would hide entries from every later request.
CacheNeverAhead ==
  \A d \in Device :
    cache[d] # NoState => \E e \in ledger[d] : cache[d].clock <= e.clock

\* Every ledger is a valid chain in the total order, although its entries were
\* validated one by one in the order of arrival (processIncomingEntry) or not
\* at all (the local handlers).
ChainsValid == \A d \in Device : ChainValid(ledger[d])

\* No device issues a clock twice, so the relay, which keys entries by clock
\* and sender, never takes an entry for another one.
ClocksDistinct ==
  \A e, f \in created : e.dev = f.dev /\ e.clock = f.clock => e = f

\* What the relay refuses to store it already has: the comment of
\* handlePublishEntry on its INSERT OR IGNORE.
RefusedIsDuplicate ==
  \A d \in Device : \A e \in ledger[d] : \A f \in store :
    e.clock = f.clock /\ e.dev = f.dev => e = f

\* Whoever wrote an entry a device took from the network was let in by another
\* entry the device has: validateCreatorAuthorization at the time of arrival.
Admits(f, d) ==
  \/ f.type \in {"Genesis", "MemberAdded"} /\ f.dev = d
  \/ f.type = "DeviceAuthorized" /\ f.payload.device = d

Accountable ==
  \A d \in Device : \A e \in ledger[d] :
    e.dev # d /\ e.type \notin {"Genesis", "MemberAdded"} =>
      \E f \in ledger[d] \ {e} : Admits(f, e.dev)

\* An entry is checked before it is appended (docs/design/03-crypto-flows.md):
\* one that a handler has just built is valid after the ledger it extends.
SelfChecked ==
  [][\A d \in Device : \A e \in created' \ created :
       e.dev = d /\ ledger[d] # {} => validateEntry(e, ledger[d], StateOf(ledger[d]))]_vars

-----------------------------------------------------------------------------
(***************************************************************************)
(* Convergence.                                                            *)
(***************************************************************************)
Quiet ==
  \A d \in Device : /\ inbox[d] = <<>>
                    /\ refresh[d] = "idle" /\ joining[d] = "no"

\* When nothing is under way, every device that has the group has all of it,
\* and so does the relay.
Converged ==
  Quiet => /\ \A d \in Device : ledger[d] \in {{}, created}
           /\ store = created

\* Whatever is under way elsewhere, a device that has taken in all the relay
\* has sent it misses nothing: pushes and answers (handlePublishEntry,
\* handleGetEntriesAfter) bring each entry in an order in which
\* processIncomingEntry can accept it.
CaughtUp ==
  \A d \in Device : ledger[d] # {} /\ inbox[d] = <<>> => ledger[d] = created

\* Once nothing is under way and every device with the group is connected to
\* the relay, all of them have the same entries, hence the same order.
Agreement ==
  (Quiet /\ \A d \in Device : ledger[d] # {} => conn[d]) =>
    \A c, d \in Device : ledger[c] # {} /\ ledger[d] # {} => ledger[c] = ledger[d]

\* GET_ENTRIES_AFTER returns the missing entries: when nothing is under way
\* and no request of a device would bring anything, it misses nothing.
NothingMissed ==
  Quiet => \A d \in Device :
    conn[d] /\ ledger[d] # {} /\ ~WouldFetch(d) => store \subseteq ledger[d]

-----------------------------------------------------------------------------
\* What runs without the user: messages are delivered and processed, sockets
\* are opened, a join goes on once the ledger is there.
Fairness ==
  \A d \in Device :
    /\ WF_vars(connect(d)) /\ WF_vars(initialSync(d))
    /\ WF_vars(joinGroup(d) \/ joinGroupFails(d))
    /\ WF_vars(processIncomingEntry(d)) /\ WF_vars(syncWithRelayDone(d))

FairSpec == Spec /\ Fairness

\* An edit never waits for ever: the refresh its handler awaits is over in the
\* end, although sockets close, other refreshes take over its request and the
\* group may be deleted meanwhile.
EditsGoOn == \A d \in Device : (\E x \in editing[d] : x.waits) ~> (\A x \in editing[d] : ~x.waits)

\* Every entry reaches every device that has the group: as the entries are
\* bounded, there is a time from which on nothing is missing anywhere.
Delivered ==
  <>[](\A d \in Device : ledger[d] # {} => ledger[d] = created)
=============================================================================
