------------------------- MODULE CompositeTransport -------------------------
(***************************************************************************)
(* The devices of one group that run SyncManager over CompositeTransport   *)
(* (packages/core/src/sync), which sends every entry through the relay and *)
(* directly to the connected peers, and drops what comes in a second time. *)
(* The web application runs SyncManager over the relay alone.              *)
(*                                                                         *)
(* Abstractions.  An entry is valid once the entry it follows is there.    *)
(* The storage is in memory: a handler runs to the end of its entry.  A    *)
(* broadcast encrypts anew, with a nonce of its own, so that the copies of *)
(* an entry that two broadcasts send differ; `cipher` tells them apart.    *)
(* The relay's pushes and answers come in order; streams between peers     *)
(* each on their own, late or, if they break, never.                       *)
(***************************************************************************)
EXTENDS Integers, FiniteSets, Sequences, SequencesExt

CONSTANTS
  Device,
  Writers,       \* the devices that write
  SeenSize,      \* maxSeenSize
  Evicted,       \* how many of the oldest marks are evicted at once
  MaxEntries,    \* bound: entries written
  MaxPublished,  \* bound: broadcasts
  MaxFaults      \* bound: connections that fail or break, syncs that are stopped

ASSUME CompositeAssumption ==
  /\ Device \subseteq Nat
  /\ Writers \subseteq Device
  /\ SeenSize \in Nat /\ Evicted \in 1 .. SeenSize
  /\ MaxEntries \in Nat /\ MaxPublished \in Nat /\ MaxFaults \in Nat

VARIABLES
  created,    \* every entry written
  ledger,     \* ledger[d]: the entries in d's storage
  published,  \* broadcasts so far
  seen,       \* seen[d]: seenEntries of d's composite transport, oldest first
  marked,     \* marked[d]: all that was ever put into it (history)
  heard,      \* heard[d]: seenEntryIds of d's P2P transport
  wanted,     \* wanted[d]: the group is in connectedGroups
  call,       \* call[d]: what startSync of d awaits
  timer,      \* timer[d]: the background timer of d is on
  online,     \* online[d]: d's socket is open, which subscribes it to the room
  inbox,      \* inbox[d]: what the relay has sent d, oldest first
  node,       \* node[d]: d's libp2p node
  streams,    \* what peers have sent each other
  store,      \* the relay's copies
  faults      \* faults so far

sync    == <<wanted, call, timer>>
network == <<online, inbox, node, streams, store>>
vars == <<created, ledger, published, seen, marked, heard, wanted, call, timer,
          online, inbox, node, streams, store, faults>>

NoHash == 0

Entry == [id : Nat \ {NoHash}, prev : Nat, clock : Nat, dev : Device]

\* entryKey: clock, sender and the beginning of the ciphertext.  What is sent
\* when the entries written are those of C.
Copy(C)    == [entry : C, cipher : Nat]
Message(C) == [kind : {"new", "entries"}, copies : SUBSET Copy(C)]
Stream(C)  == [to : Device, copy : Copy(C)]

TypeOK ==
  /\ created \subseteq Entry
  /\ ledger \in [Device -> SUBSET created]
  /\ published \in 0 .. MaxPublished
  /\ seen \in [Device -> Seq(Copy(created))]
  /\ marked \in [Device -> Seq(Copy(created))]
  /\ heard \in [Device -> SUBSET (Nat \X Device)]
  /\ wanted \in [Device -> BOOLEAN]
  /\ call \in [Device -> {"idle", "relay", "p2p", "answer"}]
  /\ timer \in [Device -> BOOLEAN]
  /\ online \in [Device -> BOOLEAN]
  /\ inbox \in [Device -> Seq(Message(created))]
  /\ node \in [Device -> {"none", "dead", "up"}]
  /\ streams \subseteq Stream(created)
  /\ store \subseteq Copy(created)
  /\ faults \in 0 .. MaxFaults

Init ==
  /\ created = {} /\ published = 0 /\ faults = 0
  /\ ledger = [d \in Device |-> {}]
  /\ seen = [d \in Device |-> <<>>] /\ marked = [d \in Device |-> <<>>]
  /\ heard = [d \in Device |-> {}]
  /\ wanted = [d \in Device |-> FALSE]
  /\ call = [d \in Device |-> "idle"]
  /\ timer = [d \in Device |-> FALSE]
  /\ online = [d \in Device |-> FALSE]
  /\ inbox = [d \in Device |-> <<>>]
  /\ node = [d \in Device |-> "none"]
  /\ streams = {} /\ store = {}

Fault == faults < MaxFaults /\ faults' = faults + 1

-----------------------------------------------------------------------------
(***************************************************************************)
(* What has been seen.                                                     *)
(***************************************************************************)
\* Mutant: the newest marks are evicted.
EvictNewest(s) == IF Len(s) > SeenSize THEN SubSeq(s, 1, SeenSize + 1 - Evicted) ELSE s

\* The oldest marks go once there are too many.
Evict(s) == IF Len(s) > SeenSize THEN SubSeq(s, Evicted + 1, Len(s)) ELSE s

Seen(d, c) == c \in ToSet(seen[d])

markSeen(d, c) ==
  IF Seen(d, c)
  THEN UNCHANGED <<seen, marked>>
  ELSE /\ seen' = [seen EXCEPT ![d] = Evict(Append(@, c))]
       /\ marked' = [marked EXCEPT ![d] = Append(@, c)]

\* Mutant: an entry is stored whether or not the one it follows is there.
AcceptsAny(e, L) == e \notin L

\* processIncomingEntry, on a storage that holds L.
Accepts(e, L) ==
  /\ e \notin L
  /\ IF e.prev = NoHash THEN L = {} ELSE \E f \in L : f.id = e.prev

process(d, e) ==
  ledger' = [ledger EXCEPT ![d] = IF Accepts(e, @) THEN @ \cup {e} ELSE @]

\* What comes from either transport is marked before it is looked at.
handleIncoming(d, c) ==
  /\ markSeen(d, c)
  /\ IF Seen(d, c) THEN UNCHANGED ledger ELSE process(d, c.entry)

-----------------------------------------------------------------------------
(***************************************************************************)
(* The relay.                                                              *)
(***************************************************************************)
\* UNIQUE(group, clock, sender).
Storable(c) ==
  \A f \in store : ~ (f.entry.clock = c.entry.clock /\ f.entry.dev = c.entry.dev)

Clock(L) == IF L = {} THEN -1 ELSE CHOOSE k \in { e.clock : e \in L } : \A e \in L : e.clock <= k

CopiesAfter(k) == { c \in store : c.entry.clock > k }

Awaiting(d) == \E i \in DOMAIN inbox[d] : inbox[d][i].kind = "entries"

\* Mutant: what the relay answers is deduplicated like what it pushes.
AnswerUnseen(d) == { c \in CopiesAfter(Clock(ledger[d])) : ~Seen(d, c) }

\* getEntriesAfter goes to the relay, past the composite's marks.
Answer(d) == CopiesAfter(Clock(ledger[d]))

\* A request on a closed socket is lost; startSync then fails on its timeout.
ask(d) ==
  /\ online[d]
  /\ inbox' = IF Awaiting(d) THEN inbox
              ELSE [inbox EXCEPT ![d] = Append(@, [kind |-> "entries", copies |-> Answer(d)])]

-----------------------------------------------------------------------------
(***************************************************************************)
(* Writing.                                                                *)
(***************************************************************************)
\* A stream to a peer that is not connected is one that never arrives.
Peers(d) == { x \in Device \ {d} : node[d] = "up" /\ node[x] = "up" }

\* SyncManager.broadcastEntry and CompositeTransport.publishEntry.
broadcastEntry(d, e) ==
  LET c == [entry |-> e, cipher |-> published + 1]
      stored == online[d] /\ Storable(c)
  IN /\ published < MaxPublished /\ published' = published + 1
     /\ markSeen(d, c)
     /\ store' = IF stored THEN store \cup {c} ELSE store
     /\ inbox' = [x \in Device |->
                    IF stored /\ online[x] /\ x # d
                    THEN Append(inbox[x], [kind |-> "new", copies |-> {c}]) ELSE inbox[x]]
     /\ streams' = streams \cup { [to |-> x, copy |-> c] : x \in Peers(d) }
     /\ UNCHANGED <<heard, sync, online, node, faults>>

\* What the next entry follows: the latest, or nothing in a new group.
Latest(L) == { f \in L : \A g \in L : g.clock <= f.clock }
NoEntry   == [id |-> NoHash, clock |-> -1]

\* Mutant: the clock is that of the entry before.
buildEntryClockOfLast(d, last) ==
  [id |-> Cardinality(created) + 1, prev |-> last.id, clock |-> last.clock, dev |-> d]

buildEntry(d, last) ==
  [id |-> Cardinality(created) + 1, prev |-> last.id, clock |-> last.clock + 1, dev |-> d]

write(d) ==
  /\ d \in Writers /\ Cardinality(created) < MaxEntries
  /\ \E last \in IF created = {} THEN {NoEntry} ELSE Latest(ledger[d]) :
       LET e == buildEntry(d, last)
       IN /\ created' = created \cup {e}
          /\ ledger' = [ledger EXCEPT ![d] = @ \cup {e}]
          /\ broadcastEntry(d, e)

\* An entry is sent once more, by whoever has it.
publishAgain(d) ==
  /\ \E e \in ledger[d] : broadcastEntry(d, e)
  /\ UNCHANGED <<created, ledger>>

-----------------------------------------------------------------------------
(***************************************************************************)
(* Receiving.                                                              *)
(***************************************************************************)
pushed(d) ==
  /\ inbox[d] # <<>> /\ Head(inbox[d]).kind = "new"
  /\ \E c \in Head(inbox[d]).copies : handleIncoming(d, c)
  /\ inbox' = [inbox EXCEPT ![d] = Tail(@)]
  /\ UNCHANGED <<created, published, heard, sync, online, node, streams, store, faults>>

\* The next entry of an answer, in the order of the clocks.
answered(d) ==
  /\ inbox[d] # <<>> /\ Head(inbox[d]).kind = "entries"
  /\ \E c \in Head(inbox[d]).copies :
       LET rest == [Head(inbox[d]) EXCEPT !.copies = @ \ {c}]
       IN /\ \A f \in rest.copies : c.entry.clock <= f.entry.clock
          /\ process(d, c.entry)
          /\ inbox' = [inbox EXCEPT ![d] = <<rest>> \o Tail(@)]
  /\ UNCHANGED <<created, published, seen, marked, heard, sync, online, node,
                 streams, store, faults>>

\* The answer is processed; startSync then starts the timer.
syncComplete(d) ==
  /\ inbox[d] # <<>> /\ Head(inbox[d]).kind = "entries" /\ Head(inbox[d]).copies = {}
  /\ inbox' = [inbox EXCEPT ![d] = Tail(@)]
  /\ call' = [call EXCEPT ![d] = IF @ = "answer" THEN "idle" ELSE @]
  /\ timer' = [timer EXCEPT ![d] = @ \/ call[d] = "answer"]
  /\ UNCHANGED <<created, ledger, published, seen, marked, heard, wanted, online, node,
                 streams, store, faults>>

\* The handler of PROTOCOL.  It has marks of its own, which tell an entry
\* by its clock and sender.
streamArrives(d) ==
  /\ node[d] = "up"
  /\ \E s \in streams :
       LET id == <<s.copy.entry.clock, s.copy.entry.dev>>
       IN /\ s.to = d
          /\ streams' = streams \ {s}
          /\ heard' = [heard EXCEPT ![d] = @ \cup {id}]
          /\ IF id \in heard[d] THEN UNCHANGED <<seen, marked, ledger>>
             ELSE handleIncoming(d, s.copy)
  /\ UNCHANGED <<created, published, sync, online, inbox, node, store, faults>>

-----------------------------------------------------------------------------
(***************************************************************************)
(* Connections.                                                            *)
(***************************************************************************)
startSync(d) ==
  /\ call[d] = "idle" /\ ~ (wanted[d] /\ timer[d])
  /\ call' = [call EXCEPT ![d] = "relay"]
  /\ wanted' = [wanted EXCEPT ![d] = TRUE]
  /\ UNCHANGED <<created, ledger, published, seen, marked, heard, timer, network, faults>>

\* The relay is required: without it connect fails, and startSync with it.
relayConnects(d) ==
  /\ call[d] = "relay"
  /\ \/ /\ online' = [online EXCEPT ![d] = TRUE]
        /\ call' = [call EXCEPT ![d] = "p2p"]
        /\ UNCHANGED faults
     \/ /\ ~online[d] /\ Fault
        /\ call' = [call EXCEPT ![d] = "idle"]
        /\ UNCHANGED online
  /\ UNCHANGED <<created, ledger, published, seen, marked, heard, wanted, timer, inbox, node,
                 streams, store>>

\* Peers are optional.  A node that was created and does not start stays, and
\* connect does not try again.
startNode(d) ==
  \/ node[d] # "none" /\ UNCHANGED <<node, faults>>
  \/ node[d] = "none" /\ node' = [node EXCEPT ![d] = "up"] /\ UNCHANGED faults
  \/ node[d] = "none" /\ Fault /\ \E n \in {"none", "dead"} : node' = [node EXCEPT ![d] = n]

p2pConnects(d) ==
  /\ call[d] = "p2p"
  /\ startNode(d)
  /\ IF online[d]
     THEN ask(d) /\ call' = [call EXCEPT ![d] = "answer"]
     ELSE call' = [call EXCEPT ![d] = "idle"] /\ UNCHANGED inbox
  /\ UNCHANGED <<created, ledger, published, seen, marked, heard, wanted, timer, online,
                 streams, store>>

\* The background timer, left out when it would find nothing.
tick(d) ==
  /\ timer[d] /\ ~Awaiting(d) /\ CopiesAfter(Clock(ledger[d])) # {}
  /\ ask(d)
  /\ UNCHANGED <<created, ledger, published, seen, marked, heard, sync, online, node,
                 streams, store, faults>>

\* SyncManager.stopSync: the socket stays open, the node is stopped with the
\* streams it has not read.  A startSync under way goes on.
stopSync(d) ==
  /\ wanted[d] /\ Fault
  /\ wanted' = [wanted EXCEPT ![d] = FALSE]
  /\ timer' = [timer EXCEPT ![d] = FALSE]
  /\ node' = [node EXCEPT ![d] = "none"]
  /\ streams' = { s \in streams : s.to # d }
  /\ UNCHANGED <<created, ledger, published, seen, marked, heard, call, online, inbox, store>>

\* The socket closes, with all that is in flight on it.
drop(d) ==
  /\ online[d] /\ Fault
  /\ online' = [online EXCEPT ![d] = FALSE]
  /\ inbox' = [inbox EXCEPT ![d] = <<>>]
  /\ call' = [call EXCEPT ![d] = IF @ = "answer" THEN "idle" ELSE @]
  /\ UNCHANGED <<created, ledger, published, seen, marked, heard, wanted, timer, node,
                 streams, store>>

reconnect(d) ==
  /\ ~online[d] /\ wanted[d] /\ call[d] # "relay"
  /\ online' = [online EXCEPT ![d] = TRUE]
  /\ UNCHANGED <<created, ledger, published, seen, marked, heard, sync, inbox, node,
                 streams, store, faults>>

Step(d) ==
  \/ write(d) \/ publishAgain(d)
  \/ pushed(d) \/ answered(d) \/ syncComplete(d) \/ streamArrives(d)
  \/ startSync(d) \/ relayConnects(d) \/ p2pConnects(d) \/ tick(d) \/ stopSync(d)
  \/ drop(d) \/ reconnect(d)

Next == \E d \in Device : Step(d)

Spec == Init /\ [][Next]_vars

\* What the relay sends is handled, a lost connection comes back, and the
\* background timer fires.  Streams between peers may never arrive.
Fairness ==
  \A d \in Device :
    /\ WF_vars(pushed(d)) /\ WF_vars(answered(d)) /\ WF_vars(syncComplete(d))
    /\ WF_vars(tick(d)) /\ WF_vars(reconnect(d))

FairSpec == Spec /\ Fairness

-----------------------------------------------------------------------------
(***************************************************************************)
(* Properties.                                                             *)
(***************************************************************************)

\* As long as one device writes, the others hold a prefix of what it has
\* written, in whatever order streams and pushes come (SyncManager drops what
\* comes too early).  So the next request, which asks for what is later than
\* the last, asks for all that a device has missed.
HoldsPrefix ==
  \A d \in Device : \A f \in ledger[d], e \in created :
    e.clock <= f.clock => e \in ledger[d]

\* CompositeTransport hands a copy on once, whether it comes from the relay, a
\* peer or this device, until more than SeenSize - Evicted others came between.
HandedOnce ==
  \A d \in Device : \A i, j \in DOMAIN marked[d] :
    i < j /\ marked[d][i] = marked[d][j] => j - i > SeenSize - Evicted + 1

Synced(d) == wanted[d] /\ timer[d]

Stored(n) == \A k \in 1 .. n : \E c \in store : c.entry.id = k

\* A reader that syncs the group in the background gets what the relay stores,
\* even what it has marked as seen and refused because it came too early.
Delivered ==
  \A d \in Device \ Writers : \A n \in 1 .. MaxEntries :
    Synced(d) /\ Stored(n) ~> ~Synced(d) \/ \E e \in ledger[d] : e.id = n
=============================================================================
