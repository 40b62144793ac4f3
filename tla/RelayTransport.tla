--------------------------- MODULE RelayTransport ---------------------------
(***************************************************************************)
(* RelayTransport of packages/core/src/sync/relay-transport.ts, driven by  *)
(* SyncManager.startSync and its background timers for several groups of   *)
(* one device, and the connections and rooms of the relay                  *)
(* (packages/relay/src/ws-handler.ts).                                     *)
(*                                                                         *)
(* What entries an answer holds is the subject of SplitLedger; here an     *)
(* answer is the group it is for.  The relay answers in the step that      *)
(* asks, and the answer waits in the inbox of the socket.  A failed or     *)
(* closed socket fires `error` and `close` in one task, which is one step. *)
(***************************************************************************)
EXTENDS Integers, Sequences, SequencesExt

CONSTANTS
  Group,       \* group ids
  MaxStarts,   \* bound: calls of startSync
  MaxFaults,   \* bound: sockets that fail or break, answers that are late
  MaxSockets   \* bound: sockets at a time

ASSUME RelayTransportAssumption ==
  MaxStarts \in Nat /\ MaxFaults \in Nat /\ MaxSockets \in Nat

VARIABLES
  sockets,    \* the sockets, with the rooms the relay has them in
  ws,         \* the current one, or 0
  connected,  \* _connected
  groups,     \* connectedGroups, in the order of insertion
  retry,      \* the reconnection timer runs
  pending,    \* pendingGetEntries: the call that waits for the group, or NoCall
  calls,      \* the calls of startSync and of the background timers
  ticking,    \* the groups whose background timer runs
  starts,     \* calls of startSync so far
  faults

vars == <<sockets, ws, connected, groups, retry, pending, calls, ticking, starts, faults>>

\* Call <<g, 0>> is that of g's background timer, <<g, n>> the n-th of startSync.
Call   == Group \X (0 .. MaxStarts)
NoCall == <<>>

\* There is no end to the sockets made.  A place in Slot is that of a socket
\* until it is closed and nothing refers to it any more.
Slot == 1 .. MaxSockets

\* The rooms of a socket that connects are the one the relay will put it in.
Socket == [state : {"connecting", "open", "closed"}, rooms : SUBSET Group, inbox : Seq(Group)]
NoSocket == [state |-> "closed", rooms |-> {}, inbox |-> <<>>]

\* A call is connecting on a socket, then asking with its timer running, and
\* then settled, by an answer or an error.
CallState == [phase : {"unused", "connecting", "asking", "settled"}, on : Nat]
Settled   == [phase |-> "settled", on |-> 0]

TypeOK ==
  /\ sockets \in [Slot -> Socket]
  /\ ws \in 0 .. MaxSockets
  /\ connected \in BOOLEAN
  /\ groups \in Seq(Group) /\ IsInjective(groups)
  /\ retry \in BOOLEAN
  /\ pending \in [Group -> Call \cup {NoCall}]
  /\ calls \in [Call -> CallState]
  /\ ticking \subseteq Group
  /\ starts \in 0 .. MaxStarts
  /\ faults \in 0 .. MaxFaults

Init ==
  /\ sockets = [s \in Slot |-> NoSocket]
  /\ ws = 0
  /\ connected = FALSE
  /\ groups = <<>>
  /\ retry = FALSE
  /\ pending = [g \in Group |-> NoCall]
  /\ calls = [c \in Call |-> [phase |-> "unused", on |-> 0]]
  /\ ticking = {}
  /\ starts = 0
  /\ faults = 0

GroupOf(c) == c[1]
Asking(c)  == calls[c].phase = "asking"
Open(s)    == sockets[s].state = "open"
Connected  == ws # 0 /\ Open(ws)

Fault == faults < MaxFaults /\ faults' = faults + 1

-----------------------------------------------------------------------------
(***************************************************************************)
(* Requests.                                                               *)
(***************************************************************************)

\* Mutant: the relay does not subscribe who asks.
AskedOnly(S, s, g) == [S EXCEPT ![s].inbox = Append(@, g)]

\* handleGetEntriesAfter answers and subscribes the sender.
Asked(S, s, g) ==
  [S EXCEPT ![s] = [S[s] EXCEPT !.inbox = Append(@, g), !.rooms = @ \cup {g}]]

\* getEntriesAfter, when the sockets are S: the call takes the group's place in
\* pendingGetEntries, whoever had it, and what is sent on a socket that is not
\* open is dropped.
ask(c, S) ==
  /\ pending' = [pending EXCEPT ![GroupOf(c)] = c]
  /\ calls' = [calls EXCEPT ![c] = [phase |-> "asking", on |-> 0]]
  /\ sockets' = IF ws # 0 /\ S[ws].state = "open" THEN Asked(S, ws, GroupOf(c)) ELSE S

\* Mutant: the groups are a list.
AddedTwice(g) == Append(groups, g)

\* connectedGroups.add.
Added(g) == IF Contains(groups, g) THEN groups ELSE Append(groups, g)

\* Nothing refers to the socket that was here.
Unused(s) ==
  /\ sockets[s].state = "closed" /\ s # ws
  /\ \A c \in Call : calls[c] # [phase |-> "connecting", on |-> s]

\* The group is in the socket's URL.
NewSocket(g) == [state |-> "connecting", rooms |-> {g}, inbox |-> <<>>]

\* ensureConnection, up to its wait: a new socket is the current one.
ensureConnection(g) ==
  /\ \E s \in Slot : Unused(s)
  /\ ws' = CHOOSE s \in Slot : Unused(s)
  /\ sockets' = [sockets EXCEPT ![ws'] = NewSocket(g)]

\* SyncManager.startSync: connect, which opens a socket unless the current one
\* is open, and getEntriesAfter.
startSync(g) ==
  /\ starts < MaxStarts /\ starts' = starts + 1
  /\ groups' = Added(g)
  /\ LET c == <<g, starts'>> IN
     IF Connected
     THEN ask(c, sockets) /\ UNCHANGED ws
     ELSE /\ ensureConnection(g)
          /\ calls' = [calls EXCEPT ![c] = [phase |-> "connecting", on |-> ws']]
          /\ UNCHANGED pending
  /\ UNCHANGED <<connected, retry, ticking, faults>>

\* The timer of startBackgroundSync.  Its interval is longer than the timeout
\* of a request, so its last call is over.
tick(g) ==
  /\ g \in ticking /\ ~Asking(<<g, 0>>)
  /\ ask(<<g, 0>>, sockets)
  /\ UNCHANGED <<ws, connected, groups, retry, ticking, starts, faults>>

\* ENTRIES_RESPONSE on socket s, the current one or not: it settles the call
\* that waits for the group, if there is one.  startSync then starts the timer.
answer(s) ==
  /\ Open(s) /\ sockets[s].inbox # <<>>
  /\ LET g == Head(sockets[s].inbox)
         c == pending[g]
     IN /\ sockets' = [sockets EXCEPT ![s].inbox = Tail(@)]
        /\ pending' = [pending EXCEPT ![g] = NoCall]
        /\ calls' = IF c = NoCall THEN calls ELSE [calls EXCEPT ![c] = Settled]
        /\ ticking' = IF c = NoCall \/ c = <<g, 0>> THEN ticking ELSE ticking \cup {g}
  /\ UNCHANGED <<ws, connected, groups, retry, starts, faults>>

\* An answer for g is on its way to an open socket.
UnderWay(g) == \E s \in Slot : Contains(sockets[s].inbox, g)

\* Mutant: a request that takes the place of another clears its timer.
timeoutOfPending(c) ==
  /\ Asking(c) /\ pending[GroupOf(c)] = c
  /\ IF UnderWay(GroupOf(c)) THEN Fault ELSE UNCHANGED faults
  /\ calls' = [calls EXCEPT ![c] = Settled]
  /\ pending' = [pending EXCEPT ![GroupOf(c)] = NoCall]
  /\ UNCHANGED <<sockets, ws, connected, groups, retry, ticking, starts>>

\* The timer of call c.  It deletes what is pending for the group, be it call
\* c or a later one, whose answer is then dropped.  Only a fault makes an
\* answer that would settle the call late.
timeout(c) ==
  /\ Asking(c)
  /\ IF pending[GroupOf(c)] = c /\ UnderWay(GroupOf(c)) THEN Fault ELSE UNCHANGED faults
  /\ calls' = [calls EXCEPT ![c] = Settled]
  /\ pending' = [pending EXCEPT ![GroupOf(c)] = NoCall]
  /\ UNCHANGED <<sockets, ws, connected, groups, retry, ticking, starts>>

\* SyncManager.stopSync.
stopSync(g) ==
  /\ \E i \in DOMAIN groups : groups[i] = g /\ groups' = RemoveAt(groups, i)
  /\ ticking' = ticking \ {g}
  /\ UNCHANGED <<sockets, ws, connected, retry, pending, calls, starts, faults>>

-----------------------------------------------------------------------------
(***************************************************************************)
(* Connections.                                                            *)
(***************************************************************************)

\* handleConnection subscribes the socket to the group in its URL.  The call
\* that awaited it goes on, on the current socket.
opens(s) ==
  /\ sockets[s].state = "connecting"
  /\ connected' = TRUE
  /\ LET S == [sockets EXCEPT ![s].state = "open"]
         waiting == { c \in Call : calls[c] = [phase |-> "connecting", on |-> s] }
     IN IF waiting = {}
        THEN sockets' = S /\ UNCHANGED <<pending, calls>>
        ELSE \E c \in waiting : ask(c, S)
  /\ UNCHANGED <<ws, groups, retry, ticking, starts, faults>>

Gone(s) == [sockets EXCEPT ![s] = NoSocket]

\* The calls that `close` rejects, and the others as they were.
Rejected(cs) == [c \in Call |-> IF c \in cs THEN Settled ELSE calls[c]]
Pending == { pending[g] : g \in Group } \ {NoCall}

\* Mutant: the requests are rejected and kept.
closesKeepingRequests(s, rejected) ==
  /\ sockets' = Gone(s) /\ connected' = FALSE /\ retry' = (groups # <<>>)
  /\ pending' = pending
  /\ calls' = Rejected(rejected \cup Pending)

\* Mutant: the timer is started before the cleanup.
closesCleaningLast(s, rejected) ==
  /\ sockets' = Gone(s) /\ connected' = FALSE /\ retry' = FALSE
  /\ pending' = [g \in Group |-> NoCall]
  /\ calls' = Rejected(rejected \cup Pending)

\* Mutant: the transport stays connected while it has groups.
closesConnected(s, rejected) ==
  /\ sockets' = Gone(s) /\ connected' = (groups # <<>>) /\ retry' = (groups # <<>>)
  /\ pending' = [g \in Group |-> NoCall]
  /\ calls' = Rejected(rejected \cup Pending)

\* The `close` handler of socket s, whichever is the current one: cleanup
\* rejects all that is pending, and scheduleReconnect starts the timer again.
\* The calls in `rejected` have failed already.
closes(s, rejected) ==
  /\ sockets' = Gone(s) /\ connected' = FALSE /\ retry' = (groups # <<>>)
  /\ pending' = [g \in Group |-> NoCall]
  /\ calls' = Rejected(rejected \cup Pending)

\* What five minutes leave the time for: sockets have opened or failed, answers
\* have come, the reconnection timer has fired, and so have, on the current
\* socket, the background timers, every half minute.  (A socket that closes
\* before that is one that breaks.)
TimePassed ==
  /\ \A s \in Slot : sockets[s].state # "connecting" /\ sockets[s].inbox = <<>>
  /\ ~retry
  /\ Connected => \A g \in ticking : g \in sockets[ws].rooms

\* The relay closes a socket on which it has heard nothing for five minutes.
\* The current one is kept busy by the background timers, and by the pings,
\* which start and stop as `connected` does; any other is closed in the end,
\* though nothing fails.
idles(s) ==
  /\ Open(s) /\ TimePassed
  /\ s = ws => ~connected /\ ticking = {}
  /\ closes(s, {})
  /\ UNCHANGED <<ws, groups, ticking, starts, faults>>

\* An open socket breaks, at any time: the relay goes away, or the network.
disconnected(s) ==
  /\ Open(s) /\ Fault
  /\ closes(s, {})
  /\ UNCHANGED <<ws, groups, ticking, starts>>

\* A socket does not open: `error`, which rejects the call that awaits the
\* connection unless the transport counts as connected, and `close`.
fails(s) ==
  /\ sockets[s].state = "connecting" /\ Fault
  /\ closes(s, { c \in Call : ~connected /\ calls[c] = [phase |-> "connecting", on |-> s] })
  /\ UNCHANGED <<ws, groups, ticking, starts>>

\* The callback of scheduleReconnect: a new socket for the first group.
reconnect ==
  /\ retry /\ retry' = FALSE
  /\ IF groups = <<>>
     THEN UNCHANGED <<sockets, ws>>
     ELSE ensureConnection(Head(groups))
  /\ UNCHANGED <<connected, groups, pending, calls, ticking, starts, faults>>

-----------------------------------------------------------------------------
Next ==
  \/ \E g \in Group : startSync(g) \/ tick(g) \/ stopSync(g)
  \/ \E c \in Call : timeout(c)
  \/ \E s \in Slot : opens(s) \/ answer(s) \/ idles(s) \/ disconnected(s) \/ fails(s)
  \/ reconnect

Spec == Init /\ [][Next]_vars

-----------------------------------------------------------------------------
(***************************************************************************)
(* What the transport promises.                                            *)
(***************************************************************************)

\* A call that is pending is one that is asking for that group, so an answer
\* never settles a call twice and no timeout of a settled call is left behind
\* to delete another one.
PendingAsks ==
  \A g \in Group : pending[g] # NoCall => GroupOf(pending[g]) = g /\ Asking(pending[g])

\* The transport counts as connected only while some socket is open.  (It may
\* count as disconnected while the current one is open, when an old one closed.)
ConnectedIsOpen ==
  connected => \E s \in Slot : Open(s)

\* A device that has groups is never left alone: its current socket is open or
\* connecting, or the reconnection timer runs.  `close` of any socket clears
\* that timer (cleanup) and starts it (scheduleReconnect), connect makes another
\* socket while it runs, and its callback may find no group.
NeverStranded ==
  groups # <<>> => retry \/ (ws # 0 /\ sockets[ws].state # "closed")

-----------------------------------------------------------------------------
(***************************************************************************)
(* What happens without the user.  A socket that is made opens or fails,   *)
(* a message is delivered, timers fire.                                    *)
(***************************************************************************)
Fairness ==
  /\ \A s \in Slot : WF_vars(opens(s)) /\ WF_vars(answer(s))
  /\ \A c \in Call : WF_vars(timeout(c))
  /\ \A g \in Group : WF_vars(tick(g))
  /\ WF_vars(reconnect)

FairSpec == Spec /\ Fairness

\* Every request is settled: by an answer, a closed connection or its timer,
\* also when a later request has taken its place.
RequestsSettle == \A c \in Call : Asking(c) ~> ~Asking(c)

\* A device with groups is connected again and again, however often the close
\* of an old socket makes it give up its current one.  (It need not stay
\* connected, though nothing fails: see idles.)
Reconnects == []<>(groups # <<>> => Connected)

\* Once nothing fails the relay pushes every connected group that is synced in the
\* background, though a reconnection only subscribes the first: the timers ask
\* again.  (A group that is not connected may be left with a timer: stopSync
\* came while startSync waited.)
Subscribed ==
  <>[](\A g \in ticking : Contains(groups, g) =>
         \E s \in Slot : Open(s) /\ g \in sockets[s].rooms)
=============================================================================
