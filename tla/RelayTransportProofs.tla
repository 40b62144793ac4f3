------------------------ MODULE RelayTransportProofs ------------------------
(***************************************************************************)
(* For any groups and bounds, the state of RelayTransport has its type,    *)
(* what is pending is a request that waits, and the transport counts as    *)
(* connected only while some socket is open.                               *)
(***************************************************************************)
EXTENDS RelayTransport, TLAPS

-----------------------------------------------------------------------------
(* Sequences of sockets and of groups.                                     *)

LEMMA AddedTyped ==
  ASSUME NEW g \in Group, groups \in Seq(Group), IsInjective(groups)
  PROVE  Added(g) \in Seq(Group) /\ IsInjective(Added(g))
  <1>1. CASE Contains(groups, g)
    BY <1>1 DEF Added
  <1>2. CASE ~Contains(groups, g)
    <2>1. Append(groups, g) \in Seq(Group)
      OBVIOUS
    <2>2. \A i \in 1 .. Len(groups) : groups[i] # g
      BY <1>2 DEF Contains
    <2>3. IsInjective(Append(groups, g))
      BY <2>2 DEF IsInjective
    <2> QED BY <1>2, <2>1, <2>3 DEF Added
  <1> QED BY <1>1, <1>2

LEMMA RemovedTyped ==
  ASSUME groups \in Seq(Group), IsInjective(groups), NEW i \in DOMAIN groups
  PROVE  RemoveAt(groups, i) \in Seq(Group) /\ IsInjective(RemoveAt(groups, i))
  <1> DEFINE p == SubSeq(groups, 1, i - 1)
             q == SubSeq(groups, i + 1, Len(groups))
             n == Len(groups)
  <1>1. i \in 1 .. n /\ n \in Nat
    OBVIOUS
  <1>2. p \in Seq(Group) /\ Len(p) = i - 1 /\ \A k \in 1 .. i - 1 : p[k] = groups[k]
    BY <1>1
  <1>3. q \in Seq(Group) /\ Len(q) = n - i /\ \A k \in 1 .. n - i : q[k] = groups[k + i]
    BY <1>1
  <1> HIDE DEF p, q
  <1>4. (p \o q) \in Seq(Group) /\ Len(p \o q) = n - 1
    BY <1>1, <1>2, <1>3
  <1> DEFINE r == p \o q
  <1>5. \A k \in 1 .. n - 1 : r[k] = IF k < i THEN groups[k] ELSE groups[k + 1]
    BY <1>1, <1>2, <1>3
  <1> HIDE DEF r
  <1>6. \A a, b \in 1 .. n : groups[a] = groups[b] => a = b
    BY DEF IsInjective
  <1>7. ASSUME NEW a \in 1 .. n - 1, NEW b \in 1 .. n - 1, r[a] = r[b]
        PROVE  a = b
    <2> DEFINE at(k) == IF k < i THEN k ELSE k + 1
    <2>1. at(a) \in 1 .. n /\ at(b) \in 1 .. n
      BY <1>1
    <2>2. groups[at(a)] = groups[at(b)]
      BY <1>5, <1>7
    <2>3. at(a) = at(b)
      BY <1>6, <2>1, <2>2
    <2> QED BY <1>1, <2>3
  <1>8. DOMAIN r = 1 .. n - 1
    BY <1>1, <1>4 DEF r
  <1>9. IsInjective(r)
    BY <1>7, <1>8 DEF IsInjective
  <1> QED BY <1>4, <1>9 DEF RemoveAt, p, q, r

-----------------------------------------------------------------------------
(* The calls that startSync has not made yet are unused, so the one it     *)
(* makes is not pending already.                                           *)
Fresh == \A c \in Call : c[2] > starts => calls[c].phase = "unused"

IInv == TypeOK /\ PendingAsks /\ ConnectedIsOpen /\ Fresh

THEOREM InitIInv == Init => IInv
  <1> SUFFICES ASSUME Init PROVE IInv
    OBVIOUS
  <1>1. <<>> \in Seq(Group) /\ IsInjective(<<>>) /\ Len(<<>>) = 0
    BY DEF IsInjective
  <1>2. [phase |-> "unused", on |-> 0] \in CallState
    BY DEF CallState
  <1>3. TypeOK
    <2>1. sockets \in [Slot -> Socket] /\ ws \in 0 .. MaxSockets
          /\ groups \in Seq(Group) /\ IsInjective(groups)
      BY <1>1, RelayTransportAssumption DEF Init, NoSocket, Socket
    <2>2. pending \in [Group -> Call \cup {NoCall}] /\ calls \in [Call -> CallState]
      BY <1>2 DEF Init
    <2>3. starts \in 0 .. MaxStarts /\ faults \in 0 .. MaxFaults
      BY RelayTransportAssumption DEF Init
    <2> QED BY <2>1, <2>2, <2>3 DEF Init, TypeOK
  <1>4. PendingAsks /\ ConnectedIsOpen /\ Fresh
    BY DEF Init, PendingAsks, ConnectedIsOpen, Fresh
  <1> QED BY <1>3, <1>4 DEF IInv

\* The place that a new socket gets is one, and it is not in use.
LEMMA UnusedChosen ==
  ASSUME NEW g \in Group, sockets \in [Slot -> Socket], ensureConnection(g)
  PROVE  /\ ws' \in Slot /\ ws' \in 1 .. MaxSockets /\ ws' # 0
         /\ sockets' \in [Slot -> Socket]
         /\ sockets[ws'].state = "closed" /\ sockets'[ws'].state = "connecting"
         /\ \A s \in Slot : s # ws' => sockets'[s] = sockets[s]
  <1>1. ws' \in Slot /\ Unused(ws')
    BY DEF ensureConnection
  <1>2. NewSocket(g) \in Socket /\ NewSocket(g).state = "connecting"
    BY DEF NewSocket, Socket
  <1>3. sockets' = [sockets EXCEPT ![ws'] = NewSocket(g)]
    BY DEF ensureConnection
  <1>4. ws' \in 1 .. MaxSockets /\ ws' # 0
    BY <1>1, RelayTransportAssumption DEF Slot
  <1> QED BY <1>1, <1>2, <1>3, <1>4 DEF Unused

(***************************************************************************)
(* A request keeps the states of the sockets.                              *)
(***************************************************************************)
LEMMA AskKeeps ==
  ASSUME IInv, NEW c \in Call, NEW S \in [Slot -> Socket], ask(c, S)
  PROVE  /\ pending' \in [Group -> Call \cup {NoCall}]
         /\ calls' \in [Call -> CallState]
         /\ sockets' \in [Slot -> Socket]
         /\ \A s \in Slot : sockets'[s].state = S[s].state
         /\ PendingAsks'
         /\ \A d \in Call : d # c => calls'[d] = calls[d]
  <1> USE DEF IInv, TypeOK
  <1>1. GroupOf(c) \in Group
    BY DEF GroupOf, Call
  <1>2. pending' = [pending EXCEPT ![GroupOf(c)] = c]
        /\ calls' = [calls EXCEPT ![c] = [phase |-> "asking", on |-> 0]]
    BY DEF ask
  <1>3. pending' \in [Group -> Call \cup {NoCall}] /\ calls' \in [Call -> CallState]
    BY <1>1, <1>2 DEF CallState
  <1>4. PendingAsks'
    BY <1>1, <1>2 DEF PendingAsks, Asking, GroupOf
  <1>5. sockets' \in [Slot -> Socket]
        /\ \A s \in Slot : sockets'[s].state = S[s].state
    <2>1. CASE ws # 0 /\ S[ws].state = "open"
      <3> DEFINE k == [S[ws] EXCEPT !.inbox = Append(@, GroupOf(c)),
                                    !.rooms = @ \cup {GroupOf(c)}]
      <3>1. ws \in Slot
        BY <2>1, RelayTransportAssumption DEF Slot
      <3>0. S[ws] \in Socket
        BY <3>1
      <3>2. Append(S[ws].inbox, GroupOf(c)) \in Seq(Group)
            /\ S[ws].rooms \cup {GroupOf(c)} \in SUBSET Group
        BY <1>1, <3>0 DEF Socket
      <3>3. k \in Socket /\ k.state = S[ws].state
        BY <3>0, <3>2 DEF Socket
      <3>4. sockets' = Asked(S, ws, GroupOf(c))
        BY <2>1 DEF ask
      <3>5. Asked(S, ws, GroupOf(c)) = [S EXCEPT ![ws] = k]
        BY DEF Asked
      <3> HIDE DEF k
      <3> QED BY <3>1, <3>3, <3>4, <3>5
    <2>2. CASE ~(ws # 0 /\ S[ws].state = "open")
      BY <2>2 DEF ask
    <2> QED BY <2>1, <2>2
  <1> QED BY <1>2, <1>3, <1>4, <1>5

(***************************************************************************)
(* The actions.                                                            *)
(***************************************************************************)
LEMMA startSyncKeeps ==
  ASSUME IInv, NEW g \in Group, startSync(g)
  PROVE  IInv'
  <1> USE DEF IInv, TypeOK
  <1> DEFINE c == <<g, starts'>>
  <1>1. starts' \in 0 .. MaxStarts /\ starts' = starts + 1 /\ c \in Call /\ c[2] = starts'
    BY RelayTransportAssumption DEF startSync, Call
  <1>2. groups' \in Seq(Group) /\ IsInjective(groups')
    BY AddedTyped DEF startSync
  <1> HIDE DEF c
  <1>3. calls[c].phase = "unused" /\ \A h \in Group : pending[h] # c
    <2>1. calls[c].phase = "unused" /\ c # NoCall
      BY <1>1 DEF Fresh, NoCall, Call
    <2> QED BY <2>1 DEF PendingAsks, Asking
  <1>4. CASE Connected
    <2>1. ask(c, sockets) /\ UNCHANGED <<ws, connected, retry, ticking, faults>>
      BY <1>4 DEF startSync, c
    <2>2. PendingAsks' /\ TypeOK'
      BY <1>1, <1>2, <2>1, AskKeeps
    <2>3. ConnectedIsOpen'
      BY <1>1, <2>1, AskKeeps DEF ConnectedIsOpen, Open
    <2>4. Fresh'
      <3> SUFFICES ASSUME NEW d \in Call, d[2] > starts' PROVE calls'[d].phase = "unused"
        BY DEF Fresh
      <3>1. d # c /\ d[2] > starts
        BY <1>1 DEF Call
      <3> QED BY <1>1, <2>1, <3>1, AskKeeps DEF Fresh
    <2> QED BY <2>2, <2>3, <2>4
  <1>5. CASE ~Connected
    <2>1. /\ ensureConnection(g)
          /\ calls' = [calls EXCEPT ![c] = [phase |-> "connecting", on |-> ws']]
          /\ UNCHANGED <<pending, connected, retry, ticking, faults>>
      BY <1>5 DEF startSync, c
    <2>3. /\ ws' \in 1 .. MaxSockets /\ sockets' \in [Slot -> Socket]
          /\ sockets[ws'].state = "closed"
          /\ \A s \in Slot : s # ws' => sockets'[s] = sockets[s]
      BY <2>1, UnusedChosen
    <2>4. calls' \in [Call -> CallState] /\ \A d \in Call : d # c => calls'[d] = calls[d]
      BY <1>1, <2>1, <2>3 DEF CallState
    <2>5. TypeOK'
      BY <1>1, <1>2, <2>1, <2>3, <2>4, RelayTransportAssumption
    <2>6. PendingAsks'
      BY <1>3, <2>1, <2>4 DEF PendingAsks, Asking, NoCall
    <2>7. ConnectedIsOpen'
      BY <2>1, <2>3 DEF ConnectedIsOpen, Open
    <2>8. Fresh'
      <3> SUFFICES ASSUME NEW d \in Call, d[2] > starts' PROVE calls'[d].phase = "unused"
        BY DEF Fresh
      <3>1. d # c /\ d[2] > starts
        BY <1>1 DEF Call
      <3> QED BY <2>4, <3>1 DEF Fresh
    <2> QED BY <2>5, <2>6, <2>7, <2>8
  <1> QED BY <1>4, <1>5

LEMMA tickKeeps ==
  ASSUME IInv, NEW g \in Group, tick(g)
  PROVE  IInv'
  <1> USE DEF IInv, TypeOK
  <1> DEFINE c == <<g, 0>>
  <1>1. c \in Call /\ c[2] = 0
    BY RelayTransportAssumption DEF Call
  <1>2. ask(c, sockets)
        /\ UNCHANGED <<ws, connected, groups, retry, ticking, starts, faults>>
    BY DEF tick
  <1> HIDE DEF c
  <1>3. PendingAsks' /\ TypeOK'
    BY <1>1, <1>2, AskKeeps
  <1>4. ConnectedIsOpen'
    BY <1>1, <1>2, AskKeeps DEF ConnectedIsOpen, Open
  <1>5. \A d \in Call : d[2] > starts => d # c
    BY <1>1
  <1>6. Fresh'
    BY <1>1, <1>2, <1>5, AskKeeps DEF Fresh
  <1> QED BY <1>3, <1>4, <1>6

LEMMA answerKeeps ==
  ASSUME IInv, NEW s \in Slot, answer(s)
  PROVE  IInv'
  <1> USE DEF IInv, TypeOK
  <1> DEFINE g == Head(sockets[s].inbox)
             c == pending[g]
  <1>1. sockets[s] \in Socket
    OBVIOUS
  <1>2. g \in Group /\ Tail(sockets[s].inbox) \in Seq(Group) /\ c \in Call \cup {NoCall}
    BY <1>1 DEF answer, Socket
  <1>3. /\ sockets' = [sockets EXCEPT ![s].inbox = Tail(@)]
        /\ pending' = [pending EXCEPT ![g] = NoCall]
        /\ calls' = IF c = NoCall THEN calls ELSE [calls EXCEPT ![c] = Settled]
        /\ ticking' = IF c = NoCall \/ c = <<g, 0>> THEN ticking ELSE ticking \cup {g}
        /\ UNCHANGED <<ws, connected, groups, retry, starts, faults>>
    BY DEF answer
  <1> HIDE DEF g
  <1>4. sockets' \in [Slot -> Socket]
        /\ \A t \in Slot : sockets'[t].state = sockets[t].state
    <2> DEFINE k == [sockets[s] EXCEPT !.inbox = Tail(@)]
    <2>1. k \in Socket /\ k.state = sockets[s].state
      BY <1>1, <1>2 DEF Socket, g
    <2>2. sockets' = [sockets EXCEPT ![s] = k]
      BY <1>3
    <2> HIDE DEF k
    <2> QED BY <2>1, <2>2
  <1>5. Settled \in CallState
    BY DEF Settled, CallState
  <1>6. TypeOK'
    BY <1>2, <1>3, <1>4, <1>5
  <1>7. PendingAsks'
    BY <1>2, <1>3 DEF PendingAsks, Asking
  <1>8. ConnectedIsOpen'
    BY <1>3, <1>4 DEF ConnectedIsOpen, Open
  <1>9. Fresh'
    BY <1>2, <1>3 DEF Fresh, PendingAsks, Asking
  <1> QED BY <1>6, <1>7, <1>8, <1>9

LEMMA timeoutKeeps ==
  ASSUME IInv, NEW c \in Call, timeout(c)
  PROVE  IInv'
  <1> USE DEF IInv, TypeOK
  <1>1. GroupOf(c) \in Group /\ Settled \in CallState
    BY DEF GroupOf, Call, Settled, CallState
  <1>2. /\ calls' = [calls EXCEPT ![c] = Settled]
        /\ pending' = [pending EXCEPT ![GroupOf(c)] = NoCall]
        /\ UNCHANGED <<sockets, ws, connected, groups, retry, ticking, starts>>
        /\ faults' \in 0 .. MaxFaults
    BY RelayTransportAssumption DEF timeout, Fault
  <1>3. TypeOK'
    BY <1>1, <1>2
  <1>4. PendingAsks'
    BY <1>1, <1>2 DEF PendingAsks, Asking
  <1>5. ConnectedIsOpen'
    BY <1>2 DEF ConnectedIsOpen, Open
  <1>6. Fresh'
    BY <1>2 DEF timeout, Asking, Fresh
  <1> QED BY <1>3, <1>4, <1>5, <1>6

LEMMA stopSyncKeeps ==
  ASSUME IInv, NEW g \in Group, stopSync(g)
  PROVE  IInv'
  <1> USE DEF IInv, TypeOK
  <1>1. groups' \in Seq(Group) /\ IsInjective(groups')
    BY RemovedTyped DEF stopSync
  <1>2. TypeOK'
    BY <1>1 DEF stopSync
  <1>3. PendingAsks' /\ ConnectedIsOpen' /\ Fresh'
    BY DEF stopSync, PendingAsks, Asking, ConnectedIsOpen, Open, Fresh
  <1> QED BY <1>2, <1>3

LEMMA opensKeeps ==
  ASSUME IInv, NEW s \in Slot, opens(s)
  PROVE  IInv'
  <1> USE DEF IInv, TypeOK
  <1> DEFINE k == [sockets[s] EXCEPT !.state = "open"]
             S == [sockets EXCEPT ![s].state = "open"]
             waiting == { c \in Call : calls[c] = [phase |-> "connecting", on |-> s] }
  <1>1. S \in [Slot -> Socket] /\ S[s].state = "open"
    <2>1. sockets[s] \in Socket
      OBVIOUS
    <2>2. k \in Socket /\ k.state = "open"
      BY <2>1 DEF Socket
    <2>3. S = [sockets EXCEPT ![s] = k]
      OBVIOUS
    <2> HIDE DEF k
    <2> QED BY <2>2, <2>3
  <1>2. UNCHANGED <<ws, groups, retry, ticking, starts, faults>> /\ connected' = TRUE
    BY DEF opens
  <1>3. CASE waiting = {}
    <2>1. sockets' = S /\ UNCHANGED <<pending, calls>>
      BY <1>3 DEF opens
    <2>2. TypeOK'
      BY <1>1, <1>2, <2>1
    <2>3. ConnectedIsOpen'
      BY <1>1, <2>1 DEF ConnectedIsOpen, Open
    <2>4. PendingAsks' /\ Fresh'
      BY <1>2, <2>1 DEF PendingAsks, Asking, Fresh
    <2> QED BY <2>2, <2>3, <2>4
  <1>4. CASE waiting # {}
    <2>1. PICK c \in waiting : ask(c, S)
      BY <1>4 DEF opens
    <2>2. c \in Call /\ calls[c].phase # "unused"
      BY <2>1
    <2> HIDE DEF S
    <2>3. TypeOK' /\ PendingAsks'
      BY <1>1, <1>2, <2>1, <2>2, AskKeeps
    <2>4. ConnectedIsOpen'
      BY <1>1, <2>1, <2>2, AskKeeps DEF ConnectedIsOpen, Open
    <2>5. Fresh'
      BY <1>1, <1>2, <2>1, <2>2, AskKeeps DEF Fresh
    <2> QED BY <2>3, <2>4, <2>5
  <1> QED BY <1>3, <1>4

LEMMA closesKeeps ==
  ASSUME IInv, NEW s \in Slot, NEW R \in SUBSET Call, closes(s, R),
         \A c \in R : calls[c].phase = "connecting",
         UNCHANGED <<ws, groups, ticking, starts>>, faults' \in 0 .. MaxFaults
  PROVE  IInv'
  <1> USE DEF IInv, TypeOK
  <1>1. /\ sockets' = Gone(s) /\ connected' = FALSE /\ retry' = (groups # <<>>)
        /\ pending' = [g \in Group |-> NoCall]
        /\ calls' = Rejected(R \cup Pending)
    BY DEF closes
  <1>2. sockets' \in [Slot -> Socket]
    <2>1. NoSocket \in Socket
      BY DEF NoSocket, Socket
    <2> QED BY <1>1, <2>1 DEF Gone
  <1>3. calls' \in [Call -> CallState]
    BY <1>1 DEF Rejected, Settled, CallState
  <1>4. TypeOK'
    BY <1>1, <1>2, <1>3
  <1>5. PendingAsks' /\ ConnectedIsOpen'
    BY <1>1 DEF PendingAsks, ConnectedIsOpen
  <1>6. Fresh'
    BY <1>1 DEF Fresh, Rejected, Pending, PendingAsks, Asking
  <1> QED BY <1>4, <1>5, <1>6

LEMMA reconnectKeeps ==
  ASSUME IInv, reconnect
  PROVE  IInv'
  <1> USE DEF IInv, TypeOK
  <1>1. sockets' \in [Slot -> Socket] /\ ws' \in 0 .. MaxSockets
        /\ \A s \in Slot : Open(s) => sockets'[s] = sockets[s]
    <2>1. CASE groups = <<>>
      BY <2>1 DEF reconnect
    <2>2. CASE groups # <<>>
      <3>1. Head(groups) \in Group /\ ensureConnection(Head(groups))
        BY <2>2 DEF reconnect
      <3>2. /\ ws' \in 1 .. MaxSockets /\ sockets' \in [Slot -> Socket]
            /\ sockets[ws'].state = "closed"
            /\ \A s \in Slot : s # ws' => sockets'[s] = sockets[s]
        BY <3>1, UnusedChosen
      <3> QED BY <3>2, RelayTransportAssumption DEF Open
    <2> QED BY <2>1, <2>2
  <1>2. TypeOK'
    BY <1>1 DEF reconnect
  <1>3. ConnectedIsOpen'
    BY <1>1 DEF ConnectedIsOpen, Open, reconnect
  <1>4. PendingAsks' /\ Fresh'
    BY DEF reconnect, PendingAsks, Asking, Fresh
  <1> QED BY <1>2, <1>3, <1>4

-----------------------------------------------------------------------------
(***************************************************************************)
(* The theorems.                                                           *)
(***************************************************************************)
LEMMA NextIInv == IInv /\ [Next]_vars => IInv'
  <1> SUFFICES ASSUME IInv, [Next]_vars PROVE IInv'
    OBVIOUS
  <1>1. ASSUME NEW g \in Group, startSync(g) PROVE IInv'
    BY <1>1, startSyncKeeps
  <1>2. ASSUME NEW g \in Group, tick(g) PROVE IInv'
    BY <1>2, tickKeeps
  <1>3. ASSUME NEW g \in Group, stopSync(g) PROVE IInv'
    BY <1>3, stopSyncKeeps
  <1>4. ASSUME NEW c \in Call, timeout(c) PROVE IInv'
    BY <1>4, timeoutKeeps
  <1>5. ASSUME NEW s \in Slot, opens(s) PROVE IInv'
    BY <1>5, opensKeeps
  <1>6. ASSUME NEW s \in Slot, answer(s) PROVE IInv'
    BY <1>6, answerKeeps
  <1>7. ASSUME NEW s \in Slot, disconnected(s) PROVE IInv'
    <2>1. faults' \in 0 .. MaxFaults
      BY <1>7, RelayTransportAssumption DEF disconnected, Fault, IInv, TypeOK
    <2>2. closes(s, {}) /\ UNCHANGED <<ws, groups, ticking, starts>>
      BY <1>7 DEF disconnected
    <2> QED BY <2>1, <2>2, closesKeeps
  <1>8. ASSUME NEW s \in Slot, fails(s) PROVE IInv'
    <2> DEFINE R == { c \in Call : ~connected /\ calls[c] = [phase |-> "connecting", on |-> s] }
    <2>1. faults' \in 0 .. MaxFaults
      BY <1>8, RelayTransportAssumption DEF fails, Fault, IInv, TypeOK
    <2>2. closes(s, R) /\ UNCHANGED <<ws, groups, ticking, starts>>
      BY <1>8 DEF fails
    <2>3. R \in SUBSET Call /\ \A c \in R : calls[c].phase = "connecting"
      OBVIOUS
    <2> HIDE DEF R
    <2> QED BY <2>1, <2>2, <2>3, closesKeeps
  <1>9. ASSUME reconnect PROVE IInv'
    BY <1>9, reconnectKeeps
  <1>10. ASSUME NEW s \in Slot, idles(s) PROVE IInv'
    <2>1. faults' \in 0 .. MaxFaults
      BY <1>10 DEF idles, IInv, TypeOK
    <2>2. closes(s, {}) /\ UNCHANGED <<ws, groups, ticking, starts>>
      BY <1>10 DEF idles
    <2> QED BY <2>1, <2>2, closesKeeps
  <1>11. CASE UNCHANGED vars
    BY <1>11 DEF IInv, TypeOK, PendingAsks, Asking, ConnectedIsOpen, Open, Fresh, vars
  <1> QED
    BY <1>1, <1>2, <1>3, <1>4, <1>5, <1>6, <1>7, <1>8, <1>9, <1>10, <1>11 DEF Next

LEMMA AlwaysIInv == Spec => []IInv
  BY InitIInv, NextIInv, PTL DEF Spec

\* The state of RelayTransport has its type; in particular a group is never
\* twice among the connected ones.
THEOREM TypeHolds == Spec => []TypeOK
  <1>1. IInv => TypeOK
    BY DEF IInv
  <1> QED BY <1>1, AlwaysIInv, PTL

\* pendingGetEntries holds requests that wait for their group and no others,
\* whatever connections, answers and timers do (getEntriesAfter, handleMessage,
\* cleanup): a settled request is never settled again.
THEOREM PendingAsksHolds == Spec => []PendingAsks
  <1>1. IInv => PendingAsks
    BY DEF IInv
  <1> QED BY <1>1, AlwaysIInv, PTL

\* _connected is true only while some socket of the transport is open, though
\* sockets come and go and every one of them sets and resets it.
THEOREM ConnectedIsOpenHolds == Spec => []ConnectedIsOpen
  <1>1. IInv => ConnectedIsOpen
    BY DEF IInv
  <1> QED BY <1>1, AlwaysIInv, PTL

-----------------------------------------------------------------------------
(***************************************************************************)
(* Somebody is connecting, or will be.  A step disturbs this that takes a  *)
(* group, another current socket, a socket's state or the timer.           *)
(***************************************************************************)
LEMMA NextStranded == IInv /\ NeverStranded /\ [Next]_vars => NeverStranded'
  <1> SUFFICES ASSUME IInv, NeverStranded, [Next]_vars PROVE NeverStranded'
    OBVIOUS
  <1>1. sockets \in [Slot -> Socket] /\ ws \in 0 .. MaxSockets /\ groups \in Seq(Group)
    BY DEF IInv, TypeOK
  <1>0. ws # 0 => ws \in Slot
    BY <1>1, RelayTransportAssumption DEF Slot
  <1>2. ASSUME NEW c \in Call, ask(c, sockets), UNCHANGED <<ws, groups, retry>>
        PROVE  NeverStranded'
    BY <1>0, <1>1, <1>2, AskKeeps DEF NeverStranded
  <1>3. ASSUME NEW g \in Group, startSync(g) PROVE NeverStranded'
    <2> DEFINE c == <<g, starts'>>
    <2>1. CASE Connected
      <3>1. ask(c, sockets) /\ UNCHANGED <<ws, retry>>
        BY <1>3, <2>1 DEF startSync
      <3>2. c \in Call
        BY <1>3, RelayTransportAssumption DEF startSync, Call, IInv, TypeOK
      <3> HIDE DEF c
      <3>3. sockets'[ws].state = "open" /\ ws' = ws
        BY <1>0, <1>1, <2>1, <3>1, <3>2, AskKeeps DEF Connected, Open
      <3> QED BY <2>1, <3>3 DEF NeverStranded, Connected
    <2>2. CASE ~Connected
      <3>1. ensureConnection(g)
        BY <1>3, <2>2 DEF startSync
      <3>2. sockets'[ws'].state = "connecting" /\ ws' # 0
        BY <1>1, <3>1, UnusedChosen
      <3> QED BY <3>2 DEF NeverStranded
    <2> QED BY <2>1, <2>2
  <1>4. ASSUME NEW g \in Group, tick(g) PROVE NeverStranded'
    <2> DEFINE c == <<g, 0>>
    <2>1. c \in Call /\ ask(c, sockets) /\ UNCHANGED <<ws, groups, retry>>
      BY <1>4, RelayTransportAssumption DEF tick, Call
    <2> HIDE DEF c
    <2> QED BY <1>2, <2>1
  <1>5. ASSUME NEW g \in Group, stopSync(g) PROVE NeverStranded'
    BY <1>1, <1>5 DEF stopSync, NeverStranded
  <1>6. ASSUME NEW c \in Call, timeout(c) PROVE NeverStranded'
    BY <1>6 DEF timeout, NeverStranded
  <1>7. ASSUME NEW s \in Slot, opens(s) PROVE NeverStranded'
    <2> DEFINE k == [sockets[s] EXCEPT !.state = "open"]
               S == [sockets EXCEPT ![s].state = "open"]
    <2>0. sockets[s] \in Socket
      BY <1>1
    <2>1. k \in Socket /\ k.state = "open"
      BY <2>0 DEF Socket
    <2>2. \/ sockets' = S
          \/ \E c \in Call : ask(c, S)
      BY <1>7 DEF opens
    <2>3. UNCHANGED <<ws, groups, retry>>
      BY <1>7 DEF opens
    <2> HIDE DEF k
    <2>6. S = [sockets EXCEPT ![s] = k]
      BY DEF k
    <2>4. S \in [Slot -> Socket]
          /\ \A t \in Slot : S[t] = IF t = s THEN k ELSE sockets[t]
      BY <1>1, <2>1, <2>6
    <2> HIDE DEF S
    <2>5. \A t \in Slot : sockets'[t].state = S[t].state
      BY <1>1, <2>2, <2>4, AskKeeps
    <2> QED BY <1>0, <1>1, <2>1, <2>3, <2>4, <2>5 DEF NeverStranded
  <1>8. ASSUME NEW s \in Slot, answer(s) PROVE NeverStranded'
    <2>1. sockets' = [sockets EXCEPT ![s].inbox = Tail(@)] /\ UNCHANGED <<ws, groups, retry>>
      BY <1>8 DEF answer
    <2>2. \A t \in Slot : sockets'[t].state = sockets[t].state
      BY <1>1, <2>1 DEF Socket
    <2> QED BY <1>0, <1>1, <2>1, <2>2 DEF NeverStranded
  <1>9. ASSUME NEW s \in Slot, idles(s) \/ disconnected(s) \/ fails(s)
        PROVE  NeverStranded'
    BY <1>9 DEF idles, disconnected, fails, closes, NeverStranded
  <1>10. ASSUME reconnect PROVE NeverStranded'
    <2>1. CASE groups = <<>>
      BY <1>10, <2>1 DEF reconnect, NeverStranded
    <2>2. CASE groups # <<>>
      <3>1. Head(groups) \in Group /\ ensureConnection(Head(groups))
        BY <1>1, <1>10, <2>2 DEF reconnect
      <3>2. sockets'[ws'].state = "connecting" /\ ws' # 0
        BY <1>1, <3>1, UnusedChosen
      <3> QED BY <3>2 DEF NeverStranded
    <2> QED BY <2>1, <2>2
  <1>11. CASE UNCHANGED vars
    BY <1>11 DEF vars, NeverStranded
  <1> QED
    BY <1>3, <1>4, <1>5, <1>6, <1>7, <1>8, <1>9, <1>10, <1>11 DEF Next

\* Whatever sockets open, fail or close, in whichever order, and whatever groups
\* come and go, a device with groups has a socket that is open or connecting, or
\* a timer that will make one.
THEOREM NeverStrandedHolds == Spec => []NeverStranded
  <1>1. Init => NeverStranded
    BY DEF Init, NeverStranded
  <1> QED BY <1>1, AlwaysIInv, NextStranded, PTL DEF Spec
=============================================================================
