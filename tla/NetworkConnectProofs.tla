------------------------ MODULE NetworkConnectProofs ------------------------
(***************************************************************************)
(* For every set of requests and of networks: as long as a Connect has the *)
(* container to itself, except for stops, pauses and removals of networks, *)
(* and the labels can be put back, the labels list what is attached and    *)
(* the index label is the highest interface.  connect.go has no lock that  *)
(* would make this so; that two Connects at a time break the second is     *)
(* what the ConnectIndex run shows.                                        *)
(***************************************************************************)
EXTENDS NetworkConnect, TLAPS

(* A Connect overlaps with no other Connect and with no Start, and putting the
   labels back does not fail. *)
ConnectAlone ==
    /\ {"connect"} \notin Overlap /\ {"connect", "start"} \notin Overlap
    /\ "Rollback" \notin MayFail

(* Where a request is in Connect, and where its network is in the labels and
   neither attached nor taken back. *)
Connecting == {"connect", "read", "update", "index", "add", "delete"}
Pending == {"index", "add", "delete"}

PCs == Connecting \cup
    {"idle", "done", "remove", "removing", "start", "stop", "pause", "pausing", "unpause"}

Types ==
    /\ pc \in [Requests -> PCs]
    /\ req \in [Requests -> Asked]
    /\ opts \in [Requests -> Labels]
    /\ live \in [Requests -> BOOLEAN]
    /\ ifIndex \in [Requests -> Int]
    /\ labels \in Labels
    /\ attached \subseteq Int \X Networks

(* A request is where its operation is. *)
OpInv ==
    \A r \in Requests :
        /\ pc[r] \in Connecting => req[r].op = "connect"
        /\ pc[r] = "start" => req[r].op = "start"

(* The Connect in progress is alone with respect to Connect and Start. *)
AloneInv ==
    \A r, s \in Requests :
        r # s /\ pc[r] \in Connecting => pc[s] \notin Connecting \cup {"start"}

(* The labels l describe what is attached: these networks, the index the last
   place in the list, and every interface at a place of the list. *)
Describes(l) ==
    /\ l.index \in {None, Len(l.networks) - 1}
    /\ IF HasTask THEN Connected(l) = {a[2] : a \in attached} ELSE attached = {}
    /\ \A a \in attached : a[1] < Len(l.networks)

(* Labels with one more network. *)
Extended(l, n, i) == [networks |-> Append(l.networks, n), index |-> i]

(* The container's labels do, or those that the Connect in progress has read,
   which has then added its network to them. *)
Settled == (\A r \in Requests : pc[r] \notin Pending) => Describes(labels)

Progress(r) ==
    /\ pc[r] = "update" => opts[r] = labels
    /\ pc[r] \in {"read", "update"} /\ ~live[r] => ~HasTask
    /\ pc[r] \in Pending =>
          /\ Describes(opts[r])
          /\ labels = Extended(opts[r], req[r].net, Len(opts[r].networks))
    /\ pc[r] = "add" => ifIndex[r] = Len(opts[r].networks)

ConnectInv == AloneInv /\ OpInv /\ Settled /\ \A r \in Requests : Progress(r)

-----------------------------------------------------------------------------
(* What appending a network to the list does. *)
LEMMA Appended ==
    ASSUME NEW l \in Labels, NEW n \in Networks, NEW i \in Int
    PROVE  /\ Extended(l, n, i) \in Labels
           /\ Len(l.networks) \in Nat
           /\ Len(Extended(l, n, i).networks) = Len(l.networks) + 1
           /\ Extended(l, n, i).index = i
           /\ Connected(Extended(l, n, i)) = Connected(l) \cup {n}
<1> DEFINE k == Extended(l, n, i)
           q == l.networks
           p == Append(q, n)
<1>1. q \in Seq(Networks) /\ k.networks = p /\ k.index = i
  BY DEF Labels, Extended
<1> HIDE DEF q
<1>2. p \in Seq(Networks) /\ Len(q) \in Nat /\ Len(p) = Len(q) + 1 /\ p[Len(q) + 1] = n
  BY <1>1
<1>3. \A j \in 1..Len(q) : p[j] = q[j]
  BY <1>1
<1>4. {p[j] : j \in 1..Len(p)} = {q[j] : j \in 1..Len(q)} \cup {n}
  <2>1. ASSUME NEW j \in 1..Len(p) PROVE p[j] \in {q[m] : m \in 1..Len(q)} \cup {n}
    <3>1. CASE j = Len(q) + 1
      BY <1>2, <3>1
    <3>2. CASE j # Len(q) + 1
      <4>1. j \in 1..Len(q)
        BY <1>2, <2>1, <3>2
      <4> QED
        BY <1>3, <4>1
    <3> QED
      BY <3>1, <3>2
  <2>2. ASSUME NEW j \in 1..Len(q) PROVE q[j] \in {p[m] : m \in 1..Len(p)}
    <3>1. j \in 1..Len(p)
      BY <1>2
    <3> QED
      BY <1>3, <3>1
  <2>3. n \in {p[m] : m \in 1..Len(p)}
    <3>1. Len(q) + 1 \in 1..Len(p)
      BY <1>2
    <3> QED
      BY <1>2, <3>1
  <2> HIDE DEF p
  <2> QED
    BY <2>1, <2>2, <2>3
<1>5. k \in Labels
  BY <1>1, <1>2 DEF Labels, Extended
<1> QED
  BY <1>1, <1>2, <1>4, <1>5 DEF Connected, q

(* Setup attaches the listed networks, each at its place. *)
LEMMA SetUp ==
    ASSUME NEW l \in Labels
    PROVE  /\ Setup(l.networks) \subseteq Int \X Networks
           /\ {a[2] : a \in Setup(l.networks)} = Connected(l)
           /\ \A a \in Setup(l.networks) : a[1] < Len(l.networks)
<1> DEFINE q == l.networks
<1>1. q \in Seq(Networks)
  BY DEF Labels
<1>2. Len(q) \in Nat /\ \A i \in 1..Len(q) : q[i] \in Networks
  BY <1>1
<1> HIDE DEF q
<1>3. ASSUME NEW i \in 1..Len(q)
      PROVE  /\ <<i - 1, q[i]>> \in Int \X Networks
             /\ <<i - 1, q[i]>>[1] < Len(q) /\ <<i - 1, q[i]>>[2] = q[i]
  BY <1>2
<1>4. Setup(q) \subseteq Int \X Networks
  BY <1>3 DEF Setup
<1>5. \A a \in Setup(q) : a[1] < Len(q)
  BY <1>3 DEF Setup
<1>6. {a[2] : a \in Setup(q)} = {q[i] : i \in 1..Len(q)}
  <2>1. ASSUME NEW a \in Setup(q) PROVE a[2] \in {q[i] : i \in 1..Len(q)}
    BY <1>3 DEF Setup
  <2>2. ASSUME NEW i \in 1..Len(q) PROVE q[i] \in {a[2] : a \in Setup(q)}
    <3>1. <<i - 1, q[i]>> \in Setup(q)
      BY DEF Setup
    <3> QED
      BY <1>3, <3>1
  <2> QED
    BY <2>1, <2>2
<1> QED
  BY <1>4, <1>5, <1>6 DEF Connected, q

(* The variables start with their types. *)
LEMMA InitTypes == Init => Types
<1> SUFFICES ASSUME Init PROVE Types
  OBVIOUS
<1>1. labels \in Labels
  BY ConnectAssumption DEF Init, Labels
<1>2. attached \subseteq Int \X Networks
  BY <1>1, SetUp DEF Init
<1> QED
  BY <1>1, <1>2 DEF Init, Types, PCs, Connecting

(* Every step keeps them, one case per action. *)
LEMMA NextTypes == Types /\ [Next]_vars => Types'
<1> SUFFICES ASSUME Types, [Next]_vars PROVE Types'
  OBVIOUS
<1>1. CASE UNCHANGED vars
  BY <1>1 DEF vars, Types
<1>2. ASSUME NEW r \in Requests, Step(r) PROVE Types'
  <2>o. req[r].op \in Operations /\ req[r].net \in Networks
    BY ConnectAssumption DEF Types, Asked, Operations
  <2>l. Len(labels.networks) \in Nat /\ Len(opts[r].networks) \in Nat
    BY DEF Types, Labels
  <2> USE DEF Types, Goto, Answer, PCs, Connecting
  <2>1. CASE Begin(r)
    BY <2>1, <2>o DEF Begin, Operations
  <2>2. CASE ConnectLookup(r)
    <3>1. live' \in [Requests -> BOOLEAN]
      <4> DEFINE v == status \in {"running", "paused"}
      <4>1. live' = [live EXCEPT ![r] = v] \/ live' = live
        BY <2>2, Zenon DEF ConnectLookup
      <4>2. v \in BOOLEAN
        OBVIOUS
      <4> HIDE DEF v
      <4> QED
        BY <4>1, <4>2
    <3> QED
      BY <2>2, <3>1 DEF ConnectLookup
  <2>3. CASE ReadLabels(r)
    BY <2>3 DEF ReadLabels
  <2>4. CASE UpdateLabels(r)
    <3>1. NewIndex(opts[r]) \in Int
      BY <2>l DEF NewIndex, Labels
    <3>2. [networks |-> Append(opts[r].networks, req[r].net), index |-> NewIndex(opts[r])] \in Labels
      BY <2>o, <3>1, Appended DEF Extended
    <3>3. labels' \in Labels
      BY <2>4, <3>2, Zenon DEF UpdateLabels
    <3> QED
      BY <2>4, <3>3 DEF UpdateLabels
  <2>5. CASE ReadIndex(r)
    <3>1. NetworkIndex(labels) \in Int
      BY <2>l DEF NetworkIndex, Labels
    <3>2. labels' \in Labels
      BY <2>5, <3>1 DEF ReadIndex, Labels
    <3> QED
      BY <2>5, <3>1, <3>2 DEF ReadIndex
  <2>6. CASE AddNetworkList(r)
    BY <2>6, <2>o DEF AddNetworkList
  <2>7. CASE DeleteNet(r)
    <3>1. NewIndex(opts[r]) - 1 \in Int
      BY <2>l DEF NewIndex, Labels
    <3>2. [networks |-> opts[r].networks, index |-> NewIndex(opts[r]) - 1] \in Labels
      BY <3>1 DEF Labels
    <3>3. labels' \in Labels
      BY <2>7, <3>2, Zenon DEF DeleteNet
    <3> QED
      BY <2>7, <3>3 DEF DeleteNet
  <2>8. CASE RemoveCheck(r)
    BY <2>8 DEF RemoveCheck
  <2>9. CASE RemoveNetwork(r)
    BY <2>9 DEF RemoveNetwork
  <2>10. CASE Start(r)
    BY <2>10, SetUp DEF Start
  <2>11. CASE Stop(r)
    BY <2>11 DEF Stop
  <2>12. CASE Pause(r)
    BY <2>12 DEF Pause
  <2>13. CASE Unpause(r)
    BY <2>13 DEF Unpause
  <2> QED
    BY <1>2, <2>1, <2>2, <2>3, <2>4, <2>5, <2>6, <2>7, <2>8, <2>9, <2>10, <2>11, <2>12, <2>13,
       Zenon DEF Step
<1> QED
  BY <1>1, <1>2 DEF Next

-----------------------------------------------------------------------------
(* A step of r moves r only. *)
Moves(r) ==
    /\ req' = req
    /\ \A s \in Requests \ {r} :
          pc'[s] = pc[s] /\ opts'[s] = opts[s] /\ live'[s] = live[s] /\ ifIndex'[s] = ifIndex[s]

(* r goes into Connect or Start only when it begins. *)
Enters(r) ==
    /\ pc'[r] \in Connecting => pc[r] \in Connecting \/ Begin(r)
    /\ pc'[r] = "start" => Begin(r)

(* Every step is of that form, one case per action. *)
LEMMA StepMoves == ASSUME Types, NEW r \in Requests, Step(r) PROVE Moves(r) /\ Enters(r)
<1> USE DEF Types, Goto, Answer, Moves, Enters, Connecting
<1>1. CASE Begin(r)
  BY <1>1 DEF Begin
<1>2. CASE ConnectLookup(r)
  BY <1>2 DEF ConnectLookup
<1>3. CASE ReadLabels(r)
  BY <1>3 DEF ReadLabels
<1>4. CASE UpdateLabels(r)
  BY <1>4 DEF UpdateLabels
<1>5. CASE ReadIndex(r)
  BY <1>5 DEF ReadIndex
<1>6. CASE AddNetworkList(r)
  BY <1>6 DEF AddNetworkList
<1>7. CASE DeleteNet(r)
  BY <1>7 DEF DeleteNet
<1>8. CASE RemoveCheck(r)
  BY <1>8 DEF RemoveCheck
<1>9. CASE RemoveNetwork(r)
  BY <1>9 DEF RemoveNetwork
<1>10. CASE Start(r)
  BY <1>10 DEF Start
<1>11. CASE Stop(r)
  BY <1>11 DEF Stop
<1>12. CASE Pause(r)
  BY <1>12 DEF Pause
<1>13. CASE Unpause(r)
  BY <1>13 DEF Unpause
<1> QED
  BY <1>1, <1>2, <1>3, <1>4, <1>5, <1>6, <1>7, <1>8, <1>9, <1>10, <1>11, <1>12, <1>13, Zenon DEF Step

(* Begin keeps a Connect apart from every other Connect and Start, as
   ConnectAlone says it has to. *)
LEMMA StepAlone ==
    ASSUME ConnectAlone, Types, AloneInv, OpInv, NEW r \in Requests, Step(r)
    PROVE  AloneInv' /\ OpInv'
<1>1. Moves(r) /\ Enters(r)
  BY StepMoves
<1>2. ASSUME Begin(r)
      PROVE  /\ pc'[r] = req[r].op
             /\ \A s \in Requests \ {r} :
                   \/ req[r].op \notin {"connect", "start"}
                   \/ req[r].op = "connect" /\ pc[s] \notin Connecting \cup {"start"}
                   \/ req[r].op = "start" /\ pc[s] \notin Connecting
  <2>1. pc'[r] = req[r].op
    BY <1>2 DEF Begin, Goto, Types
  <2>2. ASSUME NEW s \in Requests \ {r}, pc[s] \in Connecting \cup {"start"}
        PROVE  /\ {req[r].op, req[s].op} \in Overlap
               /\ pc[s] \in Connecting => req[s].op = "connect"
               /\ pc[s] = "start" => req[s].op = "start"
    BY <1>2, <2>2 DEF Begin, InProgress, OpInv, Connecting
  <2>3. {"connect", "connect"} \notin Overlap /\ {"connect", "start"} \notin Overlap
        /\ {"start", "connect"} \notin Overlap
    <3>1. {"connect", "connect"} = {"connect"} /\ {"start", "connect"} = {"connect", "start"}
      OBVIOUS
    <3> QED
      BY <3>1 DEF ConnectAlone
  <2> QED
    BY <2>1, <2>2, <2>3
<1>3. OpInv'
  <2>1. /\ pc'[r] \in Connecting => req[r].op = "connect"
        /\ pc'[r] = "start" => req[r].op = "start"
    <3>1. CASE Begin(r)
      BY <1>2, <3>1, ConnectAssumption DEF Types, Asked, Operations, Connecting
    <3>2. CASE ~Begin(r)
      BY <1>1, <3>2 DEF Enters, OpInv
    <3> QED
      BY <3>1, <3>2
  <2> QED
    BY <1>1, <2>1 DEF Moves, OpInv
<1>4. AloneInv'
  <2>1. ASSUME NEW s \in Requests \ {r}
        PROVE  /\ pc'[r] \in Connecting => pc[s] \notin Connecting \cup {"start"}
               /\ pc'[r] \in Connecting \cup {"start"} => pc[s] \notin Connecting
    <3>1. CASE Begin(r)
      BY <1>1, <1>2, <3>1, <1>3 DEF OpInv, Connecting, Moves
    <3>2. CASE ~Begin(r)
      BY <1>1, <3>2 DEF Enters, AloneInv
    <3> QED
      BY <3>1, <3>2
  <2> QED
    BY <1>1, <2>1 DEF Moves, AloneInv
<1> QED
  BY <1>3, <1>4

-----------------------------------------------------------------------------
(* The container keeps what is attached, or is stopped and has nothing. *)
Kept ==
    \/ attached' = attached /\ (HasTask' <=> HasTask)
    \/ attached' = {} /\ ~HasTask'

(* Stopping, pausing and unpausing are such steps. *)
LEMMA StopKeeps == ASSUME NEW r \in Requests, Stop(r) \/ Pause(r) \/ Unpause(r) PROVE Kept
BY DEF Stop, Pause, Unpause, Kept, HasTask

(* A step that leaves the labels alone, by a request that is not, and does not
   come to be, between reading the labels and the end of Connect. *)
LEMMA Quiet ==
    ASSUME Types, Settled, \A s \in Requests : Progress(s),
           NEW r \in Requests, Moves(r), Kept \/ UNCHANGED <<status, attached>>, labels' = labels,
           pc[r] \notin Pending, pc'[r] \notin Pending \cup {"read", "update"}
    PROVE  Settled' /\ \A s \in Requests : Progress(s)'
<1>0. Kept
  BY DEF Kept, HasTask
<1>1. Settled'
  <2>1. (\A s \in Requests : pc'[s] \notin Pending) => \A s \in Requests : pc[s] \notin Pending
    BY DEF Moves
  <2> QED
    BY <1>0, <2>1 DEF Settled, Kept, Describes, Connected
<1>2. Progress(r)'
  BY DEF Progress, Pending
<1>3. ASSUME NEW s \in Requests \ {r} PROVE Progress(s)'
  <2>1. Progress(s) /\ opts[s] \in Labels
    BY DEF Types
  <2>2. /\ pc'[s] = pc[s] /\ opts'[s] = opts[s] /\ live'[s] = live[s] /\ ifIndex'[s] = ifIndex[s]
        /\ req' = req
    BY DEF Moves
  <2>3. Describes(opts[s]) => Describes(opts[s])'
    BY <1>0, <2>2 DEF Kept, Describes, Connected
  <2>4. ~HasTask => ~HasTask'
    BY <1>0 DEF Kept
  <2> QED
    BY <2>1, <2>2, <2>3, <2>4 DEF Progress, Extended
<1> QED
  BY <1>1, <1>2, <1>3

(* In a step of the Connect in progress, the other requests are not in
   Connect: what has to be shown is about r and the labels. *)
LEMMA OwnStep ==
    ASSUME AloneInv, NEW r \in Requests, pc[r] \in Connecting \cup {"start"}, Moves(r)
    PROVE  /\ \A s \in Requests \ {r} : Progress(s)' /\ pc[s] \notin Connecting
           /\ pc'[r] \in Pending => Settled'
           /\ Describes(labels)' => Settled'
           /\ pc[r] \notin Pending => \A s \in Requests : pc[s] \notin Pending
<1>1. \A s \in Requests \ {r} : pc[s] \notin Connecting /\ pc'[s] = pc[s]
  BY DEF AloneInv, Moves
<1>2. \A s \in Requests \ {r} : Progress(s)'
  BY <1>1 DEF Progress, Connecting, Pending
<1> QED
  BY <1>1, <1>2 DEF Settled, Connecting, Pending

(* The steps of Connect that go on, and the one that puts the labels back. *)
LEMMA ConnectSteps ==
    ASSUME ConnectAlone, Types, ConnectInv, NEW r \in Requests, Step(r), pc[r] \in Connecting
    PROVE  Settled' /\ \A s \in Requests : Progress(s)'
<1>m. Moves(r) /\ Progress(r) /\ AloneInv
  BY StepMoves DEF ConnectInv
<1>o. /\ \A s \in Requests \ {r} : Progress(s)'
      /\ pc'[r] \in Pending => Settled'
      /\ Describes(labels)' => Settled'
      /\ pc[r] \notin Pending => Describes(labels)
  BY <1>m, OwnStep DEF ConnectInv, Settled
<1>s. SUFFICES /\ Progress(r)'
               /\ pc'[r] \in Pending \/ Describes(labels)'
  BY <1>o
<1>l. /\ opts[r] \in Labels /\ labels \in Labels /\ req[r].net \in Networks
      /\ Len(opts[r].networks) \in Nat /\ Len(labels.networks) \in Nat /\ None \notin Int
  BY ConnectAssumption DEF Types, Labels, Asked
<1>n. ASSUME Describes(opts[r]) PROVE NewIndex(opts[r]) = Len(opts[r].networks)
  BY <1>n, <1>l DEF Describes, NewIndex
<1> DEFINE k == Extended(opts[r], req[r].net, Len(opts[r].networks))
<1>a. /\ k.index = Len(k.networks) - 1 /\ Len(k.networks) = Len(opts[r].networks) + 1
      /\ k.index = Len(opts[r].networks)
      /\ Connected(k) = Connected(opts[r]) \cup {req[r].net}
  BY <1>l, Appended
<1> HIDE DEF k
<1>1. CASE ConnectLookup(r)
  <2>1. UNCHANGED <<labels, status, attached>> /\ pc[r] = "connect"
    BY <1>1 DEF ConnectLookup
  <2>2. Describes(labels)'
    BY <1>o, <2>1 DEF Describes, HasTask, Connected, Pending
  <2>3. Progress(r)'
    <3>1. CASE /\ Goto(r, "read") /\ status # "pausing"
               /\ live' = [live EXCEPT ![r] = status \in {"running", "paused"}]
      <4>1. pc'[r] = "read" /\ (live'[r] <=> status \in {"running", "paused"})
        BY <3>1 DEF Goto, Types
      <4> QED
        BY <2>1, <3>1, <4>1 DEF Progress, HasTask, Pending
    <3>2. CASE Answer(r, "error")
      BY <3>2 DEF Answer, Goto, Progress, Pending, Types
    <3> QED
      BY <1>1, <3>1, <3>2, Zenon DEF ConnectLookup
  <2> QED
    BY <2>2, <2>3
<1>2. CASE ReadLabels(r)
  <2>1. UNCHANGED <<labels, status, attached, live>> /\ pc[r] = "read" /\ opts'[r] = labels
        /\ pc'[r] \in {"update", "done"}
    BY <1>2 DEF ReadLabels, Types, Goto, Answer
  <2>2. Describes(labels)'
    BY <1>o, <2>1 DEF Describes, HasTask, Connected, Pending
  <2>3. Progress(r)'
    BY <1>m, <2>1 DEF Progress, HasTask, Pending
  <2> QED
    BY <2>2, <2>3
<1>3. CASE UpdateLabels(r)
  <2>1. /\ UNCHANGED <<req, status, attached, live, opts>> /\ pc[r] = "update" /\ opts[r] = labels
        /\ Describes(labels) /\ Describes(opts[r])
    BY <1>3, <1>m, <1>o DEF UpdateLabels, Progress, Pending
  <2>2. CASE "Update" \in MayFail /\ Answer(r, "error") /\ UNCHANGED labels
    <3>1. pc'[r] = "done"
      BY <2>2 DEF Answer, Goto, Types
    <3>2. Describes(labels)'
      BY <2>1, <2>2 DEF Describes, HasTask, Connected
    <3> QED
      BY <3>1, <3>2 DEF Progress, Pending
  <2>3. CASE labels' = [networks |-> Append(opts[r].networks, req[r].net), index |-> NewIndex(opts[r])]
    <3>1. labels' = k
      BY <2>1, <2>3, <1>n DEF k, Extended
    <3>2. CASE live[r] /\ Goto(r, "index")
      <4>1. pc'[r] = "index"
        BY <3>2 DEF Goto, Types
      <4>2. Describes(opts[r])'
        BY <2>1 DEF Describes, HasTask, Connected
      <4> QED
        BY <2>1, <3>1, <4>1, <4>2 DEF Progress, Pending, k, Extended
    <3>3. CASE ~live[r] /\ Answer(r, "connected")
      <4>1. pc'[r] = "done" /\ ~HasTask /\ attached = {}
        BY <1>m, <2>1, <3>3 DEF Answer, Goto, Types, Progress, Describes
      <4>2. Describes(labels)'
        BY <1>a, <2>1, <3>1, <4>1 DEF Describes, HasTask
      <4> QED
        BY <4>1, <4>2 DEF Progress, Pending
    <3> QED
      BY <1>3, <2>2, <3>2, <3>3, Zenon DEF UpdateLabels
  <2> QED
    BY <1>3, <2>2, <2>3, Zenon DEF UpdateLabels
<1>4. CASE ReadIndex(r)
  <2>1. /\ UNCHANGED <<req, status, attached, opts>> /\ pc[r] = "index"
        /\ Describes(opts[r])
        /\ labels = k
    BY <1>4, <1>m DEF ReadIndex, Progress, Pending, k
  <2>2. NetworkIndex(labels) = Len(opts[r].networks)
    BY <1>a, <1>l, <2>1 DEF NetworkIndex
  <2>3. labels' = labels
    BY <1>4, <1>a, <1>l, <2>1, <2>2 DEF ReadIndex, Labels
  <2>4. pc'[r] \in {"add", "delete"} /\ (pc'[r] = "add" => ifIndex'[r] = Len(opts[r].networks))
    BY <1>4, <2>2 DEF ReadIndex, Goto, Types
  <2>5. Describes(opts[r])'
    BY <2>1 DEF Describes, HasTask, Connected
  <2> QED
    BY <2>1, <2>3, <2>4, <2>5 DEF Progress, Pending, k, Extended
<1>5. CASE AddNetworkList(r)
  <2>1. /\ UNCHANGED <<req, status, opts, labels>> /\ pc[r] = "add"
        /\ Describes(opts[r]) /\ ifIndex[r] = Len(opts[r].networks)
        /\ labels = k
    BY <1>5, <1>m DEF AddNetworkList, Progress, Pending, k
  <2>2. CASE HasTask /\ attached' = attached \cup {<<ifIndex[r], req[r].net>>} /\ Answer(r, "connected")
    <3>1. pc'[r] = "done"
      BY <2>2 DEF Answer, Goto, Types
    <3>2. Connected(labels) = {a[2] : a \in attached'}
      <4>1. Connected(labels) = {a[2] : a \in attached} \cup {req[r].net}
        BY <1>a, <2>1, <2>2 DEF Describes
      <4>2. <<ifIndex[r], req[r].net>>[2] = req[r].net
        OBVIOUS
      <4>3. {a[2] : a \in attached'} = {a[2] : a \in attached} \cup {req[r].net}
        BY <2>2, <4>2
      <4> QED
        BY <4>1, <4>3
    <3>3. \A a \in attached' : a[1] < Len(labels.networks)
      BY <1>a, <1>l, <2>1, <2>2 DEF Describes, Types
    <3>4. Describes(labels)'
      <4>1. labels' = labels /\ Connected(labels)' = Connected(labels) /\ HasTask'
        BY <2>1, <2>2 DEF Connected, HasTask
      <4>2. labels.index = Len(labels.networks) - 1
        BY <1>a, <2>1
      <4> QED
        BY <3>2, <3>3, <4>1, <4>2 DEF Describes
    <3> QED
      BY <3>1, <3>4 DEF Progress, Pending
  <2>3. CASE Goto(r, "delete") /\ UNCHANGED attached
    <3>1. pc'[r] = "delete"
      BY <2>3 DEF Goto, Types
    <3>2. Describes(opts[r])'
      BY <2>1, <2>3 DEF Describes, HasTask, Connected
    <3> QED
      BY <2>1, <3>1, <3>2 DEF Progress, Pending, k, Extended
  <2> QED
    BY <1>5, <2>2, <2>3, Zenon DEF AddNetworkList
<1>6. CASE DeleteNet(r)
  <2>1. /\ UNCHANGED <<status, opts, attached>> /\ Describes(opts[r]) /\ pc'[r] = "done"
        /\ labels' = [networks |-> opts[r].networks, index |-> Len(opts[r].networks) - 1]
    BY <1>6, <1>m, <1>n DEF DeleteNet, Progress, Pending, ConnectAlone, Answer, Goto, Types
  <2>2. Describes(labels)'
    BY <2>1 DEF Describes, HasTask, Connected
  <2> QED
    BY <2>1, <2>2 DEF Progress, Pending
<1> QED
  BY <1>1, <1>2, <1>3, <1>4, <1>5, <1>6 DEF Step, Connecting, Begin, RemoveCheck, RemoveNetwork,
     Start, Stop, Pause, Unpause

(* Every step keeps the invariant. *)
LEMMA NextConnect ==
    ASSUME ConnectAlone PROVE Types /\ ConnectInv /\ [Next]_vars => ConnectInv'
<1> SUFFICES ASSUME Types, ConnectInv, [Next]_vars PROVE ConnectInv'
  OBVIOUS
<1>1. CASE UNCHANGED vars
  <2>1. UNCHANGED <<pc, req, opts, live, ifIndex, labels, status, attached>>
    BY <1>1 DEF vars
  <2>2. AloneInv' /\ OpInv'
    BY <2>1 DEF ConnectInv, AloneInv, OpInv
  <2>3. (Describes(labels)' <=> Describes(labels)) /\ (HasTask' <=> HasTask)
    BY <2>1 DEF Describes, HasTask, Connected
  <2>4. ASSUME NEW r \in Requests PROVE Describes(opts[r])' <=> Describes(opts[r])
    BY <2>1 DEF Describes, HasTask, Connected
  <2>5. Settled'
    BY <2>1, <2>3 DEF ConnectInv, Settled
  <2>6. \A r \in Requests : Progress(r)'
    BY <2>1, <2>3, <2>4 DEF ConnectInv, Progress, Extended
  <2> QED
    BY <2>2, <2>5, <2>6 DEF ConnectInv
<1>2. ASSUME NEW r \in Requests, Step(r) PROVE ConnectInv'
  <2>m. Moves(r)
    BY <1>2, StepMoves
  <2>i. Settled /\ \A s \in Requests : Progress(s)
    BY DEF ConnectInv
  <2>a. AloneInv' /\ OpInv'
    BY <1>2, StepAlone DEF ConnectInv
  <2>1. CASE pc[r] \in Connecting
    BY <1>2, <2>1, <2>a, ConnectSteps DEF ConnectInv
  <2>2. CASE pc[r] = "start"
    <3>1. Start(r)
      BY <1>2, <2>2 DEF Step, Begin, ConnectLookup, ReadLabels, UpdateLabels, ReadIndex, AddNetworkList,
         DeleteNet, RemoveCheck, RemoveNetwork, Stop, Pause, Unpause
    <3>2. /\ \A s \in Requests \ {r} : Progress(s)'
          /\ Describes(labels)' => Settled'
          /\ Describes(labels)
      BY <2>m, <2>2, OwnStep DEF ConnectInv, Settled, Pending
    <3>3. pc'[r] = "done" /\ labels' = labels
      BY <3>1 DEF Start, Answer, Goto, Types
    <3>4. Describes(labels)'
      <4>1. CASE UNCHANGED <<status, attached>>
        BY <3>2, <3>3, <4>1 DEF Describes, HasTask, Connected
      <4>2. CASE status' = "running" /\ attached' = Setup(labels.networks)
        <5>1. /\ Connected(labels) = {a[2] : a \in attached'}
              /\ \A a \in attached' : a[1] < Len(labels.networks)
          BY <4>2, SetUp DEF Types
        <5>2. HasTask' /\ Connected(labels)' = Connected(labels)
          BY <3>3, <4>2 DEF HasTask, Connected
        <5> QED
          BY <3>2, <3>3, <5>1, <5>2 DEF Describes
      <4> QED
        BY <3>1, <4>1, <4>2 DEF Start
    <3>5. Progress(r)'
      BY <3>3 DEF Progress, Pending
    <3> QED
      BY <2>a, <3>2, <3>4, <3>5 DEF ConnectInv
  <2>3. CASE pc[r] \notin Connecting \cup {"start"}
    <3>1. /\ labels' = labels
          /\ pc'[r] \notin Pending \cup {"read", "update"}
          /\ UNCHANGED <<status, attached>> \/ Stop(r) \/ Pause(r) \/ Unpause(r)
      <4>1. CASE Begin(r)
        BY <4>1, ConnectAssumption DEF Begin, Goto, Types, Asked, Operations, Pending
      <4>2. CASE RemoveCheck(r) \/ RemoveNetwork(r)
        BY <4>2 DEF RemoveCheck, RemoveNetwork, Goto, Answer, Types, Pending
      <4>3. CASE Stop(r) \/ Pause(r) \/ Unpause(r)
        BY <4>3 DEF Stop, Pause, Unpause, Goto, Answer, Types, Pending
      <4> QED
        BY <1>2, <2>3, <4>1, <4>2, <4>3 DEF Step, ConnectLookup, ReadLabels, UpdateLabels, ReadIndex,
           AddNetworkList, DeleteNet, Start, Connecting
    <3>2. pc[r] \notin Pending
      BY <2>3 DEF Connecting, Pending
    <3> QED
      BY <2>m, <2>i, <2>a, <3>1, <3>2, Quiet, StopKeeps DEF ConnectInv
  <2> QED
    BY <2>1, <2>2, <2>3
<1> QED
  BY <1>1, <1>2 DEF Next

(* The container starts with its default network listed, and attached if it runs. *)
LEMMA InitConnect == Init => ConnectInv
<1> SUFFICES ASSUME Init PROVE ConnectInv
  OBVIOUS
<1>1. labels \in Labels /\ Len(labels.networks) = 1 /\ labels.index = None
  BY ConnectAssumption DEF Init, Labels
<1>2. Describes(labels)
  <2>1. CASE status = "running"
    BY <1>1, <2>1, SetUp DEF Init, Describes, HasTask
  <2>2. CASE status = "created"
    BY <1>1, <2>2 DEF Init, Describes, HasTask
  <2> QED
    BY <2>1, <2>2 DEF Init
<1> QED
  BY <1>2 DEF Init, ConnectInv, AloneInv, OpInv, Settled, Progress, Pending, Connecting

(* A Connect that has the container to itself keeps ConnectInv. *)
LEMMA ConnectSafe == ASSUME ConnectAlone PROVE Spec => [](Types /\ ConnectInv)
<1>1. Types /\ ConnectInv /\ [Next]_vars => ConnectInv'
  BY NextConnect
<1> QED
  BY <1>1, InitTypes, NextTypes, InitConnect, PTL DEF Spec

(* addNetworkConfig, connectNetwork and deleteFunc: once no request is in
   progress the list of a running container is what is attached to it. *)
THEOREM LabelsMatchAttachedHolds == ASSUME ConnectAlone PROVE Spec => []LabelsMatchAttached
<1>1. ConnectInv => LabelsMatchAttached
  BY DEF ConnectInv, Settled, LabelsMatchAttached, AtRest, InProgress, Describes, Pending
<1> QED
  BY <1>1, ConnectSafe, PTL

(* connect.go:28: then the index label is the highest interface in use. *)
THEOREM IndexIsMaximumHolds == ASSUME ConnectAlone PROVE Spec => []IndexIsMaximum
<1>1. Types /\ ConnectInv => IndexIsMaximum
  <2> SUFFICES ASSUME Types, ConnectInv, AtRest, labels.index # None, NEW a \in attached
               PROVE  a[1] <= labels.index
    BY DEF IndexIsMaximum
  <2>1. Describes(labels)
    BY DEF ConnectInv, Settled, AtRest, InProgress, Pending
  <2>2. a[1] \in Int /\ Len(labels.networks) \in Nat
    BY DEF Types, Labels
  <2> QED
    BY <2>1, <2>2 DEF Describes
<1> QED
  BY <1>1, ConnectSafe, PTL
=============================================================================
