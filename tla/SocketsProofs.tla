---------------------------- MODULE SocketsProofs ----------------------------
(***************************************************************************)
(* What holds of the sockets of a room, for any number of them, of         *)
(* generations and of revisions: documents are written in order, sockets   *)
(* of two generations are never served together, and when all is quiet     *)
(* nobody is behind.  And what holds of the page at the other end: its     *)
(* ritual is of the break on show, and what it offers and lights is what   *)
(* its last document says.                                                 *)
(*                                                                         *)
(* A delivery goes through the sockets in a loop that is suspended again   *)
(* and again, and what it has in hand then is between two states.  So the  *)
(* invariant is stated of a manager m and of the tasks tk: those of the    *)
(* state, or those of a delivery that is going on in the middle of a step. *)
(***************************************************************************)
EXTENDS MCSockets, SequenceTheorems, WellFoundedInduction, TLAPS

Manager ==
  [bound : [Sockets -> Nat], roomMark : [Instances -> Revision],
   mark : [Sockets -> Revision], line : [Sockets -> Seq(Tasks)]]

Fields(m, tk) ==
  /\ room \in [instance : 0..MaxInstances, revision : Nat, live : BOOLEAN]
  /\ room.live => room.instance \in Instances
  /\ news \in Nat
  /\ endpoint \in [Sockets -> Endpoint]
  /\ up \in [Sockets -> BOOLEAN]
  /\ shown \in [Sockets -> [instance : Nat, revision : Revision]]
  /\ m \in Manager
  /\ tk \in [Tasks -> Delivery]

Outside == {"off", "accepting", "syncing"}

\* A socket is registered for the generation of its token, once.
Membership(m) ==
  \A s \in Sockets :
    /\ endpoint[s].bound <= room.instance
    /\ m.bound[s] # 0 =>
         /\ m.bound[s] = endpoint[s].bound
         /\ endpoint[s].pc \in {"registered", "greeting", "serving", "leaving"}
    /\ endpoint[s].pc \in Outside => shown[s].revision = NoRevision

\* What an endpoint is busy with.
Occupation(tk) ==
  \A s \in Sockets :
    /\ endpoint[s].pc \in {"off", "accepting", "registered", "leaving", "gone"} =>
         tk[s].stage = "idle"
    /\ endpoint[s].pc = "greeting" =>
         tk[s].stage \notin {"idle", "read"} /\ tk[s].instance = endpoint[s].bound
    /\ tk[s].stage = "read" => endpoint[s].pc = "syncing"

\* A delivery has a document of the room, past or present, and waits for
\* sockets of its generation only.
Documents(tk) ==
  \A t \in Tasks :
    /\ tk[t].stage \notin {"idle", "read"} =>
         /\ tk[t].instance \in Instances /\ tk[t].instance <= room.instance
         /\ tk[t].revision \in Nat
         /\ tk[t].instance = room.instance => tk[t].revision <= room.revision
    /\ tk[t].stage \in {"queued", "write"} => \A s \in tk[t].at :
         tk[t].instance = endpoint[s].bound /\ endpoint[s].pc \notin Outside

\* A revision that is noted is one that the room has had.
Marks(m) ==
  /\ \A i \in Instances :
       /\ i = room.instance => m.roomMark[i] <= room.revision
       /\ i > room.instance => m.roomMark[i] = NoRevision
  /\ \A s \in Sockets :
       m.bound[s] # 0 /\ m.bound[s] = room.instance => m.mark[s] <= room.revision

Writes(tk, t, s) == tk[t].stage = "write" /\ s \in tk[t].at

\* Who writes holds the lock and has news; what is not being written is noted.
Writing(m, tk) ==
  /\ \A t \in Tasks, s \in Sockets : Writes(tk, t, s) =>
       /\ Holds(m, s, t)
       /\ m.bound[s] # 0 =>
            m.mark[s] < tk[t].revision /\ (up[s] => shown[s].revision = tk[t].revision)
  /\ \A s \in Sockets : m.bound[s] # 0 /\ up[s] =>
       shown[s].revision = m.mark[s] \/ \E t \in Tasks : Writes(tk, t, s)

\* When a socket has swept, the registered ones of older generations are on
\* their way out.
Swept(tk, s) ==
  \/ endpoint[s].pc = "serving"
  \/ endpoint[s].pc = "greeting" /\ tk[s].stage # "ready"

Sweeps(tk, s, r) ==
  endpoint[s].pc = "greeting" /\ tk[s].stage = "close" /\ r \in tk[s].todo \cup tk[s].at

OldOnesLeave(m, tk) ==
  \A s, r \in Sockets :
    Swept(tk, s) /\ m.bound[r] # 0 /\ m.bound[r] < endpoint[s].bound =>
      endpoint[r].pc \in {"registered", "leaving"} \/ Sweeps(tk, s, r)

\* A delivery that will bring the present document to a socket, or find that
\* it has been brought.
Brings(tk, t, s) ==
  \/ tk[t].stage = "read"
  \/ /\ tk[t].instance = room.instance /\ tk[t].revision = room.revision
     /\ \/ tk[t].stage \in {"ready", "close"} /\ (Greets(t) => t = s)
        \/ tk[t].stage \in {"queued", "write"} /\ s \in tk[t].todo \cup tk[t].at
        \/ tk[t].stage = "expel" /\ s \in tk[t].todo

Awaits(m, s) ==
  /\ room.live
  /\ m.bound[s] # 0 /\ m.bound[s] = room.instance
  /\ endpoint[s].pc \in {"greeting", "serving"}
  /\ up[s]

Promised(m, tk) ==
  \A s \in Sockets : Awaits(m, s) =>
    m.mark[s] = room.revision \/ news > 0 \/ \E t \in Tasks : Brings(tk, t, s)

Sound(m, tk) ==
  /\ Fields(m, tk)
  /\ Membership(m)
  /\ Occupation(tk)
  /\ Documents(tk)
  /\ Marks(m)
  /\ Writing(m, tk)
  /\ OldOnesLeave(m, tk)
  /\ Promised(m, tk)

SocketsInv == Sound(manager, task)

-----------------------------------------------------------------------------
(***************************************************************************)
(* What the operations of the manager do.                                  *)
(***************************************************************************)
(* A socket is unregistered; the revisions of a generation, or of all, may
   be forgotten. *)
LEMMA DisconnectIs ==
  ASSUME NEW m \in Manager, NEW s \in Sockets, NEW n, n = Disconnect(m, s)
  PROVE  /\ n \in Manager /\ n.line = m.line /\ n.bound[s] = 0
         /\ \A r \in Sockets : r # s => n.bound[r] = m.bound[r] /\ n.mark[r] = m.mark[r]
         /\ \A i \in Instances : n.roomMark[i] \in {m.roomMark[i], NoRevision}
<1>1. CASE Registered(m) = {}
  BY <1>1 DEF Disconnect, Registered, Manager
<1>2. CASE Registered(m) # {}
  <2> DEFINE left == Registered(m) \ {s}
             forgotten == {i \in Instances :
                             left = {} \/ (i = m.bound[s] /\ \A r \in left : m.bound[r] # i)}
  <2>1. n = [m EXCEPT !.bound[s] = 0, !.mark[s] = NoRevision,
               !.roomMark = [i \in Instances |->
                               IF i \in forgotten THEN NoRevision ELSE m.roomMark[i]]]
    BY <1>2 DEF Disconnect, Manager
  <2> HIDE DEF forgotten, left
  <2>2. NoRevision \in Revision
    BY DEF Revision
  <2>3. /\ n.bound = [m.bound EXCEPT ![s] = 0] /\ n.mark = [m.mark EXCEPT ![s] = NoRevision]
        /\ n.line = m.line
        /\ n.roomMark = [i \in Instances |->
                           IF i \in forgotten THEN NoRevision ELSE m.roomMark[i]]
    BY <2>1 DEF Manager
  <2>4. /\ n.bound \in [Sockets -> Nat] /\ n.mark \in [Sockets -> Revision]
        /\ n.line \in [Sockets -> Seq(Tasks)]
    BY <2>2, <2>3 DEF Manager
  <2>5. n.roomMark \in [Instances -> Revision]
    BY <2>2, <2>3 DEF Manager
  <2>6. n \in Manager
    BY <2>1, <2>4, <2>5 DEF Manager
  <2> QED
    BY <2>3, <2>6 DEF Manager
<1> QED
  BY <1>1, <1>2

(* A coroutine joins a line; whoever holds a lock keeps it. *)
LEMMA QueueIs ==
  ASSUME NEW m \in Manager, NEW s \in Sockets, NEW t \in Tasks, NEW n, n = Queue(m, s, t)
  PROVE  /\ n \in Manager
         /\ n.bound = m.bound /\ n.mark = m.mark /\ n.roomMark = m.roomMark
         /\ \A r \in Sockets, u \in Tasks : Holds(m, r, u) => Holds(n, r, u)
         /\ m.line[s] = <<>> => Holds(n, s, t)
<1>1. m.line[s] \in Seq(Tasks) /\ Append(m.line[s], t) \in Seq(Tasks)
  BY DEF Manager
<1>2. /\ n.bound = m.bound /\ n.mark = m.mark /\ n.roomMark = m.roomMark
      /\ n.line = [m.line EXCEPT ![s] = Append(m.line[s], t)]
  BY DEF Manager, Queue
<1>3. n \in Manager
  BY <1>1 DEF Manager, Queue
<1>4. \A r \in Sockets : n.line[r] = IF r = s THEN Append(m.line[s], t) ELSE m.line[r]
  BY <1>2 DEF Manager
<1>5. \A q \in Seq(Tasks) : /\ Append(q, t) # <<>>
                            /\ q # <<>> => Head(Append(q, t)) = Head(q)
                            /\ q = <<>> => Head(Append(q, t)) = t
  <2> TAKE q \in Seq(Tasks)
  <2>1. /\ Append(q, t) \in Seq(Tasks) /\ Append(q, t) # <<>>
        /\ \A i \in 1..Len(q) : Append(q, t)[i] = q[i]
        /\ Append(q, t)[Len(q) + 1] = t
    BY AppendProperties
  <2>2. Head(Append(q, t)) = Append(q, t)[1]
    BY <2>1
  <2>3. q = <<>> => Len(q) = 0
    OBVIOUS
  <2>4. q # <<>> => Head(q) = q[1] /\ 1 \in 1..Len(q)
    BY EmptySeq
  <2> QED
    BY <2>1, <2>2, <2>3, <2>4
<1>6. ASSUME NEW r \in Sockets, NEW u \in Tasks, Holds(m, r, u)
      PROVE  Holds(n, r, u)
  <2>1. CASE r = s
    BY <1>1, <1>4, <1>5, <1>6, <2>1 DEF Holds
  <2>2. CASE r # s
    BY <1>4, <1>6, <2>2 DEF Holds
  <2> QED
    BY <2>1, <2>2
<1>7. m.line[s] = <<>> => Holds(n, s, t)
  BY <1>1, <1>4, <1>5 DEF Holds
<1> QED
  BY <1>2, <1>3, <1>6, <1>7

(* The holder of a lock passes it on; no other lock is touched. *)
LEMMA ReleaseIs ==
  ASSUME NEW m \in Manager, NEW s \in Sockets, NEW t \in Tasks, Holds(m, s, t),
         NEW n, n = Release(m, s)
  PROVE  /\ n \in Manager
         /\ n.bound = m.bound /\ n.mark = m.mark /\ n.roomMark = m.roomMark
         /\ \A r \in Sockets, u \in Tasks : r # s /\ Holds(m, r, u) => Holds(n, r, u)
<1>1. m.line[s] \in Seq(Tasks) /\ Tail(m.line[s]) \in Seq(Tasks)
  BY DEF Manager, Holds
<1>2. /\ n.bound = m.bound /\ n.mark = m.mark /\ n.roomMark = m.roomMark
      /\ n.line = [m.line EXCEPT ![s] = Tail(m.line[s])]
  BY DEF Manager, Release
<1>3. n \in Manager
  BY <1>1 DEF Manager, Release
<1>4. \A r \in Sockets : r # s => n.line[r] = m.line[r]
  BY <1>2 DEF Manager
<1> QED
  BY <1>2, <1>3, <1>4 DEF Holds

(* What is noted is what was written; no revision of the room goes back. *)
LEMMA NotedIs ==
  ASSUME NEW m \in Manager, NEW s \in Sockets, NEW d, d.revision \in Nat,
         d.instance \in Instances, NEW n, n = Noted(m, s, d)
  PROVE  /\ n \in Manager /\ n.bound = m.bound /\ n.line = m.line
         /\ n.mark[s] = d.revision
         /\ \A r \in Sockets : r # s => n.mark[r] = m.mark[r]
         /\ \A i \in Instances : \/ n.roomMark[i] = m.roomMark[i]
                                 \/ i = d.instance /\ n.roomMark[i] = d.revision
<1> DEFINE top == IF d.revision > m.roomMark[d.instance]
                  THEN d.revision ELSE m.roomMark[d.instance]
<1>1. n = [m EXCEPT !.mark[s] = d.revision, !.roomMark[d.instance] = top]
  BY DEF Noted
<1>2. top \in Revision /\ d.revision \in Revision /\ top \in {d.revision, m.roomMark[d.instance]}
  BY DEF Revision, Manager
<1> HIDE DEF top
<1>3. /\ n.bound = m.bound /\ n.line = m.line
      /\ n.mark = [m.mark EXCEPT ![s] = d.revision]
      /\ n.roomMark = [m.roomMark EXCEPT ![d.instance] = top]
  BY <1>1 DEF Manager
<1>4. /\ n.bound \in [Sockets -> Nat] /\ n.mark \in [Sockets -> Revision]
      /\ n.line \in [Sockets -> Seq(Tasks)] /\ n.roomMark \in [Instances -> Revision]
  BY <1>2, <1>3 DEF Manager
<1>5. n \in Manager
  BY <1>1, <1>4 DEF Manager
<1> QED
  BY <1>2, <1>3, <1>5 DEF Manager

-----------------------------------------------------------------------------
(***************************************************************************)
(* What a suspended delivery may do.                                       *)
(***************************************************************************)
\* A transport may go down in a step, if its socket is not registered then.
UpAgrees(n) ==
  /\ up' \in [Sockets -> BOOLEAN]
  /\ \A s \in Sockets : n.bound[s] # 0 => up'[s] = up[s]

(* The invariant of the state after a step that writes nothing. *)
LEMMA Carries ==
  ASSUME NEW n, NEW tk, Sound(n, tk), manager' = n, task' = tk,
         UNCHANGED <<room, news, endpoint, shown>>, UpAgrees(n)
  PROVE  SocketsInv' /\ WrittenInOrder
<1>1. Fields(n, tk)'
  BY DEF Sound, Fields, UpAgrees
<1>2. /\ Membership(n)' /\ Occupation(tk)' /\ Documents(tk)' /\ Marks(n)'
      /\ OldOnesLeave(n, tk)'
  BY DEF Sound, Membership, Occupation, Documents, Marks, OldOnesLeave, Swept, Sweeps
<1>3. Writing(n, tk)'
  BY DEF Sound, Writing, Writes, UpAgrees
<1>4. Promised(n, tk)'
  BY DEF Sound, Promised, Awaits, Brings, Greets, UpAgrees
<1>5. WrittenInOrder
  BY DEF WrittenInOrder
<1> QED
  BY <1>1, <1>2, <1>3, <1>4, <1>5 DEF SocketsInv, Sound

(* A delivery that goes on in its loop, and waits for a lock or closes: it   *)
(* keeps its document, and what it promised to the sockets to come.          *)
LEMMA WaitsSoundly ==
  ASSUME NEW m, NEW tk, Sound(m, tk), NEW t \in Tasks, NEW n \in Manager, NEW v \in Delivery,
         NEW x \in tk[t].todo,
         n.bound = m.bound, n.mark = m.mark, n.roomMark = m.roomMark,
         \A s \in Sockets, u \in Tasks : Holds(m, s, u) => Holds(n, s, u),
         v.instance = tk[t].instance, v.revision = tk[t].revision,
         tk[t].at = {}, m.bound[x] # 0,
         v.todo = tk[t].todo \ {x}, v.at = {x},
         \/ tk[t].stage = "close" /\ v.stage = "close" /\ m.bound[x] # v.instance
         \/ tk[t].stage = "queued" /\ v.stage = "expel" /\ m.bound[x] # v.instance
         \/ tk[t].stage = "queued" /\ v.stage = "queued" /\ m.bound[x] = v.instance
  PROVE  Sound(n, [tk EXCEPT ![t] = v])
<1> DEFINE tn == [tk EXCEPT ![t] = v]
<1>1. /\ Fields(m, tk) /\ Membership(m) /\ Occupation(tk) /\ Documents(tk) /\ Marks(m)
      /\ Writing(m, tk) /\ OldOnesLeave(m, tk) /\ Promised(m, tk)
  BY DEF Sound
<1>2. tn \in [Tasks -> Delivery] /\ \A u \in Tasks : tn[u] = IF u = t THEN v ELSE tk[u]
  BY <1>1 DEF Fields
<1>3. x \in Sockets /\ Sockets \subseteq Tasks
  BY <1>1 DEF Fields, Delivery, Tasks
<1> HIDE DEF tn
<1>4. Fields(n, tn) /\ Membership(n) /\ Marks(n)
  BY <1>1, <1>2 DEF Fields, Membership, Marks
<1>5. Occupation(tn)
  BY <1>1, <1>2, <1>3 DEF Occupation
<1>6. Documents(tn)
  BY <1>1, <1>2, <1>3 DEF Documents, Membership, Outside
<1>7. Writing(n, tn)
  <2>1. \A u \in Tasks, s \in Sockets : Writes(tn, u, s) <=> Writes(tk, u, s)
    BY <1>2 DEF Writes
  <2>2. \A u \in Tasks, s \in Sockets : Writes(tn, u, s) => tn[u] = tk[u]
    BY <1>2 DEF Writes
  <2> QED
    BY <1>1, <2>1, <2>2 DEF Writing
<1>8. OldOnesLeave(n, tn)
  BY <1>1, <1>2, <1>3 DEF OldOnesLeave, Swept, Sweeps
<1>9. Promised(n, tn)
  <2>1. ASSUME NEW s \in Sockets, NEW u \in Tasks, Awaits(m, s), Brings(tk, u, s)
        PROVE  Brings(tn, u, s)
    <3>1. CASE u # t
      BY <1>2, <2>1, <3>1 DEF Brings
    <3>2. CASE u = t
      BY <1>2, <2>1, <3>2 DEF Brings, Awaits
    <3> QED
      BY <3>1, <3>2
  <2>2. \A s \in Sockets : Awaits(n, s) <=> Awaits(m, s)
    BY DEF Awaits
  <2> QED
    BY <1>1, <2>1, <2>2 DEF Promised
<1> QED
  BY <1>4, <1>5, <1>6, <1>7, <1>8, <1>9 DEF Sound, tn

(* A delivery that starts to write: it holds the lock of a socket that has   *)
(* not seen its document.                                                    *)
LEMMA WritesSoundly ==
  ASSUME NEW m, NEW tk, Sound(m, tk), NEW t \in Tasks, NEW n \in Manager, NEW v \in Delivery,
         NEW x \in Sockets,
         n.bound = m.bound, n.mark = m.mark, n.roomMark = m.roomMark,
         \A s \in Sockets, u \in Tasks : Holds(m, s, u) => Holds(n, s, u),
         Holds(n, x, t), \A u \in Tasks : ~Writes(tk, u, x),
         v.instance = tk[t].instance, v.revision = tk[t].revision,
         tk[t].stage = "queued", v.stage = "write",
         v.at = {x}, tk[t].todo \cup tk[t].at \subseteq v.todo \cup {x},
         m.bound[x] # 0, m.bound[x] = v.instance, m.mark[x] < v.revision,
         manager' = n, task' = [tk EXCEPT ![t] = v],
         shown' = IF up[x] THEN [shown EXCEPT ![x] =
                                   [instance |-> v.instance, revision |-> v.revision]]
                  ELSE shown,
         UNCHANGED <<room, news, endpoint>>, UpAgrees(n)
  PROVE  SocketsInv' /\ WrittenInOrder
<1> DEFINE tn == [tk EXCEPT ![t] = v]
<1>1. /\ Fields(m, tk) /\ Membership(m) /\ Occupation(tk) /\ Documents(tk) /\ Marks(m)
      /\ Writing(m, tk) /\ OldOnesLeave(m, tk) /\ Promised(m, tk)
  BY DEF Sound
<1>2. tn \in [Tasks -> Delivery] /\ \A u \in Tasks : tn[u] = IF u = t THEN v ELSE tk[u]
  BY <1>1 DEF Fields
<1>3. task' = tn /\ Sockets \subseteq Tasks
  BY DEF Tasks
<1> HIDE DEF tn
<1>4. /\ \A s \in Sockets : s # x => shown'[s] = shown[s]
      /\ ~up[x] => shown' = shown
      /\ up[x] => /\ shown'[x] = [instance |-> v.instance, revision |-> v.revision]
                  /\ shown'[x].instance = v.instance /\ shown'[x].revision = v.revision
      /\ shown' \in [Sockets -> [instance : Nat, revision : Revision]]
  BY <1>1 DEF Fields, Delivery
<1>5. /\ v.instance = endpoint[x].bound
      /\ endpoint[x].pc \in {"registered", "greeting", "serving", "leaving"}
  BY <1>1 DEF Membership
<1>6. WrittenInOrder
  <2> SUFFICES ASSUME NEW s \in Sockets, shown'[s] # shown[s]
               PROVE  shown'[s].instance = endpoint[s].bound /\ shown'[s].revision > shown[s].revision
    BY DEF WrittenInOrder
  <2>1. s = x /\ up[x]
    BY <1>4
  <2>2. shown[x].revision = m.mark[x] /\ m.mark[x] \in Revision /\ v.revision \in Revision
    BY <1>1, <2>1 DEF Writing, Fields, Manager, Delivery
  <2> QED
    BY <1>4, <1>5, <2>1, <2>2 DEF Revision, NoRevision
<1>7. Fields(n, tn)'
  BY <1>1, <1>2, <1>4 DEF Fields, UpAgrees
<1>8. Membership(n)'
  BY <1>1, <1>4, <1>5 DEF Membership, Outside
<1>9. Occupation(tn)'
  BY <1>1, <1>2, <1>3 DEF Occupation
<1>10. Documents(tn)'
  <2>1. /\ tk[t].instance \in Instances /\ tk[t].instance <= room.instance
        /\ tk[t].revision \in Nat
        /\ tk[t].instance = room.instance => tk[t].revision <= room.revision
    BY <1>1 DEF Documents
  <2>2. \A s \in v.at : v.instance = endpoint[s].bound /\ endpoint[s].pc \notin Outside
    BY <1>5 DEF Outside
  <2> QED
    BY <1>1, <1>2, <2>1, <2>2 DEF Documents
<1>11. Marks(n)'
  BY <1>1 DEF Marks
<1>12. Writing(n, tn)'
  <2>1. \A u \in Tasks, s \in Sockets :
          Writes(tn, u, s) <=> Writes(tk, u, s) \/ (u = t /\ s = x)
    BY <1>2 DEF Writes
  <2>2. \A u \in Tasks, s \in Sockets : Writes(tk, u, s) => s # x /\ u # t
    BY DEF Writes
  <2>3. ASSUME NEW u \in Tasks, NEW s \in Sockets, Writes(tn, u, s)
        PROVE  /\ Holds(n, s, u)
               /\ n.bound[s] # 0 =>
                    n.mark[s] < tn[u].revision /\ (up'[s] => shown'[s].revision = tn[u].revision)
    BY <1>1, <1>2, <1>4, <2>1, <2>2, <2>3 DEF Writing, UpAgrees
  <2>4. ASSUME NEW s \in Sockets, n.bound[s] # 0, up'[s]
        PROVE  shown'[s].revision = n.mark[s] \/ \E u \in Tasks : Writes(tn, u, s)
    BY <1>1, <1>4, <2>1, <2>4 DEF Writing, UpAgrees
  <2> QED
    BY <2>3, <2>4 DEF Writing, Writes
<1>13. OldOnesLeave(n, tn)'
  BY <1>1, <1>2, <1>3 DEF OldOnesLeave, Swept, Sweeps
<1>14. Promised(n, tn)'
  <2>1. ASSUME NEW s \in Sockets, NEW u \in Tasks, Brings(tk, u, s)
        PROVE  Brings(tn, u, s)'
    <3>1. CASE u # t
      BY <1>2, <2>1, <3>1 DEF Brings, Greets
    <3>2. CASE u = t
      BY <1>2, <2>1, <3>2 DEF Brings
    <3> QED
      BY <3>1, <3>2
  <2>2. \A s \in Sockets : Awaits(n, s)' => Awaits(m, s)
    BY DEF Awaits, UpAgrees
  <2> QED
    BY <1>1, <2>1, <2>2 DEF Promised
<1> QED
  BY <1>3, <1>6, <1>7, <1>8, <1>9, <1>10, <1>11, <1>12, <1>13, <1>14 DEF SocketsInv, Sound

(* A delivery that ends has brought its document to whom it promised it.     *)
LEMMA FinishesSoundly ==
  ASSUME NEW m, NEW tk, Sound(m, tk), NEW t \in Tasks,
         tk[t].stage = "queued",
         \A s \in Sockets : Awaits(m, s) /\ Brings(tk, t, s) => m.mark[s] = room.revision,
         manager' = m, task' = [tk EXCEPT ![t] = NoDelivery],
         endpoint' = EndpointAfter(m, t),
         UNCHANGED <<room, news, shown>>, UpAgrees(m)
  PROVE  SocketsInv' /\ WrittenInOrder
<1> DEFINE tn == [tk EXCEPT ![t] = NoDelivery]
<1>1. /\ Fields(m, tk) /\ Membership(m) /\ Occupation(tk) /\ Documents(tk) /\ Marks(m)
      /\ Writing(m, tk) /\ OldOnesLeave(m, tk) /\ Promised(m, tk)
  BY DEF Sound
<1>2. /\ NoDelivery \in Delivery /\ NoDelivery.stage = "idle"
      /\ NoDelivery.at = {} /\ NoDelivery.todo = {}
  BY DEF NoDelivery, Delivery, Revision
<1>3. tn \in [Tasks -> Delivery] /\ \A u \in Tasks : tn[u] = IF u = t THEN NoDelivery ELSE tk[u]
  BY <1>1, <1>2 DEF Fields
<1>4. task' = tn /\ Sockets \subseteq Tasks
  BY DEF Tasks
<1> HIDE DEF tn
<1>5. /\ endpoint' \in [Sockets -> Endpoint]
      /\ \A s \in Sockets : s # t => endpoint'[s] = endpoint[s]
      /\ \A s \in Sockets : endpoint'[s].bound = endpoint[s].bound
  BY <1>1 DEF EndpointAfter, Fields, Endpoint
<1>6. t \in Sockets => endpoint'[t].pc = CASE endpoint[t].pc = "syncing"  -> "accepting"
                      [] endpoint[t].pc = "greeting" -> IF m.bound[t] # 0 THEN "serving" ELSE "leaving"
                      [] OTHER -> endpoint[t].pc
  BY <1>1 DEF EndpointAfter, Fields, Endpoint
<1>7. t \in Sockets => endpoint[t].pc \in {"syncing", "greeting", "serving"}
  BY <1>1, <1>4 DEF Fields, Occupation, Endpoint
<1>8. /\ t \in Sockets /\ endpoint[t].pc = "syncing" => endpoint'[t].pc = "accepting"
      /\ t \in Sockets /\ endpoint[t].pc = "greeting" =>
           endpoint'[t].pc = IF m.bound[t] # 0 THEN "serving" ELSE "leaving"
      /\ t \in Sockets /\ endpoint[t].pc = "serving" => endpoint'[t].pc = "serving"
  BY <1>6
<1>9. Fields(m, tn)'
  BY <1>1, <1>3, <1>5 DEF Fields, UpAgrees
<1>10. Membership(m)'
  BY <1>1, <1>5, <1>7, <1>8 DEF Membership, Outside
<1>11. Occupation(tn)'
  BY <1>1, <1>2, <1>3, <1>4, <1>5, <1>7, <1>8 DEF Occupation
<1>12. Documents(tn)'
  <2>1. \A s \in Sockets : endpoint[s].pc \notin Outside => endpoint'[s].pc \notin Outside
    BY <1>5, <1>7, <1>8 DEF Outside
  <2> QED
    BY <1>1, <1>2, <1>3, <1>5, <2>1 DEF Documents, Fields, Delivery
<1>13. Marks(m)'
  BY <1>1 DEF Marks
<1>14. Writing(m, tn)'
  <2>1. \A u \in Tasks, s \in Sockets : Writes(tn, u, s) <=> Writes(tk, u, s)
    BY <1>2, <1>3 DEF Writes
  <2>2. \A u \in Tasks, s \in Sockets : Writes(tk, u, s) => tn[u] = tk[u]
    BY <1>3 DEF Writes
  <2> QED
    BY <1>1, <2>1, <2>2 DEF Writing, UpAgrees, Writes
<1>15. OldOnesLeave(m, tn)'
  <2> SUFFICES ASSUME NEW s \in Sockets, NEW r \in Sockets, Swept(tn, s)',
                      m.bound[r] # 0, m.bound[r] < endpoint[s].bound
               PROVE  endpoint'[r].pc \in {"registered", "leaving"} \/ Sweeps(tn, s, r)'
    BY <1>5 DEF OldOnesLeave
  <2>1. Swept(tk, s)
    BY <1>3, <1>4, <1>5, <1>7, <1>8 DEF Swept
  <2>2. endpoint[r].pc \in {"registered", "leaving"} \/ Sweeps(tk, s, r)
    BY <1>1, <2>1 DEF OldOnesLeave
  <2>3. Sweeps(tk, s, r) => Sweeps(tn, s, r)'
    BY <1>3, <1>4, <1>5 DEF Sweeps
  <2>4. endpoint[r].pc \in {"registered", "leaving"} => endpoint'[r].pc = endpoint[r].pc
    BY <1>5, <1>7
  <2> QED
    BY <2>2, <2>3, <2>4
<1>16. Promised(m, tn)'
  <2>1. \A s \in Sockets : Awaits(m, s)' => Awaits(m, s)
    BY <1>5, <1>7, <1>8 DEF Awaits, UpAgrees
  <2>2. ASSUME NEW s \in Sockets, NEW u \in Tasks, u # t, Brings(tk, u, s)
        PROVE  Brings(tn, u, s)'
    BY <1>3, <1>5, <2>2 DEF Brings, Greets
  <2> QED
    BY <1>1, <2>1, <2>2 DEF Promised
<1>17. WrittenInOrder
  BY DEF WrittenInOrder
<1> QED
  BY <1>4, <1>9, <1>10, <1>11, <1>12, <1>13, <1>14, <1>15, <1>16, <1>17 DEF SocketsInv, Sound

\* A delivery d of t in the middle of a step, with m to go on from.
InHand(m, tk, t, d, stage) ==
  /\ Sound(m, tk)
  /\ task \in [Tasks -> Delivery] /\ d \in Delivery
  /\ \A u \in Tasks : u # t => tk[u] = task[u]
  /\ tk[t].stage = stage /\ tk[t].at = {}
  /\ tk[t].todo = d.todo /\ tk[t].instance = d.instance /\ tk[t].revision = d.revision

(* The loop over the sockets.                                                *)
LEMMA SendOnKeeps ==
  ASSUME NEW m, NEW tk, NEW t \in Tasks, NEW d, InHand(m, tk, t, d, "queued"),
         SendOn(m, t, d), UNCHANGED <<room, news>>, UpAgrees(m)
  PROVE  SocketsInv' /\ WrittenInOrder
<1>1. /\ Fields(m, tk) /\ Documents(tk) /\ Marks(m) /\ Writing(m, tk)
      /\ m \in Manager /\ d \in Delivery
  BY DEF InHand, Sound, Fields
<1>2. \A v : [task EXCEPT ![t] = v] = [tk EXCEPT ![t] = v]
  BY <1>1 DEF Fields, InHand
<1>3. CASE Stops(m, d) = {} /\ Done(m, t)
  <2>1. ASSUME NEW s \in Sockets, Awaits(m, s), Brings(tk, t, s)
        PROVE  m.mark[s] = room.revision
    <3>1. s \in d.todo /\ d.instance = room.instance /\ d.revision = room.revision
      BY <2>1 DEF InHand, Brings
    <3>2. m.bound[s] = d.instance /\ m.bound[s] # 0
      BY <2>1, <3>1 DEF Awaits
    <3>3. Seen(m, s, d)
      BY <1>3, <3>1, <3>2 DEF Stops
    <3>4. m.mark[s] <= room.revision /\ m.mark[s] \in Revision /\ room.revision \in Nat
      BY <1>1, <2>1, <3>1, <3>2 DEF Marks, Fields, Manager
    <3> QED
      BY <3>1, <3>3, <3>4 DEF Seen, Revision, NoRevision
  <2> QED
    BY <1>2, <1>3, <2>1, FinishesSoundly DEF Done, InHand
<1>4. ASSUME NEW s \in Stops(m, d),
             LET rest == [d EXCEPT !.todo = @ \ {s}, !.at = {s}]
             IN  CASE Mismatched(m, s, d) -> Pause(m, t, [rest EXCEPT !.stage = "expel"])
                   [] ~Mismatched(m, s, d) /\ m.line[s] # <<>> ->
                        Pause(Queue(m, s, t), t, [rest EXCEPT !.stage = "queued"])
                   [] OTHER -> Write(Queue(m, s, t), t, rest, s)
      PROVE  SocketsInv' /\ WrittenInOrder
  <2> DEFINE rest == [d EXCEPT !.todo = @ \ {s}, !.at = {s}]
             v(stage) == [rest EXCEPT !.stage = stage]
  <2>1. /\ s \in d.todo /\ s \in Sockets /\ m.bound[s] # 0
        /\ Mismatched(m, s, d) \/ m.line[s] # <<>> \/ ~Seen(m, s, d)
    BY <1>1 DEF Stops, Delivery
  <2>2. ASSUME NEW stage \in {"expel", "queued", "write"}
        PROVE  /\ v(stage) \in Delivery /\ v(stage).stage = stage
               /\ v(stage).todo = d.todo \ {s} /\ v(stage).at = {s}
               /\ v(stage).instance = d.instance /\ v(stage).revision = d.revision
    BY <1>1, <2>1 DEF Delivery
  <2>3. [rest EXCEPT !.stage = "write", !.at = {s}] = v("write")
    BY <1>1 DEF Delivery
  <2> DEFINE n == Queue(m, s, t)
  <2>4. /\ n \in Manager
        /\ n.bound = m.bound /\ n.mark = m.mark /\ n.roomMark = m.roomMark
        /\ \A r \in Sockets, u \in Tasks : Holds(m, r, u) => Holds(n, r, u)
        /\ m.line[s] = <<>> => Holds(n, s, t)
    BY <1>1, <2>1, QueueIs
  <2>5. CASE Mismatched(m, s, d)
    <3>1. Pause(m, t, v("expel"))
      BY <1>4, <2>5
    <3> HIDE DEF v
    <3>2. m.bound[s] # d.instance
      BY <2>5 DEF Mismatched
    <3>3. Sound(m, [tk EXCEPT ![t] = v("expel")])
      BY <1>1, <2>1, <2>2, <3>2, WaitsSoundly DEF InHand
    <3> QED
      BY <1>2, <3>1, <3>3, Carries DEF Pause
  <2>6. CASE ~Mismatched(m, s, d) /\ m.line[s] # <<>>
    <3>1. Pause(n, t, v("queued"))
      BY <1>4, <2>6
    <3> HIDE DEF v, n
    <3>2. m.bound[s] = d.instance
      BY <2>1, <2>6 DEF Mismatched
    <3>3. Sound(n, [tk EXCEPT ![t] = v("queued")])
      BY <1>1, <2>1, <2>2, <2>4, <3>2, WaitsSoundly DEF InHand
    <3>4. UpAgrees(n)
      BY <2>4 DEF UpAgrees
    <3> QED
      BY <1>2, <3>1, <3>3, <3>4, Carries DEF Pause
  <2>7. CASE ~Mismatched(m, s, d) /\ m.line[s] = <<>>
    <3>1. Write(n, t, rest, s)
      BY <1>4, <2>7
    <3>2. rest.instance = d.instance /\ rest.revision = d.revision
      BY <1>1 DEF Delivery
    <3>3. /\ manager' = n /\ task' = [task EXCEPT ![t] = v("write")]
          /\ shown' = IF up[s] THEN [shown EXCEPT ![s] =
                               [instance |-> d.instance, revision |-> d.revision]]
                      ELSE shown
          /\ UNCHANGED endpoint
      BY <2>3, <3>1, <3>2 DEF Write
    <3> HIDE DEF v, n, rest
    <3>4. m.bound[s] = d.instance
      BY <2>1, <2>7 DEF Mismatched
    <3>5. m.mark[s] < d.revision
      <4>1. m.mark[s] \in Revision /\ d.revision \in Revision /\ ~(d.revision <= m.mark[s])
        BY <1>1, <2>1, <2>7 DEF Seen, Mismatched, Manager, Delivery
      <4> QED
        BY <4>1 DEF Revision, NoRevision
    <3>6. \A u \in Tasks : ~Writes(tk, u, s)
      BY <1>1, <2>1, <2>7 DEF Writing, Holds
    <3>7. UpAgrees(n) /\ Sound(m, tk) /\ tk[t].stage = "queued" /\ tk[t].at = {}
      BY <2>4 DEF UpAgrees, InHand
    <3>8. /\ v("write").instance = tk[t].instance /\ v("write").revision = tk[t].revision
          /\ tk[t].todo \cup tk[t].at \subseteq v("write").todo \cup {s}
      BY <2>2 DEF InHand
    <3> QED
      BY <1>2, <2>1, <2>2, <2>4, <2>7, <3>3, <3>4, <3>5, <3>6, <3>7, <3>8, WritesSoundly
  <2> QED
    BY <2>5, <2>6, <2>7
<1> QED
  BY <1>3, <1>4 DEF SendOn

(* From the sweep to the sending.  Who has swept has unregistered every      *)
(* older socket that was there when it began.                                *)
LEMMA TurnsSoundly ==
  ASSUME NEW m, NEW tk, NEW t \in Tasks, NEW d, InHand(m, tk, t, d, "close"),
         Obsolete(m, d) = {},
         NEW e, e = [d EXCEPT !.todo = IF Greets(t) THEN {t} ELSE Registered(m)]
  PROVE  \E turned : InHand(m, turned, t, e, "queued")
<1>1. /\ Fields(m, tk) /\ Membership(m) /\ Occupation(tk) /\ Documents(tk) /\ Marks(m)
      /\ Writing(m, tk) /\ OldOnesLeave(m, tk) /\ Promised(m, tk)
  BY DEF InHand, Sound
<1> DEFINE todo == IF Greets(t) THEN {t} ELSE Registered(m)
           q == [d EXCEPT !.todo = todo, !.stage = "queued", !.at = {}]
           tn == [tk EXCEPT ![t] = q]
<1>2. d \in Delivery /\ todo \subseteq Sockets
  BY DEF InHand, Greets, Registered
<1>3. /\ e \in Delivery /\ q \in Delivery
      /\ e.todo = todo /\ e.instance = d.instance /\ e.revision = d.revision
      /\ q.stage = "queued" /\ q.at = {} /\ q.todo = todo
      /\ q.instance = d.instance /\ q.revision = d.revision
  BY <1>2 DEF Delivery
<1> HIDE DEF q
<1>4. tn \in [Tasks -> Delivery] /\ \A u \in Tasks : tn[u] = IF u = t THEN q ELSE tk[u]
  BY <1>1, <1>3 DEF Fields
<1>5. Sockets \subseteq Tasks /\ q.instance = tk[t].instance /\ q.revision = tk[t].revision
      /\ tk[t].stage = "close" /\ tk[t].at = {} /\ tk[t].todo = d.todo
  BY <1>3 DEF Tasks, InHand
<1> HIDE DEF tn
<1>6. Fields(m, tn)
  BY <1>1, <1>4 DEF Fields
<1>7. Occupation(tn)
  BY <1>1, <1>3, <1>4, <1>5 DEF Occupation
<1>8. Documents(tn)
  BY <1>1, <1>3, <1>4, <1>5 DEF Documents
<1>9. Writing(m, tn)
  <2>1. \A u \in Tasks, s \in Sockets : Writes(tn, u, s) <=> Writes(tk, u, s)
    BY <1>3, <1>4, <1>5 DEF Writes
  <2>2. \A u \in Tasks, s \in Sockets : Writes(tn, u, s) => tn[u] = tk[u]
    BY <1>3, <1>4 DEF Writes
  <2> QED
    BY <1>1, <2>1, <2>2 DEF Writing
<1>10. OldOnesLeave(m, tn)
  <2> SUFFICES ASSUME NEW s \in Sockets, NEW r \in Sockets, Swept(tn, s),
                      m.bound[r] # 0, m.bound[r] < endpoint[s].bound
               PROVE  endpoint[r].pc \in {"registered", "leaving"} \/ Sweeps(tn, s, r)
    BY DEF OldOnesLeave
  <2>1. Swept(tk, s)
    BY <1>3, <1>4, <1>5 DEF Swept
  <2>2. CASE s # t
    BY <1>1, <1>4, <1>5, <2>1, <2>2 DEF OldOnesLeave, Sweeps
  <2>3. CASE s = t /\ endpoint[t].pc = "greeting"
    <3>1. tk[t].instance = endpoint[t].bound
      BY <1>1, <2>3 DEF Occupation
    <3>2. r \notin d.todo
      BY <1>1, <1>3, <1>5, <2>3, <3>1 DEF Obsolete, Mismatched, Fields, Manager, Endpoint
    <3> QED
      BY <1>1, <1>5, <2>1, <2>3, <3>2 DEF OldOnesLeave, Sweeps
  <2>4. CASE s = t /\ endpoint[t].pc # "greeting"
    BY <1>1, <2>1, <2>4 DEF OldOnesLeave, Sweeps
  <2> QED
    BY <2>2, <2>3, <2>4
<1>11. Promised(m, tn)
  <2>1. ASSUME NEW s \in Sockets, NEW u \in Tasks, Awaits(m, s), Brings(tk, u, s)
        PROVE  Brings(tn, u, s)
    <3>1. CASE u # t
      BY <1>4, <2>1, <3>1 DEF Brings
    <3>2. CASE u = t
      <4>1. Greets(t) => t = s
        BY <1>5, <2>1, <3>2 DEF Brings
      <4>2. s \in todo
        BY <2>1, <4>1 DEF Awaits, Registered
      <4> QED
        BY <1>3, <1>4, <1>5, <2>1, <3>2, <4>2 DEF Brings
    <3> QED
      BY <3>1, <3>2
  <2> QED
    BY <1>1, <2>1 DEF Promised
<1>12. InHand(m, tn, t, e, "queued")
  <2>1. Sound(m, tn)
    BY <1>1, <1>6, <1>7, <1>8, <1>9, <1>10, <1>11 DEF Sound
  <2>2. task \in [Tasks -> Delivery] /\ \A u \in Tasks : u # t => tk[u] = task[u]
    BY DEF InHand
  <2> HIDE DEF todo
  <2> QED
    BY <1>3, <1>4, <2>1, <2>2 DEF InHand
<1> QED
  BY <1>12

(* The mark of a broadcast holds what it is about to write.                  *)
LEMMA MarksSoundly ==
  ASSUME NEW m, NEW tk, NEW t \in Tasks, NEW d, InHand(m, tk, t, d, "queued"),
         NEW n, n = [m EXCEPT !.roomMark[d.instance] = d.revision]
  PROVE  InHand(n, tk, t, d, "queued")
<1>1. /\ Fields(m, tk) /\ Membership(m) /\ Occupation(tk) /\ Documents(tk) /\ Marks(m)
      /\ Writing(m, tk) /\ OldOnesLeave(m, tk) /\ Promised(m, tk)
  BY DEF InHand, Sound
<1>2. /\ d.instance \in Instances /\ d.instance <= room.instance /\ d.revision \in Nat
      /\ d.instance = room.instance => d.revision <= room.revision
  BY <1>1 DEF Documents, InHand
<1>3. /\ n \in Manager /\ n.bound = m.bound /\ n.line = m.line /\ n.mark = m.mark
      /\ \A j \in Instances : n.roomMark[j] = IF j = d.instance THEN d.revision ELSE m.roomMark[j]
  <2>1. m \in Manager
    BY <1>1 DEF Fields
  <2> QED
    BY <1>2, <2>1 DEF Manager, Revision
<1>4. Fields(n, tk) /\ Membership(n) /\ Writing(n, tk) /\ OldOnesLeave(n, tk) /\ Promised(n, tk)
  BY <1>1, <1>3 DEF Fields, Membership, Writing, OldOnesLeave, Promised, Awaits, Holds
<1>5. Marks(n)
  BY <1>1, <1>2, <1>3, SocketsAssumption DEF Marks, Fields, Instances
<1> QED
  BY <1>1, <1>4, <1>5 DEF InHand, Sound

(* After the sweep.                                                          *)
LEMMA BeginSendKeeps ==
  ASSUME NEW m, NEW tk, NEW t \in Tasks, NEW d, InHand(m, tk, t, d, "close"),
         Obsolete(m, d) = {}, BeginSend(m, t, d), UNCHANGED <<room, news>>, UpAgrees(m)
  PROVE  SocketsInv' /\ WrittenInOrder
<1> DEFINE e == [d EXCEPT !.todo = IF Greets(t) THEN {t} ELSE Registered(m)]
<1>1. PICK tn : InHand(m, tn, t, e, "queued")
  BY TurnsSoundly
<1>2. /\ e.instance = d.instance /\ e.revision = d.revision
      /\ e.todo = IF Greets(t) THEN {t} ELSE Registered(m)
      /\ Greets(t) => e = [d EXCEPT !.todo = {t}]
      /\ ~Greets(t) => e = [d EXCEPT !.todo = Registered(m)]
  BY DEF InHand, Delivery
<1> HIDE DEF e
<1>3. CASE Greets(t)
  BY <1>1, <1>2, <1>3, SendOnKeeps DEF BeginSend
<1>4. CASE ~Greets(t) /\ (Registered(m) = {} \/ Superseded(m, d)) /\ Done(m, t)
  <2>1. \A v : [task EXCEPT ![t] = v] = [tn EXCEPT ![t] = v]
    BY <1>1 DEF InHand, Sound, Fields
  <2>2. Marks(m) /\ Fields(m, tn) /\ Documents(tn) /\ tn[t].stage = "queued"
    BY <1>1 DEF InHand, Sound
  <2>3. ASSUME NEW s \in Sockets, Awaits(m, s), Brings(tn, t, s)
        PROVE  FALSE
    <3>1. /\ d.instance = room.instance /\ d.revision = room.revision
          /\ s \in Registered(m)
      BY <1>1, <1>2, <1>4, <2>2, <2>3 DEF InHand, Brings
    <3>2. d.revision < m.roomMark[d.instance]
      BY <1>4, <3>1 DEF Superseded
    <3>3. m.roomMark[d.instance] <= room.revision /\ m.roomMark[d.instance] \in Revision
      BY <2>2, <2>3, <3>1 DEF Marks, Awaits, Fields, Manager
    <3> QED
      BY <2>2, <3>1, <3>2, <3>3 DEF Revision, NoRevision, Fields
  <2> QED
    BY <1>1, <1>4, <2>1, <2>2, <2>3, FinishesSoundly DEF InHand, Done
<1>5. CASE /\ ~Greets(t)
           /\ SendOn([m EXCEPT !.roomMark[d.instance] = d.revision], t,
                     [d EXCEPT !.todo = Registered(m)])
  <2> DEFINE n == [m EXCEPT !.roomMark[d.instance] = d.revision]
  <2>1. InHand(n, tn, t, e, "queued")
    BY <1>1, <1>2, MarksSoundly
  <2>2. n.bound = m.bound
    BY <1>1 DEF InHand, Sound, Fields, Manager
  <2>3. UpAgrees(n)
    BY <2>2 DEF UpAgrees
  <2> HIDE DEF n
  <2>4. SendOn(n, t, e)
    BY <1>2, <1>5 DEF n
  <2> QED
    BY <2>1, <2>3, <2>4, SendOnKeeps
<1> QED
  BY <1>3, <1>4, <1>5 DEF BeginSend

(* The sweep.                                                                *)
LEMMA SweepKeeps ==
  ASSUME NEW m, NEW tk, NEW t \in Tasks, NEW d, InHand(m, tk, t, d, "close"),
         Sweep(m, t, d), UNCHANGED <<room, news>>, UpAgrees(m)
  PROVE  SocketsInv' /\ WrittenInOrder
<1>1. CASE Obsolete(m, d) = {} /\ BeginSend(m, t, d)
  BY <1>1, BeginSendKeeps
<1>2. ASSUME NEW s \in Obsolete(m, d),
             Pause(Queue(m, s, t), t,
                   [d EXCEPT !.stage = "close", !.todo = @ \ {s}, !.at = {s}])
      PROVE  SocketsInv' /\ WrittenInOrder
  <2> DEFINE v == [d EXCEPT !.stage = "close", !.todo = @ \ {s}, !.at = {s}]
             n == Queue(m, s, t)
  <2>1. /\ m \in Manager /\ d \in Delivery /\ tk \in [Tasks -> Delivery]
        /\ s \in d.todo /\ m.bound[s] # 0 /\ m.bound[s] # d.instance
    BY <1>2 DEF Obsolete, Mismatched, InHand, Sound, Fields
  <2>2. s \in Sockets
    BY <2>1 DEF Delivery
  <2>3. /\ v \in Delivery /\ v.stage = "close" /\ v.todo = d.todo \ {s} /\ v.at = {s}
        /\ v.instance = d.instance /\ v.revision = d.revision
    BY <2>1, <2>2 DEF Delivery
  <2>4. /\ n \in Manager
        /\ n.bound = m.bound /\ n.mark = m.mark /\ n.roomMark = m.roomMark
        /\ \A r \in Sockets, u \in Tasks : Holds(m, r, u) => Holds(n, r, u)
    BY <2>1, <2>2, QueueIs
  <2>5. [task EXCEPT ![t] = v] = [tk EXCEPT ![t] = v]
    BY <2>1 DEF InHand
  <2>6. Pause(n, t, v)
    BY <1>2
  <2> HIDE DEF v, n
  <2>7. Sound(n, [tk EXCEPT ![t] = v])
    <3>1. /\ Sound(m, tk) /\ tk[t].stage = "close" /\ tk[t].at = {} /\ s \in tk[t].todo
          /\ v.todo = tk[t].todo \ {s}
          /\ v.instance = tk[t].instance /\ v.revision = tk[t].revision
      BY <2>1, <2>3 DEF InHand
    <3> QED
      BY <2>1, <2>3, <2>4, <3>1, WaitsSoundly
  <2>8. UpAgrees(n)
    BY <2>4 DEF UpAgrees
  <2> QED
    BY <2>5, <2>6, <2>7, <2>8, Carries DEF Pause
<1> QED
  BY <1>1, <1>2 DEF Sweep

-----------------------------------------------------------------------------
(***************************************************************************)
(* A delivery is resumed.                                                  *)
(***************************************************************************)
(* It starts its sweep, or goes on with it, or with the sending; whoever it  *)
(* was at has gone, or has been brought what was promised.                   *)
LEMMA ResumesSoundly ==
  ASSUME NEW m, Sound(m, task), NEW t \in Tasks, NEW d \in Delivery, NEW stage,
         d.instance = task[t].instance, d.revision = task[t].revision,
         \/ stage = "close" /\ task[t].stage = "ready" /\ Registered(m) \subseteq d.todo
         \/ /\ stage = "close" /\ task[t].stage = "close" /\ d.todo = task[t].todo
            /\ \A s \in task[t].at : m.bound[s] = 0
         \/ /\ stage = "queued" /\ task[t].stage \in {"queued", "write", "expel"}
            /\ d.todo = task[t].todo
            /\ task[t].stage # "expel" => \A s \in task[t].at :
                 /\ Awaits(m, s) /\ d.instance = room.instance /\ d.revision = room.revision =>
                      m.mark[s] = room.revision
                 /\ task[t].stage = "write" => m.bound[s] = 0
  PROVE  \E tk : InHand(m, tk, t, d, stage)
<1>1. /\ Fields(m, task) /\ Membership(m) /\ Occupation(task) /\ Documents(task) /\ Marks(m)
      /\ Writing(m, task) /\ OldOnesLeave(m, task) /\ Promised(m, task)
  BY DEF Sound
<1> DEFINE p == [d EXCEPT !.stage = stage, !.at = {}]
           tn == [task EXCEPT ![t] = p]
<1>2. /\ p \in Delivery /\ p.stage = stage /\ p.at = {} /\ p.todo = d.todo
      /\ p.instance = task[t].instance /\ p.revision = task[t].revision
  BY DEF Delivery
<1> HIDE DEF p
<1>3. tn \in [Tasks -> Delivery] /\ \A u \in Tasks : tn[u] = IF u = t THEN p ELSE task[u]
  BY <1>1, <1>2 DEF Fields
<1>4. Sockets \subseteq Tasks /\ task[t].stage \notin {"idle", "read"}
      /\ stage \in {"close", "queued"} /\ d.todo \subseteq Sockets
  BY DEF Tasks, Delivery
<1> HIDE DEF tn
<1>5. Fields(m, tn)
  BY <1>1, <1>3 DEF Fields
<1>6. Occupation(tn)
  BY <1>1, <1>2, <1>3, <1>4 DEF Occupation
<1>7. Documents(tn)
  BY <1>1, <1>2, <1>3, <1>4 DEF Documents
<1>8. Writing(m, tn)
  <2>1. \A u \in Tasks, s \in Sockets : Writes(tn, u, s) <=> u # t /\ Writes(task, u, s)
    BY <1>2, <1>3, <1>4 DEF Writes
  <2>2. \A s \in Sockets : Writes(task, t, s) => m.bound[s] = 0
    BY DEF Writes
  <2> QED
    BY <1>1, <1>3, <2>1, <2>2 DEF Writing
<1>9. OldOnesLeave(m, tn)
  <2> SUFFICES ASSUME NEW s \in Sockets, NEW r \in Sockets, Swept(tn, s),
                      m.bound[r] # 0, m.bound[r] < endpoint[s].bound
               PROVE  endpoint[r].pc \in {"registered", "leaving"} \/ Sweeps(tn, s, r)
    BY DEF OldOnesLeave
  <2>1. CASE s # t \/ endpoint[s].pc # "greeting"
    <3>1. Swept(task, s) /\ (Sweeps(task, s, r) => Sweeps(tn, s, r))
      BY <1>3, <1>4, <2>1 DEF Swept, Sweeps
    <3> QED
      BY <1>1, <3>1 DEF OldOnesLeave
  <2>2. CASE s = t /\ endpoint[s].pc = "greeting" /\ task[t].stage = "ready"
    BY <1>2, <1>3, <1>4, <2>2 DEF Registered, Sweeps
  <2>3. CASE s = t /\ endpoint[s].pc = "greeting" /\ task[t].stage # "ready"
    <3>1. endpoint[r].pc \in {"registered", "leaving"} \/ Sweeps(task, s, r)
      BY <1>1, <2>3 DEF OldOnesLeave, Swept
    <3>2. Sweeps(task, s, r) => Sweeps(tn, s, r)
      BY <1>2, <1>3, <1>4, <2>3 DEF Sweeps
    <3> QED
      BY <3>1, <3>2
  <2> QED
    BY <2>1, <2>2, <2>3
<1>10. Promised(m, tn)
  <2>1. ASSUME NEW s \in Sockets, NEW u \in Tasks, Awaits(m, s), Brings(task, u, s)
        PROVE  m.mark[s] = room.revision \/ Brings(tn, u, s)
    <3>1. CASE u # t
      BY <1>3, <2>1, <3>1 DEF Brings
    <3>2. CASE u = t
      BY <1>2, <1>3, <1>4, <2>1, <3>2 DEF Brings
    <3> QED
      BY <3>1, <3>2
  <2> QED
    BY <1>1, <2>1 DEF Promised
<1>11. Sound(m, tn)
  BY <1>1, <1>5, <1>6, <1>7, <1>8, <1>9, <1>10 DEF Sound
<1>12. InHand(m, tn, t, d, stage)
  BY <1>1, <1>2, <1>3, <1>11 DEF InHand, Fields
<1> QED
  BY <1>12

(* A socket that is unregistered is nobody's concern any more.               *)
LEMMA DisconnectsSoundly ==
  ASSUME NEW m, NEW tk, Sound(m, tk), NEW s \in Sockets, NEW n, n = Disconnect(m, s)
  PROVE  Sound(n, tk)
<1>1. /\ Fields(m, tk) /\ Membership(m) /\ Occupation(tk) /\ Documents(tk) /\ Marks(m)
      /\ Writing(m, tk) /\ OldOnesLeave(m, tk) /\ Promised(m, tk)
  BY DEF Sound
<1>2. /\ n \in Manager /\ n.line = m.line /\ n.bound[s] = 0
      /\ \A r \in Sockets : r # s => n.bound[r] = m.bound[r] /\ n.mark[r] = m.mark[r]
      /\ \A i \in Instances : n.roomMark[i] \in {m.roomMark[i], NoRevision}
  BY <1>1, DisconnectIs DEF Fields
<1>3. Fields(n, tk) /\ Membership(n)
  BY <1>1, <1>2 DEF Fields, Membership
<1>4. Marks(n)
  BY <1>1, <1>2 DEF Marks, Fields, NoRevision
<1>5. Writing(n, tk)
  BY <1>1, <1>2 DEF Writing, Holds
<1>6. OldOnesLeave(n, tk)
  BY <1>1, <1>2 DEF OldOnesLeave
<1>7. Promised(n, tk)
  <2>1. \A r \in Sockets : Awaits(n, r) => Awaits(m, r) /\ n.mark[r] = m.mark[r]
    BY <1>2 DEF Awaits
  <2> QED
    BY <1>1, <2>1 DEF Promised
<1> QED
  BY <1>1, <1>3, <1>4, <1>5, <1>6, <1>7 DEF Sound

(* A lock is passed on by a delivery that does not write.                    *)
LEMMA ReleasesSoundly ==
  ASSUME NEW m, NEW tk, NEW t \in Tasks, NEW d, NEW stage \in {"close", "queued"},
         InHand(m, tk, t, d, stage), NEW s \in Sockets, Holds(m, s, t),
         NEW n, n = Release(m, s)
  PROVE  InHand(n, tk, t, d, stage) /\ n.bound = m.bound
<1>1. /\ Fields(m, tk) /\ Membership(m) /\ Occupation(tk) /\ Documents(tk) /\ Marks(m)
      /\ Writing(m, tk) /\ OldOnesLeave(m, tk) /\ Promised(m, tk)
  BY DEF InHand, Sound
<1>2. /\ n \in Manager
      /\ n.bound = m.bound /\ n.mark = m.mark /\ n.roomMark = m.roomMark
      /\ \A r \in Sockets, u \in Tasks : r # s /\ Holds(m, r, u) => Holds(n, r, u)
  BY <1>1, ReleaseIs DEF Fields
<1>3. Fields(n, tk) /\ Membership(n) /\ Marks(n) /\ OldOnesLeave(n, tk) /\ Promised(n, tk)
  BY <1>1, <1>2 DEF Fields, Membership, Marks, OldOnesLeave, Promised, Awaits
<1>4. Writing(n, tk)
  <2>1. \A u \in Tasks : ~Writes(tk, u, s)
    BY <1>1 DEF Writing, Writes, Holds, InHand
  <2> QED
    BY <1>1, <1>2, <2>1 DEF Writing
<1> QED
  BY <1>1, <1>2, <1>3, <1>4 DEF InHand, Sound

(* What was written is noted.                                                *)
LEMMA NotesSoundly ==
  ASSUME SocketsInv, NEW t \in Tasks, NEW x \in Sockets,
         task[t].stage = "write", task[t].at = {x},
         shown[x] = [instance |-> task[t].instance, revision |-> task[t].revision],
         NEW n, n = Noted(manager, x, task[t])
  PROVE  (\E tk : InHand(n, tk, t, task[t], "queued")) /\ n.bound = manager.bound
           /\ n.line = manager.line
<1> DEFINE m == manager
           d == task[t]
           p == [d EXCEPT !.stage = "queued", !.at = {}]
           tn == [task EXCEPT ![t] = p]
<1>1. /\ Fields(m, task) /\ Membership(m) /\ Occupation(task) /\ Documents(task) /\ Marks(m)
      /\ Writing(m, task) /\ OldOnesLeave(m, task) /\ Promised(m, task)
  BY DEF SocketsInv, Sound
<1>2. /\ m \in Manager /\ d \in Delivery /\ Sockets \subseteq Tasks
      /\ room.revision \in Nat /\ room.instance \in Nat
  BY <1>1 DEF Fields, Tasks
<1>3. /\ d.instance \in Instances /\ d.instance <= room.instance /\ d.revision \in Nat
      /\ d.instance = room.instance => d.revision <= room.revision
      /\ d.instance = endpoint[x].bound
  BY <1>1 DEF Documents
<1>4. /\ Writes(task, t, x) /\ Holds(m, x, t) /\ shown[x].revision = d.revision
      /\ m.bound[x] # 0 => m.mark[x] < d.revision
      /\ \A u \in Tasks : Writes(task, u, x) => u = t
  BY <1>1 DEF Writing, Writes, Holds
<1>5. /\ p \in Delivery /\ p.stage = "queued" /\ p.at = {} /\ p.todo = d.todo
      /\ p.instance = d.instance /\ p.revision = d.revision
  BY <1>2 DEF Delivery
<1> HIDE DEF p
<1>6. tn \in [Tasks -> Delivery] /\ \A u \in Tasks : tn[u] = IF u = t THEN p ELSE task[u]
  BY <1>1, <1>5 DEF Fields
<1> HIDE DEF tn
<1>7. /\ n \in Manager /\ n.bound = m.bound /\ n.line = m.line /\ n.mark[x] = d.revision
      /\ \A r \in Sockets : r # x => n.mark[r] = m.mark[r]
      /\ \A i \in Instances : \/ n.roomMark[i] = m.roomMark[i]
                              \/ i = d.instance /\ n.roomMark[i] = d.revision
  BY <1>2, <1>3, NotedIs
<1>8. Fields(n, tn) /\ Membership(n)
  BY <1>1, <1>6, <1>7 DEF Fields, Membership
<1>9. Occupation(tn) /\ Documents(tn)
  BY <1>1, <1>2, <1>5, <1>6 DEF Occupation, Documents
<1>10. Marks(n)
  <2>1. \A i \in Instances : /\ i = room.instance => n.roomMark[i] <= room.revision
                             /\ i > room.instance => n.roomMark[i] = NoRevision
    BY <1>1, <1>2, <1>3, <1>7, SocketsAssumption DEF Marks, Instances
  <2>2. \A s \in Sockets :
          n.bound[s] # 0 /\ n.bound[s] = room.instance => n.mark[s] <= room.revision
    BY <1>1, <1>3, <1>7 DEF Marks, Membership
  <2> QED
    BY <2>1, <2>2 DEF Marks
<1>11. Writing(n, tn)
  <2>1. \A u \in Tasks, s \in Sockets : Writes(tn, u, s) <=> u # t /\ Writes(task, u, s)
    BY <1>5, <1>6 DEF Writes
  <2>2. \A u \in Tasks, s \in Sockets : Writes(tn, u, s) => s # x /\ tn[u] = task[u]
    BY <1>4, <1>6, <2>1
  <2>3. \A s \in Sockets : Writes(task, t, s) => s = x
    BY DEF Writes
  <2>4. \A s \in Sockets, u \in Tasks : Holds(m, s, u) => Holds(n, s, u)
    BY <1>7 DEF Holds
  <2> QED
    BY <1>1, <1>4, <1>7, <2>1, <2>2, <2>3, <2>4 DEF Writing
<1>12. OldOnesLeave(n, tn)
  BY <1>1, <1>2, <1>5, <1>6, <1>7 DEF OldOnesLeave, Swept, Sweeps
<1>13. Promised(n, tn)
  <2> SUFFICES ASSUME NEW s \in Sockets, Awaits(n, s)
               PROVE  n.mark[s] = room.revision \/ news > 0 \/ \E u \in Tasks : Brings(tn, u, s)
    BY DEF Promised
  <2>1. Awaits(m, s)
    BY <1>7 DEF Awaits
  <2>2. m.mark[s] = room.revision => s # x
    BY <1>1, <1>2, <1>3, <1>4, <1>7, <2>1 DEF Awaits, Membership, Manager, Revision, NoRevision
  <2>3. ASSUME NEW u \in Tasks, Brings(task, u, s)
        PROVE  Brings(tn, u, s) \/ n.mark[s] = room.revision
    <3>1. CASE u # t
      BY <1>6, <2>3, <3>1 DEF Brings
    <3>2. CASE u = t
      BY <1>5, <1>6, <1>7, <2>3, <3>2 DEF Brings
    <3> QED
      BY <3>1, <3>2
  <2> QED
    BY <1>1, <1>7, <2>1, <2>2, <2>3 DEF Promised
<1>14. Sound(n, tn)
  BY <1>8, <1>9, <1>10, <1>11, <1>12, <1>13 DEF Sound
<1>15. InHand(n, tn, t, d, "queued")
  BY <1>1, <1>5, <1>6, <1>14 DEF InHand, Fields
<1> QED
  BY <1>7, <1>15

(* Every step of a delivery keeps the invariant, and writes in order.        *)
LEMMA StartDeliveryKeeps ==
  ASSUME SocketsInv, NEW t \in Tasks, StartDelivery(t)
  PROVE  SocketsInv' /\ WrittenInOrder
<1> DEFINE d == [task[t] EXCEPT !.todo = Registered(manager)]
<1>1. Fields(manager, task) /\ Sound(manager, task)
  BY DEF SocketsInv, Sound
<1>2. /\ d \in Delivery /\ d.todo = Registered(manager)
      /\ d.instance = task[t].instance /\ d.revision = task[t].revision
  BY <1>1 DEF Fields, Delivery, Registered
<1>3. task[t].stage = "ready" /\ Sweep(manager, t, d) /\ UNCHANGED <<room, news, up>>
  BY DEF StartDelivery
<1> HIDE DEF d
<1>4. PICK tk : InHand(manager, tk, t, d, "close")
  BY <1>1, <1>2, <1>3, ResumesSoundly
<1>5. UpAgrees(manager)
  BY <1>1, <1>3 DEF UpAgrees, Fields
<1> QED
  BY <1>3, <1>4, <1>5, SweepKeeps

(* A socket of another generation is closed, or was gone already. *)
LEMMA FinishCloseKeeps ==
  ASSUME SocketsInv, NEW t \in Tasks, NEW s \in Sockets, FinishClose(t, s)
  PROVE  SocketsInv' /\ WrittenInOrder
<1> DEFINE m == IF manager.bound[s] # 0 THEN Disconnect(manager, s) ELSE manager
           n == Release(m, s)
           d == task[t]
<1>1. Fields(manager, task) /\ Sound(manager, task)
  BY DEF SocketsInv, Sound
<1>2. /\ d.stage = "close" /\ d.at = {s} /\ Holds(manager, s, t) /\ Sweep(n, t, d)
      /\ up' = IF manager.bound[s] # 0 THEN [up EXCEPT ![s] = FALSE] ELSE up
      /\ UNCHANGED <<room, news>>
  BY DEF FinishClose
<1>3. Sound(m, task) /\ m.bound[s] = 0 /\ Holds(m, s, t)
      /\ \A r \in Sockets : r # s => m.bound[r] = manager.bound[r]
  <2>1. CASE manager.bound[s] # 0
    BY <1>1, <1>2, <2>1, DisconnectIs, DisconnectsSoundly DEF Fields, Holds
  <2>2. CASE manager.bound[s] = 0
    BY <1>1, <1>2, <2>2
  <2> QED
    BY <2>1, <2>2
<1> HIDE DEF m
<1>4. PICK tk : InHand(m, tk, t, d, "close")
  BY <1>1, <1>2, <1>3, ResumesSoundly DEF Fields
<1>5. InHand(n, tk, t, d, "close") /\ n.bound = m.bound
  BY <1>3, <1>4, ReleasesSoundly
<1>6. UpAgrees(n)
  <2>1. up' \in [Sockets -> BOOLEAN] /\ \A r \in Sockets : r # s => up'[r] = up[r]
    BY <1>1, <1>2 DEF Fields
  <2> QED
    BY <1>3, <1>5, <2>1 DEF UpAgrees
<1> HIDE DEF n, d
<1> QED
  BY <1>2, <1>5, <1>6, SweepKeeps

(* The lock came free: the socket is written to, or passed over. *)
LEMMA AcquireKeeps ==
  ASSUME SocketsInv, NEW t \in Tasks, NEW s \in Sockets, Acquire(t, s)
  PROVE  SocketsInv' /\ WrittenInOrder
<1> DEFINE d == task[t]
<1>1. /\ Fields(manager, task) /\ Sound(manager, task) /\ Membership(manager)
      /\ Documents(task) /\ Writing(manager, task) /\ Marks(manager)
  BY DEF SocketsInv, Sound
<1>2. /\ d.stage = "queued" /\ d.at = {s} /\ Holds(manager, s, t)
      /\ UNCHANGED <<room, news, up>>
  BY DEF Acquire
<1>3. UpAgrees(manager) /\ manager \in Manager /\ d \in Delivery
  BY <1>1, <1>2 DEF UpAgrees, Fields
<1>4. CASE manager.bound[s] # 0 /\ ~Seen(manager, s, d)
  <2> DEFINE v == [d EXCEPT !.stage = "write", !.at = {s}]
  <2>1. Write(manager, t, d, s)
    BY <1>4 DEF Acquire
  <2>2. /\ v \in Delivery /\ v.stage = "write" /\ v.at = {s} /\ v.todo = d.todo
        /\ v.instance = d.instance /\ v.revision = d.revision
    BY <1>3 DEF Delivery
  <2>3. /\ manager' = manager /\ task' = [task EXCEPT ![t] = v]
        /\ shown' = IF up[s] THEN [shown EXCEPT ![s] =
                             [instance |-> d.instance, revision |-> d.revision]]
                    ELSE shown
        /\ UNCHANGED endpoint
    BY <2>1 DEF Write
  <2> HIDE DEF v
  <2>4. manager.bound[s] = d.instance
    BY <1>1, <1>2, <1>4 DEF Membership, Documents
  <2>5. manager.mark[s] < d.revision
    <3>1. /\ manager.mark[s] \in Revision /\ d.revision \in Revision
          /\ ~(d.revision <= manager.mark[s])
      BY <1>3, <1>4 DEF Seen, Manager, Delivery
    <3> QED
      BY <3>1 DEF Revision, NoRevision
  <2>6. \A u \in Tasks : ~Writes(task, u, s)
    BY <1>1, <1>2 DEF Writing, Writes, Holds
  <2>7. d.todo \cup d.at \subseteq v.todo \cup {s}
    BY <1>2, <2>2
  <2> QED
    BY <1>1, <1>2, <1>3, <1>4, <2>2, <2>3, <2>4, <2>5, <2>6, <2>7, WritesSoundly
<1>5. CASE ~(manager.bound[s] # 0 /\ ~Seen(manager, s, d))
  <2> DEFINE n == Release(manager, s)
  <2>1. SendOn(n, t, d)
    BY <1>5 DEF Acquire
  <2>2. Awaits(manager, s) /\ d.instance = room.instance /\ d.revision = room.revision =>
          manager.mark[s] = room.revision
    <3>1. Awaits(manager, s) => manager.mark[s] <= room.revision /\ d.revision <= manager.mark[s]
      BY <1>1, <1>5 DEF Awaits, Marks, Seen
    <3>2. manager.mark[s] \in Revision /\ room.revision \in Nat
      BY <1>1 DEF Fields, Manager
    <3> QED
      BY <3>1, <3>2 DEF Revision, NoRevision
  <2>3. PICK tk : InHand(manager, tk, t, d, "queued")
    BY <1>1, <1>2, <1>3, <2>2, ResumesSoundly
  <2>4. InHand(n, tk, t, d, "queued") /\ n.bound = manager.bound
    BY <1>2, <2>3, ReleasesSoundly
  <2>5. UpAgrees(n)
    BY <1>3, <2>4 DEF UpAgrees
  <2> HIDE DEF n, d
  <2> QED
    BY <1>2, <2>1, <2>4, <2>5, SendOnKeeps
<1> QED
  BY <1>4, <1>5

(* A write is over; the loop goes on with what is noted. *)
LEMMA FinishWriteKeeps ==
  ASSUME SocketsInv, NEW t \in Tasks, NEW s \in Sockets, FinishWrite(t, s)
  PROVE  SocketsInv' /\ WrittenInOrder
<1> DEFINE d == task[t]
           m == Noted(manager, s, d)
           n == Release(m, s)
<1>1. Fields(manager, task) /\ Writing(manager, task)
  BY DEF SocketsInv, Sound
<1>2. /\ d.stage = "write" /\ d.at = {s} /\ SendOn(n, t, d)
      /\ shown[s] = [instance |-> d.instance, revision |-> d.revision]
      /\ UNCHANGED <<room, news, up>>
  BY DEF FinishWrite
<1>3. (\E tk : InHand(m, tk, t, d, "queued")) /\ m.bound = manager.bound
        /\ m.line = manager.line
  BY <1>2, NotesSoundly
<1>4. Holds(m, s, t)
  BY <1>1, <1>2, <1>3 DEF Writing, Writes, Holds
<1> HIDE DEF m
<1>5. PICK tk : InHand(n, tk, t, d, "queued")
  BY <1>3, <1>4, ReleasesSoundly
<1>6. UpAgrees(n)
  BY <1>1, <1>2 DEF UpAgrees, Fields
<1> HIDE DEF n, d
<1> QED
  BY <1>2, <1>5, <1>6, SendOnKeeps

(* A write has failed; its socket is unregistered, and the loop goes on. *)
LEMMA FailWriteKeeps ==
  ASSUME SocketsInv, NEW t \in Tasks, NEW s \in Sockets, FailWrite(t, s)
  PROVE  SocketsInv' /\ WrittenInOrder
<1> DEFINE d == task[t]
           m == Disconnect(manager, s)
           n == Release(m, s)
<1>1. Fields(manager, task) /\ Writing(manager, task) /\ Sound(manager, task)
  BY DEF SocketsInv, Sound
<1>2. /\ d.stage = "write" /\ d.at = {s} /\ SendOn(n, t, d) /\ UNCHANGED <<room, news, up>>
  BY DEF FailWrite
<1>3. Sound(m, task) /\ m.line = manager.line /\ m.bound[s] = 0
  BY <1>1, DisconnectIs, DisconnectsSoundly DEF Fields
<1>4. Holds(m, s, t)
  BY <1>1, <1>2, <1>3 DEF Writing, Writes, Holds
<1> HIDE DEF m
<1>5. \E tk : InHand(m, tk, t, d, "queued")
  BY <1>1, <1>2, <1>3, ResumesSoundly DEF Fields, Awaits
<1>6. PICK tk : InHand(n, tk, t, d, "queued")
  BY <1>4, <1>5, ReleasesSoundly
<1>7. UpAgrees(n)
  BY <1>1, <1>2 DEF UpAgrees, Fields
<1> HIDE DEF n, d
<1> QED
  BY <1>2, <1>6, <1>7, SendOnKeeps

(* A socket is closed without its lock, and the loop goes on. *)
LEMMA FinishExpelKeeps ==
  ASSUME SocketsInv, NEW t \in Tasks, NEW s \in Sockets, FinishExpel(t, s)
  PROVE  SocketsInv' /\ WrittenInOrder
<1> DEFINE d == task[t]
           m == Disconnect(manager, s)
<1>1. Fields(manager, task) /\ Sound(manager, task)
  BY DEF SocketsInv, Sound
<1>2. /\ d.stage = "expel" /\ SendOn(m, t, d) /\ up' = [up EXCEPT ![s] = FALSE]
      /\ UNCHANGED <<room, news>>
  BY DEF FinishExpel
<1>3. Sound(m, task) /\ m.bound[s] = 0
  BY <1>1, DisconnectIs, DisconnectsSoundly DEF Fields
<1> HIDE DEF m
<1>4. PICK tk : InHand(m, tk, t, d, "queued")
  BY <1>1, <1>2, <1>3, ResumesSoundly DEF Fields
<1>5. UpAgrees(m)
  BY <1>1, <1>2, <1>3 DEF UpAgrees, Fields
<1> HIDE DEF d
<1> QED
  BY <1>2, <1>4, <1>5, SendOnKeeps

-----------------------------------------------------------------------------
(***************************************************************************)
(* The steps of the room, of the consumer and of the endpoints.            *)
(***************************************************************************)
(* What a coroutine is given to deliver.                                     *)
LEMMA DeliverIs ==
  ASSUME task \in [Tasks -> Delivery], NEW t \in Tasks, NEW i \in Nat, NEW k \in Nat,
         Deliver(t, i, k)
  PROVE  /\ task' \in [Tasks -> Delivery]
         /\ \A u \in Tasks : u # t => task'[u] = task[u]
         /\ task'[t].stage = "ready" /\ task'[t].instance = i /\ task'[t].revision = k
         /\ task'[t].at = {}
<1> DEFINE v == [NoDelivery EXCEPT !.stage = "ready", !.instance = i, !.revision = k]
<1>1. /\ v \in Delivery /\ v.stage = "ready" /\ v.instance = i /\ v.revision = k
      /\ v.at = {}
  BY DEF NoDelivery, Delivery, Revision
<1>2. task' = [task EXCEPT ![t] = v]
  BY DEF Deliver
<1> HIDE DEF v
<1> QED
  BY <1>1, <1>2

(* A commit of this worker: the one who committed brings the new document to *)
(* everybody.                                                                *)
LEMMA CommitKeeps ==
  ASSUME SocketsInv, NEW t \in Tasks, task[t].stage = "idle",
         t \in Sockets => endpoint[t].pc = "serving",
         room.live, NextRevision, Deliver(t, room.instance, room.revision + 1),
         UNCHANGED <<news, endpoint, up, manager, shown>>
  PROVE  SocketsInv' /\ WrittenInOrder
<1>1. /\ Fields(manager, task) /\ Membership(manager) /\ Occupation(task)
      /\ Documents(task) /\ Marks(manager) /\ Writing(manager, task)
      /\ OldOnesLeave(manager, task) /\ Promised(manager, task)
  BY DEF SocketsInv, Sound
<1>2. /\ room.instance \in Instances /\ room.instance \in Nat /\ room.revision \in Nat
      /\ room' \in [instance : 0..MaxInstances, revision : Nat, live : BOOLEAN]
      /\ room'.instance = room.instance /\ room'.revision = room.revision + 1 /\ room'.live
  BY <1>1 DEF Fields, NextRevision
<1>3. /\ task' \in [Tasks -> Delivery]
      /\ \A u \in Tasks : u # t => task'[u] = task[u]
      /\ task'[t].stage = "ready" /\ task'[t].instance = room.instance
      /\ task'[t].revision = room.revision + 1 /\ task'[t].at = {}
  BY <1>1, <1>2, DeliverIs DEF Fields
<1>4. Sockets \subseteq Tasks
  BY DEF Tasks
<1>5. Fields(manager, task)' /\ Membership(manager)'
  BY <1>1, <1>2, <1>3 DEF Fields, Membership
<1>6. Occupation(task)'
  BY <1>1, <1>3, <1>4 DEF Occupation
<1>7. Documents(task)'
  <2>1. ASSUME NEW u \in Tasks, u # t, task[u].stage \notin {"idle", "read"}
        PROVE  task[u].instance = room.instance => task[u].revision <= room.revision + 1
    BY <1>1, <1>2, <2>1 DEF Documents
  <2> QED
    BY <1>1, <1>2, <1>3, <2>1 DEF Documents
<1>8. Marks(manager)'
  <2>1. \A k \in Revision : k <= room.revision => k <= room.revision + 1
    BY <1>2 DEF Revision, NoRevision
  <2> QED
    BY <1>1, <1>2, <2>1 DEF Marks, Fields, Manager
<1>9. Writing(manager, task)'
  <2>1. \A u \in Tasks, s \in Sockets : Writes(task', u, s) <=> Writes(task, u, s)
    BY <1>3 DEF Writes
  <2>2. \A u \in Tasks, s \in Sockets : Writes(task, u, s) => task'[u] = task[u]
    BY <1>3 DEF Writes
  <2> QED
    BY <1>1, <2>1, <2>2 DEF Writing, Writes
<1>10. OldOnesLeave(manager, task)'
  BY <1>1, <1>3, <1>4 DEF OldOnesLeave, Swept, Sweeps
<1>11. Promised(manager, task)'
  BY <1>2, <1>3 DEF Promised, Brings, Greets
<1>12. WrittenInOrder
  BY DEF WrittenInOrder
<1> QED
  BY <1>5, <1>6, <1>7, <1>8, <1>9, <1>10, <1>11, <1>12 DEF SocketsInv, Sound

(* Another worker commits: the news is on its way.                           *)
LEMMA RemoteCommitKeeps ==
  ASSUME SocketsInv, RemoteCommit
  PROVE  SocketsInv' /\ WrittenInOrder
<1>1. /\ Fields(manager, task) /\ Membership(manager) /\ Occupation(task)
      /\ Documents(task) /\ Marks(manager) /\ Writing(manager, task)
      /\ OldOnesLeave(manager, task) /\ Promised(manager, task)
  BY DEF SocketsInv, Sound
<1>2. /\ room.revision \in Nat /\ room.live
      /\ room' \in [instance : 0..MaxInstances, revision : Nat, live : BOOLEAN]
      /\ room'.instance = room.instance /\ room'.revision = room.revision + 1 /\ room'.live
      /\ news' \in Nat /\ news' > 0
      /\ UNCHANGED <<endpoint, up, manager, task, shown>>
  BY <1>1 DEF Fields, RemoteCommit, NextRevision
<1>3. Fields(manager, task)' /\ Membership(manager)' /\ Occupation(task)'
  BY <1>1, <1>2 DEF Fields, Membership, Occupation
<1>4. Documents(task)'
  <2>1. ASSUME NEW u \in Tasks, task[u].stage \notin {"idle", "read"}
        PROVE  task[u].instance = room.instance => task[u].revision <= room.revision + 1
    BY <1>1, <1>2, <2>1 DEF Documents
  <2> QED
    BY <1>1, <1>2, <2>1 DEF Documents
<1>5. Marks(manager)'
  <2>1. \A k \in Revision : k <= room.revision => k <= room.revision + 1
    BY <1>2 DEF Revision, NoRevision
  <2> QED
    BY <1>1, <1>2, <2>1 DEF Marks, Fields, Manager
<1>6. Writing(manager, task)' /\ OldOnesLeave(manager, task)' /\ Promised(manager, task)'
  BY <1>1, <1>2 DEF Writing, Writes, OldOnesLeave, Swept, Sweeps, Promised
<1>7. WrittenInOrder
  BY <1>2 DEF WrittenInOrder
<1> QED
  BY <1>3, <1>4, <1>5, <1>6, <1>7 DEF SocketsInv, Sound

(* The consumer takes the news, and will read what the room is then.         *)
LEMMA DispatchKeeps ==
  ASSUME SocketsInv, Dispatch
  PROVE  SocketsInv' /\ WrittenInOrder
<1>1. /\ Fields(manager, task) /\ Membership(manager) /\ Occupation(task)
      /\ Documents(task) /\ Marks(manager) /\ Writing(manager, task)
      /\ OldOnesLeave(manager, task) /\ Promised(manager, task)
  BY DEF SocketsInv, Sound
<1>2. /\ news' \in Nat /\ Consumer \in Tasks /\ Consumer \notin Sockets /\ Sockets \subseteq Tasks
      /\ task[Consumer].stage = "idle"
      /\ task' = [task EXCEPT ![Consumer].stage = "read"]
      /\ UNCHANGED <<room, endpoint, up, manager, shown>>
  BY <1>1, SocketsAssumption DEF Fields, Dispatch, Tasks
<1> DEFINE v == [task[Consumer] EXCEPT !.stage = "read"]
<1>3. v \in Delivery /\ v.stage = "read"
  <2>1. task[Consumer] \in Delivery
    BY <1>1, <1>2 DEF Fields
  <2> QED BY <2>1 DEF Delivery
<1>4. task' = [task EXCEPT ![Consumer] = v]
  BY <1>2
<1> HIDE DEF v
<1>5. /\ task' \in [Tasks -> Delivery] /\ task'[Consumer].stage = "read"
      /\ \A u \in Tasks : u # Consumer => task'[u] = task[u]
  BY <1>1, <1>2, <1>3, <1>4 DEF Fields
<1>6. /\ Fields(manager, task)' /\ Membership(manager)' /\ Occupation(task)'
      /\ Documents(task)' /\ Marks(manager)' /\ OldOnesLeave(manager, task)'
  BY <1>1, <1>2, <1>5
     DEF Fields, Membership, Occupation, Documents, Marks, OldOnesLeave, Swept, Sweeps
<1>7. Writing(manager, task)'
  <2>1. \A u \in Tasks, s \in Sockets : Writes(task', u, s) <=> Writes(task, u, s)
    BY <1>2, <1>5 DEF Writes
  <2>2. \A u \in Tasks, s \in Sockets : Writes(task, u, s) => task'[u] = task[u]
    BY <1>2, <1>5 DEF Writes
  <2> QED
    BY <1>1, <1>2, <2>1, <2>2 DEF Writing, Writes
<1>8. Promised(manager, task)'
  BY <1>2, <1>5 DEF Promised, Brings
<1>9. WrittenInOrder
  BY <1>2 DEF WrittenInOrder
<1> QED
  BY <1>6, <1>7, <1>8, <1>9 DEF SocketsInv, Sound

(* The room expires, and is created again: nobody is in its next generation. *)
LEMMA RoomKeeps ==
  ASSUME SocketsInv, Vanish \/ Recreate
  PROVE  SocketsInv' /\ WrittenInOrder
<1>1. /\ Fields(manager, task) /\ Membership(manager) /\ Occupation(task)
      /\ Documents(task) /\ Marks(manager) /\ Writing(manager, task)
      /\ OldOnesLeave(manager, task) /\ Promised(manager, task)
  BY DEF SocketsInv, Sound
<1>2. UNCHANGED <<news, endpoint, up, manager, task, shown>>
  BY DEF Vanish, Recreate
<1>3. /\ Occupation(task)' /\ Writing(manager, task)' /\ OldOnesLeave(manager, task)'
      /\ WrittenInOrder
  BY <1>1, <1>2 DEF Occupation, Writing, Writes, OldOnesLeave, Swept, Sweeps, WrittenInOrder
<1>4. CASE Vanish
  <2>1. /\ room' \in [instance : 0..MaxInstances, revision : Nat, live : BOOLEAN]
        /\ room'.instance = room.instance /\ room'.revision = room.revision /\ ~room'.live
    BY <1>1, <1>4 DEF Fields, Vanish
  <2>2. /\ Fields(manager, task)' /\ Membership(manager)' /\ Documents(task)'
        /\ Marks(manager)' /\ Promised(manager, task)'
    BY <1>1, <1>2, <2>1 DEF Fields, Membership, Documents, Marks, Promised, Awaits
  <2> QED
    BY <1>3, <2>2 DEF SocketsInv, Sound
<1>5. CASE Recreate
  <2>1. /\ room' \in [instance : 0..MaxInstances, revision : Nat, live : BOOLEAN]
        /\ room'.instance = room.instance + 1 /\ room'.revision = 0 /\ room'.live
        /\ room.instance \in Nat /\ room'.instance \in Instances
    BY <1>1, <1>5, SocketsAssumption DEF Fields, Recreate, Instances
  <2>2. \A s \in Sockets : endpoint[s].bound \in Nat /\ endpoint[s].bound <= room.instance
    BY <1>1 DEF Fields, Membership, Endpoint
  <2>3. Fields(manager, task)' /\ Membership(manager)'
    BY <1>1, <1>2, <2>1, <2>2 DEF Fields, Membership
  <2>4. Documents(task)'
    <3>1. \A u \in Tasks : task[u].stage \notin {"idle", "read"} =>
            /\ task[u].instance <= room'.instance
            /\ task[u].instance # room'.instance
      BY <1>1, <2>1, SocketsAssumption DEF Documents, Instances
    <3> QED
      BY <1>1, <1>2, <3>1 DEF Documents
  <2>5. Marks(manager)'
    <3>1. \A i \in Instances : i >= room'.instance => manager.roomMark[i] = NoRevision
      BY <1>1, <2>1, SocketsAssumption DEF Marks, Instances
    <3>2. \A s \in Sockets : manager.bound[s] # 0 => manager.bound[s] # room'.instance
      BY <1>1, <2>1, <2>2 DEF Membership
    <3>3. \A i \in Instances : /\ i = room'.instance => i >= room'.instance
                               /\ i > room'.instance => i >= room'.instance
      BY <2>1, SocketsAssumption DEF Instances
    <3> QED
      BY <1>2, <2>1, <3>1, <3>2, <3>3 DEF Marks, NoRevision
  <2>6. Promised(manager, task)'
    BY <1>1, <1>2, <2>1, <2>2 DEF Promised, Awaits, Membership
  <2> QED
    BY <1>3, <2>3, <2>4, <2>5, <2>6 DEF SocketsInv, Sound
<1> QED
  BY <1>4, <1>5

(* The canonical document is read when everything that was promised before   *)
(* may have changed it: what is read is what the room is now.                *)
LEMMA ReadCanonicalKeeps ==
  ASSUME SocketsInv, NEW t \in Tasks, ReadCanonical(t)
  PROVE  SocketsInv' /\ WrittenInOrder
<1>1. /\ Fields(manager, task) /\ Membership(manager) /\ Occupation(task)
      /\ Documents(task) /\ Marks(manager) /\ Writing(manager, task)
      /\ OldOnesLeave(manager, task) /\ Promised(manager, task)
  BY DEF SocketsInv, Sound
<1>2. /\ task[t].stage = "read" /\ Sockets \subseteq Tasks
      /\ UNCHANGED <<room, news, up, manager, shown>>
      /\ t \in Sockets => endpoint[t].pc = "syncing"
  BY <1>1 DEF ReadCanonical, Tasks, Occupation
<1>3. WrittenInOrder
  BY <1>2 DEF WrittenInOrder
<1>4. CASE room.live
  <2>1. /\ Deliver(t, room.instance, room.revision) /\ endpoint' = endpoint
        /\ room.instance \in Instances /\ room.instance \in Nat /\ room.revision \in Nat
    BY <1>1, <1>4 DEF ReadCanonical, Fields
  <2>2. /\ task' \in [Tasks -> Delivery]
        /\ \A u \in Tasks : u # t => task'[u] = task[u]
        /\ task'[t].stage = "ready" /\ task'[t].instance = room.instance
        /\ task'[t].revision = room.revision /\ task'[t].at = {}
    BY <1>1, <2>1, DeliverIs DEF Fields
  <2>3. /\ Fields(manager, task)' /\ Membership(manager)' /\ Marks(manager)'
    BY <1>1, <1>2, <2>1, <2>2 DEF Fields, Membership, Marks
  <2>4. Occupation(task)'
    BY <1>1, <1>2, <2>1, <2>2 DEF Occupation
  <2>5. Documents(task)'
    BY <1>1, <1>2, <2>1, <2>2 DEF Documents
  <2>6. Writing(manager, task)'
    <3>1. \A u \in Tasks, s \in Sockets : Writes(task', u, s) <=> Writes(task, u, s)
      BY <1>2, <2>2 DEF Writes
    <3>2. \A u \in Tasks, s \in Sockets : Writes(task, u, s) => task'[u] = task[u]
      BY <1>2, <2>2 DEF Writes
    <3> QED
      BY <1>1, <1>2, <3>1, <3>2 DEF Writing, Writes
  <2>7. OldOnesLeave(manager, task)'
    BY <1>1, <1>2, <2>1, <2>2 DEF OldOnesLeave, Swept, Sweeps
  <2>8. Promised(manager, task)'
    BY <1>2, <2>1, <2>2 DEF Promised, Brings, Greets
  <2> QED
    BY <1>3, <2>3, <2>4, <2>5, <2>6, <2>7, <2>8 DEF SocketsInv, Sound
<1>5. CASE ~room.live
  <2>1. task' = [task EXCEPT ![t] = NoDelivery] /\ endpoint' = EndpointAfter(manager, t)
    BY <1>5 DEF ReadCanonical
  <2>2. /\ NoDelivery \in Delivery /\ NoDelivery.stage = "idle"
    BY DEF NoDelivery, Delivery, Revision
  <2>3. /\ task' \in [Tasks -> Delivery] /\ task'[t].stage = "idle"
        /\ \A u \in Tasks : u # t => task'[u] = task[u]
    BY <1>1, <2>1, <2>2 DEF Fields
  <2>4. /\ endpoint' \in [Sockets -> Endpoint]
        /\ \A s \in Sockets : s # t => endpoint'[s] = endpoint[s]
        /\ \A s \in Sockets : endpoint'[s].bound = endpoint[s].bound
    BY <1>1, <2>1 DEF EndpointAfter, Fields, Endpoint
  <2>5. t \in Sockets => endpoint'[t].pc = CASE endpoint[t].pc = "syncing"  -> "accepting"
                [] endpoint[t].pc = "greeting" -> IF manager.bound[t] # 0 THEN "serving" ELSE "leaving"
                [] OTHER -> endpoint[t].pc
    BY <1>1, <2>1 DEF EndpointAfter, Fields, Endpoint
  <2>6. t \in Sockets => endpoint'[t].pc = "accepting"
    BY <1>2, <2>5
  <2>7. /\ Fields(manager, task)' /\ Marks(manager)'
    BY <1>1, <1>2, <2>3, <2>4 DEF Fields, Marks
  <2>8. Membership(manager)'
    BY <1>1, <1>2, <2>4, <2>6 DEF Membership, Outside
  <2>9. Occupation(task)'
    BY <1>1, <1>2, <2>3, <2>4, <2>6 DEF Occupation
  <2>10. Documents(task)'
    <3>1. ASSUME NEW u \in Tasks, task'[u].stage \notin {"idle", "read"}
          PROVE  task'[u] = task[u] /\ task[u].stage \notin {"idle", "read"}
      BY <2>3, <3>1
    <3>2. ASSUME NEW u \in Tasks, task[u].stage \in {"queued", "write"}, NEW r \in task[u].at
          PROVE  endpoint'[r] = endpoint[r] /\ r \in Sockets
      BY <1>1, <1>2, <2>4, <3>2 DEF Documents, Outside, Fields, Delivery
    <3> QED
      BY <1>1, <1>2, <2>3, <3>1, <3>2 DEF Documents
  <2>11. Writing(manager, task)'
    <3>1. \A u \in Tasks, s \in Sockets : Writes(task', u, s) <=> Writes(task, u, s)
      BY <1>2, <2>3 DEF Writes
    <3>2. \A u \in Tasks, s \in Sockets : Writes(task, u, s) => task'[u] = task[u]
      BY <1>2, <2>3 DEF Writes
    <3> QED
      BY <1>1, <1>2, <3>1, <3>2 DEF Writing, Writes
  <2>12. OldOnesLeave(manager, task)'
    BY <1>1, <1>2, <2>3, <2>4, <2>6 DEF OldOnesLeave, Swept, Sweeps, Membership
  <2>13. Promised(manager, task)'
    BY <1>2, <1>5 DEF Promised, Awaits
  <2> QED
    BY <1>3, <2>7, <2>8, <2>9, <2>10, <2>11, <2>12, <2>13 DEF SocketsInv, Sound
<1> QED
  BY <1>4, <1>5

(* A step of one endpoint from outside to outside, with its task.            *)
LEMMA AuthorizeKeeps ==
  ASSUME SocketsInv, NEW s \in Sockets, Authorize(s)
  PROVE  SocketsInv' /\ WrittenInOrder
<1>1. /\ Fields(manager, task) /\ Membership(manager) /\ Occupation(task)
      /\ Documents(task) /\ Marks(manager) /\ Writing(manager, task)
      /\ OldOnesLeave(manager, task) /\ Promised(manager, task)
  BY DEF SocketsInv, Sound
<1>2. /\ Sockets \subseteq Tasks /\ UNCHANGED <<room, news, up, manager, shown>>
      /\ endpoint[s].pc = "off" /\ room.instance \in Nat /\ task[s].stage = "idle"
  BY <1>1 DEF Authorize, Tasks, Fields, Occupation
<1>3. PICK pc \in {"accepting", "syncing"} :
        /\ endpoint' = [endpoint EXCEPT ![s] = [pc |-> pc, bound |-> room.instance]]
        /\ IF pc = "accepting" THEN task' = task
           ELSE task' = [task EXCEPT ![s].stage = "read"]
  BY DEF Authorize
<1>4. /\ endpoint' \in [Sockets -> Endpoint]
      /\ \A r \in Sockets : r # s => endpoint'[r] = endpoint[r]
      /\ endpoint'[s].pc = pc /\ endpoint'[s].bound = room.instance
  <2> DEFINE e == [pc |-> pc, bound |-> room.instance]
  <2>1. e \in Endpoint /\ e.pc = pc /\ e.bound = room.instance
    BY <1>2 DEF Endpoint
  <2> HIDE DEF e
  <2>2. endpoint' = [endpoint EXCEPT ![s] = e]
    BY <1>3 DEF e
  <2> QED
    BY <1>1, <2>1, <2>2 DEF Fields
<1>5. /\ task' \in [Tasks -> Delivery]
      /\ \A u \in Tasks : u # s => task'[u] = task[u]
      /\ task'[s].stage = IF pc = "accepting" THEN "idle" ELSE "read"
  <2> DEFINE v == [task[s] EXCEPT !.stage = "read"]
  <2>0. task[s] \in Delivery
    BY <1>1, <1>2 DEF Fields
  <2>1. v \in Delivery /\ v.stage = "read"
    BY <2>0 DEF Delivery
  <2>2. task' = task \/ task' = [task EXCEPT ![s] = v]
    BY <1>3
  <2>3. pc = "accepting" => task' = task
    BY <1>3
  <2>4. pc # "accepting" => task' = [task EXCEPT ![s] = v]
    BY <1>3
  <2> HIDE DEF v
  <2> QED
    BY <1>1, <1>2, <2>1, <2>3, <2>4 DEF Fields
<1>6. Fields(manager, task)' /\ Marks(manager)'
  BY <1>1, <1>2, <1>4, <1>5 DEF Fields, Marks
<1>7. Membership(manager)'
  BY <1>1, <1>2, <1>4 DEF Membership, Outside
<1>8. Occupation(task)'
  BY <1>1, <1>2, <1>4, <1>5 DEF Occupation
<1>9. Documents(task)'
  <2>1. ASSUME NEW u \in Tasks, task'[u].stage \notin {"idle", "read"}
        PROVE  task'[u] = task[u]
    BY <1>5, <2>1
  <2>2. ASSUME NEW u \in Tasks, task[u].stage \in {"queued", "write"}, NEW r \in task[u].at
        PROVE  endpoint'[r] = endpoint[r]
    BY <1>1, <1>2, <1>4, <2>2 DEF Documents, Outside, Fields, Delivery
  <2> QED
    BY <1>1, <1>2, <2>1, <2>2 DEF Documents
<1>10. Writing(manager, task)'
  <2>1. \A u \in Tasks, r \in Sockets : Writes(task', u, r) <=> Writes(task, u, r)
    BY <1>2, <1>5 DEF Writes
  <2>2. \A u \in Tasks, r \in Sockets : Writes(task, u, r) => task'[u] = task[u]
    BY <1>2, <1>5 DEF Writes
  <2> QED
    BY <1>1, <1>2, <2>1, <2>2 DEF Writing, Writes
<1>11. OldOnesLeave(manager, task)'
  BY <1>1, <1>2, <1>4, <1>5 DEF OldOnesLeave, Swept, Sweeps, Membership
<1>12. Promised(manager, task)'
  <2>1. \A r \in Sockets : Awaits(manager, r)' => Awaits(manager, r)
    BY <1>2, <1>4 DEF Awaits
  <2>2. ASSUME NEW u \in Tasks, NEW r \in Sockets, Brings(task, u, r)
        PROVE  Brings(task, u, r)'
    BY <1>2, <1>4, <1>5, <2>2 DEF Brings, Greets
  <2> QED
    BY <1>1, <1>2, <2>1, <2>2 DEF Promised
<1>13. WrittenInOrder
  BY <1>2 DEF WrittenInOrder
<1> QED
  BY <1>6, <1>7, <1>8, <1>9, <1>10, <1>11, <1>12, <1>13 DEF SocketsInv, Sound

(* A socket is registered; nothing has been written to it.                   *)
LEMMA RegisterKeeps ==
  ASSUME SocketsInv, NEW s \in Sockets, Register(s)
  PROVE  SocketsInv' /\ WrittenInOrder
<1>1. /\ Fields(manager, task) /\ Membership(manager) /\ Occupation(task)
      /\ Documents(task) /\ Marks(manager) /\ Writing(manager, task)
      /\ OldOnesLeave(manager, task) /\ Promised(manager, task)
  BY DEF SocketsInv, Sound
<1>2. /\ Sockets \subseteq Tasks /\ UNCHANGED <<room, news, up, task, shown>>
      /\ endpoint[s].pc = "accepting" /\ task[s].stage = "idle"
      /\ endpoint' = [endpoint EXCEPT ![s].pc = "registered"]
      /\ endpoint[s].bound \in Nat /\ room.revision \in Nat
      /\ manager' = Connect(manager, s, endpoint[s].bound)
  BY <1>1 DEF Register, Tasks, Fields, Occupation, Endpoint
<1>3. /\ endpoint' \in [Sockets -> Endpoint]
      /\ \A r \in Sockets : r # s => endpoint'[r] = endpoint[r]
      /\ endpoint'[s].pc = "registered" /\ endpoint'[s].bound = endpoint[s].bound
  BY <1>1, <1>2 DEF Fields, Endpoint
<1>4. /\ manager' \in Manager /\ manager'.line = manager.line
      /\ manager'.roomMark = manager.roomMark
      /\ \A r \in Sockets : r # s => /\ manager'.bound[r] = manager.bound[r]
                                     /\ manager'.mark[r] = manager.mark[r]
      /\ manager'.bound[s] = endpoint[s].bound /\ manager'.mark[s] = NoRevision
  <2>1. manager \in Manager /\ NoRevision \in Revision
    BY <1>1 DEF Fields, Revision
  <2>2. /\ manager'.line = manager.line /\ manager'.roomMark = manager.roomMark
        /\ manager'.bound = [manager.bound EXCEPT ![s] = endpoint[s].bound]
        /\ manager'.mark = [manager.mark EXCEPT ![s] = NoRevision]
    BY <1>2, <2>1 DEF Connect, Manager
  <2>3. /\ manager'.line \in [Sockets -> Seq(Tasks)]
        /\ manager'.roomMark \in [Instances -> Revision]
        /\ manager'.bound \in [Sockets -> Nat] /\ manager'.mark \in [Sockets -> Revision]
    BY <1>2, <2>1, <2>2 DEF Manager
  <2>4. manager' \in Manager
    BY <1>2, <2>1, <2>3 DEF Connect, Manager
  <2> QED
    BY <2>1, <2>2, <2>4 DEF Manager
<1>5. Fields(manager, task)' /\ Membership(manager)'
  BY <1>1, <1>2, <1>3, <1>4 DEF Fields, Membership, Outside
<1>6. Marks(manager)'
  BY <1>1, <1>2, <1>4 DEF Marks, NoRevision
<1>7. Occupation(task)'
  BY <1>1, <1>2, <1>3 DEF Occupation
<1>8. Documents(task)'
  <2>1. ASSUME NEW u \in Tasks, task[u].stage \in {"queued", "write"}, NEW r \in task[u].at
        PROVE  endpoint'[r] = endpoint[r]
    BY <1>1, <1>2, <1>3, <2>1 DEF Documents, Outside, Fields, Delivery
  <2>2. room' = room /\ task' = task
    BY <1>2
  <2> QED
    BY <1>1, <2>1, <2>2 DEF Documents
<1>9. Writing(manager, task)'
  <2>1. \A u \in Tasks : ~Writes(task, u, s)
    BY <1>1, <1>2 DEF Writes, Documents, Outside
  <2>2. shown[s].revision = NoRevision
    BY <1>1, <1>2 DEF Membership, Outside
  <2>3. ASSUME NEW u \in Tasks, NEW r \in Sockets, Writes(task, u, r)
        PROVE  /\ r # s /\ Holds(manager', r, u)
               /\ manager'.bound[r] # 0 =>
                    manager'.mark[r] < task[u].revision
                      /\ (up[r] => shown[r].revision = task[u].revision)
    BY <1>1, <1>4, <2>1, <2>3 DEF Writing, Holds
  <2>4. ASSUME NEW r \in Sockets, manager'.bound[r] # 0, up[r]
        PROVE  shown[r].revision = manager'.mark[r] \/ \E u \in Tasks : Writes(task, u, r)
    BY <1>1, <1>4, <2>2, <2>4 DEF Writing
  <2> QED
    BY <1>2, <2>3, <2>4 DEF Writing, Writes
<1>10. OldOnesLeave(manager, task)'
  BY <1>1, <1>2, <1>3, <1>4 DEF OldOnesLeave, Swept, Sweeps
<1>11. Promised(manager, task)'
  <2>1. \A r \in Sockets : Awaits(manager, r)' =>
          Awaits(manager, r) /\ manager'.mark[r] = manager.mark[r]
    BY <1>2, <1>3, <1>4 DEF Awaits
  <2>2. ASSUME NEW u \in Tasks, NEW r \in Sockets, Brings(task, u, r)
        PROVE  Brings(task, u, r)'
    BY <1>2, <1>3, <2>2 DEF Brings, Greets
  <2> QED
    BY <1>1, <1>2, <2>1, <2>2 DEF Promised
<1>12. WrittenInOrder
  BY <1>2 DEF WrittenInOrder
<1> QED
  BY <1>5, <1>6, <1>7, <1>8, <1>9, <1>10, <1>11, <1>12 DEF SocketsInv, Sound


(* An endpoint that is doing nothing else goes to its finally block, or is   *)
(* through with it.                                                          *)
LEMMA StepsDown ==
  ASSUME NEW n, Sound(n, task), NEW s \in Sockets, NEW pc \in {"leaving", "gone"},
         endpoint[s].pc \in {"registered", "serving", "leaving"},
         task[s].stage = "idle", pc = "gone" => n.bound[s] = 0,
         endpoint' = [endpoint EXCEPT ![s].pc = pc], manager' = n, UpAgrees(n),
         UNCHANGED <<room, news, task, shown>>
  PROVE  SocketsInv' /\ WrittenInOrder
<1>1. /\ Fields(n, task) /\ Membership(n) /\ Occupation(task) /\ Documents(task) /\ Marks(n)
      /\ Writing(n, task) /\ OldOnesLeave(n, task) /\ Promised(n, task)
  BY DEF Sound
<1>2. /\ endpoint' \in [Sockets -> Endpoint]
      /\ \A r \in Sockets : r # s => endpoint'[r] = endpoint[r]
      /\ endpoint'[s].pc = pc /\ endpoint'[s].bound = endpoint[s].bound
  BY <1>1 DEF Fields, Endpoint
<1>3. Sockets \subseteq Tasks
  BY DEF Tasks
<1>4. Fields(n, task)'
  BY <1>1, <1>2 DEF Fields, UpAgrees
<1>5. Membership(n)' /\ Marks(n)'
  BY <1>1, <1>2 DEF Membership, Marks, Outside
<1>6. Occupation(task)'
  BY <1>1, <1>2 DEF Occupation
<1>7. Documents(task)'
  <2>1. \A r \in Sockets : endpoint'[r].bound = endpoint[r].bound
    BY <1>2
  <2>2. \A r \in Sockets : endpoint'[r].pc \in Outside => endpoint[r].pc \in Outside
    BY <1>2 DEF Outside
  <2>3. \A u \in Tasks : task[u].at \subseteq Sockets
    BY <1>1 DEF Fields, Delivery
  <2> QED
    BY <1>1, <2>1, <2>2, <2>3 DEF Documents
<1>8. Writing(n, task)'
  BY <1>1 DEF Writing, Writes, UpAgrees
<1>9. OldOnesLeave(n, task)'
  <2>1. \A x \in Sockets : Swept(task, x)' => x # s /\ Swept(task, x)
    BY <1>2 DEF Swept
  <2>2. \A x, r \in Sockets : x # s /\ Sweeps(task, x, r) => Sweeps(task, x, r)'
    BY <1>2 DEF Sweeps
  <2> QED
    BY <1>1, <1>2, <2>1, <2>2 DEF OldOnesLeave
<1>10. Promised(n, task)'
  <2>1. \A r \in Sockets : Awaits(n, r)' => Awaits(n, r)
    BY <1>2 DEF Awaits, UpAgrees
  <2>2. \A u \in Tasks, r \in Sockets : Brings(task, u, r) => Brings(task, u, r)'
    BY <1>2 DEF Brings, Greets
  <2> QED
    BY <1>1, <2>1, <2>2 DEF Promised
<1>11. WrittenInOrder
  BY DEF WrittenInOrder
<1> QED
  BY <1>4, <1>5, <1>6, <1>7, <1>8, <1>9, <1>10, <1>11 DEF SocketsInv, Sound

(* Nothing but the endpoint of an admitted socket changes, and it has the    *)
(* document of its second authorization to send.                             *)
LEMMA GreetingKeeps ==
  ASSUME SocketsInv, NEW s \in Sockets, endpoint[s].pc = "registered", Admits(s),
         endpoint' = [endpoint EXCEPT ![s].pc = "greeting"],
         Deliver(s, endpoint[s].bound, room.revision),
         UNCHANGED <<room, news, up, manager, shown>>
  PROVE  SocketsInv' /\ WrittenInOrder
<1>1. /\ Fields(manager, task) /\ Membership(manager) /\ Occupation(task)
      /\ Documents(task) /\ Marks(manager) /\ Writing(manager, task)
      /\ OldOnesLeave(manager, task) /\ Promised(manager, task)
  BY DEF SocketsInv, Sound
<1>2. /\ room.instance \in Instances /\ room.instance \in Nat /\ room.revision \in Nat
      /\ endpoint[s].bound = room.instance /\ task[s].stage = "idle"
      /\ Sockets \subseteq Tasks
  BY <1>1 DEF Fields, Admits, Occupation, Tasks
<1>3. /\ endpoint' \in [Sockets -> Endpoint]
      /\ \A r \in Sockets : r # s => endpoint'[r] = endpoint[r]
      /\ endpoint'[s].pc = "greeting" /\ endpoint'[s].bound = room.instance
  BY <1>1, <1>2 DEF Fields, Endpoint
<1>4. /\ task' \in [Tasks -> Delivery]
      /\ \A u \in Tasks : u # s => task'[u] = task[u]
      /\ task'[s].stage = "ready" /\ task'[s].instance = room.instance
      /\ task'[s].revision = room.revision /\ task'[s].at = {}
  BY <1>1, <1>2, DeliverIs DEF Fields
<1>5. Fields(manager, task)' /\ Marks(manager)'
  BY <1>1, <1>3, <1>4 DEF Fields, Marks
<1>6. Membership(manager)'
  BY <1>1, <1>2, <1>3 DEF Membership, Outside
<1>7. Occupation(task)'
  BY <1>1, <1>2, <1>3, <1>4 DEF Occupation
<1>8. Documents(task)'
  <2>1. \A r \in Sockets : /\ endpoint'[r].bound = endpoint[r].bound
                           /\ endpoint'[r].pc \in Outside => endpoint[r].pc \in Outside
    BY <1>2, <1>3 DEF Outside
  <2>2. \A u \in Tasks : task[u].at \subseteq Sockets
    BY <1>1 DEF Fields, Delivery
  <2> QED
    BY <1>1, <1>2, <1>4, <2>1, <2>2 DEF Documents
<1>9. Writing(manager, task)'
  <2>1. \A u \in Tasks, r \in Sockets : Writes(task', u, r) <=> Writes(task, u, r)
    BY <1>2, <1>4 DEF Writes
  <2>2. \A u \in Tasks, r \in Sockets : Writes(task, u, r) => task'[u] = task[u]
    BY <1>2, <1>4 DEF Writes
  <2> QED
    BY <1>1, <2>1, <2>2 DEF Writing, Writes
<1>10. OldOnesLeave(manager, task)'
  <2>1. \A x \in Sockets : Swept(task, x)' => x # s /\ Swept(task, x)
    BY <1>2, <1>3, <1>4 DEF Swept
  <2>2. \A x, r \in Sockets : x # s /\ Sweeps(task, x, r) => Sweeps(task, x, r)'
    BY <1>2, <1>3, <1>4 DEF Sweeps
  <2>3. \A x \in Sockets : manager.bound[s] # 0 => ~(manager.bound[s] < endpoint[x].bound)
    BY <1>1, <1>2 DEF Membership, Fields, Endpoint
  <2> QED
    BY <1>1, <1>3, <2>1, <2>2, <2>3 DEF OldOnesLeave
<1>11. Promised(manager, task)'
  <2>1. \A r \in Sockets : r # s /\ Awaits(manager, r)' => Awaits(manager, r)
    BY <1>3 DEF Awaits
  <2>2. ASSUME NEW u \in Tasks, NEW r \in Sockets, Brings(task, u, r)
        PROVE  Brings(task, u, r)'
    BY <1>2, <1>3, <1>4, <2>2 DEF Brings, Greets
  <2>3. Brings(task, s, s)'
    BY <1>4 DEF Brings
  <2> QED
    BY <1>1, <1>2, <2>1, <2>2, <2>3 DEF Promised
<1>12. WrittenInOrder
  BY DEF WrittenInOrder
<1> QED
  BY <1>5, <1>6, <1>7, <1>8, <1>9, <1>10, <1>11, <1>12 DEF SocketsInv, Sound

(* The second authorization admits the socket, or refuses it. *)
LEMMA ReauthorizeKeeps ==
  ASSUME SocketsInv, NEW s \in Sockets, Reauthorize(s)
  PROVE  SocketsInv' /\ WrittenInOrder
<1>1. /\ endpoint[s].pc = "registered" /\ UNCHANGED <<room, news, up, manager, shown>>
      /\ Sound(manager, task) /\ task[s].stage = "idle"
  BY DEF Reauthorize, SocketsInv, Sound, Occupation
<1>2. CASE /\ Admits(s) /\ endpoint' = [endpoint EXCEPT ![s].pc = "greeting"]
           /\ Deliver(s, endpoint[s].bound, room.revision)
  BY <1>1, <1>2, GreetingKeeps
<1>3. CASE endpoint' = [endpoint EXCEPT ![s].pc = "leaving"] /\ UNCHANGED task
  <2>1. UpAgrees(manager)
    BY <1>1 DEF UpAgrees, Sound, Fields
  <2> QED
    BY <1>1, <1>3, <2>1, StepsDown
<1> QED
  BY <1>2, <1>3 DEF Reauthorize

(* A message of the socket is committed, or closes it. *)
LEMMA MutateKeeps ==
  ASSUME SocketsInv, NEW s \in Sockets, Mutate(s)
  PROVE  SocketsInv' /\ WrittenInOrder
<1>1. /\ endpoint[s].pc = "serving" /\ task[s].stage = "idle" /\ s \in Tasks
      /\ UNCHANGED <<news, up, manager, shown>> /\ Sound(manager, task)
  BY DEF Mutate, SocketsInv, Tasks
<1>2. CASE /\ room.live /\ NextRevision /\ endpoint' = endpoint
           /\ Deliver(s, room.instance, room.revision + 1)
  BY <1>1, <1>2, CommitKeeps
<1>3. CASE endpoint' = [endpoint EXCEPT ![s].pc = "leaving"] /\ UNCHANGED <<room, task>>
  <2>1. UpAgrees(manager)
    BY <1>1 DEF UpAgrees, Sound, Fields
  <2> QED
    BY <1>1, <1>3, <2>1, StepsDown
<1> QED
  BY <1>2, <1>3 DEF Mutate

(* The finally block unregisters the socket. *)
LEMMA LeaveKeeps ==
  ASSUME SocketsInv, NEW s \in Sockets, Leave(s)
  PROVE  SocketsInv' /\ WrittenInOrder
<1>1. /\ endpoint[s].pc \in {"serving", "leaving"} /\ task[s].stage = "idle"
      /\ endpoint' = [endpoint EXCEPT ![s].pc = "gone"]
      /\ up' = [up EXCEPT ![s] = FALSE] /\ manager' = Disconnect(manager, s)
      /\ UNCHANGED <<room, news, task, shown>> /\ Sound(manager, task)
  BY DEF Leave, SocketsInv
<1>2. Sound(manager', task) /\ manager'.bound[s] = 0
  <2>1. manager \in Manager
    BY <1>1 DEF Sound, Fields
  <2>2. Sound(manager', task)
    BY <1>1, DisconnectsSoundly
  <2>3. manager'.bound[s] = 0
    BY <1>1, <2>1, DisconnectIs
  <2> QED BY <2>2, <2>3
<1>3. UpAgrees(manager')
  BY <1>1, <1>2 DEF UpAgrees, Sound, Fields
<1> DEFINE n == manager'
<1>4. Sound(n, task) /\ n.bound[s] = 0 /\ UpAgrees(n) /\ manager' = n
  BY <1>2, <1>3
<1> HIDE DEF n
<1> QED
  BY <1>1, <1>4, StepsDown

(* A transport goes down under an endpoint that has not noticed. *)
LEMMA HangupKeeps ==
  ASSUME SocketsInv, NEW s \in Sockets, Hangup(s)
  PROVE  SocketsInv' /\ WrittenInOrder
<1>1. /\ Fields(manager, task) /\ Membership(manager) /\ Occupation(task)
      /\ Documents(task) /\ Marks(manager) /\ Writing(manager, task)
      /\ OldOnesLeave(manager, task) /\ Promised(manager, task)
  BY DEF SocketsInv, Sound
<1>2. /\ up' \in [Sockets -> BOOLEAN] /\ \A r \in Sockets : up'[r] => up[r]
      /\ UNCHANGED <<room, news, endpoint, manager, task, shown>>
  BY <1>1 DEF Hangup, Fields
<1>3. /\ Fields(manager, task)' /\ Membership(manager)' /\ Occupation(task)'
      /\ Documents(task)' /\ Marks(manager)' /\ OldOnesLeave(manager, task)'
  BY <1>1, <1>2
     DEF Fields, Membership, Occupation, Documents, Marks, OldOnesLeave, Swept, Sweeps
<1>4. Writing(manager, task)'
  BY <1>1, <1>2 DEF Writing, Writes
<1>5. Promised(manager, task)'
  BY <1>1, <1>2 DEF Promised, Awaits, Brings, Greets
<1>6. WrittenInOrder
  BY <1>2 DEF WrittenInOrder
<1> QED
  BY <1>3, <1>4, <1>5, <1>6 DEF SocketsInv, Sound


-----------------------------------------------------------------------------
(***************************************************************************)
(* A socket that is served and open is registered.                         *)
(***************************************************************************)
ServedAreRegistered ==
  \A s \in Sockets : endpoint[s].pc = "serving" /\ up[s] => manager.bound[s] # 0


\* A delivery goes on with a manager that registers the same sockets as m.
GoesOnFrom(m) ==
  /\ manager'.bound = m.bound
  /\ \A s \in Sockets :
       endpoint'[s].pc = "serving" => endpoint[s].pc = "serving" \/ m.bound[s] # 0

(* The end of a delivery serves a socket only if it is registered. *)
LEMMA DoneGoesOn ==
  ASSUME endpoint \in [Sockets -> Endpoint], NEW m, NEW t \in Tasks, Done(m, t)
  PROVE  GoesOnFrom(m)
<1>1. manager' = m /\ endpoint' = EndpointAfter(m, t)
  BY DEF Done
<1>2. CASE t \notin Sockets
  BY <1>1, <1>2 DEF EndpointAfter, GoesOnFrom
<1>3. CASE t \in Sockets
  <2>1. \A s \in Sockets : s # t => endpoint'[s] = endpoint[s]
    BY <1>1, <1>3 DEF EndpointAfter
  <2>2. endpoint'[t].pc =
          CASE endpoint[t].pc = "syncing"  -> "accepting"
            [] endpoint[t].pc = "greeting" -> IF m.bound[t] # 0 THEN "serving" ELSE "leaving"
            [] OTHER                       -> endpoint[t].pc
    BY <1>1, <1>3 DEF EndpointAfter, Endpoint
  <2>3. endpoint'[t].pc = "serving" => endpoint[t].pc = "serving" \/ m.bound[t] # 0
    BY <2>2
  <2> QED
    BY <1>1, <2>1, <2>3 DEF GoesOnFrom
<1> QED
  BY <1>2, <1>3

(* So does the loop over the targets. *)
LEMMA SendOnGoesOn ==
  ASSUME endpoint \in [Sockets -> Endpoint], NEW m \in Manager, NEW t \in Tasks,
         NEW d \in Delivery, SendOn(m, t, d)
  PROVE  GoesOnFrom(m)
<1>1. CASE Done(m, t)
  BY <1>1, DoneGoesOn
<1>2. CASE ~Done(m, t)
  <2>1. PICK s \in Sockets : (manager' = m \/ manager' = Queue(m, s, t)) /\ endpoint' = endpoint
    BY <1>2 DEF SendOn, Stops, Pause, Write, Delivery
  <2>2. manager'.bound = m.bound
    BY <2>1, QueueIs
  <2> QED
    BY <2>1, <2>2 DEF GoesOnFrom
<1> QED
  BY <1>1, <1>2

(* So do what begins the loop, and the sweep before. *)
LEMMA SweepGoesOn ==
  ASSUME endpoint \in [Sockets -> Endpoint], NEW m \in Manager, NEW t \in Tasks,
         NEW d \in Delivery, d.instance \in Instances, d.revision \in Nat, Sweep(m, t, d)
  PROVE  GoesOnFrom(m)
<1>1. CASE BeginSend(m, t, d)
  <2>1. CASE Done(m, t)
    BY <2>1, DoneGoesOn
  <2>2. CASE Greets(t) /\ SendOn(m, t, [d EXCEPT !.todo = {t}])
    <3>1. [d EXCEPT !.todo = {t}] \in Delivery
      BY <2>2 DEF Delivery, Greets
    <3> QED
      BY <2>2, <3>1, SendOnGoesOn
  <2>3. CASE SendOn([m EXCEPT !.roomMark[d.instance] = d.revision], t,
                    [d EXCEPT !.todo = Registered(m)])
    <3> DEFINE n == [m EXCEPT !.roomMark[d.instance] = d.revision]
               e == [d EXCEPT !.todo = Registered(m)]
    <3>1. e \in Delivery
      BY DEF Delivery, Registered
    <3>2. [m.roomMark EXCEPT ![d.instance] = d.revision] \in [Instances -> Revision]
      BY DEF Manager, Revision
    <3>3. n \in Manager /\ n.bound = m.bound
      BY <3>2 DEF Manager
    <3> HIDE DEF n, e
    <3>4. SendOn(n, t, e)
      BY <2>3 DEF n, e
    <3>5. GoesOnFrom(n)
      BY <3>1, <3>3, <3>4, SendOnGoesOn
    <3> QED
      BY <3>3, <3>5 DEF GoesOnFrom
  <2> QED
    BY <1>1, <2>1, <2>2, <2>3 DEF BeginSend
<1>2. CASE ~BeginSend(m, t, d)
  <2>1. PICK s \in Sockets : manager' = Queue(m, s, t) /\ endpoint' = endpoint
    BY <1>2 DEF Sweep, Obsolete, Pause, Delivery
  <2> QED
    BY <2>1, QueueIs DEF GoesOnFrom
<1> QED
  BY <1>1, <1>2

(* The steps of a delivery take a socket from the manager only if they close *)
(* it, or have found it closed.                                              *)
LEMMA DeliveryServesRegistered ==
  ASSUME SocketsInv, ServedAreRegistered, NEW t \in Tasks, DeliveryStep(t)
  PROVE  ServedAreRegistered'
<1> DEFINE d == task[t]
<1>1. /\ endpoint \in [Sockets -> Endpoint] /\ up \in [Sockets -> BOOLEAN]
      /\ manager \in Manager /\ d \in Delivery
      /\ d.stage \notin {"idle", "read"} => d.instance \in Instances /\ d.revision \in Nat
  BY DEF SocketsInv, Sound, Fields, Documents
<1>2. ASSUME NEW m, GoesOnFrom(m), \A s \in Sockets : up'[s] => up[s],
             \A s \in Sockets : up'[s] /\ manager.bound[s] # 0 => m.bound[s] # 0
      PROVE  ServedAreRegistered'
  BY <1>2 DEF GoesOnFrom, ServedAreRegistered
<1>3. CASE StartDelivery(t)
  <2> DEFINE e == [d EXCEPT !.todo = Registered(manager)]
  <2>1. e \in Delivery /\ e.instance = d.instance /\ e.revision = d.revision
    BY <1>1 DEF Delivery, Registered
  <2>2. Sweep(manager, t, e) /\ up' = up /\ d.stage = "ready"
    BY <1>3 DEF StartDelivery
  <2> HIDE DEF d, e
  <2>3. GoesOnFrom(manager)
    BY <1>1, <2>1, <2>2, SweepGoesOn
  <2> QED
    BY <1>2, <2>2, <2>3
<1>4. ASSUME NEW s \in Sockets, FinishClose(t, s)
      PROVE  ServedAreRegistered'
  <2> DEFINE m == IF manager.bound[s] # 0 THEN Disconnect(manager, s) ELSE manager
             n == Release(m, s)
  <2>1. /\ Holds(manager, s, t) /\ Sweep(n, t, d) /\ d.stage = "close"
        /\ up' = IF manager.bound[s] # 0 THEN [up EXCEPT ![s] = FALSE] ELSE up
    BY <1>4 DEF FinishClose
  <2>2. /\ m \in Manager /\ m.line = manager.line
        /\ \A r \in Sockets : r # s => m.bound[r] = manager.bound[r]
    BY <1>1, DisconnectIs
  <2> HIDE DEF m
  <2>3. Holds(m, s, t)
    BY <2>1, <2>2 DEF Holds
  <2>4. n \in Manager /\ n.bound = m.bound
    BY <2>2, <2>3, ReleaseIs
  <2> HIDE DEF n, d
  <2>5. GoesOnFrom(n)
    BY <1>1, <2>1, <2>4, SweepGoesOn
  <2>6. /\ \A r \in Sockets : up'[r] => up[r]
        /\ up'[s] => manager.bound[s] = 0
    BY <1>1, <2>1
  <2> QED
    BY <1>2, <2>2, <2>4, <2>5, <2>6
<1>5. ASSUME NEW s \in Sockets, Acquire(t, s)
      PROVE  ServedAreRegistered'
  <2>1. Holds(manager, s, t) /\ up' = up
    BY <1>5 DEF Acquire
  <2>2. Release(manager, s) \in Manager /\ Release(manager, s).bound = manager.bound
    BY <1>1, <2>1, ReleaseIs
  <2>3. CASE Write(manager, t, d, s)
    BY <2>1, <2>3 DEF Write, ServedAreRegistered
  <2>4. CASE SendOn(Release(manager, s), t, d)
    <3> HIDE DEF d
    <3>1. GoesOnFrom(Release(manager, s))
      BY <1>1, <2>2, <2>4, SendOnGoesOn
    <3> QED
      BY <1>2, <2>1, <2>2, <3>1
  <2> QED
    BY <1>5, <2>3, <2>4 DEF Acquire
<1>6. ASSUME NEW s \in Sockets, FinishWrite(t, s)
      PROVE  ServedAreRegistered'
  <2> DEFINE m == Noted(manager, s, d)
             n == Release(m, s)
  <2>1. /\ d.stage = "write" /\ d.at = {s} /\ SendOn(n, t, d) /\ up' = up
    BY <1>6 DEF FinishWrite
  <2>2. Holds(manager, s, t)
    BY <2>1 DEF SocketsInv, Sound, Writing, Writes
  <2>3. m \in Manager /\ m.bound = manager.bound /\ m.line = manager.line
    BY <1>1, <2>1, NotedIs
  <2> HIDE DEF m
  <2>4. Holds(m, s, t)
    BY <2>2, <2>3 DEF Holds
  <2>5. n \in Manager /\ n.bound = manager.bound
    BY <2>3, <2>4, ReleaseIs
  <2> HIDE DEF n, d
  <2>6. GoesOnFrom(n)
    BY <1>1, <2>1, <2>5, SendOnGoesOn
  <2> QED
    BY <1>2, <2>1, <2>5, <2>6
<1>7. ASSUME NEW s \in Sockets, FailWrite(t, s)
      PROVE  ServedAreRegistered'
  <2> DEFINE m == Disconnect(manager, s)
             n == Release(m, s)
  <2>1. d.stage = "write" /\ d.at = {s} /\ ~up[s] /\ SendOn(n, t, d) /\ up' = up
    BY <1>7 DEF FailWrite
  <2>2. Holds(manager, s, t)
    BY <2>1 DEF SocketsInv, Sound, Writing, Writes
  <2>3. /\ m \in Manager /\ m.line = manager.line
        /\ \A r \in Sockets : r # s => m.bound[r] = manager.bound[r]
    BY <1>1, DisconnectIs
  <2> HIDE DEF m
  <2>4. Holds(m, s, t)
    BY <2>2, <2>3 DEF Holds
  <2>5. n \in Manager /\ n.bound = m.bound
    BY <2>3, <2>4, ReleaseIs
  <2> HIDE DEF n, d
  <2>6. GoesOnFrom(n)
    BY <1>1, <2>1, <2>5, SendOnGoesOn
  <2> QED
    BY <1>2, <2>1, <2>3, <2>5, <2>6
<1>8. ASSUME NEW s \in Sockets, FinishExpel(t, s)
      PROVE  ServedAreRegistered'
  <2> DEFINE m == Disconnect(manager, s)
  <2>1. SendOn(m, t, d) /\ up' = [up EXCEPT ![s] = FALSE]
    BY <1>8 DEF FinishExpel
  <2>2. m \in Manager /\ \A r \in Sockets : r # s => m.bound[r] = manager.bound[r]
    BY <1>1, DisconnectIs
  <2> HIDE DEF m, d
  <2>3. GoesOnFrom(m)
    BY <1>1, <2>1, <2>2, SendOnGoesOn
  <2> QED
    BY <1>1, <1>2, <2>1, <2>2, <2>3
<1> QED
  BY <1>3, <1>4, <1>5, <1>6, <1>7, <1>8 DEF DeliveryStep


-----------------------------------------------------------------------------
(***************************************************************************)
(* The invariant is one.                                                   *)
(***************************************************************************)
(* Nobody is connected when the worker starts. *)
LEMMA SocketsInit == Init => SocketsInv /\ ServedAreRegistered
<1> SUFFICES ASSUME Init
             PROVE  SocketsInv /\ ServedAreRegistered
  OBVIOUS
<1>1. /\ NoDelivery \in Delivery /\ NoDelivery.stage = "idle"
  BY DEF NoDelivery, Delivery, Revision
<1>2. /\ EmptyManager.bound = [s \in Sockets |-> 0]
      /\ EmptyManager.roomMark = [i \in Instances |-> NoRevision]
      /\ EmptyManager \in Manager
  BY DEF EmptyManager, Manager, Revision
<1>3. /\ room = [instance |-> 0, revision |-> 0, live |-> FALSE]
      /\ endpoint \in [Sockets -> Endpoint]
      /\ shown \in [Sockets -> [instance : Nat, revision : Revision]]
      /\ \A s \in Sockets : endpoint[s].pc = "off" /\ endpoint[s].bound = 0
      /\ \A s \in Sockets : shown[s].revision = NoRevision
  BY DEF Init, Endpoint, Revision
<1>4. /\ task \in [Tasks -> Delivery] /\ \A t \in Tasks : task[t].stage = "idle"
  BY <1>1 DEF Init
<1>5. Sockets \subseteq Tasks
  BY DEF Tasks
<1>6. Fields(manager, task)
  BY <1>2, <1>3, <1>4, SocketsAssumption DEF Init, Fields
<1>7. Membership(manager) /\ Occupation(task) /\ Documents(task) /\ ServedAreRegistered
  BY <1>2, <1>3, <1>4, <1>5
     DEF Init, Membership, Occupation, Documents, ServedAreRegistered
<1>8. Marks(manager)
  BY <1>2, <1>3 DEF Init, Marks, NoRevision
<1>9. Writing(manager, task) /\ OldOnesLeave(manager, task) /\ Promised(manager, task)
  BY <1>2, <1>3, <1>4 DEF Init, Writing, Writes, OldOnesLeave, Swept, Promised, Awaits
<1> QED
  BY <1>6, <1>7, <1>8, <1>9 DEF SocketsInv, Sound

(* Every step of every coroutine keeps it, and writes in order. *)
LEMMA SocketsNext ==
  SocketsInv /\ [Next]_vars => SocketsInv' /\ [WrittenInOrder]_vars
<1> SUFFICES ASSUME SocketsInv, [Next]_vars
             PROVE  SocketsInv' /\ [WrittenInOrder]_vars
  OBVIOUS
<1>1. CASE TickCommits
  <2>1. /\ Ticker \in Tasks /\ Ticker \notin Sockets /\ task[Ticker].stage = "idle"
        /\ room.live /\ NextRevision /\ Deliver(Ticker, room.instance, room.revision + 1)
        /\ UNCHANGED <<news, endpoint, up, manager, shown>>
    BY <1>1, SocketsAssumption DEF TickCommits, Tasks
  <2> QED
    BY <2>1, CommitKeeps
<1>2. CASE RemoteCommit
  BY <1>2, RemoteCommitKeeps
<1>3. CASE Dispatch
  BY <1>3, DispatchKeeps
<1>4. CASE Vanish \/ Recreate
  BY <1>4, RoomKeeps
<1>5. ASSUME NEW t \in Tasks, DeliveryStep(t)
      PROVE  SocketsInv' /\ WrittenInOrder
  BY <1>5, StartDeliveryKeeps, FinishCloseKeeps, AcquireKeeps, FinishWriteKeeps,
     FailWriteKeeps, FinishExpelKeeps DEF DeliveryStep
<1>6. ASSUME NEW t \in Tasks, ReadCanonical(t)
      PROVE  SocketsInv' /\ WrittenInOrder
  BY <1>6, ReadCanonicalKeeps
<1>7. ASSUME NEW s \in Sockets, Authorize(s)
      PROVE  SocketsInv' /\ WrittenInOrder
  BY <1>7, AuthorizeKeeps
<1>8. ASSUME NEW s \in Sockets, EndpointStep(s)
      PROVE  SocketsInv' /\ WrittenInOrder
  BY <1>8, RegisterKeeps, ReauthorizeKeeps, LeaveKeeps DEF EndpointStep
<1>9. ASSUME NEW s \in Sockets, Mutate(s) \/ Hangup(s)
      PROVE  SocketsInv' /\ WrittenInOrder
  BY <1>9, MutateKeeps, HangupKeeps
<1>10. CASE UNCHANGED vars
  <2>1. UNCHANGED <<room, news, endpoint, up, manager, task, shown>>
    BY <1>10 DEF vars
  <2>2. Fields(manager, task)'
    BY <2>1 DEF SocketsInv, Sound, Fields
  <2>3. /\ Membership(manager)' /\ Occupation(task)' /\ Documents(task)' /\ Marks(manager)'
        /\ OldOnesLeave(manager, task)'
    BY <2>1 DEF SocketsInv, Sound, Membership, Occupation, Documents, Marks, OldOnesLeave,
                Swept, Sweeps
  <2>4. Writing(manager, task)' /\ Promised(manager, task)'
    BY <2>1 DEF SocketsInv, Sound, Writing, Writes, Promised, Awaits, Brings, Greets
  <2> QED
    BY <1>10, <2>2, <2>3, <2>4 DEF SocketsInv, Sound
<1> QED
  BY <1>1, <1>2, <1>3, <1>4, <1>5, <1>6, <1>7, <1>8, <1>9, <1>10 DEF Next

(* A socket that begins to be served is registered, and leaves the manager   *)
(* only as it goes down.                                                     *)
LEMMA ServedNext ==
  SocketsInv /\ ServedAreRegistered /\ [Next]_vars => ServedAreRegistered'
<1> SUFFICES ASSUME SocketsInv, ServedAreRegistered, [Next]_vars
             PROVE  ServedAreRegistered'
  OBVIOUS
<1>1. /\ endpoint \in [Sockets -> Endpoint] /\ up \in [Sockets -> BOOLEAN]
      /\ manager \in Manager
  BY DEF SocketsInv, Sound, Fields
<1>2. CASE UNCHANGED <<endpoint, up, manager>>
  BY <1>2 DEF ServedAreRegistered
<1>3. ASSUME NEW t \in Tasks, DeliveryStep(t)
      PROVE  ServedAreRegistered'
  BY <1>3, DeliveryServesRegistered
<1>4. ASSUME NEW t \in Tasks, ReadCanonical(t)
      PROVE  ServedAreRegistered'
  <2>1. /\ UNCHANGED <<up, manager>>
        /\ t \in Sockets => endpoint[t].pc = "syncing"
        /\ endpoint' = endpoint \/ endpoint' = EndpointAfter(manager, t)
    BY <1>4 DEF ReadCanonical, SocketsInv, Sound, Occupation
  <2>2. CASE endpoint' = EndpointAfter(manager, t) /\ t \in Sockets
    <3>1. /\ \A s \in Sockets : s # t => endpoint'[s] = endpoint[s]
          /\ endpoint'[t].pc = CASE endpoint[t].pc = "syncing"  -> "accepting"
                [] endpoint[t].pc = "greeting" -> IF manager.bound[t] # 0 THEN "serving" ELSE "leaving"
                [] OTHER -> endpoint[t].pc
      BY <1>1, <2>2 DEF EndpointAfter, Endpoint
    <3>2. endpoint'[t].pc = "accepting"
      BY <2>1, <2>2, <3>1
    <3> QED
      BY <2>1, <3>1, <3>2 DEF ServedAreRegistered
  <2> QED
    BY <1>2, <2>1, <2>2 DEF EndpointAfter
<1>5. ASSUME NEW s \in Sockets, Authorize(s) \/ Reauthorize(s) \/ Mutate(s)
      PROVE  ServedAreRegistered'
  <2>1. /\ UNCHANGED <<up, manager>>
        /\ \A r \in Sockets : endpoint'[r].pc = "serving" => endpoint[r].pc = "serving"
    BY <1>1, <1>5 DEF Authorize, Reauthorize, Mutate, Endpoint
  <2> QED
    BY <2>1 DEF ServedAreRegistered
<1>6. ASSUME NEW s \in Sockets, Register(s)
      PROVE  ServedAreRegistered'
  <2>1. /\ up' = up
        /\ \A r \in Sockets : endpoint'[r].pc = "serving" =>
             endpoint[r].pc = "serving" /\ r # s
        /\ manager'.bound = [manager.bound EXCEPT ![s] = endpoint[s].bound]
    BY <1>1, <1>6 DEF Register, Endpoint, Connect, Manager
  <2>2. \A r \in Sockets : r # s => manager'.bound[r] = manager.bound[r]
    BY <1>1, <2>1 DEF Manager
  <2> QED
    BY <2>1, <2>2 DEF ServedAreRegistered
<1>7. ASSUME NEW s \in Sockets, Leave(s)
      PROVE  ServedAreRegistered'
  <2>1. /\ \A r \in Sockets : up'[r] => up[r] /\ r # s
        /\ \A r \in Sockets : r # s => endpoint'[r] = endpoint[r]
        /\ manager' = Disconnect(manager, s)
    BY <1>1, <1>7 DEF Leave
  <2>2. \A r \in Sockets : r # s => manager'.bound[r] = manager.bound[r]
    BY <1>1, <2>1, DisconnectIs
  <2> QED
    BY <2>1, <2>2 DEF ServedAreRegistered
<1>8. ASSUME NEW s \in Sockets, Hangup(s)
      PROVE  ServedAreRegistered'
  <2>1. UNCHANGED <<endpoint, manager>> /\ \A r \in Sockets : up'[r] => up[r]
    BY <1>1, <1>8 DEF Hangup
  <2> QED
    BY <2>1 DEF ServedAreRegistered
<1>9. CASE TickCommits \/ RemoteCommit \/ Dispatch \/ Vanish \/ Recreate \/ UNCHANGED vars
  BY <1>2, <1>9 DEF TickCommits, RemoteCommit, Dispatch, Vanish, Recreate, vars
<1> QED
  BY <1>3, <1>4, <1>5, <1>6, <1>7, <1>8, <1>9 DEF Next, EndpointStep

(* The strengthened invariant holds throughout. *)
LEMMA SocketsAlways == Spec => [](SocketsInv /\ ServedAreRegistered)
<1>1. Init => SocketsInv /\ ServedAreRegistered
  BY SocketsInit
<1>2. SocketsInv /\ ServedAreRegistered /\ [Next]_vars => (SocketsInv /\ ServedAreRegistered)'
  BY SocketsNext, ServedNext
<1> QED
  BY <1>1, <1>2, PTL DEF Spec

-----------------------------------------------------------------------------
(* Whatever the coroutines of the endpoints, of the scheduler and of the     *)
(* subscription do between each other's suspensions, a socket is written     *)
(* documents of its own generation only, each newer than the one before: the *)
(* rule of send_json.                                                        *)
THEOREM DocumentsArriveInOrder == Spec => DeliveredInOrder
<1>1. SocketsInv /\ [Next]_vars => [WrittenInOrder]_vars
  BY SocketsNext
<1> QED
  BY <1>1, SocketsAlways, PTL DEF Spec, DeliveredInOrder

(* Sockets that are served together are of one generation: whoever is served *)
(* has swept the older ones, and an older one that was not registered then   *)
(* is refused at its second authorization.                                   *)
THEOREM GenerationsDoNotMix == Spec => []OneGeneration
<1>1. SocketsInv => OneGeneration
  <2> SUFFICES ASSUME SocketsInv, NEW r \in Sockets, NEW s \in Sockets,
                      Greeted(r), Greeted(s)
               PROVE  manager.bound[r] = manager.bound[s]
    BY DEF OneGeneration
  <2>1. /\ manager.bound[r] = endpoint[r].bound /\ manager.bound[s] = endpoint[s].bound
        /\ manager.bound[r] \in Nat /\ manager.bound[s] \in Nat
    BY DEF SocketsInv, Sound, Membership, Fields, Manager, Greeted
  <2>2. ~(manager.bound[r] < endpoint[s].bound) /\ ~(manager.bound[s] < endpoint[r].bound)
    BY DEF SocketsInv, Sound, OldOnesLeave, Swept, Sweeps, Greeted
  <2> QED
    BY <2>1, <2>2
<1> QED
  BY <1>1, SocketsAlways, PTL

(* When all is quiet, every open socket of the present generation has been   *)
(* written the present document.                                             *)
THEOREM NobodyStaysBehind == Spec => []NobodyIsBehind
<1>1. SocketsInv /\ ServedAreRegistered => NobodyIsBehind
  <2> SUFFICES ASSUME SocketsInv, ServedAreRegistered, Quiet, NEW s \in Sockets, Current(s)
               PROVE  shown[s].revision = room.revision
    BY DEF NobodyIsBehind
  <2>1. manager.bound[s] # 0 /\ manager.bound[s] = endpoint[s].bound
    BY DEF ServedAreRegistered, SocketsInv, Sound, Membership, Current
  <2>2. \A t \in Tasks : ~Writes(task, t, s) /\ ~Brings(task, t, s)
    BY DEF Quiet, Writes, Brings
  <2>3. Awaits(manager, s) /\ ~(news > 0)
    BY <2>1 DEF Awaits, Current, Quiet
  <2>4. manager.mark[s] = room.revision
    BY <2>2, <2>3 DEF SocketsInv, Sound, Promised
  <2> QED
    BY <2>1, <2>2, <2>4 DEF SocketsInv, Sound, Writing, Current
<1> QED
  BY <1>1, SocketsAlways, PTL

(***************************************************************************)
(* The other end of a connection: the rest ritual of a page.  As long as   *)
(* the page is not blind, the documents that it has shown and has yet to   *)
(* show are those of the room, without a gap; so that a break which        *)
(* follows a break in them is the same one.                                *)
(***************************************************************************)
\* A document of the room, in which no focus runs in a break.
ViewFields ==
  [focus : BOOLEAN, paused : BOOLEAN,
   pomodoro_remaining : Nat, pomodoro_duration : Nat,
   break : BOOLEAN, break_remaining : Nat,
   sessions_done : Nat, reward_id : Nat, revision : Nat,
   last_tick_slot : {Timer!NoSlot}, time_override : BOOLEAN]

ViewDocument == {s \in ViewFields : ~(s.focus /\ s.break)}

\* t may be the room's next document after s.
Follows(s, t) ==
  /\ s.reward_id <= t.reward_id
  /\ s.break /\ t.break => s.reward_id = t.reward_id

Rituals ==
  [observed : Int, revealed : Int, phase : {"inactive", "return", "reveal", "restore"},
   wasBreak : BOOLEAN, recovery : Int]

ViewType ==
  /\ document \in ViewDocument
  /\ linked \in BOOLEAN /\ first \in BOOLEAN /\ blind \in BOOLEAN
  /\ wire \in Seq(ViewDocument)
  /\ currentState \in ViewDocument \cup {NoState}
  /\ ritual \in Rituals

\* What is on its way to the page ends with the room's document, and goes on
\* where the page is, unless it is the first of a connection.
WireIsGapless ==
  /\ ~linked => wire = <<>>
  /\ \A i \in 1..(Len(wire) - 1) : Follows(wire[i], wire[i + 1])
  /\ wire # <<>> => wire[Len(wire)] = document
  /\ linked /\ first => wire # <<>>
  /\ linked /\ ~first =>
       IF wire = <<>> THEN currentState = document ELSE Follows(currentState, wire[1])

RitualKnows ==
  /\ ~first => currentState # NoState /\ ritual.observed >= currentState.reward_id
  /\ ritual.wasBreak = currentState.break
  /\ ritual.revealed \in earned \cup {NoReward}
  /\ ritual.phase = "reveal" => currentState.reward_id \in earned
  /\ currentState.break /\ ritual.recovery # NoChoice /\ ~blind =>
       linked /\ ~first /\ ritual.recovery = currentState.reward_id

ViewInv == ViewType /\ WireIsGapless /\ RitualKnows

(* The room's document before anything has happened is one. *)
LEMMA FirstDocument == Timer!MakeState \in ViewDocument
BY DEF Timer!MakeState, ViewFields, ViewDocument

(* A tick of one second starts a break only where none was. *)
LEMMA TickFollows ==
  ASSUME NEW s \in ViewDocument
  PROVE  /\ Timer!AdvanceTimer(s, 1) \in ViewDocument
         /\ Follows(s, Timer!AdvanceTimer(s, 1))
<1> DEFINE f == Timer!FocusPhase(s, 1)
           n == Timer!AfterFocus(s, 1)
<1>1. n \in Nat
  BY DEF Timer!AfterFocus, Timer!Smaller, ViewFields, ViewDocument
<1>2. /\ f \in ViewDocument
      /\ s.reward_id <= f.reward_id
      /\ s.break => f.reward_id = s.reward_id
  <2>1. CASE ~Timer!Running(s)
    BY <2>1 DEF Timer!FocusPhase, ViewFields, ViewDocument
  <2>2. CASE Timer!Running(s) /\ 1 < s.pomodoro_remaining
    <3>1. f = [s EXCEPT !.pomodoro_remaining = @ - 1]
      BY <2>2 DEF Timer!FocusPhase
    <3>0. s.pomodoro_remaining - 1 \in Nat
      BY <2>2 DEF ViewFields, ViewDocument
    <3>2. f \in ViewDocument /\ f.reward_id = s.reward_id
      BY <3>0, <3>1 DEF ViewFields, ViewDocument
    <3>3. s.reward_id \in Nat
      BY DEF ViewFields, ViewDocument
    <3> QED BY <3>2, <3>3
  <2>3. CASE Timer!Running(s) /\ ~(1 < s.pomodoro_remaining)
    <3>1. f = Timer!CompleteFocus(s)
      BY <2>3 DEF Timer!FocusPhase
    <3>2. /\ s \in ViewFields
          /\ s.sessions_done + 1 \in Nat /\ s.reward_id \in Nat /\ s.reward_id + 1 \in Nat
          /\ s.pomodoro_duration \in Nat
      BY DEF ViewFields, ViewDocument
    <3>3. BreakDuration \in Nat
      BY ViewAssumption
    <3>4. f \in ViewFields /\ ~f.focus /\ f.reward_id = s.reward_id + 1
      BY <3>1, <3>2, <3>3 DEF Timer!CompleteFocus, ViewFields
    <3>5. ~s.break
      BY <2>3 DEF Timer!Running, ViewDocument
    <3> QED BY <3>2, <3>4, <3>5 DEF ViewDocument
  <2> QED BY <2>1, <2>2, <2>3
<1> HIDE DEF f, n
<1>3. /\ Timer!BreakPhase(f, n) \in ViewDocument
      /\ Timer!BreakPhase(f, n).reward_id = f.reward_id
  <2>0. f \in ViewFields
    BY <1>2 DEF ViewDocument
  <2>1. ~(f.focus /\ f.break) /\ f.break_remaining \in Nat
    BY <1>2 DEF ViewDocument, ViewFields
  <2>2. ASSUME n < f.break_remaining
        PROVE  [f EXCEPT !.break_remaining = @ - n] \in ViewDocument
    <3>1. f.break_remaining - n \in Nat
      BY <1>1, <2>1, <2>2
    <3> QED BY <2>0, <2>1, <3>1 DEF ViewDocument, ViewFields
  <2>3. [f EXCEPT !.break = FALSE, !.break_remaining = 0] \in ViewDocument
    <3> DEFINE g == [f EXCEPT !.break = FALSE, !.break_remaining = 0]
    <3>1. g \in ViewFields
      BY <2>0 DEF ViewFields
    <3>2. ~g.break
      BY <2>0 DEF ViewFields
    <3> QED BY <3>1, <3>2 DEF ViewDocument
  <2>4. /\ [f EXCEPT !.break_remaining = @ - n].reward_id = f.reward_id
        /\ [f EXCEPT !.break = FALSE, !.break_remaining = 0].reward_id = f.reward_id
    BY <2>0 DEF ViewFields
  <2> QED BY <1>2, <2>2, <2>3, <2>4 DEF Timer!BreakPhase
<1>4. Timer!AdvanceTimer(s, 1) = Timer!BreakPhase(f, n)
  BY DEF Timer!AdvanceTimer, Timer!Larger, f, n
<1> QED BY <1>2, <1>3, <1>4 DEF Follows

(* No message about the timer starts a break. *)
LEMMA MessageFollows ==
  ASSUME NEW s \in ViewDocument, NEW type \in TimerMessages
  PROVE  /\ Timer!Handle(s, [type |-> type]) \in ViewDocument
         /\ Follows(s, Timer!Handle(s, [type |-> type]))
<1>1. s \in ViewFields
  BY DEF ViewDocument
<1>2. s.reward_id \in Nat /\ s.pomodoro_duration \in Nat
  BY <1>1 DEF ViewFields
<1>3. ~(s.focus /\ s.break)
  BY DEF ViewDocument
<1>4. /\ Timer!FocusToggle(s) \in ViewDocument
      /\ Follows(s, Timer!FocusToggle(s))
  <2> DEFINE t == Timer!FocusToggle(s)
  <2>1. (IF s.break THEN 0 ELSE s.break_remaining) \in Nat
    BY <1>1 DEF ViewFields
  <2>2. t \in ViewFields
    BY <1>1, <1>2, <2>1 DEF Timer!FocusToggle, ViewFields
  <2>3. ~t.break /\ t.reward_id = s.reward_id
    BY <1>1 DEF Timer!FocusToggle, ViewFields
  <2> QED BY <1>2, <2>2, <2>3 DEF Follows, ViewDocument
<1>5. /\ Timer!FocusPause(s) \in ViewDocument
      /\ Follows(s, Timer!FocusPause(s))
  <2> DEFINE t == Timer!FocusPause(s)
  <2>1. t \in ViewFields
    BY <1>1 DEF Timer!FocusPause, ViewFields
  <2>2. t.focus = s.focus /\ t.break = s.break /\ t.reward_id = s.reward_id
    BY <1>1 DEF Timer!FocusPause, ViewFields
  <2> QED BY <1>2, <1>3, <2>1, <2>2 DEF Follows, ViewDocument
<1>6. /\ Timer!FocusCancel(s) \in ViewDocument
      /\ Follows(s, Timer!FocusCancel(s))
  <2> DEFINE t == Timer!FocusCancel(s)
  <2>1. t \in ViewFields
    BY <1>1, <1>2 DEF Timer!FocusCancel, ViewFields
  <2>2. ~t.break /\ t.reward_id = s.reward_id
    BY <1>1 DEF Timer!FocusCancel, ViewFields
  <2> QED BY <1>2, <1>3, <2>1, <2>2 DEF Follows, ViewDocument
<1>7. Follows(s, s)
  BY <1>2 DEF Follows
<1>8. /\ Timer!SkipBreak(s) \in ViewDocument
      /\ Follows(s, Timer!SkipBreak(s))
  BY <1>6, <1>7 DEF Timer!SkipBreak
<1> QED BY <1>4, <1>5, <1>6, <1>8 DEF TimerMessages, Timer!Handle

(* A commit of the room puts its document at the end of the wire. *)
LEMMA CommitExtends ==
  ASSUME ViewInv, NEW state \in ViewDocument, Follows(document, state), Commit(state),
         UNCHANGED <<currentState, ritual, earned, blind>>
  PROVE  ViewInv'
<1>1. document' = state /\ UNCHANGED <<linked, first>>
  BY DEF Commit
<1>2. RitualKnows'
  BY <1>1 DEF ViewInv, RitualKnows
<1>3. CASE ~linked
  <2>1. wire' = wire /\ wire = <<>>
    BY <1>3 DEF Commit, ViewInv, WireIsGapless
  <2> QED BY <1>1, <1>2, <1>3, <2>1 DEF ViewInv, ViewType, WireIsGapless
<1>4. CASE linked
  <2>1. wire' = Append(wire, state)
    BY <1>4 DEF Commit
  <2>2. wire \in Seq(ViewDocument) /\ Len(wire) \in Nat
    BY DEF ViewInv, ViewType
  <2>3. /\ wire' \in Seq(ViewDocument) /\ Len(wire') = Len(wire) + 1 /\ wire' # <<>>
        /\ \A i \in 1..Len(wire) : wire'[i] = wire[i]
        /\ wire'[Len(wire) + 1] = state
    BY <2>1, <2>2, AppendProperties
  <2>4. wire # <<>> => wire[Len(wire)] = document /\ Len(wire) # 0
    BY <2>2, EmptySeq DEF ViewInv, WireIsGapless
  <2>5. ASSUME NEW i \in 1..(Len(wire') - 1) PROVE Follows(wire'[i], wire'[i + 1])
    <3>1. CASE i = Len(wire)
      <4>1. wire # <<>>
        BY <2>3, <3>1
      <4> QED BY <2>3, <2>4, <3>1, <4>1
    <3>2. CASE i # Len(wire)
      <4>1. i \in 1..(Len(wire) - 1) /\ i + 1 \in 1..Len(wire)
        BY <2>2, <2>3, <3>2
      <4> QED BY <2>3, <4>1 DEF ViewInv, WireIsGapless
    <3> QED BY <3>1, <3>2
  <2>6. ASSUME ~first PROVE Follows(currentState, wire'[1])
    <3>1. CASE wire = <<>>
      <4>1. currentState = document /\ Len(wire) = 0
        BY <1>4, <2>6, <3>1 DEF ViewInv, WireIsGapless
      <4> QED BY <2>3, <4>1
    <3>2. CASE wire # <<>>
      <4>1. wire'[1] = wire[1]
        BY <2>2, <2>3, <2>4, <3>2
      <4> QED BY <1>4, <2>6, <3>2, <4>1 DEF ViewInv, WireIsGapless
    <3> QED BY <3>1, <3>2
  <2>7. WireIsGapless'
    BY <1>1, <1>4, <2>3, <2>5, <2>6 DEF WireIsGapless
  <2> QED BY <1>1, <1>2, <2>3, <2>7 DEF ViewInv, ViewType
<1> QED BY <1>3, <1>4

(* A page that has shown the first document on the wire goes on with the
   others. *)
LEMMA ShownIsTaken ==
  ASSUME ViewInv, wire # <<>>, wire' = Tail(wire), currentState' = Head(wire),
         first' = FALSE, UNCHANGED <<document, linked>>
  PROVE  /\ linked
         /\ Head(wire) \in ViewDocument
         /\ ~first => Follows(currentState, Head(wire))
         /\ wire' \in Seq(ViewDocument)
         /\ WireIsGapless'
<1>1. wire \in Seq(ViewDocument) /\ Len(wire) \in Nat \ {0}
  BY EmptySeq DEF ViewInv, ViewType
<1>2. Head(wire) = wire[1] /\ Head(wire) \in ViewDocument
  BY <1>1
<1>3. /\ wire' \in Seq(ViewDocument) /\ Len(wire') = Len(wire) - 1
      /\ \A i \in 1..Len(wire') : wire'[i] = wire[i + 1]
  BY <1>1
<1>4. linked
  BY DEF ViewInv, WireIsGapless, ViewType
<1>5. ~first => Follows(currentState, Head(wire))
  BY <1>2, <1>4 DEF ViewInv, WireIsGapless
<1>6. wire[Len(wire)] = document
  BY DEF ViewInv, WireIsGapless
<1>7. ASSUME NEW i \in 1..(Len(wire') - 1) PROVE Follows(wire'[i], wire'[i + 1])
  <2>1. i + 1 \in 1..(Len(wire) - 1) /\ i \in 1..Len(wire') /\ i + 1 \in 1..Len(wire')
    BY <1>1, <1>3
  <2>2. Follows(wire[i + 1], wire[(i + 1) + 1])
    BY <2>1 DEF ViewInv, WireIsGapless
  <2> QED BY <1>3, <2>1, <2>2
<1>8. wire' # <<>> => Len(wire') # 0
  BY <1>3, EmptySeq
<1>9. wire' # <<>> => wire'[Len(wire')] = document
  BY <1>1, <1>3, <1>6, <1>8
<1>10. wire' = <<>> => currentState' = document
  <2>1. wire' = <<>> => Len(wire') = 0
    OBVIOUS
  <2> QED BY <1>1, <1>2, <1>3, <1>6, <2>1
<1>11. wire' # <<>> => Follows(currentState', wire'[1])
  <2>1. wire' # <<>> => 1 \in 1..(Len(wire) - 1) /\ 1 \in 1..Len(wire')
    BY <1>1, <1>3, <1>8
  <2>2. wire' # <<>> => Follows(wire[1], wire[1 + 1])
    BY <2>1 DEF ViewInv, WireIsGapless
  <2> QED BY <1>2, <1>3, <2>1, <2>2
<1> QED BY <1>2, <1>3, <1>4, <1>5, <1>7, <1>9, <1>10, <1>11 DEF WireIsGapless

(* What is celebrated was seen to rise, and what stays chosen is of this
   break (rest-ritual.js:221-231, 250). *)
LEMMA ApplyKnows ==
  ASSUME ViewInv, ApplyState
  PROVE  ViewInv'
<1> DEFINE s == Head(wire)
<1>1. /\ wire # <<>> /\ wire' = Tail(wire) /\ currentState' = s /\ first' = FALSE
      /\ ritual' = Ritual(s)
      /\ earned' = IF ~first /\ s.break /\ s.reward_id > currentState.reward_id
                   THEN earned \cup {s.reward_id} ELSE earned
      /\ UNCHANGED <<document, linked, blind>>
  BY DEF ApplyState
<1>2. /\ linked /\ s \in ViewDocument /\ wire' \in Seq(ViewDocument)
      /\ ~first => Follows(currentState, s)
      /\ WireIsGapless'
  BY <1>1, ShownIsTaken
<1> HIDE DEF s
<1>3. s.break \in BOOLEAN /\ s.reward_id \in Nat
  BY <1>2 DEF ViewFields, ViewDocument
<1>4. ritual \in Rituals /\ ritual.observed \in Int
  BY DEF ViewInv, ViewType, Rituals
<1>5. Baseline \in Int /\ (Baseline # NoReward => ~first /\ Baseline = ritual.observed)
  BY <1>4 DEF Baseline, NoReward
<1>6. currentState.reward_id \in Nat /\ currentState.break \in BOOLEAN
  <2>1. currentState \in ViewDocument \cup {NoState}
    BY DEF ViewInv, ViewType
  <2>2. NoState.reward_id \in Nat /\ NoState.break \in BOOLEAN
    BY DEF NoState, Timer!MakeState
  <2>3. ASSUME NEW d \in ViewDocument PROVE d.reward_id \in Nat /\ d.break \in BOOLEAN
    BY DEF ViewFields, ViewDocument
  <2> QED BY <2>1, <2>2, <2>3
<1>7. Reveals(s) => s.reward_id \in earned'
  <2>1. SUFFICES ASSUME Reveals(s) PROVE s.reward_id \in earned'
    OBVIOUS
  <2>2. s.break /\ ~first /\ s.reward_id > ritual.observed
    BY <1>5, <2>1 DEF Reveals
  <2>3. ritual.observed >= currentState.reward_id
    BY <2>2 DEF ViewInv, RitualKnows
  <2>4. s.reward_id > currentState.reward_id
    BY <1>3, <1>4, <1>6, <2>2, <2>3
  <2> QED BY <1>1, <2>2, <2>4
<1>8. earned \subseteq earned'
  BY <1>1
<1>9. RevealReward(s) \in earned' \cup {NoReward}
  BY <1>7, <1>8 DEF RevealReward, ViewInv, RitualKnows
<1>10. RenderedPhase(s) = "reveal" => RevealReward(s) = s.reward_id
  BY DEF RenderedPhase
<1>11. s.reward_id # NoReward
  BY <1>3 DEF NoReward
<1>12. RenderedPhase(s) \in {"inactive", "return", "reveal", "restore"}
  BY DEF RenderedPhase, Phase
<1>13. Choice(s) \in Int /\ RevealReward(s) \in Int
  <2>1. ritual.recovery \in Int /\ ritual.revealed \in Int
    BY <1>4 DEF Rituals
  <2> QED BY <1>3, <2>1 DEF Choice, RevealReward, NoChoice, NoReward
<1>14. ritual' \in Rituals
  BY <1>1, <1>3, <1>5, <1>12, <1>13 DEF Ritual, Rituals
<1>15. /\ ritual'.observed >= s.reward_id
       /\ ritual'.wasBreak = s.break
       /\ ritual'.revealed = RevealReward(s)
       /\ ritual'.phase = RenderedPhase(s)
       /\ ritual'.recovery = Choice(s)
  BY <1>1, <1>3, <1>5 DEF Ritual
<1>16. ASSUME s.break, Choice(s) # NoChoice, ~blind PROVE Choice(s) = s.reward_id
  <2>1. ritual.wasBreak /\ Choice(s) = ritual.recovery
    BY <1>16 DEF Choice
  <2>2. currentState.break /\ ritual.recovery # NoChoice
    BY <1>16, <2>1 DEF ViewInv, RitualKnows
  <2>3. ~first /\ ritual.recovery = currentState.reward_id
    BY <1>16, <2>2 DEF ViewInv, RitualKnows
  <2> QED BY <1>2, <1>16, <2>1, <2>2, <2>3 DEF Follows
<1>17. s # NoState
  <2>1. NoState.revision = -1
    BY DEF NoState, Timer!MakeState
  <2>2. s.revision \in Nat
    BY <1>2 DEF ViewFields, ViewDocument
  <2> QED BY <2>1, <2>2
<1>18. RitualKnows'
  BY <1>1, <1>2, <1>9, <1>10, <1>11, <1>15, <1>16, <1>17 DEF RitualKnows
<1> QED BY <1>1, <1>2, <1>14, <1>18 DEF ViewInv, ViewType

(* A recovery that is chosen while documents arrive is of the break on show. *)
LEMMA ChoiceKnows ==
  ASSUME ViewInv, ChooseRecovery
  PROVE  ViewInv'
<1>1. ritual \in Rituals
  BY DEF ViewInv, ViewType
<1>2. currentState.reward_id \in Int
  <2>1. currentState \in ViewDocument \cup {NoState}
    BY DEF ViewInv, ViewType
  <2>2. NoState.reward_id = 0
    BY DEF NoState, Timer!MakeState
  <2> QED BY <2>1, <2>2 DEF ViewFields, ViewDocument
<1> DEFINE chosen == IF ritual.recovery = NoChoice THEN currentState.reward_id ELSE NoChoice
<1>3. /\ ritual' = [ritual EXCEPT !.recovery = chosen]
      /\ blind' = (~linked \/ first)
      /\ UNCHANGED <<document, linked, first, wire, currentState, earned>>
  BY DEF ChooseRecovery, roomVars
<1>4. /\ chosen \in Int
      /\ chosen # NoChoice => chosen = currentState.reward_id
  BY <1>2 DEF NoChoice
<1> HIDE DEF chosen
<1>5. /\ ritual' \in Rituals /\ ritual'.recovery = chosen
      /\ ritual'.observed = ritual.observed /\ ritual'.wasBreak = ritual.wasBreak
      /\ ritual'.revealed = ritual.revealed /\ ritual'.phase = ritual.phase
  BY <1>1, <1>3, <1>4 DEF Rituals
<1>6. RitualKnows'
  BY <1>3, <1>4, <1>5 DEF ViewInv, ViewType, RitualKnows
<1> QED BY <1>3, <1>5, <1>6 DEF ViewInv, ViewType, WireIsGapless

(* Each step of the room, of the connection and of the page keeps the
   invariant. *)
LEMMA ViewStepKeeps == ViewInv /\ [ViewNext]_viewVars => ViewInv'
<1> SUFFICES ASSUME ViewInv, [ViewNext]_viewVars PROVE ViewInv'
  OBVIOUS
<1>0. document \in ViewDocument
  BY DEF ViewInv, ViewType
<1> DEFINE Told == <<currentState, ritual, earned, blind>>
<1>1. CASE Tick
  <2>1. Commit(Timer!AdvanceTimer(document, 1)) /\ UNCHANGED Told
    BY <1>1 DEF Tick, drawnVars
  <2> QED BY <1>0, <2>1, TickFollows, CommitExtends
<1>2. ASSUME NEW type \in TimerMessages, Send(type), UNCHANGED Told PROVE ViewInv'
  BY <1>0, <1>2, MessageFollows, CommitExtends DEF Send
<1>3. CASE OthersMessage
  BY <1>2, <1>3 DEF OthersMessage, drawnVars
<1>4. ASSUME NEW c \in Controls, Click(c) PROVE ViewInv'
  <2>1. MessageOf[c] \in TimerMessages
    BY <1>4 DEF Click, MessageOf, TimerMessages
  <2> QED BY <1>2, <1>4, <2>1 DEF Click, drawnVars
<1>5. CASE ClickTime
  <2>1. PICK type \in {"focus_pause", "skip_break"} : Send(type)
    BY <1>5 DEF ClickTime
  <2> QED BY <1>2, <1>5, <2>1 DEF ClickTime, TimerMessages, drawnVars
<1>6. CASE Link
  <2>1. /\ wire' = <<document>> /\ ~linked /\ linked' = TRUE /\ first' = TRUE
        /\ UNCHANGED <<document, currentState, ritual, earned, blind>>
    BY <1>6 DEF Link, drawnVars
  <2>2. wire' \in Seq(ViewDocument) /\ Len(wire') = 1 /\ wire'[1] = document /\ wire' # <<>>
    BY <1>0, <2>1
  <2>3. WireIsGapless'
    BY <2>1, <2>2 DEF WireIsGapless
  <2> QED BY <1>0, <2>1, <2>2, <2>3 DEF ViewInv, ViewType, RitualKnows
<1>7. CASE Unlink
  <2>1. /\ wire' = <<>> /\ linked' = FALSE /\ blind' = TRUE
        /\ UNCHANGED <<document, first, currentState, ritual, earned>>
    BY <1>7 DEF Unlink, drawnVars
  <2>2. wire' \in Seq(ViewDocument) /\ Len(wire') = 0
    BY <2>1
  <2>3. WireIsGapless'
    BY <2>1, <2>2 DEF WireIsGapless
  <2> QED BY <2>1, <2>2, <2>3 DEF ViewInv, ViewType, RitualKnows
<1>8. CASE ApplyState
  BY <1>8, ApplyKnows
<1>9. CASE ChooseRecovery
  BY <1>9, ChoiceKnows
<1>10. ASSUME UNCHANGED <<roomVars, Told>> PROVE ViewInv'
  BY <1>10 DEF roomVars, ViewInv, ViewType, WireIsGapless, RitualKnows
<1>11. CASE (\E e \in moves : FocusTimer(e)) \/ PollFocusRow \/ FixFocus \/ MoveOn
  BY <1>10, <1>11 DEF FocusTimer, PollFocusRow, FixFocus, MoveOn, drawnVars
<1>12. CASE StartSky \/ EndSky \/ UNCHANGED viewVars
  BY <1>10, <1>12 DEF StartSky, EndSky, viewVars, drawnVars
<1> QED
  BY <1>1, <1>3, <1>4, <1>5, <1>6, <1>7, <1>8, <1>9, <1>11, <1>12 DEF ViewNext

(* The page before its first document. *)
LEMMA ViewBegins == ViewInit => ViewInv
<1> SUFFICES ASSUME ViewInit PROVE ViewInv
  OBVIOUS
<1>1. wire \in Seq(ViewDocument) /\ Len(wire) = 0
  BY DEF ViewInit
<1>2. ViewType
  <2>1. ritual \in Rituals
    BY DEF ViewInit, Rituals, NoReward, NoChoice
  <2> QED BY <1>1, <2>1, FirstDocument DEF ViewInit, ViewType
<1>3. WireIsGapless
  BY <1>1 DEF ViewInit, WireIsGapless
<1>4. RitualKnows
  BY DEF ViewInit, RitualKnows, NoState, Timer!MakeState
<1> QED BY <1>2, <1>3, <1>4 DEF ViewInv

(* For a break, its phases, a connection and a person of any kind: the page
   celebrates only a reward whose rise it was shown, and a recovery that was
   chosen while it was connected is one of the break on show
   (rest-ritual.js:221-231, 250). *)
THEOREM RitualIsOfItsBreak == EndsSpec => []RitualFollowsBreak
<1> DEFINE Inv == part = "view" => ViewInv
<1>1. EndsInit => Inv
  BY ViewBegins DEF EndsInit
<1>2. Inv /\ [EndsNext]_ends => Inv'
  <2> SUFFICES ASSUME Inv, [EndsNext]_ends, part' = "view" PROVE ViewInv'
    OBVIOUS
  <2>1. part = "view" /\ [ViewNext]_viewVars
    BY DEF EndsNext, ends
  <2> QED BY <2>1, ViewStepKeeps
<1>3. Inv => RitualFollowsBreak
  BY DEF RitualFollowsBreak, RitualIsOfThisBreak, ViewInv, RitualKnows
<1> QED BY <1>1, <1>2, <1>3, PTL DEF EndsSpec

-----------------------------------------------------------------------------
(***************************************************************************)
(* What the page offers: setHiddenInteraction is called with one region    *)
(* after the other, and the regions are nested.  The last call that        *)
(* concerns a region or a control decides about it, whatever was hidden    *)
(* and shown before; so a document decides about them all.                 *)
(***************************************************************************)
Calls == [region : Regions, hidden : BOOLEAN]

Doms == [inert : [Regions -> BOOLEAN], tab : [Controls -> {"own", "hidden"}]]

Tabindex(hidden) == IF hidden THEN "hidden" ELSE "own"

(* The regions, one by one. *)
LEMMA RegionsAreNine ==
  /\ Regions = {"start", "durChips", "timeDial", "focusRow", "breakRow",
                "recoveryGroup", "intentGroup", "restRitual", "pomodoro"}
  /\ Within["start"] = {"start"} /\ Within["durChips"] = {"chips"}
  /\ Within["timeDial"] = {"dial"} /\ Within["focusRow"] = {"pause", "cancel"}
  /\ Within["breakRow"] = {"skip"} /\ Within["recoveryGroup"] = {"recovery"}
  /\ Within["intentGroup"] = {"intent"}
  /\ Within["restRitual"] = {"recovery", "intent", "title"}
  /\ Within["pomodoro"] = {"recovery", "intent", "title", "pause", "cancel", "skip"}
BY DEF Regions, Within

\* What a call makes of the page.
Decides(dom, call, next) ==
  /\ next \in Doms
  /\ next.inert[call.region] = call.hidden
  /\ \A r \in Regions \ {call.region} : next.inert[r] = dom.inert[r]
  /\ \A c \in Controls \cap Within[call.region] : next.tab[c] = Tabindex(call.hidden)
  /\ \A c \in Controls \ Within[call.region] : next.tab[c] = dom.tab[c]

(* One call decides about its region and the controls in it, and about no
   other (dom.js:26-46). *)
LEMMA OneCallDecides ==
  ASSUME NEW dom \in Doms, NEW call \in Calls
  PROVE  Decides(dom, call, SetHidden(dom, call))
<1> DEFINE region == call.region
           hidden == call.hidden
           regions == [dom.inert EXCEPT ![region] = hidden]
           tabs == [c \in Controls |->
                      IF c \notin Within[region] THEN dom.tab[c]
                      ELSE IF hidden THEN Hidden(dom.tab[c]) ELSE Restored(dom.tab[c])]
<1>1. /\ region \in Regions /\ hidden \in BOOLEAN
      /\ dom.inert \in [Regions -> BOOLEAN] /\ dom.tab \in [Controls -> {"own", "hidden"}]
  BY DEF Calls, Doms
<1>2. SetHidden(dom, call) = [inert |-> regions, tab |-> tabs]
  BY DEF SetHidden
<1> HIDE DEF region, hidden
<1>3. /\ regions \in [Regions -> BOOLEAN] /\ regions[region] = hidden
      /\ \A r \in Regions \ {region} : regions[r] = dom.inert[r]
  BY <1>1
<1>4. ASSUME NEW c \in Controls
      PROVE  tabs[c] = IF c \in Within[region] THEN Tabindex(hidden) ELSE dom.tab[c]
  BY <1>1 DEF Hidden, Restored, Tabindex
<1>5. tabs \in [Controls -> {"own", "hidden"}]
  BY <1>1 DEF Hidden, Restored
<1> HIDE DEF regions, tabs
<1>6. SetHidden(dom, call) \in Doms
  BY <1>2, <1>3, <1>5 DEF Doms
<1> QED BY <1>2, <1>3, <1>4, <1>6 DEF Decides, region, hidden

(* A set of numbers that is not empty has a least one. *)
LEMMA LeastNumber ==
  ASSUME NEW T \in SUBSET Nat, T # {}
  PROVE  \E x \in T : \A y \in T : ~(y < x)
<1>1. PICK x \in T : \A y \in T : ~(<<y, x>> \in OpToRel(<, Nat))
  BY NatLessThanWellFounded, WFMin
<1>2. \A y \in T : y < x => <<y, x>> \in OpToRel(<, Nat)
  BY DEF OpToRel
<1> QED BY <1>1, <1>2

Called(dom, calls, f) ==
  [n \in 0..Len(calls) |-> IF n = 0 THEN dom ELSE SetHidden(f[n - 1], calls[n])]

\* f is what the first k calls make of the page.
UpTo(dom, calls, f, k) ==
  \A n \in 0..k : f[n] = IF n = 0 THEN dom ELSE SetHidden(f[n - 1], calls[n])

(* The function of the calls is defined. *)
LEMMA DuringIsDefined ==
  ASSUME NEW dom, NEW calls, Len(calls) \in Nat
  PROVE  During(dom, calls) = Called(dom, calls, During(dom, calls))
<1> DEFINE size == Len(calls)
           short == {k \in 0..size : ~\E f : UpTo(dom, calls, f, k)}
<1> HIDE DEF size
<1>0. size \in Nat
  BY DEF size
<1>1. short = {}
  <2>1. SUFFICES ASSUME short # {} PROVE FALSE
    OBVIOUS
  <2>2. PICK k \in short : \A j \in short : ~(j < k)
    <3>1. short \in SUBSET Nat
      BY <1>0
    <3> HIDE DEF short
    <3> QED BY <2>1, <3>1, LeastNumber
  <2>3. k \in 0..size
    OBVIOUS
  <2>4. CASE k = 0
    <3>1. UpTo(dom, calls, [n \in {0} |-> dom], k)
      BY <2>4 DEF UpTo
    <3> QED BY <3>1
  <2>5. CASE k # 0
    <3>1. k - 1 \in 0..size /\ k - 1 < k
      BY <1>0, <2>3, <2>5
    <3>2. PICK f : UpTo(dom, calls, f, k - 1)
      BY <2>2, <3>1
    <3> DEFINE last == SetHidden(f[k - 1], calls[k])
               g == [n \in 0..k |-> IF n = k THEN last ELSE f[n]]
    <3>3. ASSUME NEW n \in 0..k
          PROVE  g[n] = IF n = 0 THEN dom ELSE SetHidden(g[n - 1], calls[n])
      <4>1. CASE n = k
        <5>1. n # 0 /\ n - 1 \in 0..k /\ n - 1 # k
          BY <1>0, <2>3, <2>5, <4>1
        <5> QED BY <4>1, <5>1
      <4>2. CASE n # k
        <5>1. n \in 0..(k - 1) /\ (n # 0 => n - 1 \in 0..k /\ n - 1 # k)
          BY <1>0, <2>3, <4>2
        <5>2. f[n] = IF n = 0 THEN dom ELSE SetHidden(f[n - 1], calls[n])
          BY <3>2, <5>1 DEF UpTo
        <5>3. g[n] = f[n] /\ (n # 0 => g[n - 1] = f[n - 1])
          BY <4>2, <5>1
        <5> QED BY <5>2, <5>3
      <4> QED BY <4>1, <4>2
    <3> HIDE DEF g
    <3>4. UpTo(dom, calls, g, k)
      BY <3>3 DEF UpTo
    <3> QED BY <3>4
  <2> QED BY <2>4, <2>5
<1>2. PICK f : UpTo(dom, calls, f, size)
  <2>1. size \in 0..size
    BY <1>0
  <2>2. size \notin short
    BY <1>1
  <2> QED BY <2>1, <2>2, Zenon
<1> DEFINE g == [n \in 0..size |-> f[n]]
<1>3. g = Called(dom, calls, g)
  <2>1. ASSUME NEW n \in 0..size
        PROVE  g[n] = IF n = 0 THEN dom ELSE SetHidden(g[n - 1], calls[n])
    <3>1. f[n] = IF n = 0 THEN dom ELSE SetHidden(f[n - 1], calls[n])
      BY <1>2 DEF UpTo
    <3>2. n # 0 => n - 1 \in 0..size
      BY <1>0
    <3> QED BY <3>1, <3>2
  <2> DEFINE next == [n \in 0..size |-> IF n = 0 THEN dom ELSE SetHidden(g[n - 1], calls[n])]
  <2>2. \A n \in 0..size : g[n] = next[n]
    BY <2>1
  <2>3. g = next
    BY <2>2
  <2> QED BY <2>3 DEF Called, size
<1> HIDE DEF g
<1>4. During(dom, calls) = CHOOSE h : h = Called(dom, calls, h)
  BY DEF During, Called
<1> QED BY <1>3, <1>4

(* After each of the calls the page is as the one before left it, but for what
   the call does. *)
LEMMA CallsGoOn ==
  ASSUME NEW dom \in Doms, NEW calls \in Seq(Calls)
  PROVE  /\ During(dom, calls)[0] = dom
         /\ \A n \in 1..Len(calls) :
              During(dom, calls)[n] = SetHidden(During(dom, calls)[n - 1], calls[n])
         /\ \A n \in 0..Len(calls) : During(dom, calls)[n] \in Doms
<1> DEFINE d == During(dom, calls)
           size == Len(calls)
<1>0. size \in Nat
  OBVIOUS
<1>1. /\ d[0] = dom
      /\ \A n \in 1..size : d[n] = SetHidden(d[n - 1], calls[n])
  <2>1. d = Called(dom, calls, d)
    BY DuringIsDefined
  <2> HIDE DEF d
  <2> QED BY <1>0, <2>1 DEF Called
<1>2. \A n \in 1..size : calls[n] \in Calls
  OBVIOUS
<1> HIDE DEF d, size
<1> DEFINE wrong == {n \in 0..size : d[n] \notin Doms}
<1>3. wrong = {}
  <2>1. SUFFICES ASSUME wrong # {} PROVE FALSE
    OBVIOUS
  <2>2. PICK k \in wrong : \A j \in wrong : ~(j < k)
    <3>1. wrong \in SUBSET Nat
      BY <1>0
    <3> HIDE DEF wrong
    <3> QED BY <2>1, <3>1, LeastNumber
  <2>3. k \in 1..size /\ k - 1 \in 0..size /\ k - 1 < k
    BY <1>0, <1>1, <2>2
  <2>4. d[k - 1] \in Doms
    BY <2>2, <2>3
  <2>5. d[k] = SetHidden(d[k - 1], calls[k]) /\ calls[k] \in Calls
    BY <1>1, <1>2, <2>3
  <2>6. d[k] \in Doms
    BY <2>4, <2>5, OneCallDecides DEF Decides
  <2> QED BY <2>2, <2>6
<1>4. \A n \in 0..size : d[n] \in Doms
  BY <1>3
<1> QED BY <1>1, <1>4 DEF d, size

(* The last call of a region decides about it, and the last call whose region
   a control is in decides about the control. *)
LEMMA LastCallDecides ==
  ASSUME NEW dom \in Doms, NEW calls \in Seq(Calls), NEW k \in 1..Len(calls)
  PROVE  /\ After(dom, calls) \in Doms
         /\ (\A j \in (k + 1)..Len(calls) : calls[j].region # calls[k].region) =>
              After(dom, calls).inert[calls[k].region] = calls[k].hidden
         /\ \A c \in Controls \cap Within[calls[k].region] :
              (\A j \in (k + 1)..Len(calls) : c \notin Within[calls[j].region]) =>
                After(dom, calls).tab[c] = Tabindex(calls[k].hidden)
<1> DEFINE d == During(dom, calls)
           size == Len(calls)
<1>1. /\ \A n \in 1..size : d[n] = SetHidden(d[n - 1], calls[n])
      /\ \A n \in 0..size : d[n] \in Doms
      /\ \A n \in 1..size : calls[n] \in Calls
      /\ size \in Nat /\ k \in 1..size
  BY CallsGoOn
<1>2. After(dom, calls) = d[size]
  BY DEF After
<1> HIDE DEF d, size
<1>3. calls[k] \in Calls /\ Decides(d[k - 1], calls[k], d[k])
  <2>1. k - 1 \in 0..size
    BY <1>1
  <2>2. d[k - 1] \in Doms /\ calls[k] \in Calls /\ d[k] = SetHidden(d[k - 1], calls[k])
    BY <1>1, <2>1
  <2> QED BY <2>2, OneCallDecides
<1>4. /\ d[k].inert[calls[k].region] = calls[k].hidden
      /\ \A c \in Controls \cap Within[calls[k].region] :
           d[k].tab[c] = Tabindex(calls[k].hidden)
  BY <1>3 DEF Decides
<1>5. ASSUME NEW n \in (k + 1)..size
      PROVE  calls[n] \in Calls /\ Decides(d[n - 1], calls[n], d[n])
  <2>1. n \in 1..size /\ n - 1 \in 0..size
    BY <1>1
  <2>2. d[n - 1] \in Doms /\ calls[n] \in Calls /\ d[n] = SetHidden(d[n - 1], calls[n])
    BY <1>1, <2>1
  <2> QED BY <2>2, OneCallDecides
<1>6. ASSUME \A j \in (k + 1)..size : calls[j].region # calls[k].region
      PROVE  d[size].inert[calls[k].region] = calls[k].hidden
  <2> DEFINE region == calls[k].region
             wrong == {n \in k..size : d[n].inert[region] # d[k].inert[region]}
  <2>0. region \in Regions
    BY <1>3 DEF Calls
  <2>1. SUFFICES ASSUME wrong # {} PROVE FALSE
    BY <1>1, <1>4
  <2>2. PICK n \in wrong : \A j \in wrong : ~(j < n)
    <3>1. wrong \in SUBSET Nat
      BY <1>1
    <3> HIDE DEF wrong
    <3> QED BY <2>1, <3>1, LeastNumber
  <2>3. n \in (k + 1)..size /\ n - 1 \in k..size /\ n - 1 < n
    BY <1>1, <2>2
  <2>4. d[n - 1].inert[region] = d[k].inert[region]
    BY <2>2, <2>3
  <2>5. d[n].inert[region] = d[n - 1].inert[region]
    <3>1. Decides(d[n - 1], calls[n], d[n]) /\ region # calls[n].region
      BY <1>5, <1>6, <2>3
    <3> QED BY <2>0, <3>1 DEF Decides
  <2> QED BY <2>2, <2>4, <2>5
<1>7. ASSUME NEW c \in Controls \cap Within[calls[k].region],
             \A j \in (k + 1)..size : c \notin Within[calls[j].region]
      PROVE  d[size].tab[c] = Tabindex(calls[k].hidden)
  <2> DEFINE wrong == {n \in k..size : d[n].tab[c] # d[k].tab[c]}
  <2>0. d[k].tab[c] = Tabindex(calls[k].hidden) /\ size \in k..size
    BY <1>1, <1>4, <1>7
  <2>1. SUFFICES ASSUME wrong # {} PROVE FALSE
    BY <2>0
  <2>2. PICK n \in wrong : \A j \in wrong : ~(j < n)
    <3>1. wrong \in SUBSET Nat
      BY <1>1
    <3> HIDE DEF wrong
    <3> QED BY <2>1, <3>1, LeastNumber
  <2>3. n \in (k + 1)..size /\ n - 1 \in k..size /\ n - 1 < n
    BY <1>1, <2>2
  <2>4. d[n - 1].tab[c] = d[k].tab[c]
    BY <2>2, <2>3
  <2>5. d[n].tab[c] = d[n - 1].tab[c]
    <3>1. Decides(d[n - 1], calls[n], d[n]) /\ c \notin Within[calls[n].region]
      BY <1>5, <1>7, <2>3
    <3> QED BY <1>7, <3>1 DEF Decides
  <2> QED BY <2>2, <2>4, <2>5
<1> QED BY <1>1, <1>2, <1>6, <1>7 DEF size

\* The calls that a document leads to.
PageCalls(s) == FocusCalls(s) \o RestCalls(s)

\* In its last minute, or is celebrated as one.
Returns(s) == s.break /\ RenderedPhase(s) = "return"

\* A call that hides a region, or shows it.
Is(call, region, hidden) == call.region = region /\ call.hidden = hidden

\* They are nine, in this order (room-renderer.js:192-260, rest-ritual.js:
\* 243-269).
AreCallsOf(s, calls) ==
  /\ calls \in Seq(Calls) /\ Len(calls) = 9
  /\ Is(calls[1], "timeDial", Session(s))
  /\ Is(calls[2], "start", Session(s))
  /\ Is(calls[3], "durChips", Session(s))
  /\ Is(calls[4], "pomodoro", ~Session(s))
  /\ Is(calls[5], "breakRow", s.focus \/ ~s.break)
  /\ Is(calls[6], "focusRow", ~s.focus)
  /\ Is(calls[7], "restRitual", ~s.break)
  /\ \/ /\ Is(calls[8], "recoveryGroup", ~s.break \/ Returns(s))
        /\ Is(calls[9], "intentGroup", ~Returns(s))
     \/ /\ Is(calls[8], "intentGroup", ~Returns(s))
        /\ Is(calls[9], "recoveryGroup", ~s.break \/ Returns(s))

(* So they are in the model. *)
LEMMA CallsOfADocument ==
  ASSUME NEW s \in ViewDocument
  PROVE  AreCallsOf(s, PageCalls(s))
<1>1. s.focus \in BOOLEAN /\ s.break \in BOOLEAN
  BY DEF ViewDocument, ViewFields
<1> DEFINE session == Session(s)
           idle == ~Session(s)
           skip == s.focus \/ ~s.break
           pause == ~s.focus
           rest == ~s.break
           recovery == ~s.break \/ Returns(s)
           intent == ~Returns(s)
           six == <<Set("timeDial", session), Set("start", session),
                    Set("durChips", session), Set("pomodoro", idle),
                    Set("breakRow", skip), Set("focusRow", pause)>>
           three == <<Set("restRitual", rest), Set("recoveryGroup", recovery),
                      Set("intentGroup", intent)>>
           other == <<Set("restRitual", rest), Set("intentGroup", intent),
                      Set("recoveryGroup", recovery)>>
<1>2. /\ session \in BOOLEAN /\ idle \in BOOLEAN /\ skip \in BOOLEAN /\ pause \in BOOLEAN
      /\ rest \in BOOLEAN /\ recovery \in BOOLEAN /\ intent \in BOOLEAN
  BY <1>1 DEF Session, Returns
<1>3. FocusCalls(s) = six
  BY DEF FocusCalls
<1>4. RestCalls(s) = three \/ RestCalls(s) = other
  <2>1. CASE ~s.break
    <3>1. rest = TRUE /\ recovery = TRUE /\ intent = TRUE
      BY <2>1 DEF Returns
    <3> HIDE DEF rest, recovery, intent
    <3> QED BY <2>1, <3>1 DEF RestCalls, Set, Hide
  <2>2. CASE s.break /\ RenderedPhase(s) = "return"
    <3>1. rest = FALSE /\ recovery = TRUE /\ intent = FALSE
      BY <2>2 DEF Returns
    <3> HIDE DEF rest, recovery, intent
    <3> QED BY <2>2, <3>1 DEF RestCalls, Set, Hide, Show
  <2>3. CASE s.break /\ RenderedPhase(s) # "return"
    <3>1. rest = FALSE /\ recovery = FALSE /\ intent = TRUE
      BY <2>3 DEF Returns
    <3> HIDE DEF rest, recovery, intent
    <3> QED BY <2>3, <3>1 DEF RestCalls, Set, Hide, Show
  <2> QED BY <1>1, <2>1, <2>2, <2>3
<1> HIDE DEF session, idle, skip, pause, rest, recovery, intent
<1>5. ASSUME NEW r \in Regions, NEW h \in BOOLEAN PROVE Set(r, h) \in Calls
  BY DEF Set, Calls
<1>6. six \in Seq(Calls) /\ three \in Seq(Calls) /\ other \in Seq(Calls)
  <2>1. /\ Set("timeDial", session) \in Calls /\ Set("start", session) \in Calls
        /\ Set("durChips", session) \in Calls /\ Set("pomodoro", idle) \in Calls
        /\ Set("breakRow", skip) \in Calls /\ Set("focusRow", pause) \in Calls
    BY <1>2, <1>5, RegionsAreNine
  <2>2. /\ Set("restRitual", rest) \in Calls /\ Set("recoveryGroup", recovery) \in Calls
        /\ Set("intentGroup", intent) \in Calls
    BY <1>2, <1>5, RegionsAreNine
  <2> QED BY <2>1, <2>2
<1>7. PageCalls(s) = six \o three \/ PageCalls(s) = six \o other
  BY <1>3, <1>4 DEF PageCalls
<1>8. /\ \A t \in {three, other} : six \o t \in Seq(Calls) /\ Len(six \o t) = 9
      /\ \A t \in {three, other}, i \in 1..6 : (six \o t)[i] = six[i]
      /\ \A t \in {three, other}, i \in 1..3 : (six \o t)[6 + i] = t[i]
  <2>1. Len(six) = 6 /\ Len(three) = 3 /\ Len(other) = 3
    OBVIOUS
  <2> HIDE DEF six, three, other
  <2>2. ASSUME NEW t \in Seq(Calls), Len(t) = 3
        PROVE  /\ six \o t \in Seq(Calls) /\ Len(six \o t) = 9
               /\ \A i \in 1..6 : (six \o t)[i] = six[i]
               /\ \A i \in 1..3 : (six \o t)[6 + i] = t[i]
    <3>1. six \in Seq(Calls)
      BY <1>6
    <3> DEFINE c == six \o t
    <3>2. /\ c \in Seq(Calls) /\ Len(c) = Len(six) + Len(t)
          /\ \A i \in 1..(Len(six) + Len(t)) :
               c[i] = IF i <= Len(six) THEN six[i] ELSE t[i - Len(six)]
      BY <2>2, <3>1, ConcatProperties, Zenon
    <3> HIDE DEF c
    <3>3. \A i \in 1..9 : c[i] = IF i <= 6 THEN six[i] ELSE t[i - 6]
      BY <2>1, <2>2, <3>2
    <3>4. \A i \in 1..6 : c[i] = six[i]
      BY <3>3
    <3>5. ASSUME NEW i \in 1..3 PROVE c[6 + i] = t[i]
      <4>1. 6 + i \in 1..9 /\ ~(6 + i <= 6) /\ 6 + i - 6 = i
        OBVIOUS
      <4> QED BY <3>3, <4>1
    <3>6. Len(c) = 9
      BY <2>1, <2>2, <3>2
    <3> QED BY <3>2, <3>4, <3>5, <3>6, Zenon DEF c
  <2>3. \A t \in {three, other} : t \in Seq(Calls) /\ Len(t) = 3
    BY <1>6, <2>1
  <2> QED BY <2>2, <2>3
<1>9. /\ six[1] = Set("timeDial", session) /\ six[2] = Set("start", session)
      /\ six[3] = Set("durChips", session) /\ six[4] = Set("pomodoro", idle)
      /\ six[5] = Set("breakRow", skip) /\ six[6] = Set("focusRow", pause)
      /\ three[1] = Set("restRitual", rest) /\ other[1] = Set("restRitual", rest)
      /\ three[2] = Set("recoveryGroup", recovery) /\ three[3] = Set("intentGroup", intent)
      /\ other[2] = Set("intentGroup", intent) /\ other[3] = Set("recoveryGroup", recovery)
  OBVIOUS
<1> HIDE DEF six, three, other
<1>10. /\ PageCalls(s) \in Seq(Calls) /\ Len(PageCalls(s)) = 9
       /\ PageCalls(s)[1] = six[1] /\ PageCalls(s)[2] = six[2] /\ PageCalls(s)[3] = six[3]
       /\ PageCalls(s)[4] = six[4] /\ PageCalls(s)[5] = six[5] /\ PageCalls(s)[6] = six[6]
       /\ \/ /\ PageCalls(s)[7] = three[1] /\ PageCalls(s)[8] = three[2]
             /\ PageCalls(s)[9] = three[3]
          \/ /\ PageCalls(s)[7] = other[1] /\ PageCalls(s)[8] = other[2]
             /\ PageCalls(s)[9] = other[3]
  <2>1. PICK t \in {three, other} : PageCalls(s) = six \o t
    BY <1>7
  <2>2. /\ PageCalls(s) \in Seq(Calls) /\ Len(PageCalls(s)) = 9
        /\ \A i \in 1..6 : PageCalls(s)[i] = six[i]
        /\ \A i \in 1..3 : PageCalls(s)[6 + i] = t[i]
    BY <1>8, <2>1
  <2>3. PageCalls(s)[7] = t[1] /\ PageCalls(s)[8] = t[2] /\ PageCalls(s)[9] = t[3]
    BY <2>2
  <2>4. CASE t = three
    BY <2>2, <2>3, <2>4
  <2>5. CASE t = other
    BY <2>2, <2>3, <2>5
  <2> QED BY <2>1, <2>4, <2>5
<1>11. ASSUME NEW call, NEW r, NEW h, call = Set(r, h) PROVE Is(call, r, h)
  BY <1>11 DEF Is, Set
<1> QED
  BY <1>9, <1>10, <1>11, Zenon DEF AreCallsOf, session, idle, skip, pause, rest, recovery, intent

\* What a document decides, whatever was hidden and shown before.
Decided(s, returns, page) ==
  /\ page \in Doms
  /\ page.inert["timeDial"] = Session(s) /\ page.inert["start"] = Session(s)
  /\ page.inert["durChips"] = Session(s) /\ page.inert["pomodoro"] = ~Session(s)
  /\ page.inert["breakRow"] = (s.focus \/ ~s.break) /\ page.inert["focusRow"] = ~s.focus
  /\ page.inert["restRitual"] = ~s.break
  /\ page.inert["recoveryGroup"] = (~s.break \/ returns)
  /\ page.inert["intentGroup"] = ~returns
  /\ page.tab["dial"] = Tabindex(Session(s)) /\ page.tab["start"] = Tabindex(Session(s))
  /\ page.tab["chips"] = Tabindex(Session(s))
  /\ page.tab["skip"] = Tabindex(s.focus \/ ~s.break)
  /\ page.tab["pause"] = Tabindex(~s.focus) /\ page.tab["cancel"] = Tabindex(~s.focus)
  /\ page.tab["recovery"] = Tabindex(~s.break \/ returns)
  /\ page.tab["intent"] = Tabindex(~returns)

(* A document decides about every region and every control. *)
LEMMA DocumentDecides ==
  ASSUME NEW dom \in Doms, NEW s \in ViewDocument
  PROVE  Decided(s, Returns(s), After(dom, PageCalls(s)))
<1> DEFINE calls == PageCalls(s)
           page == After(dom, calls)
<1>1. AreCallsOf(s, calls) /\ calls \in Seq(Calls) /\ Len(calls) = 9
  BY CallsOfADocument DEF AreCallsOf
<1> HIDE DEF calls
<1>4. ASSUME NEW k \in 1..9
      PROVE  /\ page \in Doms
             /\ (\A j \in (k + 1)..9 : calls[j].region # calls[k].region) =>
                  page.inert[calls[k].region] = calls[k].hidden
             /\ \A c \in Controls \cap Within[calls[k].region] :
                  (\A j \in (k + 1)..9 : c \notin Within[calls[j].region]) =>
                    page.tab[c] = Tabindex(calls[k].hidden)
  <2>1. k \in 1..Len(calls)
    BY <1>1
  <2> HIDE DEF page
  <2>2. /\ After(dom, calls) \in Doms
        /\ (\A j \in (k + 1)..Len(calls) : calls[j].region # calls[k].region) =>
             After(dom, calls).inert[calls[k].region] = calls[k].hidden
        /\ \A c \in Controls \cap Within[calls[k].region] :
             (\A j \in (k + 1)..Len(calls) : c \notin Within[calls[j].region]) =>
               After(dom, calls).tab[c] = Tabindex(calls[k].hidden)
    BY <1>1, <2>1, LastCallDecides, Zenon
  <2> QED BY <1>1, <2>2, Zenon DEF page
<1> HIDE DEF page
<1>2. /\ calls[1].region = "timeDial" /\ calls[2].region = "start"
      /\ calls[3].region = "durChips" /\ calls[4].region = "pomodoro"
      /\ calls[5].region = "breakRow" /\ calls[6].region = "focusRow"
      /\ calls[7].region = "restRitual"
  BY <1>1, Zenon DEF AreCallsOf, Is
<1>3. \/ calls[8].region = "recoveryGroup" /\ calls[9].region = "intentGroup"
      \/ calls[8].region = "intentGroup" /\ calls[9].region = "recoveryGroup"
  BY <1>1, Zenon DEF AreCallsOf, Is
\* The calls after each, and what is in their regions.
<1>5. ASSUME NEW j \in 8..9
      PROVE  /\ calls[j].region \in {"recoveryGroup", "intentGroup"}
             /\ Within[calls[j].region] \subseteq {"recovery", "intent"}
  BY <1>3, RegionsAreNine
<1>6. /\ \A j \in 7..9 : /\ calls[j].region \in {"restRitual", "recoveryGroup", "intentGroup"}
                         /\ Within[calls[j].region] \subseteq {"recovery", "intent", "title"}
      /\ \A j \in 6..9 : /\ calls[j].region \in {"focusRow", "restRitual", "recoveryGroup",
                                                 "intentGroup"}
                         /\ Within[calls[j].region] \subseteq
                              {"recovery", "intent", "title", "pause", "cancel"}
  BY <1>2, <1>5, RegionsAreNine
<1>7. \A j \in 4..9 :
        /\ calls[j].region \in {"pomodoro", "breakRow", "focusRow", "restRitual",
                                "recoveryGroup", "intentGroup"}
        /\ Within[calls[j].region] \subseteq
             {"recovery", "intent", "title", "pause", "cancel", "skip"}
  BY <1>2, <1>6, RegionsAreNine
<1>8. /\ page.inert["timeDial"] = calls[1].hidden
      /\ page.tab["dial"] = Tabindex(calls[1].hidden)
  <2>1. \A j \in 2..9 : calls[j].region # "timeDial" /\ "dial" \notin Within[calls[j].region]
    BY <1>2, <1>7, RegionsAreNine
  <2> QED BY <1>2, <1>4, <2>1, RegionsAreNine DEF Controls
<1>9. /\ page.inert["start"] = calls[2].hidden
      /\ page.tab["start"] = Tabindex(calls[2].hidden)
  <2>1. \A j \in 3..9 : calls[j].region # "start" /\ "start" \notin Within[calls[j].region]
    BY <1>2, <1>7, RegionsAreNine
  <2> QED BY <1>2, <1>4, <2>1, RegionsAreNine DEF Controls
<1>10. /\ page.inert["durChips"] = calls[3].hidden
       /\ page.tab["chips"] = Tabindex(calls[3].hidden)
  <2>1. \A j \in 4..9 : calls[j].region # "durChips" /\ "chips" \notin Within[calls[j].region]
    BY <1>7, RegionsAreNine
  <2> QED BY <1>2, <1>4, <2>1, RegionsAreNine DEF Controls
<1>11. page.inert["pomodoro"] = calls[4].hidden
  <2>1. \A j \in 5..9 : calls[j].region # "pomodoro"
    BY <1>2, <1>6
  <2> QED BY <1>2, <1>4, <2>1
<1>12. /\ page.inert["breakRow"] = calls[5].hidden
       /\ page.tab["skip"] = Tabindex(calls[5].hidden)
  <2>1. \A j \in 6..9 : calls[j].region # "breakRow" /\ "skip" \notin Within[calls[j].region]
    BY <1>6, RegionsAreNine
  <2> QED BY <1>2, <1>4, <2>1, RegionsAreNine DEF Controls
<1>13. /\ page.inert["focusRow"] = calls[6].hidden
       /\ page.tab["pause"] = Tabindex(calls[6].hidden)
       /\ page.tab["cancel"] = Tabindex(calls[6].hidden)
  <2>1. \A j \in 7..9 : /\ calls[j].region # "focusRow"
                        /\ {"pause", "cancel"} \cap Within[calls[j].region] = {}
    BY <1>6, RegionsAreNine
  <2> QED BY <1>2, <1>4, <2>1, RegionsAreNine DEF Controls
<1>14. page.inert["restRitual"] = calls[7].hidden
  <2>1. \A j \in 8..9 : calls[j].region # "restRitual"
    BY <1>5
  <2> QED BY <1>2, <1>4, <2>1
<1>15. ASSUME NEW k \in 8..9
       PROVE  /\ page.inert[calls[k].region] = calls[k].hidden
              /\ \A c \in Controls \cap Within[calls[k].region] :
                   page.tab[c] = Tabindex(calls[k].hidden)
  <2>1. \A j \in (k + 1)..9 : j = 9 /\ k = 8
    OBVIOUS
  <2>2. \A j \in (k + 1)..9 : /\ calls[j].region # calls[k].region
                              /\ Within[calls[j].region] \cap Within[calls[k].region] = {}
    BY <1>3, <2>1, RegionsAreNine
  <2> QED BY <1>4, <2>2
<1>16. ASSUME NEW k \in 8..9, NEW h, Is(calls[k], "recoveryGroup", h)
       PROVE  page.inert["recoveryGroup"] = h /\ page.tab["recovery"] = Tabindex(h)
  BY <1>15, <1>16, RegionsAreNine DEF Is, Controls
<1>17. ASSUME NEW k \in 8..9, NEW h, Is(calls[k], "intentGroup", h)
       PROVE  page.inert["intentGroup"] = h /\ page.tab["intent"] = Tabindex(h)
  BY <1>15, <1>17, RegionsAreNine DEF Is, Controls
<1>18. /\ page.inert["recoveryGroup"] = (~s.break \/ Returns(s))
       /\ page.inert["intentGroup"] = ~Returns(s)
       /\ page.tab["recovery"] = Tabindex(~s.break \/ Returns(s))
       /\ page.tab["intent"] = Tabindex(~Returns(s))
  <2>1. 8 \in 8..9 /\ 9 \in 8..9
    OBVIOUS
  <2>2. \/ /\ Is(calls[8], "recoveryGroup", ~s.break \/ Returns(s))
           /\ Is(calls[9], "intentGroup", ~Returns(s))
        \/ /\ Is(calls[8], "intentGroup", ~Returns(s))
           /\ Is(calls[9], "recoveryGroup", ~s.break \/ Returns(s))
    BY <1>1, Zenon DEF AreCallsOf
  <2>3. \E k \in 8..9 : Is(calls[k], "recoveryGroup", ~s.break \/ Returns(s))
    BY <2>1, <2>2, Zenon
  <2>4. \E k \in 8..9 : Is(calls[k], "intentGroup", ~Returns(s))
    BY <2>1, <2>2, Zenon
  <2>5. /\ page.inert["recoveryGroup"] = (~s.break \/ Returns(s))
        /\ page.tab["recovery"] = Tabindex(~s.break \/ Returns(s))
    BY <1>16, <2>3, Zenon
  <2>6. /\ page.inert["intentGroup"] = ~Returns(s)
        /\ page.tab["intent"] = Tabindex(~Returns(s))
    BY <1>17, <2>4, Zenon
  <2> QED BY <2>5, <2>6, Zenon
<1>19. /\ calls[1].hidden = Session(s) /\ calls[2].hidden = Session(s)
       /\ calls[3].hidden = Session(s) /\ calls[4].hidden = ~Session(s)
       /\ calls[5].hidden = (s.focus \/ ~s.break) /\ calls[6].hidden = ~s.focus
       /\ calls[7].hidden = ~s.break
  BY <1>1, Zenon DEF AreCallsOf, Is
<1>20. page \in Doms
  BY <1>4
<1> QED
  BY <1>8, <1>9, <1>10, <1>11, <1>12, <1>13, <1>14, <1>18, <1>19, <1>20, Zenon
     DEF Decided, page, calls

\* What the elements of the page have.
Dom == [inert |-> inert, tab |-> tab]

OfferInv ==
  /\ Dom \in Doms
  /\ currentState # NoState =>
       Decided(currentState, currentState.break /\ ritual.phase = "return", Dom)

LitInv ==
  /\ reward = [sky |-> reward.sky, completed |-> reward.completed,
               edges |-> reward.edges, visible |-> reward.visible]
  /\ ConstellationKeepsUp

(* The page hides what a session needs before any document has come. *)
LEMMA PageBegins == ViewInit => OfferInv /\ LitInv
<1> SUFFICES ASSUME ViewInit PROVE OfferInv /\ LitInv
  OBVIOUS
<1>1. Untouched \in Doms
  BY DEF Untouched, Doms
<1>2. InitialCalls \in Seq(Calls) /\ Len(InitialCalls) = 6
  <2>1. \A r \in Regions : Hide(r) \in Calls
    BY DEF Hide, Calls
  <2>2. /\ Hide("pomodoro") \in Calls /\ Hide("breakRow") \in Calls
        /\ Hide("focusRow") \in Calls /\ Hide("restRitual") \in Calls
        /\ Hide("recoveryGroup") \in Calls /\ Hide("intentGroup") \in Calls
    BY <2>1, RegionsAreNine
  <2> QED BY <2>2 DEF InitialCalls
<1>3. After(Untouched, InitialCalls) \in Doms
  <2>1. 1 \in 1..Len(InitialCalls)
    BY <1>2
  <2> QED BY <1>1, <1>2, <2>1, LastCallDecides
<1>4. Dom = After(Untouched, InitialCalls) /\ currentState = NoState /\ reward = NoSky
  BY <1>3 DEF ViewInit, Dom, Doms
<1>5. LitInv
  BY <1>4 DEF LitInv, NoSky, ConstellationKeepsUp
<1> QED BY <1>3, <1>4, <1>5 DEF OfferInv

(* What a document hides, shows and lights. *)
LEMMA DocumentIsShown ==
  ASSUME ViewInv, OfferInv, LitInv, ApplyState
  PROVE  OfferInv' /\ LitInv'
<1> DEFINE s == Head(wire)
           page == After(Dom, PageCalls(s))
<1>1. /\ wire # <<>> /\ wire' = Tail(wire) /\ currentState' = s /\ first' = FALSE
      /\ ritual' = Ritual(s) /\ inert' = page.inert /\ tab' = page.tab
      /\ UNCHANGED <<document, linked>>
  BY DEF ApplyState, Dom, PageCalls
<1>2. s \in ViewDocument
  BY <1>1, ShownIsTaken
<1>3. PICK compact \in BOOLEAN : reward' = UpdatedReward(CycleProgress(s), s, compact)
  BY DEF ApplyState
<1> HIDE DEF s
<1>4. Dom \in Doms
  BY DEF OfferInv
<1>5. Decided(s, Returns(s), page)
  BY <1>2, <1>4, DocumentDecides
<1>6. Dom' = page /\ page \in Doms
  <2>1. page \in Doms
    BY <1>5 DEF Decided
  <2> HIDE DEF page
  <2>2. page = [inert |-> page.inert, tab |-> page.tab]
    BY <2>1 DEF Doms
  <2> QED BY <1>1, <2>1, <2>2 DEF Dom
<1> HIDE DEF page
<1>7. OfferInv'
  <2>1. ritual'.phase = RenderedPhase(s)
    BY <1>1 DEF Ritual
  <2>2. (currentState.break /\ ritual.phase = "return")' <=> Returns(s)
    BY <1>1, <2>1 DEF Returns
  <2>3. (currentState.break /\ ritual.phase = "return")' = Returns(s)
    BY <2>2 DEF Returns
  <2> QED BY <1>1, <1>5, <1>6, <2>3 DEF OfferInv
<1>8. LitInv'
  <2> DEFINE progress == CycleProgress(s)
  <2>0. s.break \in BOOLEAN
    BY <1>2 DEF ViewDocument, ViewFields
  <2> HIDE DEF progress
  <2>1. reward' = UpdatedReward(progress, s, compact)
    BY <1>3 DEF progress
  <2>2. CASE ~reward.sky
    <3>1. reward' = reward
      BY <2>1, <2>2 DEF UpdatedReward
    <3> QED BY <2>2, <3>1 DEF LitInv, ConstellationKeepsUp
  <2>3. CASE reward.sky /\ (progress # reward.completed \/ Reveals(s))
    <3>1. reward' = Lit(progress, s.break, compact)
      BY <2>1, <2>3 DEF UpdatedReward
    <3>2. /\ reward'.completed = progress
          /\ reward'.visible = Visible(progress, s.break, compact)
      BY <3>1 DEF Lit
    <3>3. reward' = [sky |-> reward'.sky, completed |-> reward'.completed,
                     edges |-> reward'.edges, visible |-> reward'.visible]
      BY <3>1 DEF Lit
    <3> QED BY <1>1, <3>2, <3>3 DEF LitInv, ConstellationKeepsUp, Visible, progress
  <2>4. CASE reward.sky /\ progress = reward.completed /\ ~Reveals(s)
    <3> DEFINE seen == Visible(progress, s.break, compact)
    <3> HIDE DEF seen
    <3>1. reward' = [reward EXCEPT !.visible = seen]
      BY <2>1, <2>4 DEF UpdatedReward, seen
    <3>2. reward' = [sky |-> reward.sky, completed |-> reward.completed,
                     edges |-> reward.edges, visible |-> seen]
      BY <3>1 DEF LitInv
    <3> QED BY <1>1, <2>4, <3>2 DEF LitInv, ConstellationKeepsUp, Visible, progress, seen
  <2> QED BY <2>2, <2>3, <2>4
<1> QED BY <1>7, <1>8

(* A sky that has become ready is lit as the page last heard. *)
LEMMA SkyIsLit ==
  ASSUME StartSky
  PROVE  LitInv'
<1>1. currentState' = currentState
  BY DEF StartSky, drawnVars
<1>2. PICK progress, resting, compact :
        /\ reward' = Lit(progress, resting, compact)
        /\ currentState # NoState =>
             progress = CycleProgress(currentState) /\ resting = currentState.break
  BY DEF StartSky
<1> DEFINE seen == Visible(progress, resting, compact)
<1>3. currentState # NoState /\ currentState.break /\ progress > 0 => seen
  BY <1>2 DEF Visible
<1>4. reward' = [sky |-> TRUE, completed |-> progress, edges |-> Edges(progress),
                 visible |-> seen]
  BY <1>2 DEF Lit
<1> HIDE DEF seen
<1>5. /\ reward'.completed = progress /\ reward'.visible = seen
      /\ reward' = [sky |-> reward'.sky, completed |-> reward'.completed,
                    edges |-> reward'.edges, visible |-> reward'.visible]
  BY <1>4
<1> QED BY <1>1, <1>2, <1>3, <1>5 DEF LitInv, ConstellationKeepsUp

(* Nothing but a document changes what is hidden and what is lit, unless the
   sky itself comes or goes. *)
LEMMA OnlyDocumentsShow ==
  ASSUME ViewInv, [ViewNext]_viewVars, ~ApplyState
  PROVE  /\ UNCHANGED <<currentState, tab, inert>> /\ ritual'.phase = ritual.phase
         /\ UNCHANGED reward \/ StartSky \/ EndSky
<1>1. CASE ChooseRecovery
  <2>1. ritual'.phase = ritual.phase
    BY <1>1 DEF ViewInv, ViewType, Rituals, ChooseRecovery
  <2> QED BY <1>1, <2>1 DEF ChooseRecovery
<1>2. CASE Tick \/ OthersMessage \/ Link \/ Unlink \/ UNCHANGED viewVars
  BY <1>2 DEF Tick, OthersMessage, Link, Unlink, viewVars, drawnVars
<1>3. CASE (\E e \in moves : FocusTimer(e)) \/ PollFocusRow \/ FixFocus \/ MoveOn
  BY <1>3 DEF FocusTimer, PollFocusRow, FixFocus, MoveOn, drawnVars
<1>4. CASE (\E c \in Controls : Click(c)) \/ ClickTime
  BY <1>4 DEF Click, ClickTime, drawnVars
<1>5. CASE StartSky \/ EndSky
  BY <1>5 DEF StartSky, EndSky, drawnVars
<1> QED BY <1>1, <1>2, <1>3, <1>4, <1>5 DEF ViewNext

(* What is offered is what the mode of the room asks for. *)
LEMMA OfferedFollowsMode ==
  ASSUME ViewInv, OfferInv
  PROVE  ControlsFollowMode
<1> SUFFICES ASSUME currentState # NoState
             PROVE  {c \in Controls : Offered(c)} = ModeControls(currentState)
  BY DEF ControlsFollowMode
<1> DEFINE s == currentState
           returns == s.break /\ ritual.phase = "return"
<1>1. /\ s \in ViewDocument /\ s.focus \in BOOLEAN /\ s.break \in BOOLEAN
      /\ ~(s.focus /\ s.break)
  BY DEF ViewInv, ViewType, ViewDocument, ViewFields
<1>2. Decided(s, returns, Dom) /\ Dom.inert = inert /\ Dom.tab = tab
  BY DEF OfferInv, Dom
<1>3. /\ ~inert["start"] <=> ~Session(s)
      /\ ~inert["durChips"] <=> ~Session(s)
      /\ ~inert["timeDial"] <=> ~Session(s)
      /\ ~inert["pomodoro"] <=> Session(s)
      /\ ~inert["breakRow"] <=> ~s.focus /\ s.break
      /\ ~inert["focusRow"] <=> s.focus
      /\ ~inert["restRitual"] <=> s.break
      /\ ~inert["recoveryGroup"] <=> s.break /\ ~returns
      /\ ~inert["intentGroup"] <=> returns
  BY <1>1, <1>2 DEF Decided
<1>4. /\ tab["start"] = "own" <=> ~Session(s)
      /\ tab["chips"] = "own" <=> ~Session(s)
      /\ tab["dial"] = "own" <=> ~Session(s)
      /\ tab["skip"] = "own" <=> ~s.focus /\ s.break
      /\ tab["pause"] = "own" <=> s.focus
      /\ tab["cancel"] = "own" <=> s.focus
      /\ tab["recovery"] = "own" <=> s.break /\ ~returns
      /\ tab["intent"] = "own" <=> returns
  BY <1>1, <1>2 DEF Decided, Tabindex
<1>5. /\ Offered("start") <=> ~Session(s)
      /\ Offered("chips") <=> ~Session(s)
      /\ Offered("dial") <=> ~Session(s)
      /\ Offered("skip") <=> ~s.focus /\ s.break
      /\ Offered("pause") <=> s.focus
      /\ Offered("cancel") <=> s.focus
      /\ Offered("recovery") <=> s.break /\ ~returns
      /\ Offered("intent") <=> returns
  BY <1>1, <1>3, <1>4, RegionsAreNine DEF Offered, Exposed, Session
<1> QED BY <1>1, <1>5 DEF ModeControls, Controls, Session

(* For any lengths of a break and its phases, any number of documents, and
   connections and a sky that come and go: what the page offers is what the
   mode and the phase of the last document ask for, and the constellation
   shows its progress (dom.js:26-46, room-renderer.js:192-260,
   rest-ritual.js:243-269, scenes.js:73-96, 397-404). *)
THEOREM PageShowsItsDocument == EndsSpec => []PageShowsTheRoom
<1> DEFINE Inv == part = "view" => ViewInv /\ OfferInv /\ LitInv
<1>1. EndsInit => Inv
  BY ViewBegins, PageBegins DEF EndsInit
<1>2. Inv /\ [EndsNext]_ends => Inv'
  <2> SUFFICES ASSUME Inv, [EndsNext]_ends, part' = "view"
               PROVE  ViewInv' /\ OfferInv' /\ LitInv'
    OBVIOUS
  <2>1. part = "view" /\ [ViewNext]_viewVars
    BY DEF EndsNext, ends
  <2>2. ViewInv'
    BY <2>1, ViewStepKeeps
  <2>3. CASE ApplyState
    BY <2>1, <2>2, <2>3, DocumentIsShown
  <2>4. CASE ~ApplyState
    <3>1. OfferInv'
      BY <2>1, <2>4, OnlyDocumentsShow DEF OfferInv, Dom
    <3>2. ASSUME UNCHANGED reward PROVE LitInv'
      BY <2>1, <2>4, <3>2, OnlyDocumentsShow DEF LitInv, ConstellationKeepsUp
    <3>3. ASSUME StartSky PROVE LitInv'
      BY <3>3, SkyIsLit
    <3>4. ASSUME EndSky PROVE LitInv'
      BY <3>4 DEF EndSky, LitInv, ConstellationKeepsUp, NoSky
    <3> QED BY <2>1, <2>2, <2>4, <3>1, <3>2, <3>3, <3>4, OnlyDocumentsShow
  <2> QED BY <2>2, <2>3, <2>4
<1>3. Inv => PageShowsTheRoom
  BY OfferedFollowsMode DEF PageShowsTheRoom, LitInv
<1> QED BY <1>1, <1>2, <1>3, PTL DEF EndsSpec
=============================================================================
