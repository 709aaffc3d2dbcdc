--------------------------- MODULE RoomPageProofs ----------------------------
(***************************************************************************)
(* Proofs about the page of a room: its connection and the rewards it      *)
(* reveals, the PIN of the lobby, the clouds of the fallback sky, the      *)
(* slider of the room's time, and the dialogs.                             *)
(***************************************************************************)
EXTENDS MCRoomPage, FiniteSetTheorems, SequenceTheorems, TLAPS

(***************************************************************************)
(* The connection of the page.  Three properties rest on one invariant.    *)
(* OneWayForward: the only socket that may be open is the one the page     *)
(* listens to, and a request of the prompt implies the prompt.             *)
(* RevealedOnce: what was revealed of the generation on show is observed,  *)
(* or was missed.  EarnedIsRevealed: the documents that may still reach    *)
(* the page are of one chain, in which a later revision has no fewer       *)
(* rewards, so that the one on show carries all that was observed.         *)
(***************************************************************************)
\* A document has at most one reward for each of its revisions.
Consistent == {s \in State : s.reward_id <= s.revision}

Letters == {AuthClose, OtherClose} \cup {Document(s) : s \in Consistent}

SocketRecord ==
  [live : BOOLEAN, bound : NoToken..MaxInstances, mark : NoRevision..MaxRevision,
   inbox : Seq(Letters), first : BOOLEAN]

ClientFields ==
  /\ room \in [instance : 1..MaxInstances, state : Consistent]
  /\ late \subseteq Consistent
  /\ socket \in [SocketIds -> SocketRecord]
  /\ ws \in SocketIds
  /\ retry \in BOOLEAN /\ prompt \in BOOLEAN
  /\ token \in NoToken..room.instance
  /\ join \in NotJoining..room.instance
  /\ faults \in 0..MaxFaults
  /\ \A r \in revealed : r.reward \in Nat

\* Before the first document, and after it.
ShownIsObserved ==
  \/ shown = NoState /\ accepted = NoRevision /\ baseline = NoReward
  \/ /\ shown \in [instance : 1..MaxInstances, state : Consistent]
     /\ accepted = shown.state.revision
     /\ baseline \in 0..MaxRevision

\* The page listens to the only socket there is, and goes one way.
OneSocket ==
  /\ \A i \in SocketIds : socket[i].live => i = ws /\ socket[i].bound \in 1..room.instance
  /\ \A i \in SocketIds : ~socket[i].live => socket[i] = Closed
  /\ join # NotJoining => prompt
  /\ \/ socket[ws].live /\ ~retry /\ ~prompt
     \/ ~socket[ws].live /\ retry /\ ~prompt
     \/ ~socket[ws].live /\ ~retry /\ prompt

\* The connection has shown a document.
Follows == socket[ws].live /\ ~socket[ws].first

DocumentsOf(box) == {box[n].state : n \in {k \in DOMAIN box : IsDocument(box[k])}}

\* What the page has on show or on its way, and what the server may send.
Mine == DocumentsOf(socket[ws].inbox) \cup (IF Follows THEN {shown.state} ELSE {})
Served == late \cup {room.state}

IsChain(S) == \A d, e \in S : d.revision <= e.revision => d.reward_id <= e.reward_id

IsPast(S) ==
  \A d \in S : /\ d.revision <= room.state.revision
               /\ d.reward_id <= room.state.reward_id

Ordered ==
  /\ IsChain(Served) /\ IsPast(Served)
  /\ IsChain(Mine)
  /\ socket[ws].bound = room.instance => IsChain(Mine \cup Served) /\ IsPast(Mine)

\* The document on show has all the rewards that were observed.
LatestIsShown == Follows => baseline = shown.state.reward_id

\* Rewards of the generation on show are revealed again only when missed.
Remembered ==
  Follows =>
    \A r \in revealed : r.instance = socket[ws].bound => r.reward <= baseline \/ r \in missed

ClientInv ==
  /\ ClientFields
  /\ ShownIsObserved
  /\ OneSocket
  /\ Ordered
  /\ LatestIsShown
  /\ Remembered
  /\ RevealedOnce

(* A document is told from the close of a socket by its kind. *)
LEMMA LettersAreTold ==
  /\ \A s \in Consistent : Document(s) \in Letters /\ IsDocument(Document(s))
                          /\ Document(s).state = s
  /\ AuthClose \in Letters /\ OtherClose \in Letters
  /\ ~IsDocument(AuthClose) /\ ~IsDocument(OtherClose)
  /\ \A m \in Letters : IsDocument(m) => m.state \in Consistent
  /\ \A m \in Letters : ~IsDocument(m) => m \in {AuthClose, OtherClose}
<1>1. \A s \in Consistent : IsDocument(Document(s)) /\ Document(s).state = s
  BY DEF IsDocument, Document
<1>2. ~IsDocument(AuthClose) /\ ~IsDocument(OtherClose)
  BY DEF IsDocument, AuthClose, OtherClose
<1>3. \A m \in Letters : m \in {AuthClose, OtherClose} \/ \E s \in Consistent : m = Document(s)
  BY Zenon DEF Letters
<1>4. /\ \A s \in Consistent : Document(s) \in Letters
      /\ AuthClose \in Letters /\ OtherClose \in Letters
  BY Zenon DEF Letters
<1> QED BY <1>1, <1>2, <1>3, <1>4

(* What is on its way after a letter is written, and after one is read. *)
LEMMA DocumentsMove ==
  ASSUME NEW box \in Seq(Letters)
  PROVE  /\ DocumentsOf(box) \subseteq Consistent
         /\ \A s \in Consistent :
              /\ Append(box, Document(s)) \in Seq(Letters)
              /\ DocumentsOf(Append(box, Document(s))) \subseteq DocumentsOf(box) \cup {s}
         /\ \A m \in {AuthClose, OtherClose}, n \in 0..Len(box) :
              /\ Append(SubSeq(box, 1, n), m) \in Seq(Letters)
              /\ DocumentsOf(Append(SubSeq(box, 1, n), m)) \subseteq DocumentsOf(box)
         /\ box # <<>> =>
              /\ Head(box) \in Letters
              /\ Tail(box) \in Seq(Letters)
              /\ DocumentsOf(Tail(box)) \subseteq DocumentsOf(box)
              /\ IsDocument(Head(box)) => Head(box).state \in DocumentsOf(box)
<1>1. \A k \in DOMAIN box : box[k] \in Letters
  BY ElementOfSeq
<1>2. DocumentsOf(box) \subseteq Consistent
  BY <1>1, LettersAreTold DEF DocumentsOf
<1>3. ASSUME NEW s \in Consistent
      PROVE  /\ Append(box, Document(s)) \in Seq(Letters)
             /\ DocumentsOf(Append(box, Document(s))) \subseteq DocumentsOf(box) \cup {s}
  <2>1. Document(s) \in Letters /\ Document(s).state = s
    BY LettersAreTold
  <2> DEFINE m == Document(s)
  <2> HIDE DEF m
  <2>2. /\ Append(box, m) \in Seq(Letters) /\ Len(Append(box, m)) = Len(box) + 1
        /\ \A k \in 1..Len(box) : Append(box, m)[k] = box[k]
        /\ Append(box, m)[Len(box) + 1] = m
    BY <2>1, AppendProperties DEF m
  <2>3. ASSUME NEW k \in DOMAIN Append(box, m), IsDocument(Append(box, m)[k])
        PROVE  Append(box, m)[k].state \in DocumentsOf(box) \cup {m.state}
    <3>1. CASE k \in 1..Len(box)
      BY <2>2, <2>3, <3>1 DEF DocumentsOf
    <3>2. CASE k = Len(box) + 1
      BY <2>2, <3>2
    <3> QED BY <2>2, <2>3, <3>1, <3>2
  <2>4. DocumentsOf(Append(box, m)) \subseteq DocumentsOf(box) \cup {m.state}
    BY <2>3 DEF DocumentsOf
  <2> QED BY <2>1, <2>2, <2>4 DEF m
<1>4. ASSUME NEW m \in {AuthClose, OtherClose}, NEW n \in 0..Len(box)
      PROVE  /\ Append(SubSeq(box, 1, n), m) \in Seq(Letters)
             /\ DocumentsOf(Append(SubSeq(box, 1, n), m)) \subseteq DocumentsOf(box)
  <2>1. m \in Letters /\ ~IsDocument(m)
    BY LettersAreTold
  <2> DEFINE front == SubSeq(box, 1, n)
  <2>2. /\ front \in Seq(Letters) /\ Len(front) = n
        /\ \A k \in 1..n : front[k] = box[k]
    OBVIOUS
  <2> HIDE DEF front
  <2>3. /\ Append(front, m) \in Seq(Letters) /\ Len(Append(front, m)) = n + 1
        /\ \A k \in 1..n : Append(front, m)[k] = front[k]
        /\ Append(front, m)[n + 1] = m
    BY <2>1, <2>2, AppendProperties
  <2>4. ASSUME NEW k \in DOMAIN Append(front, m), IsDocument(Append(front, m)[k])
        PROVE  Append(front, m)[k].state \in DocumentsOf(box)
    <3>1. k \in 1..n
      BY <2>1, <2>3, <2>4
    <3>2. Append(front, m)[k] = box[k] /\ k \in DOMAIN box
      BY <2>2, <2>3, <3>1
    <3> QED BY <2>4, <3>2 DEF DocumentsOf
  <2>5. DocumentsOf(Append(front, m)) \subseteq DocumentsOf(box)
    BY <2>4 DEF DocumentsOf
  <2> QED BY <2>3, <2>5 DEF front
<1>5. ASSUME box # <<>>
      PROVE  /\ Head(box) \in Letters
             /\ Tail(box) \in Seq(Letters)
             /\ DocumentsOf(Tail(box)) \subseteq DocumentsOf(box)
             /\ IsDocument(Head(box)) => Head(box).state \in DocumentsOf(box)
  <2>1. /\ Head(box) \in Letters /\ Tail(box) \in Seq(Letters) /\ Head(box) = box[1]
        /\ 1 \in DOMAIN box
        /\ \A k \in DOMAIN Tail(box) : k + 1 \in DOMAIN box /\ Tail(box)[k] = box[k + 1]
    BY <1>5
  <2>2. DocumentsOf(Tail(box)) \subseteq DocumentsOf(box)
    <3> SUFFICES ASSUME NEW d \in DocumentsOf(Tail(box))
                 PROVE  d \in DocumentsOf(box)
      OBVIOUS
    <3>1. PICK k \in DOMAIN Tail(box) : IsDocument(Tail(box)[k]) /\ d = Tail(box)[k].state
      BY DEF DocumentsOf
    <3> QED BY <2>1, <3>1 DEF DocumentsOf
  <2> QED BY <2>1, <2>2 DEF DocumentsOf
<1> QED BY <1>2, <1>3, <1>4, <1>5

(* Documents have revisions and rewards that can be compared. *)
LEMMA DocumentsAreNumbered ==
  ASSUME NEW s \in Consistent
  PROVE  s.revision \in Nat /\ s.reward_id \in Nat /\ s.break \in BOOLEAN
BY ClientAssumption DEF Consistent, State

(* What the page may see is made of documents. *)
LEMMA MineAreDocuments ==
  ASSUME ClientFields, ShownIsObserved, LatestIsShown
  PROVE  Mine \subseteq Consistent /\ Served \subseteq Consistent
<1>1. DocumentsOf(socket[ws].inbox) \subseteq Consistent
  BY DocumentsMove DEF ClientFields, SocketRecord
<1>2. Follows => shown.state \in Consistent
  BY DEF ShownIsObserved, LatestIsShown, NoState, MakeState, NoReward
<1> QED BY <1>1, <1>2 DEF Mine, Served, ClientFields

(* A commit makes the newest document, with no fewer rewards (room_store.py,
   the next revision of whatever changes). *)
LEMMA CommitKeeps ==
  ASSUME ClientInv, Commit
  PROVE  ClientInv'
<1> USE DEF serverVars, socketVars, pageVars
<1>1. PICK s \in [revision : {room.state.revision + 1}, break : BOOLEAN,
                  reward_id : {room.state.reward_id, room.state.reward_id + 1}] :
        room' = [room EXCEPT !.state = s]
  BY DEF Commit
<1>2. /\ UNCHANGED <<late, socketVars, pageVars, faults>>
      /\ room.state.revision < MaxRevision
  BY DEF Commit
<1>3. room \in [instance : 1..MaxInstances, state : Consistent]
  BY DEF ClientInv, ClientFields
<1>4. room.state \in Consistent /\ room.state.revision \in Nat /\ room.state.reward_id \in Nat
  BY <1>3, DocumentsAreNumbered
<1>5. /\ s.revision = room.state.revision + 1
      /\ s.reward_id \in {room.state.reward_id, room.state.reward_id + 1}
  OBVIOUS
<1>6. s \in Consistent
  BY <1>2, <1>4, <1>5, ClientAssumption DEF Consistent, State
<1>7. /\ room' \in [instance : 1..MaxInstances, state : Consistent]
      /\ room'.instance = room.instance /\ room'.state = s
  BY <1>1, <1>3, <1>6
<1>8. ClientFields' /\ ShownIsObserved' /\ OneSocket' /\ LatestIsShown' /\ Remembered'
      /\ RevealedOnce'
  BY <1>2, <1>7 DEF ClientInv, ClientFields, ShownIsObserved, OneSocket, Follows,
                    LatestIsShown, Remembered, RevealedOnce
<1>9. Mine' = Mine /\ Served' = late \cup {s}
  BY <1>2, <1>7 DEF Mine, Follows, Served
<1>10. Mine \subseteq Consistent /\ Served \subseteq Consistent
  BY MineAreDocuments DEF ClientInv
<1>11. ASSUME NEW S \in SUBSET Consistent, IsChain(S), IsPast(S)
       PROVE  IsChain(S \cup {s}) /\ \A d \in S \cup {s} :
                d.revision <= s.revision /\ d.reward_id <= s.reward_id
  BY <1>4, <1>5, <1>11, DocumentsAreNumbered DEF IsChain, IsPast
<1>12. Ordered'
  <2>1. IsChain(Served') /\ IsPast(Served)'
    BY <1>7, <1>9, <1>10, <1>11 DEF ClientInv, Ordered, Served, IsPast, IsChain
  <2>2. IsChain(Mine)'
    BY <1>9 DEF ClientInv, Ordered, IsChain
  <2>3. ASSUME socket[ws].bound = room.instance
        PROVE  IsChain(Mine \cup Served)' /\ IsPast(Mine)'
    <3>1. /\ IsChain(Mine \cup Served) /\ IsPast(Mine \cup Served)
          /\ Mine \cup Served \subseteq Consistent
      BY <1>10, <2>3 DEF ClientInv, Ordered, IsPast
    <3>2. IsChain((Mine \cup Served) \cup {s})
      BY <1>11, <3>1
    <3>3. \A d \in Mine : d.revision <= s.revision /\ d.reward_id <= s.reward_id
      BY <1>11, <3>1
    <3> QED BY <1>7, <1>9, <3>2, <3>3 DEF IsChain, IsPast, Served
  <2> QED BY <1>2, <1>7, <2>1, <2>2, <2>3 DEF Ordered
<1> QED BY <1>8, <1>12 DEF ClientInv

(* A worker that reads early holds a document of the room. *)
LEMMA ReadEarlyKeeps ==
  ASSUME ClientInv, ReadEarly
  PROVE  ClientInv'
<1>1. late' = {room.state} /\ UNCHANGED <<room, socketVars, pageVars, faults>>
  BY DEF ReadEarly
<1>2. room.state \in Consistent
  BY DEF ClientInv, ClientFields
<1>3. ClientFields' /\ ShownIsObserved' /\ OneSocket' /\ LatestIsShown' /\ Remembered'
      /\ RevealedOnce'
  BY <1>1, <1>2 DEF socketVars, pageVars, ClientInv, ClientFields, ShownIsObserved, OneSocket,
                    Follows, LatestIsShown, Remembered, RevealedOnce
<1>4. Mine' = Mine /\ Served' \subseteq Served
  BY <1>1 DEF socketVars, pageVars, Mine, Follows, Served
<1>5. Ordered'
  BY <1>1, <1>4 DEF socketVars, ClientInv, Ordered, IsChain, IsPast
<1> QED BY <1>3, <1>5 DEF ClientInv

(* A new generation begins with its own documents, which no socket of an
   older one is sent. *)
LEMMA RecreateKeeps ==
  ASSUME ClientInv, Recreate
  PROVE  ClientInv'
<1>1. /\ room' = [instance |-> room.instance + 1, state |-> MakeState] /\ late' = {}
      /\ room.instance < MaxInstances
      /\ UNCHANGED <<socketVars, pageVars, faults>>
  BY DEF Recreate
<1>2. MakeState \in Consistent /\ room.instance \in 1..MaxInstances
  BY ClientAssumption DEF MakeState, Consistent, State, ClientInv, ClientFields
<1>3. /\ room' \in [instance : 1..MaxInstances, state : Consistent]
      /\ room'.instance = room.instance + 1 /\ room'.state = MakeState
  BY <1>1, <1>2, ClientAssumption
<1>4. ClientFields'
  BY <1>1, <1>2, <1>3, ClientAssumption
     DEF socketVars, pageVars, ClientInv, ClientFields, NotJoining, NoToken
<1>5. OneSocket'
  BY <1>1, <1>2, <1>3 DEF socketVars, ClientInv, OneSocket
<1>6. ShownIsObserved' /\ LatestIsShown' /\ Remembered' /\ RevealedOnce'
  BY <1>1 DEF socketVars, pageVars, ClientInv, ShownIsObserved,
              Follows, LatestIsShown, Remembered, RevealedOnce
<1>7. Mine' = Mine /\ Served' = {MakeState}
  BY <1>1, <1>3 DEF socketVars, pageVars, Mine, Follows, Served
<1>8. socket[ws].bound # room.instance + 1
  BY <1>2 DEF ClientInv, ClientFields, OneSocket, Closed, NoToken
<1>9. Ordered'
  <2>1. MakeState.revision <= MakeState.revision /\ MakeState.reward_id <= MakeState.reward_id
    BY DEF MakeState
  <2> QED
    BY <1>1, <1>3, <1>7, <1>8, <2>1 DEF socketVars, ClientInv, Ordered, IsChain, IsPast
<1> QED BY <1>4, <1>5, <1>6, <1>9 DEF ClientInv

(* What the server does to a socket adds a document of its generation to what
   is on the way, or takes some away. *)
LEMMA LettersKeep ==
  ASSUME ClientInv, NEW i \in SocketIds, socket[i].live, NEW q \in SocketRecord,
         socket' = [socket EXCEPT ![i] = q],
         q.live, q.bound = socket[i].bound, q.first = socket[i].first,
         \/ DocumentsOf(q.inbox) \subseteq DocumentsOf(socket[i].inbox)
         \/ /\ q.bound = room.instance
            /\ DocumentsOf(q.inbox) \subseteq DocumentsOf(socket[i].inbox) \cup Served,
         late' \subseteq late, faults' \in 0..MaxFaults,
         UNCHANGED <<room, ws, retry, token, prompt, join, pageVars>>
  PROVE  ClientInv'
<1> USE DEF pageVars
<1>1. i = ws /\ socket' \in [SocketIds -> SocketRecord] /\ socket'[ws] = q
      /\ \A j \in SocketIds : j # ws => socket'[j] = socket[j]
  BY DEF ClientInv, ClientFields, OneSocket
<1>2. ClientFields'
  BY <1>1 DEF ClientInv, ClientFields
<1>3. OneSocket'
  BY <1>1 DEF ClientInv, ClientFields, OneSocket
<1>4. Follows' <=> Follows
  BY <1>1 DEF Follows
<1>5. ShownIsObserved' /\ LatestIsShown' /\ Remembered' /\ RevealedOnce'
  BY <1>1, <1>4 DEF ClientInv, ShownIsObserved, LatestIsShown, Remembered, RevealedOnce
<1>6. Served' \subseteq Served
  BY DEF Served
<1>7. \/ Mine' \subseteq Mine
      \/ q.bound = room.instance /\ Mine' \subseteq Mine \cup Served
  BY <1>1, <1>4 DEF Mine
<1>8. Ordered'
  BY <1>1, <1>6, <1>7 DEF ClientInv, Ordered, IsChain, IsPast
<1> QED BY <1>2, <1>3, <1>5, <1>8 DEF ClientInv

(* Whatever the server does with the room or with a socket. *)
LEMMA ServerStepKeeps ==
  ASSUME ClientInv, ServerStep
  PROVE  ClientInv'
<1>1. /\ faults \in 0..MaxFaults /\ MaxFaults \in Nat
      /\ \A i \in SocketIds : socket[i] \in SocketRecord
  BY ClientAssumption DEF ClientInv, ClientFields
<1>2. ASSUME NEW i \in SocketIds, NEW s \in Served, Write(i, s), late' \subseteq late
      PROVE  ClientInv'
  <2> DEFINE q == [socket[i] EXCEPT !.mark = s.revision,
                                    !.inbox = Append(socket[i].inbox, Document(s))]
  <2>1. /\ socket[i].live /\ socket[i].bound = room.instance
        /\ socket' = [socket EXCEPT ![i] = q]
        /\ UNCHANGED <<room, ws, retry, token, prompt, join, pageVars, faults>>
    BY <1>2 DEF Write, Open
  <2>2. s \in Consistent /\ s.revision \in NoRevision..MaxRevision
    BY MineAreDocuments, ClientAssumption DEF ClientInv, Consistent, State, NoRevision
  <2>3. /\ Append(socket[i].inbox, Document(s)) \in Seq(Letters)
        /\ DocumentsOf(Append(socket[i].inbox, Document(s)))
             \subseteq DocumentsOf(socket[i].inbox) \cup Served
    BY <1>1, <2>2, DocumentsMove DEF SocketRecord
  <2>4. /\ q \in SocketRecord /\ q.live = socket[i].live /\ q.bound = socket[i].bound
        /\ q.first = socket[i].first
        /\ q.inbox = Append(socket[i].inbox, Document(s))
    BY <1>1, <2>2, <2>3 DEF SocketRecord
  <2> HIDE DEF q
  <2> QED BY <1>1, <1>2, <2>1, <2>3, <2>4, LettersKeep
<1>3. ASSUME NEW i \in SocketIds, Reject(i) \/ Lose(i)
      PROVE  ClientInv'
  <2>1. /\ socket[i].live /\ socket[i].inbox \in Seq(Letters)
    BY <1>1, <1>3 DEF Reject, Lose, Open, SocketRecord
  <2>2. PICK m \in {AuthClose, OtherClose}, n \in 0..Len(socket[i].inbox) :
          socket' = [socket EXCEPT ![i].inbox = Append(SubSeq(socket[i].inbox, 1, n), m)]
    <3>1. CASE Reject(i)
      <4>1. SubSeq(socket[i].inbox, 1, Len(socket[i].inbox)) = socket[i].inbox
        BY <2>1, SubSeqFull
      <4>2. Len(socket[i].inbox) \in 0..Len(socket[i].inbox)
        BY <2>1, LenProperties
      <4>3. socket' = [socket EXCEPT ![i].inbox = Append(
                         SubSeq(socket[i].inbox, 1, Len(socket[i].inbox)), AuthClose)]
        BY <3>1, <4>1 DEF Reject
      <4> QED BY <4>2, <4>3
    <3>2. CASE Lose(i)
      BY <3>2 DEF Lose
    <3> QED BY <1>3, <3>1, <3>2
  <2> DEFINE q == [socket[i] EXCEPT !.inbox = Append(SubSeq(socket[i].inbox, 1, n), m)]
  <2>3. /\ Append(SubSeq(socket[i].inbox, 1, n), m) \in Seq(Letters)
        /\ DocumentsOf(Append(SubSeq(socket[i].inbox, 1, n), m))
             \subseteq DocumentsOf(socket[i].inbox)
    BY <2>1, DocumentsMove
  <2>4. /\ q \in SocketRecord /\ q.live = socket[i].live /\ q.bound = socket[i].bound
        /\ q.first = socket[i].first
        /\ q.inbox = Append(SubSeq(socket[i].inbox, 1, n), m)
    BY <1>1, <2>3 DEF SocketRecord
  <2>5. socket' = [socket EXCEPT ![i] = q]
    BY <2>2
  <2>6. /\ late' = late /\ faults' \in 0..MaxFaults
        /\ UNCHANGED <<room, ws, retry, token, prompt, join, pageVars>>
    BY <1>1, <1>3 DEF Reject, Lose, serverVars
  <2> HIDE DEF q
  <2> QED BY <2>1, <2>3, <2>4, <2>5, <2>6, LettersKeep
<1>4. ASSUME NEW i \in SocketIds, WriteCurrent(i) \/ WriteLate(i)
      PROVE  ClientInv'
  BY <1>2, <1>4 DEF WriteCurrent, WriteLate, Served
<1> QED
  BY <1>3, <1>4, CommitKeeps, RecreateKeeps, ReadEarlyKeeps DEF ServerStep

(* A socket opens with nothing on its way. *)
LEMMA OpenedIsEmpty ==
  ASSUME NEW kept \in NoToken..MaxInstances
  PROVE  /\ Opened(kept) \in SocketRecord /\ Opened(kept).live
         /\ Opened(kept).bound = kept /\ Opened(kept).first
         /\ Opened(kept).inbox = <<>>
<1> DEFINE a == [Closed EXCEPT !.live = TRUE]
           b == [a EXCEPT !.bound = kept]
           c == [b EXCEPT !.first = TRUE]
<1>1. Closed \in SocketRecord /\ Closed.inbox = <<>>
  BY ClientAssumption DEF Closed, SocketRecord, NoToken, NoRevision
<1>2. a \in SocketRecord /\ a.live = TRUE /\ a.inbox = <<>>
  BY <1>1 DEF SocketRecord
<1> HIDE DEF a
<1>3. b \in SocketRecord /\ b.live = TRUE /\ b.bound = kept /\ b.inbox = <<>>
  BY <1>2 DEF SocketRecord
<1> HIDE DEF b
<1>4. c \in SocketRecord /\ c.live = TRUE /\ c.bound = kept /\ c.first = TRUE
      /\ c.inbox = <<>>
  BY <1>3 DEF SocketRecord
<1>5. Opened(kept) = c
  BY DEF Opened, a, b
<1> QED BY <1>4, <1>5

(* The page goes on with a new socket, or with the prompt: connect, where the
   page has no open socket (room-websocket.js, connect). *)
LEMMA ConnectOpens ==
  ASSUME NEW others, others = [i \in SocketIds |-> Closed], NEW kept, Connect(others, kept)
  PROVE  \/ /\ kept = NoToken /\ prompt' = TRUE
            /\ socket' = others /\ ws' = ws
         \/ /\ kept # NoToken /\ prompt' = FALSE /\ ws' \in SocketIds
            /\ socket' = [others EXCEPT ![ws'] = Opened(kept)]
BY DEF Connect, Closed

(* Connecting, whether it opens a socket or asks for the PIN, leaves the page
   one way forward (room-websocket.js, connect). *)
LEMMA ConnectKeeps ==
  ASSUME ClientInv, Connect([i \in SocketIds |-> Closed], token'),
         token' \in NoToken..room.instance, retry' = FALSE, join' = NotJoining,
         ShownIsObserved', faults' \in 0..MaxFaults,
         UNCHANGED <<serverVars, revealed, replayed, missed>>
  PROVE  ClientInv'
<1> DEFINE none == [i \in SocketIds |-> Closed]
<1>1. /\ room' = room /\ late' = late /\ room.instance \in 1..MaxInstances
      /\ ws \in SocketIds
  BY DEF serverVars, ClientInv, ClientFields
<1>2. /\ Closed \in SocketRecord /\ ~Closed.live /\ Closed.bound = NoToken
      /\ Closed.inbox = <<>>
  BY ClientAssumption DEF Closed, SocketRecord, NoToken, NoRevision
<1>3. /\ Opened(token') \in SocketRecord /\ Opened(token').live
      /\ Opened(token').bound = token' /\ Opened(token').first
      /\ Opened(token').inbox = <<>>
  <2>1. token' \in NoToken..MaxInstances
    BY <1>1, ClientAssumption DEF NoToken
  <2> QED BY <2>1, OpenedIsEmpty
<1>4. \/ /\ token' = NoToken /\ prompt' = TRUE
         /\ socket' = none /\ ws' = ws
      \/ /\ token' # NoToken /\ prompt' = FALSE /\ ws' \in SocketIds
         /\ socket' = [none EXCEPT ![ws'] = Opened(token')]
  BY ConnectOpens
<1>5. /\ socket' \in [SocketIds -> SocketRecord] /\ ws' \in SocketIds
      /\ \A i \in SocketIds : i # ws' => socket'[i] = Closed
      /\ \/ socket'[ws'] = Closed /\ prompt' = TRUE
         \/ socket'[ws'] = Opened(token') /\ prompt' = FALSE /\ token' # NoToken
  BY <1>1, <1>2, <1>3, <1>4
<1>6. socket'[ws'].inbox = <<>> /\ ~Follows'
  BY <1>2, <1>3, <1>5 DEF Follows
<1>7. ClientFields'
  <2>1. prompt' \in BOOLEAN /\ retry' \in BOOLEAN
    BY <1>5
  <2>4. join' \in NotJoining..room'.instance
    BY <1>1, ClientAssumption DEF NotJoining
  <2>5. token' \in NoToken..room'.instance
    BY <1>1
  <2>2. room' \in [instance : 1..MaxInstances, state : Consistent] /\ late' \subseteq Consistent
    BY <1>1 DEF ClientInv, ClientFields
  <2>3. \A r \in revealed' : r.reward \in Nat
    BY DEF ClientInv, ClientFields
  <2> QED BY <1>5, <2>1, <2>2, <2>3, <2>4, <2>5 DEF ClientFields
<1>8. OneSocket'
  BY <1>1, <1>2, <1>3, <1>5 DEF OneSocket, NoToken
<1>9. LatestIsShown' /\ Remembered' /\ RevealedOnce'
  BY <1>6 DEF LatestIsShown, Remembered, ClientInv, RevealedOnce
<1>10. Mine' = {} /\ Served' = Served
  BY <1>1, <1>6 DEF Mine, Served, DocumentsOf
<1>11. Ordered'
  BY <1>1, <1>10 DEF ClientInv, Ordered, IsChain, IsPast
<1> QED BY <1>7, <1>8, <1>9, <1>11 DEF ClientInv

(* While the page has no open socket, none is. *)
LEMMA AllAreClosed ==
  ASSUME ClientFields, OneSocket, ~socket[ws].live
  PROVE  socket = [i \in SocketIds |-> Closed]
BY DEF ClientFields, OneSocket

(* The reconnect timer, the answer of the server to the PIN, and a reload. *)
LEMMA FreshKeeps ==
  ASSUME ClientInv, Reconnect \/ JoinReturns \/ Reload
  PROVE  ClientInv'
<1>1. ClientFields /\ OneSocket /\ ShownIsObserved /\ room.instance \in 1..MaxInstances
  BY DEF ClientInv, ClientFields
<1>2. CASE Reconnect
  <2>1. socket = [i \in SocketIds |-> Closed] /\ join = NotJoining
    BY <1>1, <1>2, AllAreClosed DEF Reconnect, OneSocket
  <2> QED
    BY <1>1, <1>2, <2>1, ConnectKeeps DEF Reconnect, serverVars, pageVars, ShownIsObserved,
                                         ClientFields
<1>3. CASE JoinReturns
  <2>1. socket = [i \in SocketIds |-> Closed] /\ retry = FALSE
    BY <1>1, <1>3, AllAreClosed DEF JoinReturns, OneSocket, JoinSent, NotJoining
  <2>2. token' = join /\ token' \in NoToken..room.instance
    BY <1>1, <1>3 DEF JoinReturns, ClientFields, JoinSent, NotJoining, NoToken
  <2> QED
    BY <1>1, <1>3, <2>1, <2>2, ConnectKeeps DEF JoinReturns, pageVars, ShownIsObserved,
                                               ClientFields
<1>4. CASE Reload
  <2>1. /\ faults' \in 0..MaxFaults /\ token' = token /\ ShownIsObserved'
        /\ retry' = FALSE /\ join' = NotJoining
        /\ Connect([i \in SocketIds |-> Closed], token')
        /\ UNCHANGED <<serverVars, revealed, replayed, missed>>
    BY <1>1, <1>4, ClientAssumption DEF Reload, ShownIsObserved, ClientFields
  <2> QED BY <1>1, <2>1, ConnectKeeps DEF ClientFields
<1> QED BY <1>2, <1>3, <1>4

(* The prompt and its request, while no socket is open (room-auth.js). *)
LEMMA PromptKeeps ==
  ASSUME ClientInv, SubmitPin \/ Grant \/ JoinFails
  PROVE  ClientInv'
<1>1. /\ UNCHANGED <<room, late, socket, ws, retry, prompt, pageVars>>
      /\ prompt /\ room.instance \in 1..MaxInstances
  BY DEF SubmitPin, Grant, JoinFails, serverVars, ClientInv, OneSocket, ClientFields, JoinSent,
         NotJoining
<1>2. /\ join' \in NotJoining..room.instance /\ token' \in {token, NoToken}
      /\ faults' \in 0..MaxFaults
  BY <1>1, ClientAssumption DEF SubmitPin, Grant, JoinFails, ClientInv, ClientFields, JoinSent,
                                NotJoining
<1>3. ClientFields'
  BY <1>1, <1>2 DEF pageVars, ClientInv, ClientFields, NoToken
<1>4. OneSocket'
  BY <1>1 DEF ClientInv, OneSocket
<1>5. ShownIsObserved' /\ LatestIsShown' /\ Remembered' /\ RevealedOnce'
  BY <1>1 DEF pageVars, ClientInv, ShownIsObserved, Follows, LatestIsShown, Remembered,
              RevealedOnce
<1>6. Ordered'
  BY <1>1 DEF pageVars, ClientInv, Ordered, Mine, Follows, Served, IsChain, IsPast
<1> QED BY <1>3, <1>4, <1>5, <1>6 DEF ClientInv

(* The close of the socket sets the timer, or shows the prompt. *)
LEMMA HandleCloseKeeps ==
  ASSUME ClientInv, NEW i \in SocketIds, HandleClose(i)
  PROVE  ClientInv'
<1>1. /\ ClientFields /\ OneSocket
      /\ UNCHANGED <<room, late, ws, join, pageVars, faults>>
      /\ socket' = [socket EXCEPT ![i] = Closed]
      /\ socket[i].inbox # <<>>
  BY DEF ClientInv, HandleClose, serverVars
<1>2. i = ws /\ socket[ws].live
  BY <1>1 DEF OneSocket, Closed
<1>3. AfterClose(Head(socket[i].inbox))
  BY <1>2 DEF HandleClose
<1>4. \/ token' = NoToken /\ prompt' = TRUE /\ retry' = FALSE
      \/ retry' = TRUE /\ UNCHANGED <<token, prompt>>
  BY <1>3 DEF AfterClose
<1>5. Closed \in SocketRecord /\ ~Closed.live /\ Closed.inbox = <<>>
  BY ClientAssumption DEF Closed, SocketRecord, NoToken, NoRevision
<1>6. socket' \in [SocketIds -> SocketRecord] /\ socket'[ws] = Closed /\ ~prompt
      /\ \A j \in SocketIds : j # ws => socket'[j] = socket[j]
  BY <1>1, <1>2, <1>5 DEF ClientFields, OneSocket
<1>7. ClientFields'
  <2>1. prompt' \in BOOLEAN /\ retry' \in BOOLEAN
    BY <1>1, <1>4 DEF ClientFields
  <2>2. token' \in NoToken..room.instance /\ room.instance \in 1..MaxInstances
    BY <1>1, <1>4 DEF ClientFields, NoToken
  <2> QED BY <1>1, <1>6, <2>1, <2>2 DEF pageVars, ClientFields
<1>8. OneSocket'
  BY <1>1, <1>2, <1>4, <1>5, <1>6 DEF ClientFields, OneSocket
<1>9. ~Follows'
  BY <1>1, <1>5, <1>6 DEF Follows
<1>10. ShownIsObserved' /\ LatestIsShown' /\ Remembered' /\ RevealedOnce'
  BY <1>1, <1>9 DEF pageVars, ClientInv, ShownIsObserved, LatestIsShown, Remembered,
                    RevealedOnce
<1>11. Mine' = {} /\ Served' = Served
  BY <1>1, <1>5, <1>6, <1>9 DEF Mine, Served, DocumentsOf
<1>12. Ordered'
  BY <1>1, <1>11 DEF ClientInv, Ordered, IsChain, IsPast
<1> QED BY <1>7, <1>8, <1>10, <1>12 DEF ClientInv

(* A document that is accepted is of the chain of the one on show: what it
   reveals is new, or was missed, and is all that it has earned (applyState;
   rest-ritual.js, the reward tracker). *)
LEMMA ApplyKeeps ==
  ASSUME ClientFields, ShownIsObserved, LatestIsShown, Remembered, RevealedOnce,
         socket[ws].live, IsChain(Mine), NEW s \in Mine \cap Consistent,
         Accepts(s, socket[ws].first), Apply(s, socket[ws].first, socket[ws].bound)
  PROVE  /\ shown'.instance = socket[ws].bound /\ shown'.state = s
         /\ accepted' = s.revision /\ baseline' = s.reward_id
         /\ \A r \in revealed' :
              /\ r.reward \in Nat
              /\ r.instance = socket[ws].bound => r.reward <= baseline' \/ r \in missed'
         /\ RevealedOnce'
         /\ RevealsEarned
<1> DEFINE first == socket[ws].first
           bound == socket[ws].bound
           mine  == Reward(bound, s)
           new == IF Reveals(s, first) THEN {mine} ELSE {}
           unseen == {r \in revealed : r.instance = bound /\ r.reward > s.reward_id}
<1>1. /\ accepted' = s.revision
      /\ shown' = [instance |-> bound, state |-> s]
      /\ baseline' = Observed(s, first)
      /\ revealed' = revealed \cup new
      /\ replayed' = replayed \cup (new \cap revealed)
      /\ missed' = IF first THEN missed \cup unseen ELSE missed
  BY DEF Apply
<1>2. mine.instance = bound /\ mine.reward = s.reward_id
  BY DEF Reward
<1>3. s.revision \in Nat /\ s.reward_id \in Nat /\ first \in BOOLEAN
  BY DocumentsAreNumbered DEF ClientFields, SocketRecord
<1>4. /\ Reveals(s, first) <=>
           s.break /\ Baseline(first) # NoReward /\ s.reward_id > Baseline(first)
      /\ Baseline(first) = IF first THEN NoReward ELSE baseline
      /\ Observed(s, first) = IF s.reward_id > Baseline(first) THEN s.reward_id
                                                             ELSE Baseline(first)
      /\ first \/ s.revision >= accepted
  BY DEF Reveals, Baseline, Observed, Accepts
<1>5. ~first => /\ shown.state \in Mine /\ baseline = shown.state.reward_id
                /\ accepted = shown.state.revision /\ shown.state \in Consistent
  BY DEF Mine, Follows, LatestIsShown, ShownIsObserved, NoState, MakeState, NoReward
<1>6. ~first => /\ baseline \in Nat /\ baseline <= s.reward_id
  BY <1>3, <1>4, <1>5, DocumentsAreNumbered DEF IsChain
<1>7. \A r \in revealed :
        /\ r.reward \in Nat
        /\ ~first /\ r.instance = bound => r.reward <= baseline \/ r \in missed
  BY DEF ClientFields, Remembered, Follows
<1> HIDE DEF first, bound, mine
<1>8. baseline' = s.reward_id
  <2>1. CASE first
    BY <1>1, <1>3, <1>4, <2>1 DEF NoReward
  <2>2. CASE ~first
    BY <1>1, <1>3, <1>4, <1>6, <2>2
  <2> QED BY <2>1, <2>2
<1>9. ASSUME NEW r \in revealed'
      PROVE  /\ r.reward \in Nat
             /\ r.instance = bound => r.reward <= baseline' \/ r \in missed'
  <2>1. CASE r \in revealed /\ first
    BY <1>1, <1>3, <1>7, <1>8, <2>1
  <2>2. CASE r \in revealed /\ ~first
    BY <1>1, <1>3, <1>6, <1>7, <1>8, <2>2
  <2>3. CASE r = mine
    BY <1>2, <1>3, <1>8, <2>3
  <2> QED BY <1>1, <2>1, <2>2, <2>3
<1>10. new \cap revealed \subseteq missed'
  <2> SUFFICES ASSUME Reveals(s, first), mine \in revealed
               PROVE  mine \in missed'
    OBVIOUS
  <2>1. ~first /\ s.reward_id > baseline
    BY <1>3, <1>4 DEF NoReward
  <2> QED BY <1>1, <1>2, <1>3, <1>6, <1>7, <2>1
<1>11. RevealedOnce'
  BY <1>1, <1>10 DEF RevealedOnce
<1>12. RevealsEarned
  <2> SUFFICES ASSUME ~socket[ws].first, shown'.state.break,
                      shown'.state.reward_id > shown.state.reward_id
               PROVE  Reward(shown'.instance, shown'.state) \in revealed'
    BY DEF RevealsEarned
  <2>1. ~first
    BY DEF first
  <2>2. s.break /\ s.reward_id > baseline
    BY <1>1, <1>5, <2>1
  <2>3. Reveals(s, first)
    BY <1>4, <1>6, <2>1, <2>2 DEF NoReward
  <2>4. Reward(shown'.instance, shown'.state) = mine
    BY <1>1 DEF mine
  <2> QED BY <1>1, <2>3, <2>4
<1> QED BY <1>1, <1>8, <1>9, <1>11, <1>12 DEF bound

(* A document arrives: of a connection's first it accepts any, and later those
   that are no older than the one on show. *)
LEMMA HandleMessageKeeps ==
  ASSUME ClientInv, NEW i \in SocketIds, HandleMessage(i)
  PROVE  ClientInv' /\ RevealsEarned
<1> DEFINE q == socket[ws]
           s == Head(q.inbox).state
           r1 == [q EXCEPT !.inbox = Tail(q.inbox), !.first = FALSE]
<1>1. /\ ClientFields /\ OneSocket /\ ShownIsObserved /\ LatestIsShown /\ Ordered
      /\ Remembered /\ RevealedOnce
      /\ UNCHANGED <<room, late, ws, retry, token, prompt, join, faults>>
      /\ socket[i].inbox # <<>>
      /\ q \in SocketRecord
  BY DEF ClientInv, ClientFields, HandleMessage, serverVars
<1>2. i = ws /\ q.live /\ q.bound \in 1..room.instance
  BY <1>1 DEF OneSocket, Closed
<1>3. /\ IsDocument(Head(q.inbox))
      /\ socket' = [socket EXCEPT ![ws].inbox = Tail(@), ![ws].first = @ /\ ws # ws]
      /\ IF Accepts(s, q.first) THEN Apply(s, q.first, q.bound) ELSE UNCHANGED pageVars
  BY <1>2 DEF HandleMessage
<1>4. /\ Tail(q.inbox) \in Seq(Letters)
      /\ DocumentsOf(Tail(q.inbox)) \subseteq DocumentsOf(q.inbox)
      /\ s \in DocumentsOf(q.inbox)
  BY <1>1, <1>2, <1>3, DocumentsMove DEF SocketRecord
<1>5. /\ r1 \in SocketRecord /\ r1.live = TRUE /\ r1.bound = q.bound
      /\ r1.first = FALSE /\ r1.inbox = Tail(q.inbox)
  BY <1>1, <1>2, <1>4 DEF SocketRecord
<1>6. /\ socket' \in [SocketIds -> SocketRecord] /\ socket'[ws] = r1
      /\ \A j \in SocketIds : j # ws => socket'[j] = socket[j]
  <2>1. socket' = [socket EXCEPT ![ws] = r1]
    BY <1>1, <1>3 DEF ClientFields
  <2> HIDE DEF r1
  <2> QED BY <1>1, <1>5, <2>1 DEF ClientFields
<1>7. s \in Mine \cap Consistent
  BY <1>1, <1>4, MineAreDocuments DEF Mine
<1> HIDE DEF q, s, r1
<1>8. OneSocket'
  BY <1>1, <1>2, <1>5, <1>6 DEF ClientFields, OneSocket, q
<1>9. Follows'
  BY <1>1, <1>5, <1>6 DEF Follows
<1>10. CASE Accepts(s, q.first)
  <2>1. /\ shown'.instance = q.bound /\ shown'.state = s
        /\ accepted' = s.revision /\ baseline' = s.reward_id
        /\ \A r \in revealed' :
             /\ r.reward \in Nat
             /\ r.instance = q.bound => r.reward <= baseline' \/ r \in missed'
        /\ RevealedOnce'
        /\ RevealsEarned
    BY <1>1, <1>2, <1>3, <1>7, <1>10, ApplyKeeps DEF q, Ordered
  <2>2. shown' = [instance |-> q.bound, state |-> s]
    BY <1>3, <1>10 DEF Apply
  <2>3. ClientFields'
    BY <1>1, <1>6, <2>1 DEF ClientFields
  <2>4. ShownIsObserved'
    <3>1. s.reward_id \in 0..MaxRevision /\ q.bound \in 1..MaxInstances
      BY <1>1, <1>2, <1>7, ClientAssumption DEF Consistent, State, ClientFields
    <3> QED BY <1>7, <2>1, <2>2, <3>1 DEF ShownIsObserved
  <2>5. LatestIsShown' /\ Remembered'
    BY <1>1, <1>5, <1>6, <2>1 DEF LatestIsShown, Remembered
  <2>6. Mine' \subseteq Mine /\ Served' = Served
    BY <1>1, <1>4, <1>5, <1>6, <2>1 DEF Mine, Served, q
  <2>7. Ordered'
    BY <1>1, <1>5, <1>6, <2>6 DEF Ordered, IsChain, IsPast, q
  <2> QED BY <1>8, <2>1, <2>3, <2>4, <2>5, <2>7 DEF ClientInv
<1>11. CASE ~Accepts(s, q.first)
  <2>1. ~q.first /\ UNCHANGED pageVars
    BY <1>3, <1>11 DEF Accepts
  <2>2. Follows
    BY <1>2, <2>1 DEF Follows, q
  <2>3. ClientFields' /\ ShownIsObserved' /\ RevealedOnce'
    BY <1>1, <1>6, <2>1 DEF pageVars, ClientFields, ShownIsObserved, RevealedOnce
  <2>4. LatestIsShown' /\ Remembered'
    BY <1>1, <1>5, <1>6, <2>1, <2>2 DEF pageVars, LatestIsShown, Remembered, q
  <2>5. Mine' \subseteq Mine /\ Served' = Served
    BY <1>1, <1>4, <1>5, <1>6, <2>1, <2>2 DEF pageVars, Mine, Served, q
  <2>6. Ordered'
    BY <1>1, <1>5, <1>6, <2>5 DEF Ordered, IsChain, IsPast, q
  <2>7. shown' = shown /\ shown.state.reward_id \in Nat
    BY <1>1, <2>1, DocumentsAreNumbered DEF pageVars, ShownIsObserved, NoState, MakeState
  <2>8. RevealsEarned
    BY <2>7 DEF RevealsEarned
  <2> QED BY <1>8, <2>3, <2>4, <2>6, <2>8 DEF ClientInv
<1> QED BY <1>10, <1>11

(* Every step of the page and of the server keeps the invariant, and reveals
   what is earned: no other step shows a document. *)
LEMMA ClientStepKeeps == ClientInv /\ [Next]_vars => ClientInv' /\ [RevealsEarned]_vars
<1> SUFFICES ASSUME ClientInv, [Next]_vars
             PROVE  ClientInv' /\ (RevealsEarned \/ UNCHANGED vars)
  OBVIOUS
<1>1. shown.state.reward_id \in Nat
  BY DocumentsAreNumbered DEF ClientInv, ShownIsObserved, NoState, MakeState
<1>2. shown' \in {shown, NoState} => RevealsEarned
  BY <1>1 DEF RevealsEarned, NoState, MakeState
<1>3. ASSUME NEW i \in SocketIds, HandleMessage(i)
      PROVE  ClientInv' /\ RevealsEarned
  BY <1>3, HandleMessageKeeps
<1>4. ASSUME NEW i \in SocketIds, HandleClose(i)
      PROVE  ClientInv' /\ shown' = shown
  BY <1>4, HandleCloseKeeps DEF HandleClose, pageVars
<1>5. CASE ServerStep
  <2>1. shown' = shown
    BY <1>5 DEF ServerStep, Commit, Recreate, ReadEarly, WriteCurrent, WriteLate, Write, Reject,
                Lose, pageVars
  <2> QED BY <1>2, <1>5, <2>1, ServerStepKeeps
<1>6. CASE Reconnect \/ JoinReturns \/ Reload
  <2>1. shown' \in {shown, NoState}
    BY <1>6 DEF Reconnect, JoinReturns, Reload, pageVars
  <2> QED BY <1>2, <1>6, <2>1, FreshKeeps
<1>7. CASE SubmitPin \/ Grant \/ JoinFails
  <2>1. shown' = shown
    BY <1>7 DEF SubmitPin, Grant, JoinFails, pageVars
  <2> QED BY <1>2, <1>7, <2>1, PromptKeeps
<1>8. CASE UNCHANGED vars
  <2>1. ClientFields' /\ ShownIsObserved' /\ OneSocket'
    BY <1>8 DEF vars, serverVars, socketVars, pageVars, ClientInv, ClientFields,
                ShownIsObserved, OneSocket
  <2>2. Ordered'
    BY <1>8 DEF vars, serverVars, socketVars, pageVars, ClientInv, Ordered, Mine, Follows,
                Served, IsChain, IsPast
  <2>3. LatestIsShown' /\ Remembered' /\ RevealedOnce'
    BY <1>8 DEF vars, serverVars, socketVars, pageVars, ClientInv, Follows, LatestIsShown,
                Remembered, RevealedOnce
  <2> QED BY <1>8, <2>1, <2>2, <2>3 DEF ClientInv
<1> QED BY <1>2, <1>3, <1>4, <1>5, <1>6, <1>7, <1>8 DEF Next, PageStep

(* The page is opened with a token or with the prompt. *)
LEMMA ClientBegins == Init => ClientInv
<1> SUFFICES ASSUME Init PROVE ClientInv
  OBVIOUS
<1>1. /\ MakeState \in Consistent /\ ws \in SocketIds
      /\ Closed \in SocketRecord /\ ~Closed.live /\ Closed.bound = NoToken
      /\ Closed.inbox = <<>>
  BY ClientAssumption DEF Init, MakeState, Consistent, State, Closed, SocketRecord, NoToken,
                          NoRevision
<1>2. /\ token \in {NoToken, 1} /\ token \in NoToken..MaxInstances
      /\ room.instance = 1 /\ room.state = MakeState
      /\ room \in [instance : 1..MaxInstances, state : Consistent] /\ late = {}
  BY <1>1, ClientAssumption DEF Init, NoToken
<1>3. /\ Opened(token) \in SocketRecord /\ Opened(token).live
      /\ Opened(token).bound = token /\ Opened(token).first
      /\ Opened(token).inbox = <<>>
  BY <1>2, OpenedIsEmpty
<1>4. /\ socket \in [SocketIds -> SocketRecord]
      /\ \A i \in SocketIds : i # ws => socket[i] = Closed
      /\ socket[ws] = IF token # NoToken THEN Opened(token) ELSE Closed
  BY <1>1, <1>3 DEF Init
<1>5. socket[ws].inbox = <<>> /\ ~Follows
  BY <1>1, <1>3, <1>4 DEF Follows
<1>6. ClientFields
  <2>1. faults \in 0..MaxFaults /\ join \in NotJoining..1 /\ revealed = {}
    BY ClientAssumption DEF Init, NotJoining
  <2>3. retry \in BOOLEAN /\ prompt \in BOOLEAN
    <3>1. retry = FALSE /\ prompt = (token = NoToken)
      BY DEF Init
    <3> QED BY Zenon, <3>1
  <2>2. token \in NoToken..1
    BY <1>2 DEF NoToken
  <2> QED BY <1>1, <1>2, <1>4, <2>1, <2>2, <2>3 DEF ClientFields
<1>7. OneSocket
  <2>1. ~retry /\ join = NotJoining /\ (prompt <=> token = NoToken)
    BY DEF Init
  <2>2. token # NoToken => token \in 1..room.instance
    BY <1>2 DEF NoToken
  <2> QED BY <1>1, <1>3, <1>4, <2>1, <2>2 DEF OneSocket
<1>8. Mine = {} /\ Served = {MakeState}
  BY <1>2, <1>5 DEF Mine, Served, DocumentsOf
<1>9. Ordered
  <2>1. MakeState.revision <= MakeState.revision /\ MakeState.reward_id <= MakeState.reward_id
    BY DEF MakeState
  <2> QED BY <1>2, <1>8, <2>1 DEF Ordered, IsChain, IsPast
<1>10. ShownIsObserved /\ LatestIsShown /\ Remembered /\ RevealedOnce
  BY <1>5 DEF Init, ShownIsObserved, LatestIsShown, Remembered, RevealedOnce
<1> QED BY <1>6, <1>7, <1>9, <1>10 DEF ClientInv

(* For any sockets, any numbers of documents, generations and failures: the
   page waits for a socket, for its timer or for the person, and for one of
   them only (room-websocket.js:23-92; app.js:57-65). *)
THEOREM PageHasOneWay == Spec => []OneWayForward
<1>1. ClientInv => OneWayForward
  <2> SUFFICES ASSUME ClientInv PROVE OneWayForward
    OBVIOUS
  <2>1. /\ Live \in SUBSET {ws}
        /\ socket[ws].live <=> ws \in Live
        /\ \/ socket[ws].live /\ ~retry /\ ~prompt
           \/ ~socket[ws].live /\ retry /\ ~prompt
           \/ ~socket[ws].live /\ ~retry /\ prompt
    BY DEF ClientInv, OneSocket, ClientFields, Live
  <2>2. Live = IF socket[ws].live THEN {ws} ELSE {}
    BY <2>1
  <2>3. Cardinality({ws}) = 1 /\ Cardinality({}) = 0
    BY FS_EmptySet, FS_Singleton
  <2> QED BY <2>1, <2>2, <2>3 DEF OneWayForward
<1> QED BY <1>1, ClientBegins, ClientStepKeeps, PTL DEF Spec

(* However often the connection breaks, the page is reloaded and the room is
   created again, a reward is not revealed again, unless a connection began
   with a document that did not have it yet (rest-ritual.js:40-47). *)
THEOREM RewardsAreRevealedOnce == Spec => []RevealedOnce
<1>1. ClientInv => RevealedOnce
  BY DEF ClientInv
<1> QED BY <1>1, ClientBegins, ClientStepKeeps, PTL DEF Spec

(* A reward that is earned while the page watches is revealed, whichever
   documents it accepts (rest-ritual.js:40-47, 221-227). *)
THEOREM EarnedRewardsAreRevealed == Spec => EarnedIsRevealed
BY ClientBegins, ClientStepKeeps, PTL DEF Spec, EarnedIsRevealed

-----------------------------------------------------------------------------
(***************************************************************************)
(* The lobby forgets a PIN, for any id codes.  PinIsForgotten is inductive *)
(* by itself: the request, the disabled controls and the PIN that has been *)
(* sent begin and end together.                                            *)
(***************************************************************************)

(* A request begins with its PIN marked as sent and the controls disabled
   (lobby.js, createRoom and joinRoom up to the await). *)
LEMMA SubmitKeeps ==
  ASSUME PinIsForgotten, NEW id, id # None, Submit(id)
  PROVE  PinIsForgotten'
BY DEF Submit, PinIsForgotten

(* Every step of the lobby keeps the PIN, the request and the page's way to
   the room together. *)
LEMMA StepKeepsForgetting ==
  ASSUME None \notin Rooms, PinIsForgotten, [LobbyNext]_lobbyVars
  PROVE  PinIsForgotten'
<1>1. CASE \E p \in Pins \ {"spent"} : TypePin(p)
  BY <1>1 DEF TypePin, PinIsForgotten
<1>2. CASE \E c \in Rooms \cup {None} : TypeCode(c)
  BY <1>2 DEF TypeCode, PinIsForgotten
<1>3. CASE ToggleCode
  BY <1>3 DEF ToggleCode, PinIsForgotten
<1>4. CASE \E id \in Rooms : CreateRoom(id)
  BY <1>4, SubmitKeeps DEF CreateRoom
<1>5. CASE JoinRoom
  BY <1>5, SubmitKeeps DEF JoinRoom
<1>6. CASE \E ok \in BOOLEAN : Answered(ok)
  <2>1. PICK ok \in BOOLEAN : Answered(ok)
    BY <1>6
  <2>2. pin' = "" /\ pending' = FALSE /\ request' = None
    BY <2>1 DEF Answered, Cleared
  <2>3. location' # None => location' \in stored'
    BY <2>1 DEF Answered, PinIsForgotten
  <2> QED BY <2>2, <2>3 DEF PinIsForgotten
<1>7. CASE Leave
  BY <1>7 DEF Leave, PinIsForgotten
<1>8. CASE UNCHANGED lobbyVars
  BY <1>8 DEF lobbyVars, PinIsForgotten
<1> QED BY <1>1, <1>2, <1>3, <1>4, <1>5, <1>6, <1>7, <1>8 DEF LobbyNext

(* Whatever the codes of the rooms, a PIN that was sent is gone when its
   request has completed, and the page goes only to a room whose token it
   keeps (lobby.js:14-23 and the finally blocks, README.md:229). *)
THEOREM PinsAreForgotten == ASSUME None \notin Rooms PROVE LobbySpec => []PinIsForgotten
<1>1. LobbyInit => PinIsForgotten
  BY DEF LobbyInit, PinIsForgotten
<1>2. PinIsForgotten /\ [LobbyNext]_lobbyVars => PinIsForgotten'
  BY StepKeepsForgetting
<1> QED BY <1>1, <1>2, PTL DEF LobbySpec
-----------------------------------------------------------------------------
(***************************************************************************)
(* The fallback sky has one cloud loop, for any set of request ids.        *)
(* OneCloudLoop is not inductive: it says nothing of the id that           *)
(* resetForResize cancels.  What is kept is that the only frame that may be *)
(* due is the one the page remembers, and that there is none before the    *)
(* clouds are set.                                                         *)
(***************************************************************************)

OnlyRemembered ==
  /\ frames \subseteq {cloudRAF}
  /\ ~clouds => frames = {}

(* The loop that goes on is the remembered one, whether it draws again or
   stops: animateClouds, of no other frame (room-renderer.js:137-157). *)
LEMMA AnimateKeeps ==
  ASSUME NEW kept, Animate({}, kept)
  PROVE  frames' \subseteq {cloudRAF'}
BY DEF Animate, Request

(* initClouds with no frame due leaves one at most, which it remembers
   (room-renderer.js:121-135). *)
LEMMA InitCloudsKeeps ==
  ASSUME NEW kept, InitClouds(FALSE, {}, kept)
  PROVE  OnlyRemembered'
BY AnimateKeeps DEF InitClouds, OnlyRemembered

(* Whatever the page does, no frame but the remembered one becomes due. *)
LEMMA StepKeepsRemembered == OnlyRemembered /\ [FallbackNext]_fallbackVars => OnlyRemembered'
<1> SUFFICES ASSUME OnlyRemembered, [FallbackNext]_fallbackVars PROVE OnlyRemembered'
  OBVIOUS
<1>1. CASE \E h \in frames : AnimateClouds(h)
  <2>1. PICK h \in frames : AnimateClouds(h)
    BY <1>1
  <2>2. frames \ {h} = {}
    BY <2>1 DEF OnlyRemembered
  <2>3. Animate({}, cloudRAF) /\ clouds' = clouds
    BY <2>1, <2>2 DEF AnimateClouds
  <2>4. clouds
    BY <2>1 DEF OnlyRemembered
  <2> QED BY <2>3, <2>4, AnimateKeeps DEF OnlyRemembered
<1>2. CASE \E dark \in BOOLEAN : RenderCelestial(dark)
  <2>1. PICK dark \in BOOLEAN : RenderCelestial(dark)
    BY <1>2
  <2>2. CASE Is3D
    BY <2>1, <2>2 DEF RenderCelestial, layerVars, OnlyRemembered
  <2>3. CASE ~Is3D /\ clouds
    BY <2>1, <2>3 DEF RenderCelestial, InitClouds, OnlyRemembered
  <2>4. CASE ~Is3D /\ ~clouds
    <3>1. InitClouds(FALSE, {}, cloudRAF)
      BY <2>1, <2>4 DEF RenderCelestial, InitClouds, OnlyRemembered
    <3> QED BY <3>1, InitCloudsKeeps
  <2> QED BY <2>2, <2>3, <2>4
<1>3. CASE ResetForResize
  <2>1. AfterCancel = {}
    BY DEF AfterCancel, OnlyRemembered
  <2>2. InitClouds(FALSE, {}, NoHandle)
    BY <1>3, <2>1 DEF ResetForResize
  <2> QED BY <2>2, InitCloudsKeeps
<1>4. CASE FirstFrame \/ EngineFails \/ PrefersMotion
  BY <1>4 DEF FirstFrame, EngineFails, PrefersMotion, layerVars, OnlyRemembered
<1>5. CASE UNCHANGED fallbackVars
  BY <1>5 DEF fallbackVars, layerVars, OnlyRemembered
<1> QED BY <1>1, <1>2, <1>3, <1>4, <1>5 DEF FallbackNext

(* For any set of request ids and any order of frames, resizes, preferences
   and failures of the engine, one loop at most draws the clouds
   (room-renderer.js:121-172). *)
THEOREM CloudsHaveOneLoop == FallbackSpec => []OneCloudLoop
<1>1. FallbackInit => OnlyRemembered
  BY DEF FallbackInit, OnlyRemembered
<1>2. OnlyRemembered => OneCloudLoop
  <2> SUFFICES ASSUME OnlyRemembered PROVE OneCloudLoop
    OBVIOUS
  <2>1. frames = {} \/ frames = {cloudRAF}
    BY DEF OnlyRemembered
  <2>2. Cardinality({}) = 0 /\ Cardinality({cloudRAF}) = 1
    BY FS_EmptySet, FS_Singleton
  <2> QED BY <2>1, <2>2 DEF OneCloudLoop
<1> QED BY <1>1, <1>2, StepKeepsRemembered, PTL DEF FallbackSpec

(***************************************************************************)
(* The time slider.  A position that a person drags to waits in the        *)
(* debounce timer, then in the channel to the room, then in the channel to *)
(* the page; WishIsOnItsWay of module TimeSlider says that it is always    *)
(* the last one there.                                                     *)
(***************************************************************************)
(* What is appended to a channel is the last of it. *)
LEMMA AppendedIsLast ==
  ASSUME NEW S, NEW q \in Seq(S), NEW x \in S, NEW rest
  PROVE  /\ Append(q, x) \in Seq(S)
         /\ Append(q, x) # <<>>
         /\ Slider!LastOf(Append(q, x), rest) = x
<1>1. Append(q, x) \in Seq(S) /\ Len(Append(q, x)) = Len(q) + 1 /\ Len(q) \in Nat
  OBVIOUS
<1>2. Append(q, x)[Len(q) + 1] = x
  OBVIOUS
<1>3. Append(q, x) # <<>>
  BY <1>1
<1> QED BY <1>1, <1>2, <1>3 DEF Slider!LastOf

(* Taking the first of a channel leaves the last one the last one. *)
LEMMA TakenKeepsLast ==
  ASSUME NEW S, NEW q \in Seq(S), q # <<>>, NEW rest
  PROVE  /\ Head(q) \in S
         /\ Tail(q) \in Seq(S)
         /\ Slider!LastOf(Tail(q), Head(q)) = Slider!LastOf(q, rest)
<1>1. Head(q) \in S /\ Head(q) = q[1] /\ Tail(q) \in Seq(S)
  OBVIOUS
<1>2. Len(q) \in Nat \ {0} /\ Len(Tail(q)) = Len(q) - 1
  OBVIOUS
<1>3. CASE Tail(q) = <<>>
  <2>1. Len(q) = 1
    BY <1>2, <1>3
  <2> QED BY <1>1, <1>3, <2>1 DEF Slider!LastOf
<1>4. CASE Tail(q) # <<>>
  <2>1. Len(Tail(q)) # 0
    BY <1>1, <1>4, EmptySeq
  <2>2. Tail(q)[Len(q) - 1] = q[Len(q)]
    BY <1>2, <2>1
  <2> QED BY <1>1, <1>2, <1>4, <2>2 DEF Slider!LastOf
<1> QED BY <1>1, <1>3, <1>4

(* Each step of the slider, of the room and of the connection keeps the last
   wish on its way. *)
LEMMA SliderStepKeeps ==
  Slider!WishIsOnItsWay /\ [Slider!Next]_(Slider!vars) => Slider!WishIsOnItsWay'
<1> SUFFICES ASSUME Slider!WishIsOnItsWay, [Slider!Next]_(Slider!vars)
             PROVE  Slider!WishIsOnItsWay'
  OBVIOUS
<1> DEFINE Values == Times \cup {Slider!RealTime}
<1> USE SliderAssumption
<1>0. v2 \in Seq(Values) /\ v3 \in Seq(Values) /\ v1 \in Values
  BY DEF Slider!WishIsOnItsWay
<1>1. ASSUME NEW time \in Times, Slider!Drag(time) PROVE Slider!WishIsOnItsWay'
  BY <1>1 DEF Slider!WishIsOnItsWay, Slider!Drag, Slider!Debounced, Slider!Wish
<1>2. CASE Slider!DebounceFires
  <2>1. v7 \in Times
    BY <1>2 DEF Slider!WishIsOnItsWay, Slider!DebounceFires
  <2>2. CASE v4
    <3>1. v2' = Append(v2, v7)
      BY <1>2, <2>2 DEF Slider!DebounceFires, Slider!Send
    <3>2. v2' \in Seq(Values) /\ v2' # <<>> /\ Slider!LastOf(v2', v1) = v7
      BY <1>0, <2>1, <3>1, AppendedIsLast
    <3> QED BY <1>2, <2>1, <2>2, <3>2 DEF Slider!WishIsOnItsWay, Slider!DebounceFires
  <2>3. CASE ~v4
    BY <1>2, <2>3 DEF Slider!WishIsOnItsWay, Slider!DebounceFires, Slider!Send
  <2> QED BY <2>2, <2>3
<1>3. CASE Slider!ResetTime
  <2>1. v2' \in Seq(Values)
    BY <1>0, <1>3, AppendedIsLast DEF Slider!ResetTime, Slider!Send
  <2> QED BY <1>3, <2>1 DEF Slider!WishIsOnItsWay, Slider!ResetTime
<1>4. CASE Slider!GuardEnds
  BY <1>4 DEF Slider!WishIsOnItsWay, Slider!GuardEnds, Slider!historyVars
<1>5. CASE Slider!ApplyState
  <2>1. v3 # <<>> /\ v3' = Tail(v3) /\ v5' = Slider!Synced(Head(v3))
    BY <1>5 DEF Slider!ApplyState
  <2>2. /\ v3' \in Seq(Values)
        /\ Slider!LastOf(v3', Head(v3)) = Slider!LastOf(v3, v5)
    BY <1>0, <2>1, TakenKeepsLast
  <2>3. v3' # <<>> => Slider!LastOf(v3', v5') = Slider!LastOf(v3, v5)
    BY <2>2 DEF Slider!LastOf
  <2>4. v3' = <<>> /\ ~v6 => v5' = Slider!LastOf(v3, v5)
    BY <2>1, <2>2 DEF Slider!LastOf, Slider!Synced
  <2>5. v6 => v5' = v5
    BY <2>1 DEF Slider!Synced
  <2>6. v3' = <<>> => Slider!LastOf(v3', v5') = v5'
    BY DEF Slider!LastOf
  <2>7. UNCHANGED <<v1, v2, v4, v6, v7, v8, v9>>
    BY <1>5 DEF Slider!ApplyState, Slider!historyVars
  <2> QED BY <2>2, <2>3, <2>4, <2>5, <2>6, <2>7 DEF Slider!WishIsOnItsWay
<1>6. CASE Slider!Commit
  <2>1. v2 # <<>> /\ v1' = Head(v2) /\ v2' = Tail(v2)
    BY <1>6 DEF Slider!Commit
  <2>2. /\ v1' \in Values /\ v2' \in Seq(Values)
        /\ Slider!LastOf(v2', v1') = Slider!LastOf(v2, v1)
    BY <1>0, <2>1, TakenKeepsLast
  <2>3. v2' = <<>> => v1' = Slider!LastOf(v2, v1)
    BY <2>2 DEF Slider!LastOf
  <2>4. CASE v4
    <3>1. v3' = Append(v3, v1')
      BY <1>6, <2>1, <2>4 DEF Slider!Commit, Slider!Broadcast
    <3>2. v3' \in Seq(Values) /\ Slider!LastOf(v3', v5) = v1'
      BY <1>0, <2>2, <3>1, AppendedIsLast
    <3>3. UNCHANGED <<v4, v5, v6, v7, v8, v9>>
      BY <1>6 DEF Slider!Commit, Slider!pageVars, Slider!historyVars
    <3> QED BY <2>2, <2>3, <3>2, <3>3 DEF Slider!WishIsOnItsWay
  <2>5. CASE ~v4
    <3>1. v3' = v3 /\ UNCHANGED <<v4, v5, v6, v7, v8, v9>>
      BY <1>6, <2>5 DEF Slider!Commit, Slider!Broadcast, Slider!pageVars,
         Slider!historyVars
    <3> QED BY <2>2, <2>5, <3>1 DEF Slider!WishIsOnItsWay
  <2> QED BY <2>4, <2>5
<1>7. CASE Slider!OthersOverride
  <2>1. PICK time \in Values : v1' = time /\ Slider!Broadcast(time)
    BY <1>7 DEF Slider!OthersOverride
  <2>2. v3' \in Seq(Values)
    BY <1>0, <2>1, AppendedIsLast DEF Slider!Broadcast
  <2>3. v9' /\ UNCHANGED <<v2, v7>>
    BY <1>7 DEF Slider!OthersOverride, Slider!pageVars
  <2> QED BY <2>1, <2>2, <2>3 DEF Slider!WishIsOnItsWay
<1>8. CASE Slider!Disconnect
  <2>1. PICK n \in 0..Len(v2) : v2' = SubSeq(v2, 1, n)
    BY <1>8 DEF Slider!Disconnect
  <2>2. v2' \in Seq(Values)
    BY <1>0, <2>1
  <2>3. v9' /\ v3' = <<>> /\ UNCHANGED <<v1, v7>>
    BY <1>8 DEF Slider!Disconnect, Slider!pageVars
  <2> QED BY <2>2, <2>3 DEF Slider!WishIsOnItsWay
<1>9. CASE Slider!Connect
  <2>1. v3' = <<v1>> /\ ~v4 /\ v4' /\ UNCHANGED <<v1, v2, v5, v6, v7, v8, v9>>
    BY <1>9 DEF Slider!Connect, Slider!pageVars, Slider!historyVars
  <2>2. v3' \in Seq(Values)
    BY <1>0, <2>1
  <2> QED BY <2>1, <2>2 DEF Slider!WishIsOnItsWay
<1>10. CASE UNCHANGED Slider!vars
  BY <1>10 DEF Slider!WishIsOnItsWay, Slider!vars, Slider!pageVars, Slider!historyVars
<1> QED
  BY <1>1, <1>2, <1>3, <1>4, <1>5, <1>6, <1>7, <1>8, <1>9, <1>10 DEF Slider!Next

(* For any positions of the slider, bounds and order of the debounce timer,
   the guard of 1500 ms, the two channels, other members and reconnections:
   when everything has arrived, the room and the slider are where the person
   dragged to last (timer-controls.js:51-73, 94-98). *)
THEOREM LastDragIsKept == PageSpec => []LastDragCounts
<1> DEFINE Inv == part = "slider" => Slider!WishIsOnItsWay
<1>1. PageInit => Inv
  <2> SUFFICES ASSUME PageInit, part = "slider" PROVE Slider!WishIsOnItsWay
    OBVIOUS
  <2>1. Slider!Init
    BY DEF PageInit
  <2>2. v1 \in Times \cup {Slider!RealTime} /\ v3 = <<v1>>
    BY <2>1 DEF Slider!Init
  <2>3. v3 \in Seq(Times \cup {Slider!RealTime})
    BY <2>2
  <2> QED BY <2>1, <2>2, <2>3, SliderAssumption DEF Slider!Init, Slider!WishIsOnItsWay
<1>2. Inv /\ [PageNext]_<<part, vars, lobbyVars, fallbackVars, slots>> => Inv'
  <2> SUFFICES ASSUME Inv, [PageNext]_<<part, vars, lobbyVars, fallbackVars, slots>>,
                      part' = "slider"
               PROVE  Slider!WishIsOnItsWay'
    OBVIOUS
  <2>1. part = "slider"
    BY DEF PageNext
  <2>2. [Slider!Next]_(Slider!vars)
    BY <2>1 DEF PageNext, slots, Slider!vars, Slider!pageVars, Slider!historyVars
  <2> QED BY <2>1, <2>2, SliderStepKeeps
<1>3. Inv => LastDragCounts
  BY DEF LastDragCounts, Slider!LastDragCounts, Slider!Quiet, Slider!WishIsOnItsWay,
     Slider!LastOf
<1> QED BY <1>1, <1>2, <1>3, PTL DEF PageSpec

-----------------------------------------------------------------------------
(***************************************************************************)
(* The dialogs, whose slots are the page (v1), the session (v2), the       *)
(* timers (v3), the awaits of the picker and of the prompt (v4, v5), and   *)
(* whether the session changed behind a dialog (v6).  Isolation remembers  *)
(* one dialog's surroundings at a time; a page is either without dialogs   *)
(* or modal for the one that is shown, and every call of dom.js leads from *)
(* one of the two to the other.                                            *)
(***************************************************************************)
\* What snapshots write to.
Rendering == {"dial", "pomodoro"}

\* What isolation remembers of the rest: closed dialogs are inert.
Remains(e) == IF e \in Dialogs!Docked THEN "inert" ELSE "live"

Freed(p) ==
  /\ p.shown = {} /\ p.root = Dialogs!None /\ ~p.class
  /\ \A e \in Dialogs!Elements : p.saved[e] = Dialogs!None
  /\ \A e \in Dialogs!Elements \ Rendering : p.inert[e] <=> e \in Dialogs!Docked
  /\ \A d \in Dialogs!Dialogs : p.opener[d] = "inactive"

Modal(p, d) ==
  /\ p.shown = {d} /\ p.root = d
  /\ \A e \in Dialogs!Elements \ Dialogs!Siblings(d) :
       /\ p.saved[e] = Dialogs!None
       /\ p.inert[e] <=> e \in Dialogs!Docked \ {d}
  /\ \A e \in Dialogs!Siblings(d) : p.saved[e] # Dialogs!None
  /\ \A e \in Dialogs!Siblings(d) \ Rendering : p.saved[e] = Remains(e) /\ p.inert[e]
  /\ d = "auth" => \A e \in Rendering : p.inert[e]
  /\ \A o \in Dialogs!Dialogs : p.opener[o] = "inactive" <=> o # d

\* What a snapshot wrote, or what isolation remembers of it.
Written(p, session) ==
  IF p.shown = {}
  THEN /\ p.inert["dial"] <=> session
       /\ p.inert["pomodoro"] <=> ~session
  ELSE /\ p.saved["dial"] = "inert" <=> session
       /\ p.saved["pomodoro"] = "inert" <=> ~session

\* The dialog that is shown, unless it is busy, has the focus if anything has.
HoldsFocus(p, switching) ==
  \A d \in p.shown : ~(d = "scene" /\ switching) => p.focus \in {d, Dialogs!None}

Kept(p) == Freed(p) \/ \E d \in Dialogs!Dialogs : Modal(p, d)

DialogInv ==
  /\ v1 \in Dialogs!Page
  /\ v4 \in BOOLEAN /\ v5 \in BOOLEAN /\ v6 \in BOOLEAN
  /\ Kept(v1)
  /\ ~v6 => Written(v1, Dialogs!Session(v2))
  /\ v5 => "auth" \in v1.shown
  /\ HoldsFocus(v1, v4)

\* Two pages that differ in their focus at most.
OnlyFocus(p, q) ==
  /\ q \in Dialogs!Page
  /\ q.inert = p.inert /\ q.saved = p.saved /\ q.root = p.root /\ q.shown = p.shown
  /\ q.class = p.class /\ q.opener = p.opener

Dialog == {"scene", "display", "exit", "auth"}

(* The elements and the dialogs, one by one. *)
LEMMA ElementsAreNine ==
  /\ Dialogs!Dialogs = Dialog
  /\ Dialogs!Docked = {"scene", "display", "exit"}
  /\ Dialogs!Elements = {"dial", "pomodoro", "center", "controls", "auth",
                         "scene", "display", "exit", "bar"}
  /\ Dialogs!Siblings("auth") = {"dial", "pomodoro", "center", "controls"}
  /\ \A d \in Dialogs!Docked :
       Dialogs!Siblings(d) = {"dial", "pomodoro", "center", "auth", "bar",
                              "scene", "display", "exit"} \ {d}
BY DEF Dialogs!Dialogs, Dialogs!Docked, Dialogs!Elements, Dialogs!Body, Dialogs!Siblings,
       Dialog

(* What is remembered does not depend on the focus. *)
LEMMA FocusDecidesNothing ==
  ASSUME NEW p, NEW q, OnlyFocus(p, q)
  PROVE  /\ Freed(p) => Freed(q)
         /\ \A d : Modal(p, d) => Modal(q, d)
         /\ Kept(p) => Kept(q)
         /\ \A s : Written(p, s) => Written(q, s)
<1>1. Freed(p) => Freed(q)
  BY DEF OnlyFocus, Freed
<1>2. \A d : Modal(p, d) => Modal(q, d)
  BY DEF OnlyFocus, Modal
<1>3. \A s : Written(p, s) => Written(q, s)
  BY DEF OnlyFocus, Written
<1> QED BY <1>1, <1>2, <1>3 DEF Kept

(* focusInitial and focus() change the focus only. *)
LEMMA FocusedKeeps ==
  ASSUME NEW p \in Dialogs!Page, NEW t
  PROVE  /\ OnlyFocus(p, Dialogs!Focused(p, t))
         /\ \A d \in Dialog : OnlyFocus(p, Dialogs!Initially(p, d))
<1> DEFINE Places == {Dialogs!None, "bar", "center", "pomodoro"} \cup Dialog
<1>1. ASSUME NEW q \in Dialogs!Page, OnlyFocus(p, q), NEW f \in Places
      PROVE  OnlyFocus(p, [q EXCEPT !.focus = f])
  BY <1>1, ElementsAreNine DEF OnlyFocus, Dialogs!Page
<1>2. OnlyFocus(p, p)
  BY DEF OnlyFocus
<1>3. ASSUME NEW q \in Dialogs!Page, OnlyFocus(p, q), NEW d \in Dialog
      PROVE  OnlyFocus(p, Dialogs!Initially(q, d))
  BY <1>1, <1>3 DEF Dialogs!Initially
<1>4. ASSUME Dialogs!Takes(p, t) PROVE t \in Places
  BY <1>4, ElementsAreNine DEF Dialogs!Takes, Dialogs!Page
<1>5. OnlyFocus(p, Dialogs!Focused(p, t))
  <2>1. CASE ~Dialogs!Takes(p, t)
    BY <1>2, <2>1 DEF Dialogs!Focused
  <2>2. CASE Dialogs!Takes(p, t)
    <3> DEFINE there == [p EXCEPT !.focus = t]
               others == Dialogs!Trapping(p) \ {t}
    <3>1. OnlyFocus(p, there) /\ there \in Dialogs!Page
      BY <1>1, <1>2, <1>4, <2>2 DEF OnlyFocus
    <3>2. others \subseteq Dialog
      BY ElementsAreNine DEF Dialogs!Trapping
    <3>3. others # {} => (CHOOSE d \in others : TRUE) \in Dialog
      BY <3>2
    <3>4. Dialogs!Focused(p, t) = IF others = {} THEN there
                                  ELSE Dialogs!Initially(there, CHOOSE d \in others : TRUE)
      BY <2>2 DEF Dialogs!Focused
    <3> HIDE DEF there, others
    <3> QED BY <1>3, <3>1, <3>3, <3>4
  <2> QED BY <2>1, <2>2
<1> QED BY <1>2, <1>3, <1>5

(* The end of a task: the focus stays where it is, or nobody has it.        *)
LEMMA RenderedKeeps ==
  ASSUME NEW p \in Dialogs!Page, Dialogs!Rendered(p)
  PROVE  /\ OnlyFocus(p, v1')
         /\ \/ v1'.focus = Dialogs!None
            \/ v1'.focus = p.focus /\ Dialogs!Takes(p, p.focus)
<1>1. CASE Dialogs!Takes(p, p.focus)
  BY <1>1 DEF Dialogs!Rendered, OnlyFocus
<1>2. CASE ~Dialogs!Takes(p, p.focus)
  <2>1. v1' = [p EXCEPT !.focus = Dialogs!None]
    BY <1>2 DEF Dialogs!Rendered
  <2> QED BY <2>1 DEF OnlyFocus, Dialogs!Page
<1> QED BY <1>1, <1>2

(* Behind a dialog nothing but the pomodoro, which a snapshot may uncover,  *)
(* takes the focus; and the dialog does, unless it is busy.                 *)
LEMMA OnlyTheDialogTakes ==
  ASSUME NEW p \in Dialogs!Page, NEW d \in Dialog, Modal(p, d)
  PROVE  /\ \A t : Dialogs!Takes(p, t) => t = d \/ (t = "pomodoro" /\ ~p.inert[t] /\ d # "auth")
         /\ d # "auth" /\ ~(d = "scene" /\ v4') => Dialogs!Takes(p, d)
<1>1. p.shown = {d} /\ p.inert["center"]
  BY ElementsAreNine DEF Modal, Dialog, Rendering
<1>2. p.inert["bar"] \/ p.inert["controls"]
  BY ElementsAreNine DEF Modal, Dialog, Rendering
<1>3. d = "auth" => p.inert["pomodoro"]
  BY DEF Modal, Rendering
<1>4. d # "auth" => ~p.inert[d] /\ ~p.inert["controls"]
  BY ElementsAreNine DEF Modal, Dialog
<1>5. ASSUME NEW t, Dialogs!Takes(p, t)
      PROVE  t = d \/ (t = "pomodoro" /\ ~p.inert[t] /\ d # "auth")
  BY <1>1, <1>2, <1>3, <1>5 DEF Dialogs!Takes
<1>6. d # "auth" /\ ~(d = "scene" /\ v4') => Dialogs!Takes(p, d)
  BY <1>1, <1>4 DEF Dialogs!Takes, Dialog, Dialogs!None
<1> QED BY <1>5, <1>6

(* A control that is focused behind a dialog loses the focus to it.         *)
LEMMA DialogsKeepFocus ==
  ASSUME NEW p \in Dialogs!Page, NEW d \in Dialog, Modal(p, d), NEW t,
         d # "auth" /\ ~(d = "scene" /\ v4')
  PROVE  Dialogs!Focused(p, t).focus \in {d, p.focus}
<1> DEFINE there == [p EXCEPT !.focus = t]
           others == Dialogs!Trapping(p) \ {t}
<1>1. CASE ~Dialogs!Takes(p, t)
  BY <1>1 DEF Dialogs!Focused
<1>2. CASE Dialogs!Takes(p, t)
  <2>1. Dialogs!Trapping(p) = {d}
    BY ElementsAreNine DEF Dialogs!Trapping, Modal
  <2>2. Dialogs!Focused(p, t) = IF others = {} THEN there
                                ELSE Dialogs!Initially(there, CHOOSE x \in others : TRUE)
    BY <1>2 DEF Dialogs!Focused
  <2>3. there.focus = t /\ there \in Dialogs!Page /\ OnlyFocus(p, there)
    <3>1. t \in {Dialogs!None, "bar", "center", "pomodoro"} \cup Dialog
      BY <1>2, OnlyTheDialogTakes
    <3> QED BY <3>1, ElementsAreNine DEF Dialogs!Page, OnlyFocus
  <2>4. CASE t = d
    BY <2>1, <2>2, <2>3, <2>4
  <2>5. CASE t # d
    <3>1. others = {d} /\ (CHOOSE x \in others : TRUE) = d
      BY <2>1, <2>5
    <3>2. Modal(there, d)
      BY <2>3, FocusDecidesNothing
    <3> HIDE DEF there, others
    <3>3. Dialogs!Takes(there, d)
      BY <2>3, <3>2, OnlyTheDialogTakes
    <3>4. Dialogs!Focused(p, t) = [there EXCEPT !.focus = d]
      BY <2>2, <3>1, <3>3 DEF Dialogs!Initially
    <3> QED BY <2>3, <3>4 DEF Dialogs!Page
  <2> QED BY <2>4, <2>5
<1> QED BY <1>1, <1>2

(* createFocusTrap.deactivate of a trap that is not active.                 *)
LEMMA NothingToClose ==
  ASSUME NEW p \in Dialogs!Page, Kept(p), NEW d \in Dialog, d \notin p.shown
  PROVE  LET q == Dialogs!Closed(p, d)
         IN  /\ q \in Dialogs!Page
             /\ q.inert = p.inert /\ q.saved = p.saved /\ q.root = p.root
             /\ q.shown = p.shown /\ q.opener = p.opener /\ q.focus = p.focus
             /\ ~q.class
<1>1. p.root # d /\ p.opener[d] = "inactive"
  BY ElementsAreNine DEF Kept, Freed, Modal, Dialogs!None, Dialog
<1>2. d # "auth" => p.inert[d]
  BY ElementsAreNine DEF Kept, Freed, Modal, Dialog, Rendering
<1>3. Dialogs!Released(Dialogs!Exposed(p, d), d, d # "exit") = p
  BY <1>1 DEF Dialogs!Exposed, Dialogs!Released
<1> DEFINE value == IF d = "auth" THEN p.inert[d] ELSE TRUE
           inert == [p.inert EXCEPT ![d] = value]
           left == p.shown \ {d}
<1>4. p.inert \in [Dialogs!Elements -> BOOLEAN] /\ d \in Dialogs!Elements
  BY ElementsAreNine DEF Dialogs!Page, Dialog
<1>5. left = p.shown /\ inert = p.inert
  <2>1. value = p.inert[d]
    BY <1>2, <1>4
  <2> HIDE DEF value
  <2>2. inert = p.inert
    BY <1>4, <2>1
  <2> QED BY <2>2
<1>6. Dialogs!Closed(p, d)
        = [p EXCEPT !.inert = inert, !.shown = left, !.class = FALSE]
  BY <1>3 DEF Dialogs!Closed
<1> HIDE DEF inert, left
<1> QED BY <1>5, <1>6 DEF Dialogs!Page

(* Closing the dialog that is shown gives everything back as it was.        *)
LEMMA ClosingFrees ==
  ASSUME NEW p \in Dialogs!Page, NEW d \in Dialog, Modal(p, d)
  PROVE  LET q == Dialogs!Closed(p, d)
         IN  /\ q \in Dialogs!Page /\ Freed(q)
             /\ \A on \in BOOLEAN : Written(p, on) => Written(q, on)
<1> DEFINE around == Dialogs!Siblings(d)
           own == {e \in around : p.saved[e] # Dialogs!None}
           saved == [e \in Dialogs!Elements |-> IF e \in own THEN Dialogs!None ELSE p.saved[e]]
           inert == [e \in Dialogs!Elements |-> IF e \in own THEN p.saved[e] = "inert"
                                                ELSE p.inert[e]]
           exposed == [p EXCEPT !.saved = saved, !.inert = inert, !.root = Dialogs!None]
           free == [exposed EXCEPT !.opener[d] = "inactive"]
           back == Dialogs!Released(exposed, d, d # "exit")
           closed == [back.inert EXCEPT ![d] = IF d = "auth" THEN back.inert[d] ELSE TRUE]
           left == back.shown \ {d}
           q == Dialogs!Closed(p, d)
<1>1. own = around
  BY DEF Modal
<1>2. Dialogs!Exposed(p, d) = exposed
  BY DEF Dialogs!Exposed, Dialogs!Uncovered, Modal, Dialogs!Page
<1>3. /\ saved \in [Dialogs!Elements -> {Dialogs!None, "inert", "live"}]
      /\ inert \in [Dialogs!Elements -> BOOLEAN]
  BY DEF Dialogs!Page
<1>4. \A e \in Dialogs!Elements : saved[e] = Dialogs!None
  BY <1>1, ElementsAreNine DEF Modal
<1>5. ASSUME NEW e \in Dialogs!Elements \ Rendering
      PROVE  inert[e] <=> e \in Dialogs!Docked \ {d}
  <2>1. CASE e \in around
    <3>1. inert[e] <=> e \in Dialogs!Docked
      BY <1>1, <2>1 DEF Modal, Remains
    <3>2. e # d
      BY <2>1, ElementsAreNine DEF Dialog
    <3> QED BY <3>1, <3>2
  <2>2. CASE e \notin around
    <3>1. inert[e] = p.inert[e]
      BY <1>1, <2>2
    <3> QED BY <2>2, <3>1 DEF Modal
  <2> QED BY <2>1, <2>2
<1>6. \A e \in Rendering : inert[e] <=> p.saved[e] = "inert"
  BY <1>1, ElementsAreNine DEF Rendering, Dialog
<1> HIDE DEF saved, inert
<1>7. /\ exposed \in Dialogs!Page
      /\ exposed.saved = saved /\ exposed.inert = inert /\ exposed.root = Dialogs!None
      /\ exposed.shown = p.shown /\ exposed.opener = p.opener
  BY <1>3 DEF Dialogs!Page
<1> HIDE DEF exposed
<1>8. /\ free \in Dialogs!Page
      /\ free.saved = saved /\ free.inert = inert /\ free.root = Dialogs!None
      /\ free.shown = p.shown
      /\ \A o \in Dialog : free.opener[o] = "inactive"
  BY <1>7, ElementsAreNine DEF Dialogs!Page, Modal
<1>9. exposed.opener[d] # "inactive"
  BY <1>7, ElementsAreNine DEF Modal
<1> HIDE DEF free
<1>10. OnlyFocus(free, back)
  <2>1. back = IF d # "exit" THEN Dialogs!Focused(free, exposed.opener[d]) ELSE free
    BY <1>9 DEF Dialogs!Released, free
  <2> QED BY <1>8, <2>1, FocusedKeeps DEF OnlyFocus
<1>11. q = [back EXCEPT !.inert = closed, !.shown = left, !.class = FALSE]
  BY <1>2 DEF Dialogs!Closed
<1> HIDE DEF back, q
<1>12. closed \in [Dialogs!Elements -> BOOLEAN]
  BY <1>8, <1>10, ElementsAreNine DEF OnlyFocus, Dialogs!Page
<1>13. \A e \in Dialogs!Elements :
         closed[e] = IF e = d THEN (IF d = "auth" THEN inert[d] ELSE TRUE) ELSE inert[e]
  BY <1>3, <1>8, <1>10, ElementsAreNine DEF OnlyFocus
<1> HIDE DEF closed
<1>14. left = {}
  BY <1>8, <1>10 DEF OnlyFocus, Modal
<1> HIDE DEF left
<1>15. /\ q \in Dialogs!Page
       /\ q.saved = saved /\ q.inert = closed /\ q.root = Dialogs!None
       /\ q.shown = {} /\ ~q.class
       /\ \A o \in Dialog : q.opener[o] = "inactive"
  BY <1>8, <1>10, <1>11, <1>12, <1>14 DEF OnlyFocus, Dialogs!Page
<1>16. \A e \in Dialogs!Elements \ Rendering : q.inert[e] <=> e \in Dialogs!Docked
  BY <1>5, <1>13, <1>15, ElementsAreNine DEF Dialog, Rendering
<1>17. Freed(q)
  BY <1>4, <1>15, <1>16, ElementsAreNine DEF Freed
<1>18. ASSUME NEW on \in BOOLEAN, Written(p, on) PROVE Written(q, on)
  <2>1. /\ q.inert["dial"] = inert["dial"]
        /\ q.inert["pomodoro"] = inert["pomodoro"]
    BY <1>13, <1>15, ElementsAreNine DEF Dialog
  <2>2. /\ p.saved["dial"] = "inert" <=> on
        /\ p.saved["pomodoro"] = "inert" <=> ~on
    BY <1>18 DEF Written, Modal
  <2> QED BY <1>6, <1>15, <2>1, <2>2 DEF Written, Rendering
<1> QED BY <1>15, <1>17, <1>18 DEF q

(* Opening a dialog remembers its surroundings, and covers them.            *)
LEMMA OpeningCovers ==
  ASSUME NEW p \in Dialogs!Page, NEW d \in Dialog, Freed(p)
  PROVE  LET q == Dialogs!Opened(p, d)
         IN  /\ q \in Dialogs!Page /\ Modal(q, d)
             /\ q.inert["pomodoro"]
             /\ \A on \in BOOLEAN : Written(p, on) => Written(q, on)
<1> DEFINE value == IF d = "auth" THEN p.inert[d] ELSE FALSE
           seen == p.shown \cup {d}
           begun == [p.inert EXCEPT ![d] = value]
           there == [p EXCEPT !.shown = seen, !.inert = begun, !.class = TRUE]
           around == Dialogs!Siblings(d)
           new == {e \in around : there.saved[e] = Dialogs!None}
           saved == [e \in Dialogs!Elements |->
                       IF e \notin new THEN there.saved[e]
                       ELSE IF there.inert[e] THEN "inert" ELSE "live"]
           inert == [e \in Dialogs!Elements |-> e \in new \/ there.inert[e]]
           alone == [there EXCEPT !.saved = saved, !.inert = inert, !.root = d]
           q == Dialogs!Opened(p, d)
<1>1. Dialogs!Cleared(p, d) = p
  BY DEF Dialogs!Cleared, Freed
<1>2. p.inert \in [Dialogs!Elements -> BOOLEAN] /\ d \in Dialogs!Elements
  BY ElementsAreNine DEF Dialogs!Page, Dialog
<1>3. d = "auth" => ~p.inert[d]
  BY ElementsAreNine DEF Freed, Rendering
<1>4. seen = {d} /\ value = FALSE
  BY <1>2, <1>3 DEF Freed
<1> HIDE DEF seen, value
<1>5. /\ begun \in [Dialogs!Elements -> BOOLEAN]
      /\ \A e \in Dialogs!Elements : begun[e] <=> e # d /\ p.inert[e]
  BY <1>2, <1>4
<1> HIDE DEF begun
<1>6. /\ there \in Dialogs!Page
      /\ there.shown = {d} /\ there.inert = begun
      /\ there.saved = p.saved /\ there.root = Dialogs!None
      /\ there.opener = p.opener /\ there.focus = p.focus
  BY <1>4, <1>5, ElementsAreNine DEF Dialogs!Page, Freed
<1> HIDE DEF there
<1>7. around \subseteq Dialogs!Elements
  BY ElementsAreNine DEF Dialog
<1>8. new = around
  BY <1>6, <1>7 DEF Freed
<1> HIDE DEF new, around
<1>9. Dialogs!Isolated(there, d) = alone
  BY <1>6 DEF Dialogs!Isolated, Dialogs!Covered, new, around
<1>10. /\ saved \in [Dialogs!Elements -> {Dialogs!None, "inert", "live"}]
       /\ inert \in [Dialogs!Elements -> BOOLEAN]
  <2>1. there.saved \in [Dialogs!Elements -> {Dialogs!None, "inert", "live"}]
    BY <1>6 DEF Dialogs!Page
  <2> QED BY <1>5, <1>6, <2>1
<1>11. \A e \in Dialogs!Elements \ around : saved[e] = Dialogs!None /\ inert[e] = begun[e]
  BY <1>5, <1>6, <1>8 DEF Freed
<1>12. \A e \in around : saved[e] = (IF begun[e] THEN "inert" ELSE "live") /\ inert[e]
  BY <1>6, <1>7, <1>8
<1> HIDE DEF saved, inert
<1>13. /\ alone \in Dialogs!Page
       /\ alone.shown = {d} /\ alone.root = d
       /\ alone.saved = saved /\ alone.inert = inert
       /\ alone.opener = p.opener /\ alone.focus = p.focus
  BY <1>6, <1>10, ElementsAreNine DEF Dialogs!Page
<1> HIDE DEF alone
<1>14. q = [alone EXCEPT !.opener[d] = alone.focus]
  <2>1. alone.opener[d] = "inactive"
    BY <1>13, ElementsAreNine DEF Freed
  <2>2. Dialogs!Opened(p, d) = Dialogs!Trapped(Dialogs!Isolated(there, d), d)
    BY <1>1 DEF Dialogs!Opened, there, seen, begun, value
  <2> QED BY <1>9, <2>1, <2>2 DEF Dialogs!Trapped
<1> HIDE DEF q
<1>15. /\ q \in Dialogs!Page
       /\ q.shown = {d} /\ q.root = d /\ q.saved = saved /\ q.inert = inert
       /\ \A o \in Dialog : q.opener[o] = "inactive" <=> o # d
  <2>1. alone.focus \in {Dialogs!None, "bar", "center", "pomodoro"} \cup Dialog
    BY <1>13, ElementsAreNine DEF Dialogs!Page
  <2>2. alone.focus # "inactive"
    BY <2>1 DEF Dialog, Dialogs!None
  <2>3. p.opener \in [Dialog -> {Dialogs!None, "inactive", "bar", "center", "pomodoro"}
                                 \cup Dialog]
    BY ElementsAreNine DEF Dialogs!Page
  <2>4. \A o \in Dialog : p.opener[o] = "inactive"
    BY ElementsAreNine DEF Freed
  <2> QED BY <1>13, <1>14, <2>1, <2>2, <2>3, <2>4, ElementsAreNine DEF Dialogs!Page
<1>16. \A e \in Dialogs!Elements \ Rendering : begun[e] <=> e \in Dialogs!Docked \ {d}
  BY <1>5 DEF Freed
<1>17. Modal(q, d)
  <2>1. \A e \in Dialogs!Elements \ around : e \notin Rendering
    BY ElementsAreNine DEF around, Rendering, Dialog
  <2>2. \A e \in Dialogs!Elements \ around :
          q.saved[e] = Dialogs!None /\ (q.inert[e] <=> e \in Dialogs!Docked \ {d})
    BY <1>11, <1>15, <1>16, <2>1
  <2>3. \A e \in around : q.saved[e] # Dialogs!None /\ q.inert[e]
    BY <1>12, <1>15 DEF Dialogs!None
  <2>4. \A e \in around \ Rendering : q.saved[e] = Remains(e)
    <3>1. d \notin around
      BY ElementsAreNine DEF around, Dialog
    <3> QED BY <1>7, <1>12, <1>15, <1>16, <3>1 DEF Remains
  <2>5. \A e \in Rendering : e \in around
    BY ElementsAreNine DEF around, Rendering, Dialog
  <2> QED BY <1>15, <2>2, <2>3, <2>4, <2>5, ElementsAreNine DEF Modal, around
<1>18. ASSUME NEW on \in BOOLEAN, Written(p, on) PROVE Written(q, on)
  <2>1. "dial" \in around /\ "pomodoro" \in around /\ d # "dial" /\ d # "pomodoro"
    BY ElementsAreNine DEF around, Dialog
  <2>2. /\ p.inert["dial"] <=> on
        /\ p.inert["pomodoro"] <=> ~on
    BY <1>18 DEF Written, Freed
  <2>3. (begun["dial"] <=> on) /\ (begun["pomodoro"] <=> ~on)
    BY <1>5, <1>7, <2>1, <2>2
  <2> QED BY <1>12, <1>15, <2>1, <2>3 DEF Written
<1>19. q.inert["pomodoro"]
  BY <1>12, <1>15, ElementsAreNine DEF around, Dialog
<1> QED BY <1>15, <1>17, <1>18, <1>19 DEF q

(* A dialog that opens over another one closes that first.                  *)
LEMMA OpeningReplaces ==
  ASSUME NEW p \in Dialogs!Page, Kept(p), NEW d \in Dialog, d \notin p.shown,
         "auth" \notin p.shown
  PROVE  LET q == Dialogs!Opened(p, d)
         IN  /\ q \in Dialogs!Page /\ Modal(q, d)
             /\ q.inert["pomodoro"]
             /\ \A on \in BOOLEAN : Written(p, on) => Written(q, on)
<1>1. CASE Freed(p)
  BY <1>1, OpeningCovers
<1>2. CASE ~Freed(p)
  <2>1. PICK x \in Dialog : Modal(p, x)
    BY <1>2, ElementsAreNine DEF Kept
  <2> DEFINE a == Dialogs!Closed(p, x)
  <2>2. a \in Dialogs!Page /\ Freed(a) /\ \A on \in BOOLEAN : Written(p, on) => Written(a, on)
    BY <2>1, ClosingFrees
  <2>3. (p.shown \cap Dialogs!Docked) \ {d} = {x}
    <3>1. p.shown = {x} /\ x # d /\ x # "auth"
      BY <2>1 DEF Modal
    <3>2. x \in Dialogs!Docked
      BY <3>1, ElementsAreNine DEF Dialog
    <3> QED BY <3>1, <3>2
  <2>4. Dialogs!Cleared(p, d) = a
    BY <2>3 DEF Dialogs!Cleared
  <2> HIDE DEF a
  <2>5. Dialogs!Cleared(a, d) = a
    BY <2>2 DEF Dialogs!Cleared, Freed
  <2>6. Dialogs!Opened(p, d) = Dialogs!Opened(a, d)
    BY <2>4, <2>5 DEF Dialogs!Opened
  <2> QED BY <2>2, <2>6, OpeningCovers
<1> QED BY <1>1, <1>2

\* The pomodoro does not have the focus behind a dialog that could take it.
Guarded(p, switching) ==
  \A d \in p.shown \ {"auth"} :
    ~(d = "scene" /\ switching) => p.focus # "pomodoro" \/ p.inert["pomodoro"]

(* What holds before the end of a task holds after it.                      *)
LEMMA TasksEnd ==
  ASSUME NEW p \in Dialogs!Page, Dialogs!Rendered(p), Kept(p), Guarded(p, v4')
  PROVE  /\ v1' \in Dialogs!Page /\ Kept(v1')
         /\ v1'.shown = p.shown
         /\ \A on \in BOOLEAN : Written(p, on) => Written(v1', on)
         /\ HoldsFocus(v1', v4')
<1>1. /\ OnlyFocus(p, v1')
      /\ \/ v1'.focus = Dialogs!None
         \/ v1'.focus = p.focus /\ Dialogs!Takes(p, p.focus)
  BY RenderedKeeps
<1>2. v1' \in Dialogs!Page /\ v1'.shown = p.shown
  BY <1>1 DEF OnlyFocus
<1>3. Kept(v1') /\ \A on : Written(p, on) => Written(v1', on)
  BY <1>1, FocusDecidesNothing
<1>4. ASSUME NEW d \in p.shown, ~(d = "scene" /\ v4')
      PROVE  v1'.focus \in {d, Dialogs!None}
  <2>1. d \in Dialog /\ Modal(p, d)
    BY <1>4, ElementsAreNine DEF Kept, Freed, Modal
  <2>2. CASE v1'.focus = Dialogs!None
    BY <2>2
  <2>3. CASE v1'.focus = p.focus /\ Dialogs!Takes(p, p.focus)
    BY <1>4, <2>1, <2>3, OnlyTheDialogTakes DEF Guarded
  <2> QED BY <1>1, <2>2, <2>3
<1> QED BY <1>2, <1>3, <1>4 DEF HoldsFocus

(* The invariant after a task, from what holds before its end.              *)
LEMMA TasksKeep ==
  ASSUME NEW p \in Dialogs!Page, Dialogs!Rendered(p), Kept(p), Guarded(p, v4'),
         v4' \in BOOLEAN, v5' \in BOOLEAN, v6' \in BOOLEAN,
         ~v6' => Written(p, Dialogs!Session(v2')),
         v5' => "auth" \in p.shown
  PROVE  DialogInv'
<1>1. /\ v1' \in Dialogs!Page /\ Kept(v1') /\ HoldsFocus(v1', v4')
      /\ v1'.shown = p.shown
      /\ \A on \in BOOLEAN : Written(p, on) => Written(v1', on)
  BY TasksEnd
<1>2. Dialogs!Session(v2') \in BOOLEAN
  BY DEF Dialogs!Session
<1>3. ~v6' => Written(v1', Dialogs!Session(v2'))
  BY <1>1, <1>2
<1> QED BY <1>1, <1>3 DEF DialogInv, Dialogs!Session

(* The dialog that is shown.                                                *)
LEMMA ShownIsModal ==
  ASSUME NEW p \in Dialogs!Page, Kept(p)
  PROVE  /\ Freed(p) <=> p.shown = {}
         /\ \A d \in p.shown : d \in Dialog /\ Modal(p, d) /\ p.shown = {d}
BY ElementsAreNine DEF Kept, Freed, Modal

(* A click on an opener, which nobody can reach behind a dialog.            *)
LEMMA OpenIsolates ==
  ASSUME DialogInv, NEW d \in Dialogs!Docked, Dialogs!Open(d)
  PROVE  DialogInv'
<1> DEFINE p == Dialogs!Focused(v1, "bar")
           q == Dialogs!Opened(p, d)
<1>1. /\ v1 \in Dialogs!Page /\ Kept(v1)
      /\ Dialogs!Takes(v1, "bar")
      /\ Dialogs!Rendered(q)
      /\ UNCHANGED <<v2, v4, v5, v6>>
  BY DEF DialogInv, Dialogs!Open
<1>. d \in Dialog
  BY ElementsAreNine DEF Dialog
<1>2. Freed(v1)
  <2>1. ASSUME NEW x \in Dialog, Modal(v1, x) PROVE FALSE
    BY <1>1, <2>1, OnlyTheDialogTakes DEF Dialog
  <2> QED BY <1>1, <2>1, ElementsAreNine DEF Kept
<1>3. p \in Dialogs!Page /\ Freed(p) /\ \A on : Written(v1, on) => Written(p, on)
  <2>1. OnlyFocus(v1, p)
    BY <1>1, FocusedKeeps
  <2> HIDE DEF p
  <2> QED BY <1>2, <2>1, FocusDecidesNothing DEF OnlyFocus
<1> HIDE DEF p
<1>4. /\ q \in Dialogs!Page /\ Modal(q, d)
      /\ q.inert["pomodoro"]
      /\ \A on \in BOOLEAN : Written(p, on) => Written(q, on)
  BY <1>1, <1>3, OpeningCovers
<1> HIDE DEF q
<1>5. Kept(q) /\ Guarded(q, v4')
  BY <1>1, <1>4, ElementsAreNine DEF Kept, Guarded
<1>6. ~v5
  BY <1>2 DEF DialogInv, Freed
<1>7. Dialogs!Session(v2) \in BOOLEAN
  BY DEF Dialogs!Session
<1>8. ~v6 => Written(q, Dialogs!Session(v2))
  BY <1>3, <1>4, <1>7 DEF DialogInv
<1> QED BY <1>1, <1>4, <1>5, <1>6, <1>8, TasksKeep DEF DialogInv

(* Escape, or the closing button.                                           *)
LEMMA CloseFrees ==
  ASSUME DialogInv, NEW d \in Dialogs!Docked, Dialogs!Close(d)
  PROVE  DialogInv'
<1> DEFINE q == Dialogs!Closed(v1, d)
<1>1. /\ v1 \in Dialogs!Page /\ Kept(v1)
      /\ d \in v1.shown
      /\ Dialogs!Rendered(q)
      /\ UNCHANGED <<v2, v4, v5, v6>>
  BY DEF DialogInv, Dialogs!Close, Dialogs!Usable
<1>. d \in Dialog /\ d # "auth"
  BY ElementsAreNine DEF Dialog
<1>2. Modal(v1, d) /\ v1.shown = {d}
  BY <1>1, ShownIsModal
<1>3. /\ q \in Dialogs!Page /\ Freed(q)
      /\ \A on \in BOOLEAN : Written(v1, on) => Written(q, on)
  BY <1>1, <1>2, ClosingFrees
<1> HIDE DEF q
<1>4. Kept(q) /\ Guarded(q, v4')
  BY <1>3 DEF Kept, Guarded, Freed
<1>5. ~v5
  BY <1>1, <1>2 DEF DialogInv
<1>6. Dialogs!Session(v2) \in BOOLEAN
  BY DEF Dialogs!Session
<1>7. ~v6 => Written(q, Dialogs!Session(v2))
  BY <1>3, <1>6 DEF DialogInv
<1> QED BY <1>1, <1>3, <1>4, <1>5, <1>7, TasksKeep DEF DialogInv

(* The click on a scene.                                                    *)
LEMMA SceneChoiceKeeps ==
  ASSUME DialogInv, Dialogs!ChooseScene
  PROVE  DialogInv'
<1> DEFINE p == [v1 EXCEPT !.focus = "scene"]
<1>1. /\ v1 \in Dialogs!Page /\ Kept(v1)
      /\ "scene" \in v1.shown
      /\ Dialogs!Rendered(p)
      /\ v4' = TRUE /\ UNCHANGED <<v2, v5, v6>>
  BY DEF DialogInv, Dialogs!ChooseScene, Dialogs!Usable
<1>2. OnlyFocus(v1, p) /\ p \in Dialogs!Page /\ p.focus = "scene"
  BY <1>1, ElementsAreNine DEF OnlyFocus, Dialogs!Page, Dialog
<1> HIDE DEF p
<1>3. Kept(p) /\ \A on : Written(v1, on) => Written(p, on)
  BY <1>1, <1>2, FocusDecidesNothing
<1>4. Guarded(p, v4')
  BY <1>2 DEF Guarded
<1>5. v5' => "auth" \in p.shown
  BY <1>1, <1>2 DEF DialogInv, OnlyFocus
<1>6. ~v6' => Written(p, Dialogs!Session(v2'))
  BY <1>1, <1>3 DEF DialogInv
<1> QED BY <1>1, <1>2, <1>3, <1>4, <1>5, <1>6, TasksKeep DEF DialogInv

(* close of a dialog that is not shown takes the class away, and no more.   *)
LEMMA OnlyClassGoes ==
  ASSUME NEW p \in Dialogs!Page, Kept(p), NEW d \in Dialog, d \notin p.shown
  PROVE  LET q == Dialogs!Closed(p, d)
         IN  /\ q \in Dialogs!Page /\ Kept(q)
             /\ q.shown = p.shown /\ q.focus = p.focus /\ q.inert = p.inert
             /\ \A on : Written(p, on) => Written(q, on)
<1> DEFINE q == Dialogs!Closed(p, d)
<1>1. /\ q \in Dialogs!Page
      /\ q.inert = p.inert /\ q.saved = p.saved /\ q.root = p.root
      /\ q.shown = p.shown /\ q.opener = p.opener /\ q.focus = p.focus
      /\ ~q.class
  BY NothingToClose
<1> HIDE DEF q
<1>2. Kept(q)
  BY <1>1 DEF Kept, Freed, Modal
<1>3. \A on : Written(p, on) => Written(q, on)
  BY <1>1 DEF Written
<1> QED BY <1>1, <1>2, <1>3 DEF q

(* The continuation of switchScene, whatever is open by then.               *)
LEMMA SwitchReturnKeeps ==
  ASSUME DialogInv, Dialogs!SwitchReturns
  PROVE  DialogInv'
<1> DEFINE q == Dialogs!Closed(v1, "scene")
<1>1. /\ v1 \in Dialogs!Page /\ Kept(v1)
      /\ Dialogs!Rendered(q)
      /\ v4 /\ v4' = FALSE /\ UNCHANGED <<v2, v5, v6>>
  BY DEF DialogInv, Dialogs!SwitchReturns
<1>2. "scene" \in Dialog /\ "scene" # "auth"
  BY DEF Dialog
<1>3. Dialogs!Session(v2) \in BOOLEAN
  BY DEF Dialogs!Session
<1>4. CASE "scene" \in v1.shown
  <2>1. Modal(v1, "scene") /\ v1.shown = {"scene"}
    BY <1>1, <1>4, ShownIsModal
  <2>2. /\ q \in Dialogs!Page /\ Freed(q)
        /\ \A on \in BOOLEAN : Written(v1, on) => Written(q, on)
    BY <1>1, <1>2, <2>1, ClosingFrees
  <2> HIDE DEF q
  <2>3. Kept(q) /\ Guarded(q, v4')
    BY <2>2 DEF Kept, Guarded, Freed
  <2>4. ~v5
    BY <2>1 DEF DialogInv
  <2>5. ~v6 => Written(q, Dialogs!Session(v2))
    BY <1>3, <2>2 DEF DialogInv
  <2> QED BY <1>1, <2>2, <2>3, <2>4, <2>5, TasksKeep DEF DialogInv
<1>5. CASE "scene" \notin v1.shown
  <2>1. /\ q \in Dialogs!Page /\ Kept(q)
        /\ q.shown = v1.shown /\ q.focus = v1.focus
        /\ \A on : Written(v1, on) => Written(q, on)
    BY <1>1, <1>2, <1>5, OnlyClassGoes
  <2> HIDE DEF q
  <2>2. Guarded(q, v4')
    BY <1>1, <1>5, <2>1, ShownIsModal DEF DialogInv, HoldsFocus, Guarded, Dialog, Dialogs!None
  <2>3. v5 => "auth" \in q.shown
    BY <2>1 DEF DialogInv
  <2>4. ~v6 => Written(q, Dialogs!Session(v2))
    BY <2>1 DEF DialogInv
  <2> QED BY <1>1, <2>1, <2>2, <2>3, <2>4, TasksKeep DEF DialogInv
<1> QED BY <1>4, <1>5

(* The prompt, over whatever is open.                                       *)
LEMMA PromptIsolates ==
  ASSUME DialogInv, Dialogs!ShowPrompt
  PROVE  DialogInv'
<1> DEFINE q == Dialogs!Opened(v1, "auth")
<1>1. /\ v1 \in Dialogs!Page /\ Kept(v1)
      /\ "auth" \notin v1.shown
      /\ Dialogs!Rendered(q)
      /\ UNCHANGED <<v2, v4, v5, v6>>
  BY DEF DialogInv, Dialogs!ShowPrompt
<1>2. "auth" \in Dialog
  BY DEF Dialog
<1>3. /\ q \in Dialogs!Page /\ Modal(q, "auth")
      /\ \A on \in BOOLEAN : Written(v1, on) => Written(q, on)
  BY <1>1, <1>2, OpeningReplaces
<1> HIDE DEF q
<1>4. Kept(q) /\ Guarded(q, v4')
  BY <1>2, <1>3, ElementsAreNine DEF Kept, Guarded, Modal
<1>5. ~v5
  BY <1>1 DEF DialogInv
<1>6. Dialogs!Session(v2) \in BOOLEAN
  BY DEF Dialogs!Session
<1>7. ~v6 => Written(q, Dialogs!Session(v2))
  BY <1>3, <1>6 DEF DialogInv
<1> QED BY <1>1, <1>3, <1>4, <1>5, <1>7, TasksKeep DEF DialogInv

(* connect with a token hides a prompt that is not shown.                   *)
LEMMA ReconnectKeeps ==
  ASSUME DialogInv, Dialogs!Reconnect
  PROVE  DialogInv'
<1> DEFINE q == Dialogs!Closed(v1, "auth")
<1>1. /\ v1 \in Dialogs!Page /\ Kept(v1)
      /\ "auth" \notin v1.shown
      /\ Dialogs!Rendered(q)
      /\ UNCHANGED <<v2, v4, v5, v6>>
  BY DEF DialogInv, Dialogs!Reconnect
<1>2. "auth" \in Dialog
  BY DEF Dialog
<1>3. /\ q \in Dialogs!Page /\ Kept(q)
      /\ q.shown = v1.shown /\ q.focus = v1.focus
      /\ \A on : Written(v1, on) => Written(q, on)
  BY <1>1, <1>2, OnlyClassGoes
<1> HIDE DEF q
<1>4. Guarded(q, v4')
  BY <1>1, <1>3, ShownIsModal DEF DialogInv, HoldsFocus, Guarded, Dialog, Dialogs!None
<1>5. v5 => "auth" \in q.shown
  BY <1>3 DEF DialogInv
<1>6. ~v6 => Written(q, Dialogs!Session(v2))
  BY <1>3 DEF DialogInv
<1> QED BY <1>1, <1>3, <1>4, <1>5, <1>6, TasksKeep DEF DialogInv

(* joinRoomWithPin up to its await.                                         *)
LEMMA EnteringKeeps ==
  ASSUME DialogInv, Dialogs!EnterPin
  PROVE  DialogInv'
<1>1. /\ v1 \in Dialogs!Page /\ Kept(v1)
      /\ "auth" \in v1.shown
      /\ Dialogs!Rendered(v1)
      /\ v5' = TRUE /\ UNCHANGED <<v2, v4, v6>>
  BY DEF DialogInv, Dialogs!EnterPin, Dialogs!Usable
<1>2. v1.shown = {"auth"}
  BY <1>1, ShownIsModal
<1>3. Guarded(v1, v4')
  BY <1>2 DEF Guarded
<1> QED BY <1>1, <1>3, TasksKeep DEF DialogInv

(* The answer to it.                                                        *)
LEMMA AnswerKeeps ==
  ASSUME DialogInv, NEW ok \in BOOLEAN, Dialogs!PinAnswered(ok)
  PROVE  DialogInv'
<1> DEFINE a == Dialogs!Closed(v1, "auth")
           q == Dialogs!Closed(a, "auth")
           p == Dialogs!Focused(v1, "auth")
<1>1. /\ v1 \in Dialogs!Page /\ Kept(v1)
      /\ "auth" \in v1.shown
      /\ Dialogs!Rendered(IF ok THEN q ELSE p)
      /\ v5' = FALSE /\ UNCHANGED <<v2, v4, v6>>
  BY DEF DialogInv, Dialogs!PinAnswered
<1>2. "auth" \in Dialog /\ Modal(v1, "auth") /\ v1.shown = {"auth"}
  BY <1>1, ShownIsModal
<1>3. Dialogs!Session(v2) \in BOOLEAN
  BY DEF Dialogs!Session
<1>4. CASE ok
  <2>1. /\ a \in Dialogs!Page /\ Freed(a)
        /\ \A on \in BOOLEAN : Written(v1, on) => Written(a, on)
    BY <1>1, <1>2, ClosingFrees
  <2>2. Kept(a) /\ a.shown = {}
    BY <2>1 DEF Kept, Freed
  <2> HIDE DEF a
  <2>3. /\ q \in Dialogs!Page /\ Kept(q)
        /\ q.shown = a.shown
        /\ \A on : Written(a, on) => Written(q, on)
    BY <1>2, <2>1, <2>2, OnlyClassGoes
  <2>4. Dialogs!Rendered(q)
    BY <1>1, <1>4
  <2> HIDE DEF q
  <2>5. Guarded(q, v4')
    BY <2>2, <2>3 DEF Guarded
  <2>6. ~v6 => Written(q, Dialogs!Session(v2))
    BY <1>3, <2>1, <2>3 DEF DialogInv
  <2> QED BY <1>1, <2>3, <2>4, <2>5, <2>6, TasksKeep DEF DialogInv
<1>5. CASE ~ok
  <2>1. OnlyFocus(v1, p)
    BY <1>1, FocusedKeeps
  <2>2. Dialogs!Rendered(p)
    BY <1>1, <1>5
  <2> HIDE DEF p
  <2>3. /\ p \in Dialogs!Page /\ Kept(p) /\ p.shown = {"auth"}
        /\ \A on : Written(v1, on) => Written(p, on)
    BY <1>1, <1>2, <2>1, FocusDecidesNothing DEF OnlyFocus
  <2>4. Guarded(p, v4')
    BY <2>3 DEF Guarded
  <2>5. ~v6 => Written(p, Dialogs!Session(v2))
    BY <2>3 DEF DialogInv
  <2> QED BY <1>1, <2>2, <2>3, <2>4, <2>5, TasksKeep DEF DialogInv
<1> QED BY <1>4, <1>5

(* setHiddenInteraction, on a page without dialogs or behind one.           *)
LEMMA ShowingKeeps ==
  ASSUME NEW p \in Dialogs!Page, Kept(p), "auth" \notin p.shown, NEW m
  PROVE  LET q == Dialogs!Shows(p, m)
         IN  /\ q \in Dialogs!Page /\ Kept(q)
             /\ q.shown = p.shown /\ q.focus = p.focus
             /\ p.shown = {} => Written(q, Dialogs!Session(m))
             /\ p.shown # {} /\ Written(p, Dialogs!Session(m))
                  => Written(q, Dialogs!Session(m))
<1> DEFINE on == Dialogs!Session(m)
           dial == [p.inert EXCEPT !["dial"] = on]
           both == [dial EXCEPT !["pomodoro"] = ~on]
           q == Dialogs!Shows(p, m)
<1>1. on \in BOOLEAN
  BY DEF Dialogs!Session
<1>2. p.inert \in [Dialogs!Elements -> BOOLEAN]
  BY DEF Dialogs!Page
<1> HIDE DEF on
<1>3. /\ both \in [Dialogs!Elements -> BOOLEAN]
      /\ \A e \in Dialogs!Elements \ Rendering : both[e] = p.inert[e]
      /\ both["dial"] = on /\ both["pomodoro"] = ~on
  BY <1>1, <1>2, ElementsAreNine DEF Rendering
<1>4. q = [p EXCEPT !.inert = both]
  BY DEF Dialogs!Shows, Dialogs!Page, on
<1> HIDE DEF both, q
<1>5. /\ q \in Dialogs!Page
      /\ q.inert = both /\ q.saved = p.saved /\ q.root = p.root /\ q.shown = p.shown
      /\ q.class = p.class /\ q.opener = p.opener /\ q.focus = p.focus
  BY <1>3, <1>4 DEF Dialogs!Page
<1>6. Freed(p) => Freed(q)
  BY <1>3, <1>5 DEF Freed
<1>7. ASSUME NEW d \in Dialog, Modal(p, d) PROVE Modal(q, d)
  <2>1. d # "auth" /\ d \in Dialogs!Docked
    BY <1>7, ElementsAreNine DEF Modal, Dialog
  <2>2. \A e \in Dialogs!Elements \ Dialogs!Siblings(d) : e \notin Rendering
    BY <2>1, ElementsAreNine DEF Rendering
  <2>3. \A e \in Dialogs!Siblings(d) : e \in Dialogs!Elements
    BY <2>1, ElementsAreNine
  <2> QED BY <1>3, <1>5, <1>7, <2>1, <2>2, <2>3 DEF Modal
<1>8. Kept(q)
  BY <1>6, <1>7, ElementsAreNine DEF Kept
<1>9. p.shown = {} => Written(q, on)
  BY <1>3, <1>5 DEF Written
<1>10. p.shown # {} /\ Written(p, on) => Written(q, on)
  BY <1>5 DEF Written
<1> QED BY <1>5, <1>8, <1>9, <1>10 DEF q, on

(* A snapshot, behind any dialog but the prompt.                            *)
LEMMA SnapshotKeeps ==
  ASSUME DialogInv, NEW m, NEW inRitual \in BOOLEAN, Dialogs!Snapshot(m, inRitual)
  PROVE  DialogInv'
<1> DEFINE q == Dialogs!Shows(v1, m)
           t == IF m = "focus" THEN "pomodoro" ELSE "center"
           p == IF inRitual /\ m # "break" THEN Dialogs!Focused(q, t) ELSE q
<1>1. /\ v1 \in Dialogs!Page /\ Kept(v1)
      /\ "auth" \notin v1.shown
      /\ inRitual => v1.focus = "pomodoro"
      /\ v2' = m /\ v6' = (v1.shown # {} /\ (v6 \/ m # v2))
      /\ UNCHANGED <<v4, v5>>
      /\ Dialogs!Rendered(p)
  BY DEF DialogInv, Dialogs!Snapshot
<1>2. /\ q \in Dialogs!Page /\ Kept(q)
      /\ q.shown = v1.shown /\ q.focus = v1.focus
      /\ v1.shown = {} => Written(q, Dialogs!Session(m))
      /\ v1.shown # {} /\ Written(v1, Dialogs!Session(m)) => Written(q, Dialogs!Session(m))
  BY <1>1, ShowingKeeps
<1> HIDE DEF q
<1>3. OnlyFocus(q, p)
  BY <1>2, FocusedKeeps DEF OnlyFocus
<1>4. ~inRitual => p.focus = v1.focus
  BY <1>2
<1> HIDE DEF p
<1>5. /\ p \in Dialogs!Page /\ Kept(p) /\ p.shown = v1.shown
      /\ \A on : Written(q, on) => Written(p, on)
  BY <1>2, <1>3, FocusDecidesNothing DEF OnlyFocus
<1>6. Guarded(p, v4')
  <2> SUFFICES ASSUME NEW d \in v1.shown \ {"auth"}, ~(d = "scene" /\ v4)
               PROVE  p.focus # "pomodoro"
    BY <1>1, <1>5 DEF Guarded
  <2>1. v1.focus \in {d, Dialogs!None} /\ d \in Dialog
    BY <1>1, ShownIsModal DEF DialogInv, HoldsFocus
  <2>2. v1.focus # "pomodoro"
    BY <2>1 DEF Dialog, Dialogs!None
  <2> QED BY <1>1, <1>4, <2>2
<1>7. v6' \in BOOLEAN
  BY <1>1
<1>8. ~v6' => Written(p, Dialogs!Session(v2'))
  BY <1>1, <1>2, <1>5 DEF DialogInv
<1>9. v4' \in BOOLEAN /\ v5' \in BOOLEAN /\ (v5' => "auth" \in p.shown)
  BY <1>1, <1>5 DEF DialogInv
<1> QED BY <1>1, <1>5, <1>6, <1>7, <1>8, <1>9, TasksKeep

(* Something is to be focused: by a timer that is late, or by the person.   *)
LEMMA FocusingKeeps ==
  ASSUME DialogInv, NEW t, NEW p,
         \/ p = Dialogs!Focused(v1, t)
         \/ t \in Dialog /\ p = Dialogs!Initially(v1, t),
         Dialogs!Rendered(p), UNCHANGED <<v2, v4, v5, v6>>
  PROVE  DialogInv'
<1>1. v1 \in Dialogs!Page /\ Kept(v1)
  BY DEF DialogInv
<1>2. OnlyFocus(v1, p)
  BY <1>1, FocusedKeeps
<1>3. /\ p \in Dialogs!Page /\ Kept(p) /\ p.shown = v1.shown
      /\ \A on : Written(v1, on) => Written(p, on)
  BY <1>1, <1>2, FocusDecidesNothing DEF OnlyFocus
<1>4. Guarded(p, v4')
  <2> SUFFICES ASSUME NEW d \in v1.shown \ {"auth"}, ~(d = "scene" /\ v4')
               PROVE  p.focus # "pomodoro"
    BY <1>3 DEF Guarded
  <2>1. d \in Dialog /\ Modal(v1, d) /\ d # "auth"
    BY <1>1, ShownIsModal
  <2>2. v1.focus \in {d, Dialogs!None}
    BY DEF DialogInv, HoldsFocus
  <2>3. CASE p = Dialogs!Focused(v1, t)
    <3>1. p.focus \in {d, v1.focus}
      BY <1>1, <2>1, <2>3, DialogsKeepFocus
    <3> QED BY <2>1, <2>2, <3>1 DEF Dialog, Dialogs!None
  <2>4. CASE t \in Dialog /\ p = Dialogs!Initially(v1, t)
    <3>1. p.focus \in {t, v1.focus}
      BY <1>1, <2>4 DEF Dialogs!Initially, Dialogs!Page
    <3> QED BY <2>1, <2>2, <2>4, <3>1 DEF Dialog, Dialogs!None
  <2> QED BY <2>3, <2>4
<1>5. v5' => "auth" \in p.shown
  BY <1>3 DEF DialogInv
<1>6. ~v6' => Written(p, Dialogs!Session(v2'))
  BY <1>3 DEF DialogInv
<1>7. v4' \in BOOLEAN /\ v5' \in BOOLEAN /\ v6' \in BOOLEAN
  BY DEF DialogInv
<1> QED BY <1>3, <1>4, <1>5, <1>6, <1>7, TasksKeep

(* Timers of a trap, of the renderer and of the button that asked to leave. *)
LEMMA TimersKeep ==
  ASSUME DialogInv, NEW t, Dialogs!FocusTimer(t)
  PROVE  DialogInv'
<1>1. UNCHANGED <<v2, v4, v5, v6>>
  BY DEF Dialogs!FocusTimer
<1>2. CASE t \in Dialog
  <2>1. Dialogs!Rendered(Dialogs!Initially(v1, t))
    BY <1>2, ElementsAreNine DEF Dialogs!FocusTimer
  <2> QED BY <1>1, <1>2, <2>1, FocusingKeeps
<1>3. CASE t \notin Dialog
  <2>1. Dialogs!Rendered(Dialogs!Focused(v1, t))
    BY <1>3, ElementsAreNine DEF Dialogs!FocusTimer
  <2> QED BY <1>1, <2>1, FocusingKeeps
<1> QED BY <1>2, <1>3

(* Which elements of a set are in another, as a function. *)
LEMMA MembershipIsBoolean ==
  ASSUME NEW S, NEW T
  PROVE  /\ [e \in S |-> e \in T] \in [S -> BOOLEAN]
         /\ \A e \in S : [x \in S |-> x \in T][e] = (e \in T)
<1>1. [e \in S |-> e \in T] \in [S -> BOOLEAN]
  BY SMT
<1>2. \A e \in S : [x \in S |-> x \in T][e] = (e \in T)
  BY SMT
<1> QED BY <1>1, <1>2

(* A page without dialogs.                                                  *)
LEMMA DialogsBegin == Dialogs!Init => DialogInv
<1> SUFFICES ASSUME Dialogs!Init PROVE DialogInv
  OBVIOUS
<1> DEFINE inert == [e \in Dialogs!Elements |-> e \in Dialogs!Docked \cup {"pomodoro"}]
           saved == [e \in Dialogs!Elements |-> Dialogs!None]
           opener == [d \in Dialogs!Dialogs |-> "inactive"]
<1>1. /\ v1 = [inert |-> inert, saved |-> saved, root |-> Dialogs!None, shown |-> {},
               class |-> FALSE, opener |-> opener, focus |-> Dialogs!None]
      /\ v2 = "idle" /\ v4 = FALSE /\ v5 = FALSE /\ v6 = FALSE
  BY DEF Dialogs!Init
<1>2. /\ inert \in [Dialogs!Elements -> BOOLEAN]
      /\ \A e \in Dialogs!Elements \ Rendering : inert[e] <=> e \in Dialogs!Docked
      /\ ~inert["dial"] /\ inert["pomodoro"]
  <2>1. /\ inert \in [Dialogs!Elements -> BOOLEAN]
        /\ \A e \in Dialogs!Elements : inert[e] = (e \in Dialogs!Docked \cup {"pomodoro"})
    BY MembershipIsBoolean
  <2> HIDE DEF inert
  <2> QED BY <2>1, ElementsAreNine DEF Rendering
<1>3. saved \in [Dialogs!Elements -> {Dialogs!None, "inert", "live"}]
  OBVIOUS
<1>4. opener \in [Dialogs!Dialogs -> {Dialogs!None, "inactive", "bar", "center", "pomodoro"}
                                      \cup Dialogs!Dialogs]
  OBVIOUS
<1>5. /\ \A e \in Dialogs!Elements : saved[e] = Dialogs!None
      /\ \A d \in Dialogs!Dialogs : opener[d] = "inactive"
  OBVIOUS
<1> HIDE DEF inert, saved, opener
<1>6. v1 \in Dialogs!Page
  BY <1>1, <1>2, <1>3, <1>4 DEF Dialogs!Page
<1>7. Freed(v1)
  BY <1>1, <1>2, <1>5 DEF Freed
<1>8. Written(v1, Dialogs!Session(v2))
  BY <1>1, <1>2 DEF Written, Dialogs!Session
<1> QED BY <1>1, <1>6, <1>7, <1>8 DEF DialogInv, Kept, HoldsFocus

(* Whatever opens, closes, is refused, fires or returns.                    *)
LEMMA DialogsGoOn ==
  ASSUME DialogInv, Dialogs!Next
  PROVE  DialogInv'
<1>1. ASSUME NEW t, Dialogs!PersonFocuses(t) PROVE DialogInv'
  BY <1>1, FocusingKeeps DEF Dialogs!PersonFocuses
<1> QED
  BY <1>1, OpenIsolates, CloseFrees, SceneChoiceKeeps, SwitchReturnKeeps, PromptIsolates,
     ReconnectKeeps, EnteringKeeps, AnswerKeeps, SnapshotKeeps, TimersKeep
     DEF Dialogs!Next

(* What the invariant is for.                                               *)
LEMMA DialogsAreModal ==
  ASSUME DialogInv
  PROVE  /\ Dialogs!DialogIsModal
         /\ Dialogs!ControlsComeBack
         /\ Dialogs!FocusContained
         /\ Dialogs!AttributesFollowSession
<1>1. v1 \in Dialogs!Page /\ Kept(v1)
  BY DEF DialogInv
<1>2. Dialogs!DialogIsModal
  BY <1>1, ShownIsModal DEF Dialogs!DialogIsModal, Modal, Rendering
<1>3. Dialogs!ControlsComeBack
  <2> SUFFICES ASSUME v1.shown = {}, Freed(v1) PROVE Dialogs!ControlsComeBack
    BY <1>1, ShownIsModal DEF Dialogs!ControlsComeBack
  <2> QED BY ElementsAreNine DEF Freed, Rendering, Dialogs!ControlsComeBack
<1>4. Dialogs!FocusContained
  BY DEF DialogInv, HoldsFocus, Dialogs!FocusContained
<1>5. Dialogs!AttributesFollowSession
  <2> SUFFICES ASSUME v1.shown = {}, ~v6
               PROVE  /\ v1.inert["dial"] = Dialogs!Session(v2)
                      /\ v1.inert["pomodoro"] = ~Dialogs!Session(v2)
    BY DEF Dialogs!AttributesFollowSession
  <2>1. /\ v1.inert["dial"] <=> Dialogs!Session(v2)
        /\ v1.inert["pomodoro"] <=> ~Dialogs!Session(v2)
    BY DEF DialogInv, Written
  <2>2. v1.inert["dial"] \in BOOLEAN /\ v1.inert["pomodoro"] \in BOOLEAN
    BY <1>1, ElementsAreNine DEF Dialogs!Page
  <2>3. Dialogs!Session(v2) \in BOOLEAN
    BY DEF Dialogs!Session
  <2> QED BY <2>1, <2>2, <2>3
<1> QED BY <1>2, <1>3, <1>4, <1>5

(* In every order of openings, closings, answers, snapshots and timers: the
   dialog that is shown is alone and isolated, and only what snapshots write
   to may be reachable behind it; when none is shown isolation has left
   nothing behind; the focus never rests on the page behind a dialog that is
   not busy; and the controls are as the session wants them once a snapshot
   has come (dom.js:36-150, room-auth.js:26-30). *)
THEOREM DialogsStayIsolated == PageSpec => []DialogsIsolate
<1> DEFINE Inv == part = "panels" => DialogInv
<1>1. PageInit => Inv
  BY DialogsBegin DEF PageInit
<1>2. Inv /\ [PageNext]_<<part, vars, lobbyVars, fallbackVars, slots>> => Inv'
  <2> SUFFICES ASSUME Inv, [PageNext]_<<part, vars, lobbyVars, fallbackVars, slots>>,
                      part' = "panels"
               PROVE  DialogInv'
    OBVIOUS
  <2>1. part = "panels" /\ DialogInv
    BY DEF PageNext
  <2>2. CASE Dialogs!Next
    BY <2>1, <2>2, DialogsGoOn
  <2>3. CASE UNCHANGED slots
    BY <2>1, <2>3 DEF slots, DialogInv
  <2> QED BY <2>1, <2>2, <2>3 DEF PageNext
<1>3. Inv => DialogsIsolate
  BY DialogsAreModal DEF DialogsIsolate
<1> QED BY <1>1, <1>2, <1>3, PTL DEF PageSpec
=============================================================================
