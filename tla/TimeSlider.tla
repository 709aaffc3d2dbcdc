------------------------------ MODULE TimeSlider ------------------------------
(***************************************************************************)
(* The time slider of the room page, which sets and resets the override of *)
(* the room's sky time.                                                    *)
(*                                                                         *)
(*   frontend/src/timer-controls.js   sendOverride, syncSlider, resetTime  *)
(*   frontend/src/dom.js              debounce                             *)
(*                                                                         *)
(* A step of the page is one task of the browser's event loop.  A drag is  *)
(* sent 80 ms after its last movement; for 1500 ms after a person touched  *)
(* the slider no document moves it.  Messages of the page reach the room   *)
(* in order, and every change of the room is a document to the page.       *)
(***************************************************************************)
EXTENDS Integers, Sequences

CONSTANTS
  Times,          \* positions of the slider
  MaxInFlight,    \* bound: messages and documents on their way
  MaxOthers       \* bound: changes by other members, and lost connections

VARIABLES
  room,       \* time_override
  sent,       \* messages on their way to the room
  wire,       \* documents on their way to the page
  linked,     \* the page has a connection
  slider,     \* position of the slider
  recent,     \* it was touched less than 1500 ms ago
  pending,    \* what the debounce timer will send
  wish,       \* history: what the person asked for last
  moot,       \* history: somebody else asked later, or the wish was lost
  others

pageVars == <<slider, recent, pending>>
historyVars == <<wish, moot>>
vars == <<room, sent, wire, linked, pageVars, historyVars, others>>

RealTime == "now"      \* iso is null; the slider is at the present time
Nothing == "nothing"

-----------------------------------------------------------------------------
\* socket.send: without an open connection the message is dropped.
Send(time) ==
  IF linked THEN sent' = Append(sent, time) ELSE UNCHANGED sent

MaySend == Len(sent) < MaxInFlight

Wish(time) == wish' = time /\ moot' = FALSE

\* Faulty variant of Debounced: the timer keeps the value it was set with.
DebouncedFirst(time) == IF pending = Nothing THEN time ELSE pending

\* debounce: the timer starts again, with the new value.
Debounced(time) == time

\* The slider is dragged.
Drag(time) ==
  /\ time # slider
  /\ slider' = time
  /\ recent' = TRUE
  /\ pending' = Debounced(time)
  /\ Wish(time)
  /\ UNCHANGED <<room, sent, wire, linked, others>>

\* What is sent without a connection is lost.
DebounceFires ==
  /\ pending # Nothing
  /\ MaySend
  /\ Send(pending)
  /\ pending' = Nothing
  /\ moot' = (moot \/ ~linked)
  /\ UNCHANGED <<room, wire, linked, slider, recent, wish, others>>

\* Double click, or the button.  The debounce timer goes on.
ResetTime ==
  /\ MaySend
  /\ Send(RealTime)
  /\ slider' = RealTime
  /\ recent' = TRUE
  /\ wish' = RealTime
  /\ moot' = ~linked
  /\ UNCHANGED <<room, wire, linked, pending, others>>

\* 1500 ms after the last touch, and so after its debounce timer.
GuardEnds ==
  /\ recent
  /\ pending = Nothing
  /\ recent' = FALSE
  /\ UNCHANGED <<room, sent, wire, linked, slider, pending, historyVars, others>>

\* syncSlider.
Synced(time) == IF recent THEN slider ELSE time

ApplyState ==
  /\ wire # <<>>
  /\ slider' = Synced(Head(wire))
  /\ wire' = Tail(wire)
  /\ UNCHANGED <<room, sent, linked, recent, pending, historyVars, others>>

-----------------------------------------------------------------------------
Broadcast(time) == wire' = IF linked THEN Append(wire, time) ELSE wire

MayBroadcast == Len(wire) < MaxInFlight

\* The room takes a message of this page.
Commit ==
  /\ sent # <<>>
  /\ MayBroadcast
  /\ room' = Head(sent)
  /\ sent' = Tail(sent)
  /\ Broadcast(Head(sent))
  /\ UNCHANGED <<linked, pageVars, historyVars, others>>

\* Another member moves the sky.
OthersOverride ==
  /\ others < MaxOthers
  /\ MayBroadcast
  /\ others' = others + 1
  /\ \E time \in Times \cup {RealTime} :
       /\ room' = time
       /\ Broadcast(time)
  /\ moot' = TRUE
  /\ UNCHANGED <<sent, linked, pageVars, wish>>

Disconnect ==
  /\ linked
  /\ others < MaxOthers
  /\ others' = others + 1
  /\ linked' = FALSE
  /\ wire' = <<>>
  /\ \E n \in 0..Len(sent) : sent' = SubSeq(sent, 1, n)
  /\ moot' = TRUE
  /\ UNCHANGED <<room, pageVars, wish>>

Connect ==
  /\ ~linked
  /\ linked' = TRUE
  /\ wire' = <<room>>
  /\ UNCHANGED <<room, sent, pageVars, historyVars, others>>

Init ==
  /\ room \in Times \cup {RealTime}
  /\ sent = <<>>
  /\ wire = <<room>>
  /\ linked = TRUE
  /\ slider = RealTime
  /\ recent = FALSE
  /\ pending = Nothing
  /\ wish = Nothing
  /\ moot = FALSE
  /\ others = 0

Next ==
  \/ \E time \in Times : Drag(time)
  \/ DebounceFires
  \/ ResetTime
  \/ GuardEnds
  \/ ApplyState
  \/ Commit
  \/ OthersOverride
  \/ Disconnect
  \/ Connect

Spec == Init /\ [][Next]_vars

-----------------------------------------------------------------------------
Quiet == sent = <<>> /\ wire = <<>> /\ pending = Nothing /\ ~recent

(* When everything has arrived, the room is at the time the slider was      *)
(* dragged to last, and the slider shows it: neither an earlier position of *)
(* the drag nor a late document of one wins (timer-controls.js:51-73,       *)
(* 94-98).  Unless somebody asked for another time after it.                *)
LastDragCounts ==
  Quiet /\ wish \in Times /\ ~moot => room = wish /\ slider = wish

\* The inductive invariant of LastDragCounts: as long as the last wish is a
\* drag, its position waits in the debounce timer, or is the last that the
\* room will take, or the last that the slider will be shown.
LastOf(channel, rest) == IF channel = <<>> THEN rest ELSE channel[Len(channel)]

WishIsOnItsWay ==
  /\ sent \in Seq(Times \cup {RealTime})
  /\ wire \in Seq(Times \cup {RealTime})
  /\ room \in Times \cup {RealTime}
  /\ pending \in Times \cup {Nothing}
  /\ wish \in Times /\ ~moot =>
       /\ recent => slider = wish
       /\ pending \in {Nothing, wish}
       /\ pending # Nothing => recent
       /\ pending = Nothing =>
            /\ linked
            /\ LastOf(sent, room) = wish
            /\ sent = <<>> => LastOf(wire, slider) = wish

(* After a reset the room is back at real time ("double-click to return to  *)
(* real time", README.md:268).                                              *)
ResetReturnsToRealTime ==
  Quiet /\ wish = RealTime /\ ~moot => room = RealTime
=============================================================================
