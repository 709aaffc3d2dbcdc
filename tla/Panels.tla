------------------------------- MODULE Panels --------------------------------
(***************************************************************************)
(* The dialogs of the room page: who is shown, what is inert behind it,    *)
(* and where the keyboard focus is.                                        *)
(*                                                                         *)
(*   frontend/src/dom.js               isolation and focus traps           *)
(*   frontend/src/scene-picker.js      the scene panel                     *)
(*   frontend/src/display-settings.js  the display panel                   *)
(*   frontend/app.js                   the question before leaving         *)
(*   frontend/src/room-auth.js         the PIN prompt                      *)
(*   frontend/src/room-renderer.js     what a snapshot hides and focuses   *)
(*                                                                         *)
(* A step is one task of the browser's event loop.  Elements that the code *)
(* treats alike are one element: "dial" is the time dial and the room's    *)
(* label, "center" stands for whatever only isolation touches and holds    *)
(* the start button, "bar" is the action bar with the panels' openers.     *)
(* aria-hidden always goes with inert and is not kept apart.               *)
(***************************************************************************)
EXTENDS Integers, FiniteSets

VARIABLES
  dom,        \* the elements, the isolation and the traps, see Page
  mode,       \* "idle", "focus" or "break": the session last rendered
  timers,     \* whose focus() is due by setTimeout
  switching,  \* the picker awaits switchScene
  pending,    \* the prompt awaits the answer to a PIN
  moved       \* history: the session changed behind a dialog since the last
              \* snapshot that found none

vars == <<dom, mode, timers, switching, pending, moved>>

Docked == {"scene", "display", "exit"}   \* the dialogs inside #controls
Dialogs == Docked \cup {"auth"}
Body == {"dial", "pomodoro", "center", "controls", "auth"}
Elements == Body \cup Docked \cup {"bar"}
None == "none"

\* inert: the attribute.  saved: what isolation keeps of it.  root:
\* activeModalRoot.  opener: restoreEl of each active trap.
Page ==
  [inert : [Elements -> BOOLEAN], saved : [Elements -> {None, "inert", "live"}],
   root : Dialogs \cup {None}, shown : SUBSET Dialogs, class : BOOLEAN,
   opener : [Dialogs -> {None, "inactive", "bar", "center", "pomodoro"}
                         \cup Dialogs],
   focus : {None, "bar", "center", "pomodoro"} \cup Dialogs]

Session(m) == m # "idle"

-----------------------------------------------------------------------------
(***************************************************************************)
(* Isolation.                                                              *)
(***************************************************************************)
\* walkModalSiblings: the siblings of the dialog and of its ancestors.
Siblings(d) ==
  IF d = "auth" THEN Body \ {"auth"}
  ELSE (Docked \ {d}) \cup {"bar"} \cup (Body \ {"controls"})

\* setModalSiblingHidden(el, true)
Covered(p, els) ==
  LET new == {e \in els : p.saved[e] = None}
  IN  [p EXCEPT
        !.saved = [e \in Elements |->
                     IF e \notin new THEN @[e]
                     ELSE IF p.inert[e] THEN "inert" ELSE "live"],
        !.inert = [e \in Elements |-> e \in new \/ @[e]]]

\* Faulty variant of Uncovered: whatever was hidden becomes reachable.
AllUncovered(p, els) ==
  LET own == {e \in els : p.saved[e] # None}
  IN  [p EXCEPT !.saved = [e \in Elements |-> IF e \in own THEN None ELSE @[e]],
                !.inert = [e \in Elements |-> e \notin own /\ @[e]]]

\* setModalSiblingHidden(el, false)
Uncovered(p, els) ==
  LET own == {e \in els : p.saved[e] # None}
  IN  [p EXCEPT !.saved = [e \in Elements |-> IF e \in own THEN None ELSE @[e]],
                !.inert = [e \in Elements |-> IF e \in own
                                              THEN p.saved[e] = "inert"
                                              ELSE @[e]]]

\* setModalIsolation(root, false)
Exposed(p, d) ==
  IF p.root # d THEN p
  ELSE [Uncovered(p, Siblings(d)) EXCEPT !.root = None]

\* setModalIsolation(root, true)
Isolated(p, d) ==
  LET others == IF p.root \in {None, d} THEN p ELSE Exposed(p, p.root)
  IN  [Covered(others, Siblings(d)) EXCEPT !.root = d]

-----------------------------------------------------------------------------
(***************************************************************************)
(* Focus.  A control that is inert, hidden or disabled does not take it.   *)
(***************************************************************************)
Takes(p, t) ==
  CASE t = None       -> FALSE
    [] t = "center"   -> ~p.inert["center"] /\ ~Session(mode')
    [] t = "pomodoro" -> ~p.inert["pomodoro"]
    [] t = "bar"      -> ~p.inert["bar"] /\ ~p.inert["controls"]
                         /\ "exit" \notin p.shown
    [] t = "auth"     -> t \in p.shown /\ ~p.inert[t] /\ ~pending'
    [] OTHER          -> t \in p.shown /\ ~p.inert[t] /\ ~p.inert["controls"]
                         /\ ~(t = "scene" /\ switching')

\* focusInitial
Initially(p, d) == IF Takes(p, d) THEN [p EXCEPT !.focus = d] ELSE p

Trapping(p) == {d \in Dialogs : p.opener[d] # "inactive"}

\* el.focus(), with onFocusIn of an active trap
Focused(p, t) ==
  IF ~Takes(p, t) THEN p
  ELSE LET there  == [p EXCEPT !.focus = t]
           others == Trapping(p) \ {t}
       IN  IF others = {} THEN there
           ELSE Initially(there, CHOOSE d \in others : TRUE)

\* The end of a task: the browser takes the focus from what cannot have it.
Rendered(p) ==
  dom' = IF Takes(p, p.focus) THEN p ELSE [p EXCEPT !.focus = None]

\* createFocusTrap.activate, without its timer
Trapped(p, d) ==
  IF p.opener[d] # "inactive" THEN p
  ELSE [p EXCEPT !.opener[d] = p.focus]

\* createFocusTrap.deactivate
Released(p, d, restore) ==
  IF p.opener[d] = "inactive" THEN p
  ELSE LET free == [p EXCEPT !.opener[d] = "inactive"]
       IN  IF restore THEN Focused(free, p.opener[d]) ELSE free

-----------------------------------------------------------------------------
(***************************************************************************)
(* The dialogs.                                                            *)
(***************************************************************************)
\* close of the panels, closeExitConfirm and hide of the prompt
Closed(p, d) ==
  LET free == Released(Exposed(p, d), d, d # "exit")
  IN  [free EXCEPT !.inert[d] = IF d = "auth" THEN @ ELSE TRUE,
                   !.shown = @ \ {d},
                   !.class = FALSE]

\* The listeners of aethel:panel-open: of the docked dialogs at most one is
\* shown, see DialogIsModal.
Cleared(p, d) ==
  LET others == (p.shown \cap Docked) \ {d}
  IN  IF others = {} THEN p ELSE Closed(p, CHOOSE o \in others : TRUE)

\* open of the panels, openExitConfirm and show of the prompt
Opened(p, d) ==
  LET alone == Cleared(p, d)
      there == [alone EXCEPT !.shown = @ \cup {d},
                             !.inert[d] = IF d = "auth" THEN @ ELSE FALSE,
                             !.class = TRUE]
  IN  Trapped(Isolated(there, d), d)

Timed(t) == timers' = timers \cup {t}

\* A click on an opener in the action bar.  The exit button only asks while
\* a session is on; otherwise it leaves the page.
Open(d) ==
  /\ d \in Docked
  /\ UNCHANGED <<mode, switching, pending, moved>>
  /\ Takes(dom, "bar")
  /\ d = "exit" => Session(mode)
  /\ Timed(d)
  /\ Rendered(Opened(Focused(dom, "bar"), d))

Usable(d) ==
  /\ d \in dom.shown
  /\ ~dom.inert[d]
  /\ d \in Docked => ~dom.inert["controls"]

\* Escape or the closing button
Close(d) ==
  /\ d \in Docked
  /\ Usable(d)
  /\ UNCHANGED <<mode, switching, pending, moved>>
  /\ IF d = "exit" THEN Timed("bar") ELSE UNCHANGED timers
  /\ Rendered(Closed(dom, d))

\* The click on a scene, up to the await: the options are disabled.
ChooseScene ==
  /\ Usable("scene")
  /\ ~switching
  /\ switching' = TRUE
  /\ UNCHANGED <<mode, timers, pending, moved>>
  /\ Rendered([dom EXCEPT !.focus = "scene"])

\* The continuation closes the panel, whatever is open by now.
SwitchReturns ==
  /\ switching
  /\ switching' = FALSE
  /\ UNCHANGED <<mode, timers, pending, moved>>
  /\ Rendered(Closed(dom, "scene"))

\* connect without a token, or a socket that was refused
ShowPrompt ==
  /\ "auth" \notin dom.shown
  /\ UNCHANGED <<mode, switching, pending, moved>>
  /\ Timed("auth")
  /\ Rendered(Opened(dom, "auth"))

\* connect with a token: no prompt is shown, but its hide() runs.
Reconnect ==
  /\ "auth" \notin dom.shown
  /\ UNCHANGED <<mode, timers, switching, pending, moved>>
  /\ Rendered(Closed(dom, "auth"))

\* joinRoomWithPin up to the await
EnterPin ==
  /\ Usable("auth")
  /\ ~pending
  /\ pending' = TRUE
  /\ UNCHANGED <<mode, timers, switching, moved>>
  /\ Rendered(dom)

\* The answer.  A token hides the prompt and connects, which hides it again.
PinAnswered(accepted) ==
  /\ pending
  /\ pending' = FALSE
  /\ UNCHANGED <<mode, timers, switching, moved>>
  /\ Rendered(IF accepted THEN Closed(Closed(dom, "auth"), "auth")
              ELSE Focused(dom, "auth"))

-----------------------------------------------------------------------------
(***************************************************************************)
(* Snapshots and timers.                                                   *)
(***************************************************************************)
\* setHiddenInteraction of renderFocus on the elements modelled here
Shows(p, m) ==
  [p EXCEPT !.inert["dial"] = Session(m), !.inert["pomodoro"] = ~Session(m)]

\* shouldMoveFocus.  In a focus session the pomodoro's focusable controls are
\* those of its focus row.
MovesFocus(m) ==
  CASE m = "idle"  -> dom.focus = "pomodoro"
    [] m = "focus" -> dom.focus \in {"center", None}
    [] m = "break" -> \/ dom.focus \in {"center", None}
                      \/ dom.focus = "pomodoro" /\ mode = "focus"

\* renderFocus, then update of the rest ritual, which takes the focus out of
\* itself at once when the break is over.  There are no snapshots behind the
\* prompt: it is shown only without a connection.
Snapshot(m, inRitual) ==
  /\ "auth" \notin dom.shown
  /\ inRitual => dom.focus = "pomodoro" /\ mode = "break"
  /\ mode' = m
  /\ moved' = (dom.shown # {} /\ (moved \/ m # mode))
  /\ IF MovesFocus(m) THEN Timed(IF m = "idle" THEN "center" ELSE "pomodoro")
                      ELSE UNCHANGED timers
  /\ UNCHANGED <<switching, pending>>
  /\ LET p == Shows(dom, m)
     IN  Rendered(IF inRitual /\ m # "break"
                  THEN Focused(p, IF m = "focus" THEN "pomodoro" ELSE "center")
                  ELSE p)

\* setTimeout(focus): of a trap (50 ms), of the renderer and of the button
\* that asked to leave (120 ms).  None is ever cancelled.
FocusTimer(t) ==
  /\ t \in timers
  /\ timers' = timers \ {t}
  /\ UNCHANGED <<mode, switching, pending, moved>>
  /\ Rendered(IF t \in Dialogs THEN Initially(dom, t) ELSE Focused(dom, t))

\* A click or Tab on the page itself
PersonFocuses(t) ==
  /\ t \in {"center", "pomodoro", "bar"}
  /\ UNCHANGED <<mode, timers, switching, pending, moved>>
  /\ Takes(dom, t)
  /\ Rendered(Focused(dom, t))

-----------------------------------------------------------------------------
Init ==
  /\ dom = [inert  |-> [e \in Elements |-> e \in Docked \cup {"pomodoro"}],
            saved  |-> [e \in Elements |-> None],
            root   |-> None, shown |-> {}, class |-> FALSE,
            opener |-> [d \in Dialogs |-> "inactive"], focus |-> None]
  /\ mode = "idle"
  /\ timers = {}
  /\ switching = FALSE
  /\ pending = FALSE
  /\ moved = FALSE

Next ==
  \/ \E d \in Docked : Open(d) \/ Close(d)
  \/ ChooseScene
  \/ SwitchReturns
  \/ ShowPrompt
  \/ Reconnect
  \/ EnterPin
  \/ \E accepted \in BOOLEAN : PinAnswered(accepted)
  \/ \E m \in {"idle", "focus", "break"}, inRitual \in BOOLEAN :
       Snapshot(m, inRitual)
  \/ \E t \in timers : FocusTimer(t)
  \/ \E t \in {"center", "pomodoro", "bar"} : PersonFocuses(t)

Spec == Init /\ [][Next]_vars

-----------------------------------------------------------------------------
(* Whatever opens, closes, is refused or returns from an await, one dialog
   is shown at most, the isolation is its own, and whatever no snapshot
   writes to is inert behind it (dom.js:81-92, and the order of the calls in
   every open and close). *)
DialogIsModal ==
  \A d \in dom.shown :
    /\ dom.shown = {d}
    /\ dom.root = d
    /\ \A e \in Siblings(d) \ {"dial", "pomodoro"} : dom.inert[e]

(* When the last dialog has gone, isolation has left nothing behind: no
   remembered attribute, no control that stays inert, no class that keeps
   the time dial invisible (dom.js:62-67, room-auth.js:26-30). *)
ControlsComeBack ==
  dom.shown = {} =>
    /\ dom.root = None
    /\ ~dom.class
    /\ \A e \in Elements : dom.saved[e] = None
    /\ \A e \in {"center", "bar", "controls", "auth"} : ~dom.inert[e]
    /\ \A d \in Docked : dom.inert[d]

(* While a dialog is shown, and before its own timer has fired as well as
   after, timers of the renderer, of a dialog closed before and of a snapshot
   behind it never leave the focus on the page, unless the dialog is busy and
   all it could focus is disabled (dom.js:127-129). *)
FocusContained ==
  \A d \in dom.shown :
    ~(d = "scene" /\ switching) => dom.focus \in {d, None}

(* Dialogs and snapshots write to the same attributes.  The dial and the
   pomodoro are reachable as the session wants it, unless a dialog hid the
   change of session and no snapshot has come since (dom.js:50-68,
   room-renderer.js:192). *)
AttributesFollowSession ==
  dom.shown = {} /\ ~moved =>
    /\ dom.inert["dial"] = Session(mode)
    /\ dom.inert["pomodoro"] = ~Session(mode)
=============================================================================
