---------------------------- MODULE WindowControl ----------------------------
(* The window tools: pictures of a window and actions on it, in the           *)
(* background where the window allows it, in the foreground where the caller  *)
(* does (bf_automation/window_control.py).  Calls on one window follow each   *)
(* other; calls on two windows, and the person at the desk, do not.           *)
(*                                                                            *)
(* A call is made once.  MaxEvents bounds the input events of one action, and *)
(* MaxMeddling what the person does meanwhile.  The task's claim on a window  *)
(* is DesktopControl's.                                                       *)
EXTENDS Naturals

CONSTANTS Windows, Calls, MaxEvents, MaxMeddling

Nobody == "nobody"
Ops == {"look", "press", "write", "choose", "shortcut"}
Targets == {"element", "point"}      \* "point": a point, or neither

VARIABLES
    shape,      \* of each window: normal, minimized, staged (off the screen), gone
    front,      \* the foreground window
    call,       \* the calls of WindowController
    lock,       \* of each window: the call that holds its operation lock
    lease,      \* the call that holds the desktop lease
    given,      \* the shape each window had from the person
    excused,    \* windows that could not be put back, or that changed hands meanwhile
    meddling

vars == <<shape, front, call, lock, lease, given, excused, meddling>>

TypeOK ==
    /\ shape \in [Windows -> {"normal", "minimized", "staged", "gone"}]
    /\ given \in [Windows -> {"normal", "minimized", "gone"}]
    /\ front \in Windows \cup {Nobody}
    /\ lock \in [Windows -> Calls \cup {Nobody}]
    /\ lease \in Calls \cup {Nobody}
    /\ excused \subseteq Windows
    /\ meddling \in 0 .. MaxMeddling
    /\ call \in [Calls -> [op: Ops, on: Windows \cup {Nobody}, by: Targets, ahead: Windows \cup {Nobody},
                           found: {"normal", "minimized", "staged"}, left: 0 .. MaxEvents, strayed: Nat, acted: BOOLEAN,
                           answer: {"", "accepted", "refused", "unknown", "error"},
                           pc: {"new", "asked", "background", "looking", "leasing", "capturing", "framing",
                                "fronting", "focusing", "checking", "sending", "putting back", "refocusing", "done"}]]

Unmade == [op |-> "look", on |-> Nobody, by |-> "point", ahead |-> Nobody, found |-> "normal",
           left |-> 0, strayed |-> 0, acted |-> FALSE, answer |-> "", pc |-> "new"]

Init ==
    /\ shape \in [Windows -> {"normal", "minimized"}]
    /\ given = shape
    /\ front \in {w \in Windows : shape[w] = "normal"} \cup {Nobody}
    /\ call = [c \in Calls |-> Unmade]
    /\ lock = [w \in Windows |-> Nobody] /\ lease = Nobody
    /\ excused = {} /\ meddling = 0

At(c, pc) == call[c].pc = pc
Gone(c) == shape[call[c].on] = "gone"
Looks(c) == call[c].op = "look"
Goes(c, pc) == call' = [call EXCEPT ![c].pc = pc]

\* The call's answer is settled; what it holds is let go.
Ends(c, answer, acted) ==
    /\ call' = [call EXCEPT ![c] = [Unmade EXCEPT !.pc = "done", !.answer = answer, !.strayed = call[c].strayed,
                                                  !.acted = call[c].acted \/ acted]]
    /\ lock' = [w \in Windows |-> IF lock[w] = c THEN Nobody ELSE lock[w]]
    /\ lease' = IF lease = c THEN Nobody ELSE lease

\* The answer is known, but the desktop has to be put back first.
Settles(c, answer, acted) ==
    call' = [call EXCEPT ![c] = [Unmade EXCEPT !.on = call[c].on, !.ahead = call[c].ahead, !.found = call[c].found,
                                     !.pc = "putting back", !.answer = answer,
                                     !.strayed = call[c].strayed, !.acted = call[c].acted \/ acted]]

DesktopAlone == UNCHANGED <<shape, front, given, excused, meddling>>
HoldsOn == UNCHANGED <<lock, lease>>

\* screenshot, snapshot or control, up to the wait for the window's lock.
Ask(c, op, w, by) ==
    /\ At(c, "new") /\ shape[w] # "gone"
    /\ call' = [call EXCEPT ![c] = [@ EXCEPT !.op = op, !.on = w, !.by = by, !.pc = "asked"]]
    /\ HoldsOn /\ DesktopAlone

Enter(c) ==
    /\ At(c, "asked") /\ lock[call[c].on] = Nobody
    /\ IF Gone(c) THEN Ends(c, "error", FALSE)
       ELSE /\ lock' = [lock EXCEPT ![call[c].on] = c]
            /\ Goes(c, IF Looks(c) THEN "looking" ELSE "background")
            /\ UNCHANGED lease
    /\ DesktopAlone

\* What NativeWinApi.control can answer: an unknown element or a bad argument is
\* an error, a pattern or message that fails has an unknown outcome, and what no
\* element and no message can do is refused before anything is done.
Backgrounds(c) ==
    CASE call[c].op = "shortcut" -> {"refused", "error"}
      [] call[c].by = "element" -> {"accepted", "refused", "unknown", "error"}
      [] call[c].by = "point" /\ call[c].op = "press" ->
            IF shape[call[c].on] = "normal" THEN {"accepted", "refused", "error"} ELSE {"refused", "error"}
      [] OTHER -> {"refused"}

Background(c) ==
    /\ At(c, "background")
    /\ \E answer \in Backgrounds(c), acted \in BOOLEAN, fallback \in BOOLEAN :
          /\ answer = "accepted" => acted
          /\ answer \in {"refused", "error"} => ~acted
          /\ IF answer = "refused" /\ fallback THEN Goes(c, "leasing") /\ HoldsOn
             ELSE Ends(c, answer, acted)
    /\ DesktopAlone

\* DesktopLease.hold waits half a minute; then the window is looked at again.
Lease(c) ==
    /\ At(c, "leasing") /\ lease = Nobody
    /\ IF Gone(c) THEN Ends(c, "error", FALSE)
       ELSE lease' = c /\ Goes(c, IF Looks(c) THEN "capturing" ELSE "fronting") /\ UNCHANGED lock
    /\ DesktopAlone

LeaseTimeout(c) == At(c, "leasing") /\ lease # Nobody /\ Ends(c, "error", FALSE) /\ DesktopAlone

\* _screenshot_locked: only a window seen minimized needs the desktop.
Look(c) ==
    /\ At(c, "looking")
    /\ Goes(c, IF shape[call[c].on] = "minimized" THEN "leasing" ELSE "capturing")
    /\ HoldsOn /\ DesktopAlone

\* capture: the window is looked at anew, and staged if it is minimized now.
Capture(c) ==
    /\ At(c, "capturing")
    /\ IF shape[call[c].on] = "minimized"
       THEN \/ /\ call' = [call EXCEPT ![c] = [@ EXCEPT !.pc = "framing", !.found = "minimized", !.ahead = front]]
               /\ shape' = [shape EXCEPT ![call[c].on] = "staged"]
               /\ HoldsOn
            \/ Ends(c, "error", FALSE) /\ UNCHANGED shape
       ELSE (\E answer \in {"accepted", "error"} : (Gone(c) => answer = "error") /\ Ends(c, answer, FALSE))
            /\ UNCHANGED shape
    /\ UNCHANGED <<front, given, excused, meddling>>

Frame(c) ==
    /\ At(c, "framing")
    /\ \E answer \in {"accepted", "error"} : (Gone(c) => answer = "error") /\ Settles(c, answer, FALSE)
    /\ HoldsOn /\ DesktopAlone

\* foreground_control: the foreground and the placement are noted, the window is
\* shown and brought to the front.
Front(c) ==
    /\ At(c, "fronting")
    /\ IF Gone(c) THEN Ends(c, "error", FALSE) /\ UNCHANGED <<shape, front>>
       ELSE /\ HoldsOn
            /\ shape' = [shape EXCEPT ![call[c].on] = "normal"]
            /\ LET noted == [call[c] EXCEPT !.found = shape[call[c].on], !.ahead = front]
               IN \/ call' = [call EXCEPT ![c] = [noted EXCEPT !.pc = "focusing"]] /\ front' = call[c].on
                  \/ /\ call' = [call EXCEPT ![c] = [noted EXCEPT !.pc = "putting back", !.answer = "refused"]]
                     /\ UNCHANGED front
    /\ UNCHANGED <<given, excused, meddling>>

\* The element takes the focus.  A press on one that can be invoked is done at
\* once; points, text and shortcuts are sent event by event; the rest is refused.
Focus(c) ==
    /\ At(c, "focusing")
    /\ \/ call[c].by = "element" /\ Settles(c, "error", FALSE)
       \/ (call[c].by = "element" \/ call[c].op = "press" \/ front # call[c].on) /\ Settles(c, "refused", FALSE)
       \/ /\ front = call[c].on
          /\ IF call[c].op = "choose" THEN Settles(c, "refused", FALSE)
             ELSE IF call[c].op = "press" /\ call[c].by = "element"
             THEN \/ Settles(c, "accepted", TRUE)
                  \/ \E acted \in BOOLEAN : Settles(c, "unknown", acted)
             ELSE \E n \in 0 .. MaxEvents :
                    call' = [call EXCEPT ![c].pc = "checking", ![c].left = n]
    /\ HoldsOn /\ DesktopAlone

\* The focus is found where it should be; no event has strayed since.
Focused(c) == call' = [call EXCEPT ![c].pc = "sending", ![c].strayed = 0]

\* Mutant: once the call is past its first event it looks no more.
CheckOnce(c) ==
    /\ At(c, "checking")
    /\ IF call[c].left = 0 THEN Settles(c, "accepted", TRUE)
       ELSE IF front = call[c].on THEN Focused(c)
       ELSE IF call[c].acted THEN Goes(c, "sending")
       ELSE Settles(c, "unknown", FALSE)
    /\ HoldsOn /\ DesktopAlone

\* Mutant: a lost focus is answered like an action that was never begun.
CheckRefusing(c) ==
    /\ At(c, "checking")
    /\ IF call[c].left = 0 THEN Settles(c, "accepted", TRUE)
       ELSE IF front = call[c].on THEN Focused(c)
       ELSE Settles(c, "refused", FALSE)
    /\ HoldsOn /\ DesktopAlone

\* require_focus, before every input event.
Check(c) ==
    /\ At(c, "checking")
    /\ IF call[c].left = 0 THEN Settles(c, "accepted", TRUE)
       ELSE IF front = call[c].on THEN Focused(c)
       ELSE Settles(c, "unknown", FALSE)
    /\ HoldsOn /\ DesktopAlone

\* The event goes to whatever is in front.
Send(c) ==
    /\ At(c, "sending")
    /\ LET sent == [call[c] EXCEPT !.acted = TRUE, !.left = @ - 1,
                                   !.strayed = IF front = call[c].on THEN @ ELSE @ + 1]
       IN \/ call' = [call EXCEPT ![c] = [sent EXCEPT !.pc = "checking"]]
          \/ call' = [call EXCEPT ![c] = [sent EXCEPT !.pc = "putting back", !.answer = "unknown"]]
    /\ HoldsOn /\ DesktopAlone

\* Mutant: the placement is put back only after an accepted action.
PutBackAccepted(c) ==
    /\ At(c, "putting back") /\ Goes(c, "refocusing")
    /\ shape' = IF call[c].answer = "accepted" /\ ~Gone(c) THEN [shape EXCEPT ![call[c].on] = call[c].found] ELSE shape
    /\ UNCHANGED <<excused, front, given, meddling>> /\ HoldsOn

\* finally: SetWindowPlacement, which may fail.
PutBack(c) ==
    /\ At(c, "putting back") /\ Goes(c, "refocusing")
    /\ \/ shape' = (IF Gone(c) THEN shape ELSE [shape EXCEPT ![call[c].on] = call[c].found]) /\ UNCHANGED excused
       \/ excused' = excused \cup {call[c].on} /\ UNCHANGED shape
    /\ UNCHANGED <<front, given, meddling>> /\ HoldsOn

\* ... and _restore_foreground of the window that was in front.
Refocus(c) ==
    /\ At(c, "refocusing")
    /\ Ends(c, call[c].answer, FALSE)
    /\ \/ call[c].ahead # Nobody /\ shape[call[c].ahead] # "gone" /\ front' = call[c].ahead
       \/ UNCHANGED front
    /\ UNCHANGED <<shape, given, excused, meddling>>

\* The person at the desk.
Meddles == meddling < MaxMeddling /\ meddling' = meddling + 1 /\ UNCHANGED <<call, lock, lease>>
Shapes(w, s) ==
    /\ shape' = [shape EXCEPT ![w] = s] /\ given' = [given EXCEPT ![w] = s]
    /\ excused' = IF lock[w] = Nobody THEN excused \ {w} ELSE excused \cup {w}
    /\ front' = IF s # "normal" /\ front = w THEN Nobody ELSE front

Turn(w) ==
    /\ Meddles /\ w # front
    /\ w \in Windows => shape[w] = "normal"
    /\ front' = w /\ UNCHANGED <<shape, given, excused>>
Minimize(w) == Meddles /\ shape[w] = "normal" /\ Shapes(w, "minimized")
Reopen(w) == Meddles /\ shape[w] = "minimized" /\ Shapes(w, "normal")
Close(w) == Meddles /\ shape[w] # "gone" /\ Shapes(w, "gone")

Next ==
    \/ \E c \in Calls :
          \/ \E op \in Ops \ {"look"}, w \in Windows, by \in Targets : Ask(c, op, w, by)
          \/ \E w \in Windows : Ask(c, "look", w, "point")
          \/ Enter(c) \/ Background(c) \/ Lease(c) \/ LeaseTimeout(c)
          \/ Look(c) \/ Capture(c) \/ Frame(c)
          \/ Front(c) \/ Focus(c) \/ Check(c) \/ Send(c) \/ PutBack(c) \/ Refocus(c)
    \/ \E w \in Windows : Minimize(w) \/ Reopen(w) \/ Close(w)
    \/ \E w \in Windows \cup {Nobody} : Turn(w)

Spec == Init /\ [][Next]_vars
------------------------------------------------------------------------------
\* An action answered as refused was not even begun, in the background or in the
\* foreground: the caller may try again.
RefusedDidNothing == \A c \in Calls : call[c].answer = "refused" => ~call[c].acted

\* Since the focus was last found to be its window's, no more of a call's events
\* reach another window than the one under way when the focus left.
FewEventsStray == \A c \in Calls : call[c].strayed <= 1

\* A window no call works on is as the person left it, however the calls on it
\* ended, unless it could not be put back.
LeftAsFound ==
    \A w \in Windows : lock[w] = Nobody /\ w \notin excused => shape[w] = given[w]

WindowsAnswerTrue == RefusedDidNothing /\ FewEventsStray /\ LeftAsFound

\* What is done to a minimized window is done by the call that has the desktop.
StagedUnderLease == \A c \in Calls : At(c, "framing") => lease = c
==============================================================================
