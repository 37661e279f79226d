---------------------------- MODULE OLEDDisplayUi ----------------------------
(***************************************************************************)
(* OLEDDisplayUi of the Heltec library: frames that follow one another by  *)
(* themselves or by hand, in animated transitions.  update() is called by  *)
(* loop() at any time and draws when its time budget is used up.           *)
(***************************************************************************)
EXTENDS Integers

CONSTANTS MaxFrames,           \* bound: frames of setFrames
          HidesIndicator,      \* frames that turn the indicator off
          TicksPerFrame, TicksPerTransition,
          UpdateInterval,      \* milliseconds
          Elapsed              \* bound: milliseconds that loop() lets pass

VARIABLES ui,       \* the state and the settings
          wanted,   \* history: the frame the running transition should reach, or None
          auto,     \* history: the direction set for automatic transitions
          hurried   \* history: the sketch took control before a transition had settled

uiVars == <<ui, wanted, auto, hurried>>

None == -1

UiInit ==
    /\ \E n \in 1 .. MaxFrames :
          ui = [frameCount |-> n, frameState |-> "FIXED", currentFrame |-> 0, ticks |-> 0,
                direction |-> 1, lastDirection |-> 1, manual |-> FALSE, next |-> None,
                autoTransition |-> TRUE, indicator |-> TRUE, drawState |-> 1, updated |-> FALSE]
    /\ wanted = None /\ auto = 1 /\ hurried = FALSE

Frames == 0 .. ui.frameCount - 1
GetNextFrameNumber(u) ==
    IF u.next # None THEN u.next ELSE (u.currentFrame + u.frameCount + u.direction) % u.frameCount

-----------------------------------------------------------------------------
(* A tick.                                                                 *)

Arrived(u) ==
    [u EXCEPT !.frameState = "FIXED", !.currentFrame = GetNextFrameNumber(u), !.ticks = 0, !.next = None]

\* The direction of before a manual transition comes back.
Reverted(u) == IF u.manual THEN [u EXCEPT !.direction = u.lastDirection, !.manual = FALSE] ELSE u

StateSwitched(u) ==
    IF u.frameState = "IN_TRANSITION"
    THEN IF u.ticks >= TicksPerTransition THEN Arrived(u) ELSE u
    ELSE LET v == Reverted(u) IN
         IF v.ticks < TicksPerFrame THEN v
         ELSE [v EXCEPT !.ticks = 0, !.frameState = IF v.autoTransition THEN "IN_TRANSITION" ELSE @]

\* drawFrame: the frames' functions show whether they hide the indicator.
DrawState(shown, shownNext, was) ==
    CASE shown /\ ~shownNext  -> 2
      [] ~shown /\ shownNext  -> 1
      [] ~shown /\ ~shownNext -> 3
      [] OTHER -> was
Drawn(u) ==
    LET shown == u.currentFrame \notin HidesIndicator
        shownNext == GetNextFrameNumber(u) \notin HidesIndicator
    IN  IF u.frameState = "FIXED" THEN [u EXCEPT !.drawState = 0, !.indicator = shown]
        ELSE [u EXCEPT !.drawState = DrawState(shown, shownNext, @), !.indicator = shown /\ shownNext]

Tick(u) == Drawn(StateSwitched([u EXCEPT !.ticks = @ + 1]))

\* int8_t
Int8(n) == ((n + 128) % 256) - 128

\* update(): when the budget is used up, after the ticks that were missed.
Update ==
    /\ \E elapsed \in Elapsed :
          LET budget == Int8(UpdateInterval - elapsed)
              missed == IF ui.autoTransition /\ ui.updated THEN (-budget) \div UpdateInterval ELSE 0
              u      == Tick([ui EXCEPT !.ticks = @ + missed, !.updated = TRUE])
          IN  /\ budget <= 0
              /\ ui' = u
              /\ wanted' = CASE ui.frameState = "FIXED" /\ u.frameState = "IN_TRANSITION"
                                  -> (ui.currentFrame + ui.frameCount + auto) % ui.frameCount
                             [] u.frameState = "FIXED" -> None
                             [] OTHER -> wanted
    /\ UNCHANGED <<auto, hurried>>

-----------------------------------------------------------------------------
(* Control.                                                                *)

\* Not in a transition, and the direction of before it is back.
Settled == ui.frameState = "FIXED" /\ ~ui.manual /\ ui.drawState = 0

\* nextFrame(), previousFrame()
Step(d) ==
    /\ ui.frameState # "IN_TRANSITION"
    /\ ui' = [ui EXCEPT !.manual = TRUE, !.frameState = "IN_TRANSITION", !.ticks = 0,
                        !.lastDirection = ui.direction, !.direction = d]
    /\ wanted' = (ui.currentFrame + ui.frameCount + d) % ui.frameCount
    /\ hurried' = (hurried \/ ~Settled)
    /\ UNCHANGED auto

SwitchToFrame(frame) ==
    /\ ui' = IF frame = ui.currentFrame THEN [ui EXCEPT !.ticks = 0]
             ELSE [ui EXCEPT !.ticks = 0, !.frameState = "FIXED", !.currentFrame = frame, !.indicator = TRUE]
    /\ hurried' = (hurried \/ ~Settled)
    /\ UNCHANGED <<wanted, auto>>

TransitionToFrame(frame) ==
    /\ IF frame = ui.currentFrame
       THEN ui' = [ui EXCEPT !.ticks = 0] /\ wanted' = wanted
       ELSE /\ ui' = [ui EXCEPT !.ticks = 0, !.next = frame, !.lastDirection = ui.direction,
                                !.manual = TRUE, !.frameState = "IN_TRANSITION",
                                !.direction = IF frame < ui.currentFrame THEN -1 ELSE 1]
            /\ wanted' = frame
    /\ hurried' = (hurried \/ ~Settled)
    /\ UNCHANGED auto

\* setAutoTransitionForwards(), setAutoTransitionBackwards()
SetDirection(d) ==
    /\ ui' = [ui EXCEPT !.direction = d, !.lastDirection = d]
    /\ auto' = d
    /\ hurried' = (hurried \/ ~Settled)
    /\ UNCHANGED wanted

SetAutoTransition ==
    /\ ui' = [ui EXCEPT !.autoTransition = ~@]
    /\ UNCHANGED <<wanted, auto, hurried>>

\* setFrames with resetState: the direction and nextFrameNumber stay.
SetFrames(n) ==
    /\ ui' = [ui EXCEPT !.frameCount = n, !.updated = FALSE, !.ticks = 0, !.frameState = "FIXED",
                        !.currentFrame = 0, !.indicator = TRUE]
    /\ wanted' = None
    /\ hurried' = (hurried \/ ~Settled)
    /\ UNCHANGED auto

UiNext ==
    \/ Update \/ SetAutoTransition
    \/ \E d \in {-1, 1} : Step(d) \/ SetDirection(d)
    \/ \E frame \in Frames : SwitchToFrame(frame) \/ TransitionToFrame(frame)
    \/ \E n \in 1 .. MaxFrames : SetFrames(n)

-----------------------------------------------------------------------------

\* Unless the sketch takes control before a transition has settled, every
\* transition reaches the frame it was started for, automatic ones the next in
\* the direction that was set, whatever was done by hand before; only frames
\* that exist are drawn; and the indicator slides as the two frames ask.
FramesFollow ==
    ~hurried =>
        /\ ui.currentFrame \in Frames /\ GetNextFrameNumber(ui) \in Frames
        /\ ui.frameState = "IN_TRANSITION" => GetNextFrameNumber(ui) = wanted
        /\ Settled => ui.direction = auto /\ ui.next = None
        /\ ui.updated /\ ui.drawState # 0 => ui.drawState = DrawState(ui.currentFrame \notin HidesIndicator,
              GetNextFrameNumber(ui) \notin HidesIndicator, 0)
=============================================================================
