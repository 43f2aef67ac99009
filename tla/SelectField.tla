----------------------------- MODULE SelectField -----------------------------
(* A field with a list to choose from (SelectField over Select): the filters of the pages and *)
(* the source of a new download.  The list stays in the document, inert while it is closed;   *)
(* where the focus goes is asked for in the next animation frame, when the list may be closed *)
(* again and the user somewhere else.                                                         *)
EXTENDS Naturals, Sequences

CONSTANTS OptionCount,  \* number of options
          MaxStrokes    \* bound on what the user does

ASSUME SelectAssumption == OptionCount \in Nat \ {0} /\ MaxStrokes \in Nat

VARIABLES listOpen,
          focus,        \* the index of an option, OnTrigger, Outside or Lost
          frames,       \* what the animation frames that have been asked for will focus
          chosen,       \* the value
          strokes

selectVars == <<listOpen, focus, frames, chosen, strokes>>

OptionsOf == 1..OptionCount
OnTrigger == 0
Outside   == OptionCount + 1   \* where the user has put it
Lost      == OptionCount + 2   \* on nothing: what had it has become inert

SelectInit ==
  /\ listOpen = FALSE /\ focus = Outside /\ frames = << >> /\ chosen \in OptionsOf
  /\ strokes = 0

\* Bounded, for TLC.
Strokes == strokes < MaxStrokes /\ strokes' = strokes + 1

Inside == focus = OnTrigger \/ focus \in OptionsOf

\* setOpen(false): React commits before the next event, and the list is inert.
Inert(f) == IF f \in OptionsOf THEN Lost ELSE f

-----------------------------------------------------------------------------
(* The keyboard.                                                            *)

\* Arrows, Home and End open the list, and step from the option that has the focus.
StepKey ==
  /\ Inside /\ Strokes /\ Len(frames) < 3
  /\ listOpen' = TRUE
  /\ \E key \in {"down", "up", "home", "end"} :
       frames' = Append(frames,
         IF key = "home" THEN 1
         ELSE IF key = "end" THEN OptionCount
         ELSE IF focus \notin OptionsOf THEN chosen
         ELSE IF key = "down" THEN 1 + (focus % OptionCount)
         ELSE 1 + ((focus + OptionCount - 2) % OptionCount))
  /\ UNCHANGED <<focus, chosen>>

\* Closes the list and hands the focus back.
Escape ==
  /\ listOpen /\ Inside /\ Strokes
  /\ listOpen' = FALSE /\ focus' = OnTrigger
  /\ UNCHANGED <<frames, chosen>>

\* From the list to what follows the trigger.
TabAway ==
  /\ Inside /\ Strokes /\ listOpen' = FALSE /\ focus' = Outside
  /\ UNCHANGED <<frames, chosen>>

TabInto ==
  /\ ~Inside /\ Strokes /\ focus' = OnTrigger
  /\ UNCHANGED <<listOpen, frames, chosen>>

-----------------------------------------------------------------------------
(* The pointer, and Enter, which clicks what has the focus.                 *)

ClickTrigger ==
  /\ Strokes /\ listOpen' = ~listOpen /\ focus' = OnTrigger
  /\ UNCHANGED <<frames, chosen>>

PointOutside ==
  /\ Strokes /\ listOpen' = FALSE /\ focus' = Outside
  /\ UNCHANGED <<frames, chosen>>

\* select: the option loses the focus with its list, and the trigger is to have it.
ChooseOption ==
  /\ listOpen /\ Strokes
  /\ \E i \in OptionsOf : chosen' = i /\ focus' = Inert(i)
  /\ listOpen' = FALSE
  /\ frames' = Append(frames, OnTrigger)

\* focus() of what is inert does nothing.
Takes(target) == IF target \in OptionsOf /\ ~listOpen THEN focus ELSE target

\* An animation frame.  When the focus leaves the field the list closes; here it never does.
Frame ==
  /\ frames # << >> /\ frames' = Tail(frames)
  /\ focus' = Takes(Head(frames))
  /\ UNCHANGED <<listOpen, chosen, strokes>>

SelectNext ==
  \/ StepKey \/ Escape \/ TabAway \/ TabInto \/ ClickTrigger \/ PointOutside \/ ChooseOption
  \/ Frame

SelectSpec == SelectInit /\ [][SelectNext]_selectVars /\ WF_selectVars(Frame)

-----------------------------------------------------------------------------
SelectTypeOK ==
  /\ listOpen \in BOOLEAN /\ chosen \in OptionsOf
  /\ focus \in OptionsOf \cup {OnTrigger, Outside, Lost}
  /\ \A i \in 1..Len(frames) : frames[i] \in OptionsOf \cup {OnTrigger}

\* Whatever is closed, chosen or left before the frames run, the keyboard is never left in a
\* closed list, where the user does not see it, nor on nothing.
FocusAtRest == frames = << >> /\ focus # Lost /\ (focus \in OptionsOf => listOpen)
FocusSettles == <>[]FocusAtRest
=============================================================================
