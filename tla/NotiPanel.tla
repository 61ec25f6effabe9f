------------------------------- MODULE NotiPanel -------------------------------
(* showNotiPanel(): a panel that slides in over a dimmed page. Panel and overlay each *)
(* have a class "show", which togglePanel() toggles apart from one another.           *)
EXTENDS Naturals

CONSTANTS MaxTurns    \* bound: toggles and changes of the system's theme

VARIABLES
  panel, overlay,     \* the class "show" of the panel, and of the overlay
  closings,           \* timers of 300 ms that wait
  turns,
  recoloured          \* the theme has changed while the panel was open

vars == <<panel, overlay, closings, turns, recoloured>>

\* togglePanel(), from the button, the cross, open(), close() or toggle().
TogglePanel ==
  /\ turns < MaxTurns /\ turns' = turns + 1
  /\ panel' = ~panel /\ overlay' = ~overlay
  /\ closings' = IF panel THEN closings + 1 ELSE closings
  /\ UNCHANGED recoloured

\* A click on the dimmed page, and Escape, close the panel if it is open.
ClickOverlay == overlay /\ panel /\ TogglePanel
PressEscape == panel /\ TogglePanel

\* The timer takes the overlay away if the panel has stayed closed.
Closed ==
  /\ closings > 0 /\ closings' = closings - 1
  /\ overlay' = (overlay /\ panel)
  /\ UNCHANGED <<panel, turns, recoloured>>

\* themeChangeHandler() sets the class of the panel anew, without "show".
ChangeTheme ==
  /\ turns < MaxTurns /\ turns' = turns + 1
  /\ panel' = FALSE /\ recoloured' = (recoloured \/ panel)
  /\ UNCHANGED <<overlay, closings>>

Init == panel = FALSE /\ overlay = FALSE /\ closings = 0 /\ turns = 0 /\ recoloured = FALSE
Next == TogglePanel \/ ClickOverlay \/ PressEscape \/ Closed \/ ChangeTheme
Spec == Init /\ [][Next]_vars /\ WF_vars(Closed)

(* ------------------------------ properties ------------------------------- *)
\* The page is dimmed exactly under an open panel, however quickly it is opened and
\* closed, unless the system's theme changed under the open panel.
DimmedUnderPanel == ~recoloured => (overlay <=> panel)

\* Closing the panel brings the page back, even after the two have got out of step.
PageComesBack == closings > 0 /\ overlay ~> panel \/ ~overlay
===============================================================================
