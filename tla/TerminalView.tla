---------------------------- MODULE TerminalView ----------------------------
(***************************************************************************)
(* Fullscreen of the browser's terminal: resources/js/terminal.js,         *)
(* enterFullscreen, exitFullscreen and what they do to the page.           *)
(*                                                                         *)
(* Of the inline styles they save and overwrite, those of the body matter: *)
(* it is an ancestor of the terminal, whose overflow is opened, and also   *)
(* the element whose scrolling is locked, so the two saves overlap.  The   *)
(* value "own" is what the page had.                                       *)
(***************************************************************************)
VARIABLES
  fullscreen,
  body,                       \* the body's inline overflow and position
  fullscreenAncestorPatches,  \* what patchAncestorsForFullscreen saved of it
  pageScrollLocked,           \* with it, wheel and touch events are swallowed
  scrollLockStyles            \* what lockPageScroll saved of it

view == <<fullscreen, body, fullscreenAncestorPatches, pageScrollLocked, scrollLockStyles>>

Unsaved == [overflow |-> "unsaved", position |-> "unsaved"]
Styles == [overflow : {"own", "visible", "hidden"}, position : {"own", "fixed"}]

ViewTypeOK ==
  /\ fullscreen \in BOOLEAN /\ pageScrollLocked \in BOOLEAN
  /\ body \in Styles
  /\ fullscreenAncestorPatches \in Styles \cup {Unsaved}
  /\ scrollLockStyles \in Styles \cup {Unsaved}

ViewInit ==
  /\ fullscreen = FALSE /\ pageScrollLocked = FALSE
  /\ body = [overflow |-> "own", position |-> "own"]
  /\ fullscreenAncestorPatches = Unsaved /\ scrollLockStyles = Unsaved

(* restoreAncestorsAfterFullscreen, applied to the styles s.               *)
RestoreAncestors(s) ==
  IF fullscreenAncestorPatches = Unsaved THEN s ELSE fullscreenAncestorPatches

(* unlockPageScroll, applied to the styles s.                              *)
UnlockPageScroll(s) == IF pageScrollLocked THEN scrollLockStyles ELSE s

(* patchAncestorsForFullscreen restores, saves, and opens the overflow of  *)
(* the body; what it leaves is `patched'.                                  *)
PatchAncestors(patched) ==
  /\ patched = [RestoreAncestors(body) EXCEPT !.overflow = "visible"]
  /\ fullscreenAncestorPatches' = RestoreAncestors(body)

(* lockPageScroll saves what it finds and freezes the page.                *)
LockPageScroll(patched) ==
  /\ pageScrollLocked' = TRUE
  /\ IF pageScrollLocked
       THEN body' = patched /\ UNCHANGED scrollLockStyles
       ELSE /\ body' = [overflow |-> "hidden", position |-> "fixed"]
            /\ scrollLockStyles' = patched

EnterFullscreen ==
  /\ ~fullscreen /\ fullscreen' = TRUE
  /\ \E patched \in Styles : PatchAncestors(patched) /\ LockPageScroll(patched)

\* Mutant: the page is not unlocked.
ExitFullscreenLocked ==
  /\ fullscreen' = FALSE
  /\ body' = RestoreAncestors(body) /\ fullscreenAncestorPatches' = Unsaved
  /\ UNCHANGED <<pageScrollLocked, scrollLockStyles>>

(* exitFullscreen, which also runs when the terminal is not fullscreen.    *)
ExitFullscreen ==
  /\ fullscreen' = FALSE
  /\ body' = UnlockPageScroll(RestoreAncestors(body))
  /\ fullscreenAncestorPatches' = Unsaved
  /\ pageScrollLocked' = FALSE /\ scrollLockStyles' = Unsaved

(* The page is never left frozen: however fullscreen ends (the button, the *)
(* end of the terminal's process, leaving the page), it can be scrolled    *)
(* afterwards.                                                             *)
NeverLeftFrozen ==
  ~fullscreen => ~pageScrollLocked /\ body.overflow # "hidden" /\ body.position = "own"
=============================================================================
