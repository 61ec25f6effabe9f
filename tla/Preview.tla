-------------------------------- MODULE Preview --------------------------------
(* previewFiles(): a file is fetched, with retries and a time limit, before a viewer  *)
(* for it is put into the container; the viewer can be taken to the full screen, with *)
(* an overlay of the page's own where the browser refuses.                            *)
EXTENDS Naturals, FiniteSets

CONSTANTS
  Viewers,      \* kinds of viewers, of "text", "other" and "none" (unsupported)
  None,
  Retry,        \* settings.retry
  MaxAsked,     \* bound: files to be shown
  MaxFaults,    \* bound: fetches that fail or hang
  MaxEntries    \* bound: times the full screen is entered

VARIABLES
  last,         \* files asked for
  box,          \* what the container shows, and of which file
  work,         \* previews under way
  mishaps,
  crossed,      \* two previews were under way at a time
  hung,         \* a fetch without a time limit was not answered
  native,       \* the browser's own full screen is on
  covers,       \* full-screen overlays of the page (all have the same id)
  listeners,    \* Escape listeners on the document
  scroll,       \* the page can be scrolled
  entries,
  twice         \* an overlay was made over another

show == <<last, box, work, mishaps, crossed, hung>>
screen == <<native, covers, listeners, scroll, entries, twice>>
vars == <<last, box, work, mishaps, crossed, hung, native, covers, listeners, scroll, entries, twice>>

(* -------------------------------- fetching ------------------------------- *)

\* The container is emptied and shows the loader; a type without a viewer ends here.
Ask(viewer) ==
  /\ last < MaxAsked /\ last' = last + 1
  /\ IF viewer = "none"
     THEN box' = [kind |-> "error", file |-> last + 1] /\ UNCHANGED work
     ELSE /\ box' = [kind |-> "loader", file |-> last + 1]
          /\ work' = work \cup
               {[file |-> last + 1, viewer |-> viewer, attempt |-> 1, stage |-> "fetch", timed |-> TRUE]}
  /\ crossed' = (crossed \/ work # {})
  /\ UNCHANGED <<mishaps, hung, screen>>

Becomes(p, q) == work' = (work \ {p}) \cup {q}

\* fetchWithRetry(): the file is there; a text is fetched once more, without a limit.
FetchOk(p) ==
  /\ p \in work /\ p.stage \in {"fetch", "fetch text"}
  /\ Becomes(p, [p EXCEPT !.timed = FALSE, !.stage =
                   IF p.viewer = "text" /\ p.stage = "fetch" THEN "fetch text" ELSE "ready"])
  /\ UNCHANGED <<last, box, mishaps, crossed, hung, screen>>

NextStage(p) == IF p.stage = "fetch" /\ p.attempt < Retry THEN "pause" ELSE "failed"

\* A failure, a status other than 2xx or a file that is too large: the limit is taken
\* off with the first of them, and the next attempt comes after a pause.
FetchBad(p) ==
  /\ p \in work /\ p.stage \in {"fetch", "fetch text"} /\ mishaps < MaxFaults /\ mishaps' = mishaps + 1
  /\ Becomes(p, [p EXCEPT !.timed = FALSE,
                          !.stage = NextStage(p)])
  /\ UNCHANGED <<last, box, crossed, hung, screen>>

Again(p) ==
  /\ p \in work /\ p.stage = "pause"
  /\ Becomes(p, [p EXCEPT !.stage = "fetch", !.attempt = @ + 1])
  /\ UNCHANGED <<last, box, mishaps, crossed, hung, screen>>

\* No answer comes: the limit, while it is on, ends the preview without a retry.
Hang(p) ==
  /\ p \in work /\ p.stage \in {"fetch", "fetch text"} /\ mishaps < MaxFaults /\ mishaps' = mishaps + 1
  /\ Becomes(p, [p EXCEPT !.stage = IF p.timed THEN "failed" ELSE "hung"])
  /\ hung' = (hung \/ ~p.timed)
  /\ UNCHANGED <<last, box, crossed, screen>>

\* The viewer, or the error with its Retry button, replaces what the container shows.
Finish(p) ==
  /\ p \in work /\ p.stage \in {"ready", "failed"}
  /\ work' = work \ {p}
  /\ box' = [kind |-> IF p.stage = "ready" THEN "viewer" ELSE "error", file |-> p.file]
  /\ UNCHANGED <<last, mishaps, crossed, hung, screen>>

(* ------------------------------ full screen ------------------------------ *)
\* toggleFullscreen() only asks whether the browser's own full screen is on.
EnterNative ==
  /\ box.kind = "viewer" /\ ~native /\ covers = 0 /\ entries < MaxEntries /\ entries' = entries + 1
  /\ native' = TRUE
  /\ UNCHANGED <<show, covers, listeners, scroll, twice>>

LeaveNative ==
  /\ native /\ native' = FALSE
  /\ UNCHANGED <<show, covers, listeners, scroll, entries, twice>>

EnterCustom ==
  /\ box.kind = "viewer" /\ ~native /\ entries < MaxEntries /\ entries' = entries + 1
  /\ covers' = covers + 1 /\ listeners' = listeners + 1 /\ scroll' = FALSE
  /\ twice' = (twice \/ covers > 0)
  /\ UNCHANGED <<show, native>>

\* exitCustomFullscreen(): the first overlay with the id goes; the listener it tries
\* to remove is a new function, so that the old one stays.
ExitCustom ==
  /\ covers > 0
  /\ covers' = covers - 1 /\ scroll' = TRUE
  /\ UNCHANGED <<show, native, listeners, entries, twice>>

\* Escape calls every listener that has stayed.
Escape ==
  /\ ~native /\ listeners > 0 /\ covers > 0
  /\ covers' = IF listeners >= covers THEN 0 ELSE covers - listeners
  /\ scroll' = TRUE
  /\ UNCHANGED <<show, native, listeners, entries, twice>>

(* ---------------------------- specification ------------------------------ *)
Init ==
  /\ last = 0 /\ box = [kind |-> "none", file |-> 0] /\ work = {} /\ mishaps = 0
  /\ crossed = FALSE /\ hung = FALSE
  /\ native = FALSE /\ covers = 0 /\ listeners = 0 /\ scroll = TRUE /\ entries = 0 /\ twice = FALSE

Next ==
  \/ \E viewer \in Viewers : Ask(viewer)
  \/ \E p \in work : FetchOk(p) \/ FetchBad(p) \/ Hang(p) \/ Again(p) \/ Finish(p)
  \/ EnterNative \/ LeaveNative \/ EnterCustom \/ ExitCustom \/ Escape

\* A fetch is answered, fails, or hangs; pauses are timers and handlers run.
Progress == \E p \in work : FetchOk(p) \/ FetchBad(p) \/ Hang(p) \/ Again(p) \/ Finish(p)
Fairness == WF_vars(Progress)
Spec == Init /\ [][Next]_vars /\ Fairness

(* ------------------------------ properties ------------------------------- *)
TypeOK ==
  /\ box \in [kind : {"none", "loader", "viewer", "error"}, file : 0..MaxAsked]
  /\ \A p \in work : p.attempt \in 1..Retry /\ p.stage \in {"fetch", "fetch text", "pause", "ready", "failed", "hung"}
  /\ covers \in 0..MaxEntries /\ {native, scroll, crossed, hung, twice} \subseteq BOOLEAN

\* The container shows the file that was asked for last. Nothing ties an answer to the
\* container's present file: two previews under way at a time end in any order.
LastFileIsShown == ~crossed => box.file = last

\* The loader gives way to the file or to an error, except when a fetch hangs that has
\* no time limit: the second and later attempts, and the second fetch of a text.
LoaderEnds == box.kind = "loader" ~> box.kind # "loader" \/ hung

\* The page behind is locked exactly while a full-screen overlay covers it, as long as
\* no overlay was opened from within another.
LockedUnderCover == ~twice => (scroll <=> covers = 0)
===============================================================================
