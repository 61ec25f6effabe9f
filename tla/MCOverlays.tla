------------------------------ MODULE MCOverlays ------------------------------
(* The scripts of the overlays on small instances: partials in shells, overlays with *)
(* content of an endpoint, the order in which overlays lie on each other, file       *)
(* previews, the notification panel, dates and clocks, and helpers for data. A       *)
(* behaviour is about one of them: part says which.                                  *)
EXTENDS Shells, FiniteSets, TLC

CONSTANTS
  lg, off, a, b, c, e1, e2, NoPath,
  Ids, Retries, MaxLoads, MaxFailures,                      \* of ApiOverlays
  Layers, Position, Modals, MaxShows, MaxTicks,             \* of OverlayStack
  Viewers, Retry, MaxFiles, MaxMishaps, MaxEntries          \* of Preview

\* With settings.retry at 0 no file would be fetched at all; overlays have their places in the
\* document.
ASSUME OverlaysAssumption ==
  /\ {Retries, MaxLoads, MaxFailures, MaxShows, MaxTicks, MaxFiles, MaxMishaps, MaxEntries} \subseteq Nat
  /\ Retry \in Nat \ {0}
  /\ IsFiniteSet(Layers) /\ Modals \subseteq Layers
  /\ Position \in [Layers -> Nat] /\ \A o, p \in Layers : Position[o] = Position[p] => o = p

VARIABLES
  part,
  made, present, active, hiding, body, handlers, fetching, loads, failures, overtaken, leaky,
  managed, phase, order, sequence, zIndex, backdrops, zBackdrop, bodyOpen, ticks, opened, early,
  last, box, work, mishaps, crossed, hung, native, covers, listeners, scroll, entries, twice,
  panel, overlay, closings, turns, recoloured,
  question, answer, west, hour, clocks, timers, place, timerId, stale,
  value, path, default, array, removal

\* The modal takes contents that bring an element of their own, the offcanvas both kinds.
MountsOf == lg :> {"own"} @@ off :> {"own", "shell"}

\* The document has a, then b, then c.
PositionOf == a :> 1 @@ b :> 2 @@ c :> 3

Api == INSTANCE ApiOverlays WITH MaxFaults <- MaxFailures
Stack == INSTANCE OverlayStack
Files == INSTANCE Preview WITH MaxAsked <- MaxFiles, MaxFaults <- MaxMishaps
Notices == INSTANCE NotiPanel WITH MaxTurns <- 6
\* A week and two days, of which two dates and the weekend can be left out.
Dates == INSTANCE Calendar WITH
  LastDate <- 9, Elements <- {e1, e2}, MaxItems <- 2, MaxClocks <- 3,
  Items <- {[by |-> "date", at |-> 3], [by |-> "date", at |-> 8],
            [by |-> "weekday", at |-> 6], [by |-> "weekday", at |-> 0]}
Data == INSTANCE DataHelpers WITH
  Leaves <- {"undefined", "null", "false", "zero", "NaN", "blank", "'0'", "text"},
  Keys <- {"a", "b"}, Items <- {"a", "a,b", "blank", "NaN"}, MaxItems <- 3

partialsVars == vars
apiVars == <<made, present, active, hiding, body, handlers, fetching, loads, failures, overtaken,
             leaky>>
stackVars == <<managed, phase, order, sequence, zIndex, backdrops, zBackdrop, bodyOpen, ticks,
               opened, early>>
filesVars == <<last, box, work, mishaps, crossed, hung, native, covers, listeners, scroll, entries,
               twice>>
noticesVars == <<panel, overlay, closings, turns, recoloured>>
datesVars == <<question, answer, west, hour, clocks, timers, place, timerId, stale>>
dataVars == <<value, path, default, array, removal>>

OverlaysInit ==
  /\ part \in {"partials", "api", "stack", "files", "notices", "dates", "data"}
  /\ Init /\ Api!Init /\ Stack!Init /\ Files!Init /\ Notices!Init
  /\ Dates!Init /\ (part # "dates" => ~west) /\ Data!Init

OverlaysNext ==
  /\ UNCHANGED part
  /\ \/ /\ part = "partials" /\ Next
        /\ UNCHANGED <<apiVars, stackVars, filesVars, noticesVars, datesVars, dataVars>>
     \/ /\ part = "api" /\ Api!Next
        /\ UNCHANGED <<partialsVars, stackVars, filesVars, noticesVars, datesVars, dataVars>>
     \/ /\ part = "stack" /\ Stack!Next
        /\ UNCHANGED <<partialsVars, apiVars, filesVars, noticesVars, datesVars, dataVars>>
     \/ /\ part = "files" /\ Files!Next
        /\ UNCHANGED <<partialsVars, apiVars, stackVars, noticesVars, datesVars, dataVars>>
     \/ /\ part = "notices" /\ Notices!Next
        /\ UNCHANGED <<partialsVars, apiVars, stackVars, filesVars, datesVars, dataVars>>
     \/ /\ part = "dates" /\ Dates!Next
        /\ UNCHANGED <<partialsVars, apiVars, stackVars, filesVars, noticesVars, dataVars>>
     \/ /\ part = "data" /\ Data!Next
        /\ UNCHANGED <<partialsVars, apiVars, stackVars, filesVars, noticesVars, datesVars>>

\* The fairness of each part, for the behaviours that are about it.
OverlaysFairness ==
  /\ WF_partialsVars(part = "partials" /\ Answer)
  /\ WF_apiVars(part = "api" /\ Api!Progress)
  /\ WF_filesVars(part = "files" /\ Files!Progress)
  /\ WF_noticesVars(part = "notices" /\ Notices!Closed)

OverlaysSpec ==
  /\ OverlaysInit
  /\ [][OverlaysNext]_<<part, partialsVars, apiVars, stackVars, filesVars, noticesVars, datesVars,
           dataVars>>
  /\ OverlaysFairness

(* ------------------------------ properties ------------------------------- *)
\* The newest is shown, by overlays that load from an endpoint and by previews: the manager
\* lists the overlays that are in the document, and refresh handlers go with them.
NewestIsShown ==
  /\ Api!TypeOK /\ Files!TypeOK
  /\ Api!ListedIsPresent /\ Api!NewestIsShown /\ Api!HandlersAreDropped
  /\ Files!LastFileIsShown

\* What was shown later lies above, a backdrop dims what is below its overlay and only that,
\* and the page is locked and dimmed while it is covered.
StackIsInOrder ==
  /\ Stack!TypeOK
  /\ Stack!LaterLiesAbove /\ Stack!BackdropDimsWhatIsBelow /\ Stack!PageIsLockedUnderModals
  /\ Files!LockedUnderCover /\ Notices!DimmedUnderPanel

\* The helpers agree with their references: days between two dates are counted without those
\* that are named, and where the count errs it is too low; the 12-hour clock tells the hour,
\* and one runs in an element; what is at a path is found; empty() and hasData() differ about
\* a few values only; arrays are taken apart and put together again.
HelpersAgree ==
  /\ part = "dates" =>
       /\ Dates!TypeOK
       /\ Dates!DaysAreCounted /\ Dates!NeverTooMany
       /\ Dates!HourReadsBack /\ Dates!OneClockEach /\ Dates!TimerIdRuns
  /\ part = "data" =>
       /\ Data!TypeOK
       /\ Data!PathsAreFollowed /\ Data!EmptyIsNoData
       /\ Data!RemovedIsTheFound /\ Data!ChunksMakeTheWhole /\ Data!TextReadsBack

\* An overlay that was opened is filled, the loaders of overlays and previews go, and a
\* closed panel gives the page back.
WaitingEnds ==
  /\ AreaIsFilled
  /\ Api!LoaderGoes /\ Files!LoaderEnds
  /\ Notices!PageComesBack
===============================================================================
