------------------------------ MODULE OverlayStack ------------------------------
(* Bootstrap modals and offcanvases that lie on top of each other. Bootstrap gives *)
(* every overlay and every backdrop the same z-index, so the page re-indexes them  *)
(* after each of Bootstrap's events, with timers of 0 ms. Two stack managers are    *)
(* registered: that of helper.js, when the script is loaded, which goes by document *)
(* order, and that of ModalManager, when the first manager is made, which goes by   *)
(* the order in which overlays were shown. An index is one more than the number of  *)
(* elements before it.                                                              *)
EXTENDS Naturals, Sequences, FiniteSets

CONSTANTS
  Layers,        \* the overlays in the document
  Position,      \* [Layers -> Nat]: the order they have in it
  Modals,        \* those that are modals; the others are offcanvases
  MaxShows,      \* bound: overlays shown
  MaxTicks       \* bound: timers that wait when the next transition ends

VARIABLES
  managed,       \* a ModalManager has been made
  phase,         \* Bootstrap's phase of each overlay
  order,         \* data-overlay-stack-order, 0 when there is none
  sequence,      \* overlays shown; overlayStackSequence grows with it
  zIndex,        \* position of each overlay (1980 + 20 i), 0: Bootstrap's own
  backdrops,     \* which of all backdrops was appended for each overlay, 0: there is none
  zBackdrop,     \* position of each backdrop (1970 + 20 i), 0: Bootstrap's own
  bodyOpen,      \* body.modal-open
  ticks,         \* timers of 0 ms that wait, in order
  opened,        \* history: which of all overlays shown each was, when it was shown last
  early          \* history: overlays shown before there was a manager

vars == <<managed, phase, order, sequence, zIndex, backdrops, zBackdrop, bodyOpen, ticks, opened, early>>

\* A modal carries the class "show" once its backdrop has faded in, an offcanvas the
\* class "showing" at once; both lose it when they begin to hide.
IsVisible(o) == phase[o] = "shown" \/ phase[o] = "appearing" \/ (phase[o] = "showing" /\ o \notin Modals)
Visible == {o \in Layers : IsVisible(o)}

\* markOverlayAsTopmost() and getOverlayStackOrder(): the index in the document
\* stands in for the order of an overlay that was never marked.
StackOrder(o) ==
  IF order[o] # 0 THEN order[o] ELSE Cardinality({p \in Visible : Position[p] < Position[o]})

\* Mutant: both managers go by the document.
StacksByDocument(who, p, o) == Position[p] <= Position[o]

\* The stack of a manager has p no higher than o; the sort is stable.
NotAbove(who, p, o) ==
  IF who = "helper" THEN Position[p] <= Position[o]
  ELSE \/ StackOrder(p) < StackOrder(o)
       \/ StackOrder(p) = StackOrder(o) /\ Position[p] <= Position[o]

OverlayIndex(who, o) == Cardinality({p \in Visible : NotAbove(who, p, o)})
BackdropIndex(o) == Cardinality({p \in Layers : 0 < backdrops[p] /\ backdrops[p] <= backdrops[o]})

\* reindexOverlayStack() of either manager.
Reindex ==
  /\ ticks # <<>> /\ ticks' = Tail(ticks)
  /\ zIndex' = [o \in Layers |-> IF IsVisible(o) THEN OverlayIndex(Head(ticks), o) ELSE zIndex[o]]
  /\ zBackdrop' = [o \in Layers |-> IF backdrops[o] # 0 THEN BackdropIndex(o) ELSE zBackdrop[o]]
  /\ bodyOpen' = (\E o \in Modals : IsVisible(o))
  /\ UNCHANGED <<managed, phase, order, sequence, backdrops, opened, early>>

\* The listeners run in the order in which they were registered.
Sync(helperToo) ==
  LET first == IF helperToo THEN Append(ticks, "helper") ELSE ticks IN
  /\ Len(ticks) <= MaxTicks
  /\ ticks' = IF managed THEN Append(first, "manager") ELSE first

MakeManager ==
  /\ ~managed /\ managed' = TRUE
  /\ UNCHANGED <<phase, order, sequence, zIndex, backdrops, zBackdrop, bodyOpen, ticks, opened, early>>

\* show(): the event comes first, then the backdrop is appended to the body.
Show(o) ==
  /\ phase[o] = "hidden" /\ sequence < MaxShows
  /\ phase' = [phase EXCEPT ![o] = "showing"]
  /\ sequence' = sequence + 1
  /\ order' = IF managed THEN [order EXCEPT ![o] = sequence + 1] ELSE order
  /\ backdrops' = [backdrops EXCEPT ![o] = sequence + 1]
  /\ zBackdrop' = [zBackdrop EXCEPT ![o] = 0]
  /\ bodyOpen' = (bodyOpen \/ o \in Modals)
  /\ Sync(FALSE)
  /\ opened' = [opened EXCEPT ![o] = sequence + 1]
  /\ early' = IF managed THEN early \ {o} ELSE early \cup {o}
  /\ UNCHANGED <<managed, zIndex>>

Appear(o) ==
  /\ phase[o] = "showing"
  /\ phase' = [phase EXCEPT ![o] = "appearing"]
  /\ UNCHANGED <<managed, order, sequence, zIndex, backdrops, zBackdrop, bodyOpen, ticks, opened, early>>

Shown(o) ==
  /\ phase[o] = "appearing"
  /\ phase' = [phase EXCEPT ![o] = "shown"]
  /\ Sync(TRUE)
  /\ UNCHANGED <<managed, order, sequence, zIndex, backdrops, zBackdrop, bodyOpen, opened, early>>

\* hide() is ignored while the overlay is on its way in or out.
Hide(o) ==
  /\ phase[o] = "shown"
  /\ phase' = [phase EXCEPT ![o] = "hiding"]
  /\ UNCHANGED <<managed, order, sequence, zIndex, backdrops, zBackdrop, bodyOpen, ticks, opened, early>>

\* The backdrop goes, Bootstrap takes modal-open off the body, then the event comes.
Hidden(o) ==
  /\ phase[o] = "hiding"
  /\ phase' = [phase EXCEPT ![o] = "hidden"]
  /\ backdrops' = [backdrops EXCEPT ![o] = 0]
  /\ bodyOpen' = (bodyOpen /\ o \notin Modals)
  /\ Sync(TRUE)
  /\ UNCHANGED <<managed, order, sequence, zIndex, zBackdrop, opened, early>>

Nowhere == [o \in Layers |-> 0]
Init ==
  /\ managed = FALSE /\ phase = [o \in Layers |-> "hidden"] /\ order = Nowhere
  /\ sequence = 0 /\ zIndex = Nowhere /\ backdrops = Nowhere
  /\ zBackdrop = Nowhere /\ bodyOpen = FALSE /\ ticks = <<>> /\ opened = Nowhere
  /\ early = {}

Next ==
  \/ MakeManager \/ Reindex
  \/ \E o \in Layers : Show(o) \/ Appear(o) \/ Shown(o) \/ Hide(o) \/ Hidden(o)

Spec == Init /\ [][Next]_vars

(* ------------------------------ properties ------------------------------- *)
Settled == ticks = <<>> /\ \A o \in Layers : phase[o] \in {"shown", "hidden"}

TypeOK ==
  /\ phase \in [Layers -> {"hidden", "showing", "appearing", "shown", "hiding"}]
  /\ ticks \in Seq({"helper", "manager"})
  /\ sequence \in 0..MaxShows /\ {order, backdrops, opened} \subseteq [Layers -> 0..MaxShows]
  /\ {zIndex, zBackdrop} \subseteq [Layers -> 0..Cardinality(Layers)]

\* Once the page has come to rest, an overlay lies above those that were shown before
\* it, although the two managers disagree about the order and one of them only knows
\* overlays that were shown after it was made.
LaterLiesAbove ==
  Settled /\ managed /\ early = {} =>
    \A o, p \in Layers :
      phase[o] = "shown" /\ phase[p] = "shown" /\ opened[o] < opened[p] => zIndex[o] < zIndex[p]

\* The backdrop of an overlay dims everything below that overlay and nothing above:
\* backdrops are numbered in the order in which they were appended, overlays in the
\* order of the stack, and the two have to agree.
BackdropDimsWhatIsBelow ==
  Settled /\ managed /\ early = {} => \A o \in Layers : phase[o] = "shown" => zBackdrop[o] = zIndex[o]

\* The page behind is locked exactly while a modal is open: Bootstrap unlocks it with
\* every modal that is hidden, and the re-indexing locks it again.
PageIsLockedUnderModals == Settled => (bodyOpen <=> \E o \in Modals : phase[o] = "shown")
===============================================================================
