--------------------------------- MODULE Forms ---------------------------------
(* Forms in overlays and the helpers that send them (submitApi, loginApi, callApi   *)
(* under printHelper and exportExcelHelper, uploadApi). A helper finds its button by *)
(* id, once when it starts and once when it is answered, and the forms of the views  *)
(* all call their button submitBtn: the first one in the document is found. Overlays *)
(* are closed, and buttons given back, by timers.                                    *)
EXTENDS Naturals, FiniteSets

CONSTANTS
  Shells,       \* the overlays, in document order: 1, 2, ...
  FormsOf,      \* [Shells -> forms that are opened there]
  Tools,        \* buttons outside the forms, of "login", "print", "export", "upload"
  None,
  MaxOpens,     \* bound: forms opened
  MaxSends,     \* bound: requests
  MaxFaults     \* bound: requests that fail

VARIABLES
  content, opening,   \* [Shells -> the form in the overlay, and its number]
  visible,            \* overlays that are shown
  opens,
  disabled, busy,     \* buttons that are disabled; that show "Please wait..."
  dialog,             \* the form whose confirmation is asked
  sends, flights, faults,
  pending,            \* timers: overlays to be closed and buttons to be given back
  bar,                \* the upload the progress bar shows, 0 when it is empty
  mixed,              \* forms, or two openings of one, were sent at the same time, or
                      \* another's submitBtn was found
  stranded            \* tools whose handler ended without giving the button back

vars == <<content, opening, visible, opens, disabled, busy, dialog, sends, flights, faults, pending,
          bar, mixed, stranded>>

AllForms == UNION {FormsOf[s] : s \in Shells}
Present == {content[s] : s \in Shells} \ {None}
HostOf(f) == CHOOSE s \in Shells : f \in FormsOf[s]

\* The elements that $('#id') finds for the button of e: the first in the document.
ById(e) == IF e \in Tools THEN {e}
           ELSE {f \in Present : \A g \in Present : HostOf(f) <= HostOf(g)}

\* Mutant: the button shows that it waits and can still be pressed.
WaitsEnabled(e, on, text) ==
  /\ disabled' = disabled \ ById(e)
  /\ busy' = IF on \/ text = "busy" THEN busy \cup ById(e) ELSE busy \ ById(e)

\* loadingBtn()
LoadingBtn(e, on, text) ==
  /\ disabled' = IF on THEN disabled \cup ById(e) ELSE disabled \ ById(e)
  /\ busy' = IF on \/ text = "busy" THEN busy \cup ById(e) ELSE busy \ ById(e)

TextOf(e) == IF ById(e) \subseteq busy THEN "busy" ELSE "own"

(* ------------------------------- overlays -------------------------------- *)
Open(s, f) ==
  /\ dialog = None /\ opens < MaxOpens /\ opens' = opens + 1
  /\ content' = [content EXCEPT ![s] = f] /\ opening' = [opening EXCEPT ![s] = opens + 1]
  /\ visible' = visible \cup {s}
  /\ disabled' = disabled \ FormsOf[s] /\ busy' = busy \ FormsOf[s]
  /\ UNCHANGED <<dialog, sends, flights, faults, pending, bar, mixed, stranded>>

Dismiss(s) ==
  /\ dialog = None /\ visible' = visible \ {s} /\ s \in visible
  /\ UNCHANGED <<content, opening, opens, disabled, busy, dialog, sends, flights, faults, pending, bar,
                 mixed, stranded>>

(* -------------------------------- sending -------------------------------- *)
Send(e, text) ==
  /\ sends < MaxSends /\ sends' = sends + 1
  /\ flights' = flights \cup
       {[id |-> sends + 1, el |-> e, text |-> text, progress |-> FALSE, reply |-> None,
         saved |-> IF e \in Tools THEN 0 ELSE opening[HostOf(e)]]}

\* The form is submitted, unless its own button is disabled; Swal asks.
Ask(f) ==
  /\ dialog = None /\ f \in Present \ disabled /\ HostOf(f) \in visible
  /\ sends < MaxSends
  /\ dialog' = f
  /\ UNCHANGED <<content, opening, visible, opens, disabled, busy, sends, flights, faults, pending, bar,
                 mixed, stranded>>

\* submitApi() reads the text of the first submitBtn and makes that button wait.
Confirm ==
  /\ dialog # None /\ dialog' = None
  /\ Send(dialog, TextOf(dialog))
  /\ LoadingBtn(dialog, TRUE, "own")
  /\ mixed' = (mixed \/ ById(dialog) # {dialog} \/ \E q \in flights :
       q.el \in AllForms /\ (q.el # dialog \/ q.saved # opening[HostOf(dialog)]))
  /\ UNCHANGED <<content, opening, visible, opens, faults, pending, bar, stranded>>

Cancel ==
  /\ dialog # None /\ dialog' = None
  /\ UNCHANGED <<content, opening, visible, opens, disabled, busy, sends, flights, faults, pending, bar,
                 mixed, stranded>>

\* The other buttons: uploadApi() leaves its button alone.
Use(tool) ==
  /\ dialog = None /\ tool \notin disabled
  /\ Send(tool, IF tool = "login" THEN TextOf(tool) ELSE "own")
  /\ IF tool = "upload" THEN UNCHANGED <<disabled, busy>> ELSE LoadingBtn(tool, TRUE, "own")
  /\ UNCHANGED <<content, opening, visible, opens, dialog, faults, pending, bar, mixed, stranded>>

\* What a timer will do, and which overlay the form of q is in now.
Later(q, do, text) ==
  [do |-> do, id |-> q.id, el |-> q.el, text |-> text,
   opening |-> IF q.el \in AllForms THEN opening[HostOf(q.el)] ELSE 0]

\* onUploadProgress: at 100% a timer empties the bar, whosever it is by then.
Progress(q) ==
  /\ q \in flights /\ q.el = "upload" /\ q.reply = None /\ ~q.progress
  /\ bar' = q.id
  /\ \E full \in BOOLEAN :
       /\ flights' = IF full THEN (flights \ {q}) \cup {[q EXCEPT !.progress = TRUE]} ELSE flights
       /\ pending' = IF full THEN pending \cup {Later(q, "empty bar", "own")}
                     ELSE pending
  /\ UNCHANGED <<content, opening, visible, opens, disabled, busy, dialog, sends, faults, mixed, stranded>>

(* -------------------------------- answers -------------------------------- *)
\* "refused" stands for every status but success, "none" for no answer at all.
Reply(q) ==
  /\ q \in flights /\ q.reply = None
  /\ \E r \in {"ok", "refused", "none"} :
       /\ r = "ok" /\ q.el = "upload" => q.progress
       /\ r # "ok" => faults < MaxFaults
       /\ faults' = IF r = "ok" THEN faults ELSE faults + 1
       /\ flights' = (flights \ {q}) \cup {[q EXCEPT !.reply = r]}
  /\ UNCHANGED <<content, opening, visible, opens, disabled, busy, dialog, sends, pending, bar, mixed,
                 stranded>>

\* Mutant: the button is given back after a success only.
SaveForgetsRefusals(q) ==
  /\ q.el \in AllForms
  /\ IF q.reply = "ok" THEN LoadingBtn(q.el, FALSE, q.text) ELSE UNCHANGED <<disabled, busy>>
  /\ pending' = IF q.reply = "ok" /\ q.el \in Present THEN pending \cup {Later(q, "close", "own")} ELSE pending
  /\ UNCHANGED stranded

\* submitApi(): the button found by id is given back, whatever the answer; the overlay
\* that holds the form is closed 350 ms after a success.
SaveAnswered(q) ==
  /\ q.el \in AllForms
  /\ LoadingBtn(q.el, FALSE, q.text)
  /\ pending' = IF q.reply = "ok" /\ q.el \in Present THEN pending \cup {Later(q, "close", "own")} ELSE pending
  /\ UNCHANGED stranded

\* loginApi() reads error.response before it gives the button back.
LoginAnswered(q) ==
  /\ q.el = "login" /\ UNCHANGED pending
  /\ IF q.reply = "none" THEN stranded' = stranded \cup {q.el} /\ UNCHANGED <<disabled, busy>>
     ELSE LoadingBtn(q.el, FALSE, q.text) /\ UNCHANGED stranded

\* printHelper(): printDiv() takes the text of the busy button for its own, and gives
\* the button back after 800 ms; the helper itself does so after 450 ms.
PrintAnswered(q) ==
  /\ q.el = "print" /\ UNCHANGED <<disabled, busy>>
  /\ IF q.reply = "ok"
     THEN pending' = pending \cup {Later(q, "give back", "own"), Later(q, "printed", "busy")} /\ UNCHANGED stranded
     ELSE stranded' = stranded \cup {q.el} /\ UNCHANGED pending

\* exportExcelHelper() ends early only when callApi() throws: without an answer.
ExportAnswered(q) ==
  /\ q.el = "export" /\ UNCHANGED <<disabled, busy>>
  /\ IF q.reply = "none" THEN stranded' = stranded \cup {q.el} /\ UNCHANGED pending
     ELSE pending' = pending \cup {Later(q, "give back", "own")} /\ UNCHANGED stranded

UploadAnswered(q) == q.el = "upload" /\ UNCHANGED <<disabled, busy, pending, stranded>>

Answered(q) ==
  /\ q \in flights /\ q.reply # None /\ flights' = flights \ {q}
  /\ SaveAnswered(q) \/ LoginAnswered(q) \/ PrintAnswered(q) \/ ExportAnswered(q) \/ UploadAnswered(q)
  /\ mixed' = (mixed \/ (q.el \in AllForms /\ ById(q.el) # {q.el}))
  /\ UNCHANGED <<content, opening, visible, opens, dialog, sends, faults, bar>>

\* closeOverlayBySelector()
Closed(t) == IF t.do = "close" THEN visible \ {HostOf(t.el)} ELSE visible

BarAfter(t) == IF t.do = "empty bar" THEN 0 ELSE bar

\* A timer fires; closeOverlayBySelector() closes the overlay whatever is in it by now,
\* but Bootstrap ignores it while the overlay is on its way in.
Fire(t) ==
  /\ t \in pending /\ pending' = pending \ {t}
  /\ t.do = "printed" => ~ \E u \in pending : u.id = t.id /\ u.do = "give back"
  /\ IF t.do \in {"give back", "printed"} THEN LoadingBtn(t.el, FALSE, t.text) ELSE UNCHANGED <<disabled, busy>>
  /\ \/ visible' = Closed(t)
     \/ t.do = "close" /\ opening[HostOf(t.el)] # t.opening /\ UNCHANGED visible
  /\ bar' = BarAfter(t)
  /\ UNCHANGED <<content, opening, opens, dialog, sends, flights, faults, mixed, stranded>>

(* ---------------------------- specification ------------------------------ *)
Init ==
  /\ content = [s \in Shells |-> None] /\ opening = [s \in Shells |-> 0] /\ visible = {} /\ opens = 0
  /\ disabled = {} /\ busy = {} /\ dialog = None /\ sends = 0 /\ flights = {} /\ faults = 0
  /\ pending = {} /\ bar = 0 /\ mixed = FALSE /\ stranded = {}

Next ==
  \/ \E s \in Shells : Dismiss(s) \/ \E f \in FormsOf[s] : Open(s, f)
  \/ \E f \in AllForms : Ask(f)
  \/ Confirm \/ Cancel
  \/ \E tool \in Tools : Use(tool)
  \/ \E q \in flights : Progress(q) \/ Reply(q) \/ Answered(q)
  \/ \E t \in pending : Fire(t)

\* Requests are answered or fail, their handlers run, and timers fire.
Answer == \E q \in flights : Reply(q) \/ Answered(q)
Timers == {"close", "give back", "printed", "empty bar"}
FireOne(do) == \E t \in pending : t.do = do /\ Fire(t)
Fairness == WF_vars(Answer) /\ \A do \in Timers : WF_vars(FireOne(do))
Spec == Init /\ [][Next]_vars /\ Fairness

(* ------------------------------ properties ------------------------------- *)
TypeOK ==
  /\ \A s \in Shells : content[s] \in FormsOf[s] \cup {None}
  /\ opening \in [Shells -> 0..MaxOpens] /\ visible \subseteq Shells
  /\ disabled \cup busy \subseteq AllForms \cup Tools /\ dialog \in AllForms \cup {None}
  /\ bar \in 0..MaxSends /\ stranded \subseteq Tools

AtRest == flights = {} /\ pending = {} /\ dialog = None

\* A button that waits becomes usable again, whatever the answer and whichever other
\* requests come in between; only login, print and export strand theirs.
ButtonsComeBack ==
  \A e \in AllForms \cup Tools : e \in disabled ~> e \notin disabled \/ e \in stranded \/ mixed

\* When everything is answered, the buttons carry their own text, unless a helper took
\* the text of a waiting button for the button's own: two forms sent at a time, or a print.
LabelsComeBack == AtRest /\ ~mixed => busy \subseteq stranded \cup {"print"}

\* A form is never sent twice at a time unless it was opened again in between (the answer
\* to the first opening gives back the button that waits for the second), or the button that
\* waited was that of another form.
OneSaveAtATime ==
  ~mixed => \A p, q \in flights : p.el \in AllForms /\ p.el = q.el /\ p.saved = q.saved => p = q

\* The overlay of a form that was saved is closed, unless it was opened again.
SavedFormCloses ==
  \A s \in Shells, o \in 1..MaxOpens :
    (\E t \in pending : t.do = "close" /\ HostOf(t.el) = s /\ t.opening = o)
      ~> s \notin visible \/ opening[s] # o

\* A progress bar is left behind only by an upload that broke off.
BarIsEmptied == AtRest /\ faults = 0 => bar = 0
===============================================================================
