-------------------------------- MODULE Shells --------------------------------
(* ModalManager: partials loaded into overlays. A shared shell (one modal for each *)
(* size, one offcanvas) is reused by every loadFileContent and loadFormContent: the *)
(* content is mounted in the shell's own element, or in a fresh element inside it   *)
(* when the caller names one. showFileContent and showFormContent create an overlay *)
(* of their own, which is removed when it is closed. Answers come in any order, and  *)
(* the setup hook of a content, which awaits requests of its own, ends at any time.  *)
EXTENDS Naturals, Sequences, FiniteSets

CONSTANTS
  Shared,        \* shared shells
  Dynamic,       \* overlays created for one content
  Mounts,        \* [Shared -> subsets of {"own", "shell"}]: how callers mount there
  Partials,      \* the files that are loaded, each with ids of its own
  None,
  MaxAsked,      \* bound: contents asked for
  MaxFlights,    \* bound: requests, retries included
  MaxBad         \* bound: requests that fail, and hooks that throw in a dynamic overlay

\* A shell is shared or dynamic; callers mount in its element or in one of their own.
ASSUME ShellsAssumption ==
  /\ Shared \cap Dynamic = {} /\ None \notin Shared \cup Dynamic
  /\ Mounts \in [Shared -> SUBSET {"own", "shell"}]
  /\ None \notin {"ok", "failed"} /\ None \notin Partials
  /\ MaxAsked \in Nat /\ MaxFlights \in Nat /\ MaxBad \in Nat

VARIABLES
  asked,         \* contents asked for: shell, way of mounting and partial, in order
  latest,        \* [Shells -> last content asked for there, 0]
  inner,         \* [Shared -> content whose fresh element is in the shell, 0]
  area,          \* [Shells -> content the area was last filled for, and with what]
  filledWith,    \* [Shells -> content whose data was put into its form last, 0]
  removed,       \* dynamic overlays that were closed
  retry,         \* __modalContentRetry: [Shells -> content whose load it runs, 0]
  hook,          \* partial whose script defined window.getPassData last, None
  typed,         \* shells whose form the user has changed
  flights,       \* requests in flight
  setups,        \* setup hooks under way: whose data, and whose function
  sent, bad,
  strays,        \* contents whose answer or hook came when they were not in their place
  twins          \* contents whose hook wrote while another overlay had the same ids

vars == <<asked, latest, inner, area, filledWith, removed, retry, hook, typed, flights, setups,
          sent, bad, strays, twins>>

Shells_ == Shared \cup Dynamic
Contents == 1..Len(asked)
Blank(i) == [by |-> i, kind |-> "blank"]

\* Mutant: whatever is in the shell counts as the content's own element.
AlwaysAttached(i) == TRUE

\* The element content i was to be mounted in is still in the document.
Attached(i) ==
  LET s == asked[i].shell IN
  IF s \in Dynamic THEN s \notin removed
  ELSE asked[i].mount = "shell" \/ inner[s] = i

(* ------------------------------- the user -------------------------------- *)
Fly(i, again) ==
  /\ sent < MaxFlights /\ sent' = sent + 1
  /\ flights' = flights \cup {[id |-> sent + 1, content |-> i, again |-> again, reply |-> None]}

\* The arguments of a load, in either of the two forms in which callers give them.
Settings(s, mount, partial) == [shell |-> s, mount |-> mount, partial |-> partial]

\* Asks for content in a shell: the area is emptied (or shows a skeleton), the
\* overlay is shown and the load is registered for the Retry button.
Load(s, mount, partial) ==
  LET i == Len(asked) + 1 IN
  /\ i <= MaxAsked
  /\ s \in Dynamic => latest[s] = 0
  /\ asked' = Append(asked, Settings(s, mount, partial))
  /\ latest' = [latest EXCEPT ![s] = i]
  /\ inner' = IF s \in Dynamic THEN inner
              ELSE [inner EXCEPT ![s] = IF mount = "own" THEN i ELSE 0]
  /\ area' = [area EXCEPT ![s] = Blank(i)]
  /\ filledWith' = [filledWith EXCEPT ![s] = 0]
  /\ typed' = typed \ {s}
  /\ retry' = [retry EXCEPT ![s] = i]
  /\ Fly(i, FALSE)
  /\ UNCHANGED <<removed, hook, setups, bad, strays, twins>>

\* A dynamic overlay is closed: it is removed and its Retry handler with it.
Close(s) ==
  /\ s \in Dynamic \ removed /\ latest[s] # 0
  /\ removed' = removed \cup {s}
  /\ retry' = [retry EXCEPT ![s] = 0]
  /\ typed' = typed \ {s}
  /\ UNCHANGED <<asked, latest, inner, area, filledWith, hook, flights, setups, sent, bad, strays,
                 twins>>

Type(s) ==
  /\ s \notin removed /\ area[s].kind = "content" /\ s \notin typed
  /\ typed' = typed \cup {s}
  /\ UNCHANGED <<asked, latest, inner, area, filledWith, removed, retry, hook, flights, setups,
                 sent, bad, strays, twins>>

\* The button of the error panel runs whatever load is registered for the shell.
ClickRetry(s) ==
  /\ s \notin removed /\ area[s].kind = "error" /\ retry[s] # 0
  /\ Fly(retry[s], TRUE)
  /\ UNCHANGED <<asked, latest, inner, area, filledWith, removed, retry, hook, typed, setups, bad,
                 strays, twins>>

(* ------------------------------- requests -------------------------------- *)
\* The request is answered.
Reply(f) ==
  /\ f \in flights /\ f.reply = None
  /\ \E r \in {"ok", "failed"} :
       /\ r = "failed" => bad < MaxBad
       /\ bad' = IF r = "ok" THEN bad ELSE bad + 1
       /\ flights' = (flights \ {f}) \cup {[f EXCEPT !.reply = r]}
  /\ UNCHANGED <<asked, latest, inner, area, filledWith, removed, retry, hook, typed, setups, sent,
                 strays, twins>>

Stray(i) ==
  strays' = IF Attached(i) /\ latest[asked[i].shell] = i THEN strays ELSE strays \cup {i}

\* Puts content, filled with its data, or the error panel of i where its element is, if
\* it is anywhere.
Put(i, kind) ==
  LET s == asked[i].shell IN
  IF ~Attached(i) THEN UNCHANGED <<area, filledWith, inner, typed>>
  ELSE /\ area' = [area EXCEPT ![s] = [by |-> i, kind |-> kind]]
       /\ filledWith' = [filledWith EXCEPT ![s] = IF kind = "content" THEN i ELSE 0]
       /\ inner' = IF s \in Shared /\ asked[i].mount = "shell" THEN [inner EXCEPT ![s] = 0] ELSE inner
       /\ typed' = typed \ {s}

\* The content's script runs only in the document; the hook it declares is looked up as
\* a global, so that the function of another partial may be called with i's data. The
\* load waits for it.
CallHook(f) ==
  /\ hook' = IF Attached(f.content) THEN asked[f.content].partial ELSE hook
  /\ setups' = setups \cup {[id |-> f.id, content |-> f.content, by |-> hook', again |-> f.again]}

\* runLoad() has its answer: mount, configure and fill the form, call the hook.
Mount(f) ==
  /\ f \in flights /\ f.reply = "ok"
  /\ flights' = flights \ {f}
  /\ Put(f.content, "content")
  /\ CallHook(f)
  /\ Stray(f.content)
  /\ UNCHANGED <<asked, latest, removed, retry, sent, bad, twins>>

\* The request fails: the first one shows the error panel, a retry only logs.
LoadFails(f) ==
  /\ f \in flights /\ f.reply = "failed"
  /\ flights' = flights \ {f}
  /\ IF f.again THEN UNCHANGED <<area, filledWith, inner, typed, strays>>
     ELSE Put(f.content, "error") /\ Stray(f.content)
  /\ UNCHANGED <<asked, latest, removed, retry, hook, setups, sent, bad, twins>>

(* ------------------------------ setup hooks ------------------------------ *)
Shows(i) == asked[i].shell \notin removed /\ area[asked[i].shell] = [by |-> i, kind |-> "content"]
StrayHook(i) == strays' = IF Shows(i) THEN strays ELSE strays \cup {i}

\* The overlays in the document with a form of this partial, so with its ids.
Holders(partial) ==
  {s \in Shells_ \ removed : area[s].kind = "content" /\ asked[area[s].by].partial = partial}

\* Called, or back from an await, the hook writes its data into the fields it finds by
\* their ids, whoever's they are by now.
HookWrites(w) ==
  LET i == w.content IN
  /\ w \in setups
  /\ \E s \in Holders(w.by) : filledWith' = [filledWith EXCEPT ![s] = i] /\ typed' = typed \ {s}
  /\ twins' = IF Holders(w.by) \subseteq {asked[i].shell} THEN twins ELSE twins \cup {i}
  /\ StrayHook(i)
  /\ UNCHANGED <<asked, latest, inner, area, removed, retry, hook, flights, setups, sent, bad>>

\* The hook has ended, or has thrown, which a shared shell only logs: runLoad() takes the
\* Retry handler of the shell away, whoever registered it.
HookEnds(w) ==
  /\ w \in setups
  /\ setups' = setups \ {w}
  /\ retry' = [retry EXCEPT ![asked[w.content].shell] = 0]
  /\ StrayHook(w.content)
  /\ UNCHANGED <<asked, latest, inner, area, filledWith, removed, hook, typed, flights, sent, bad,
                 twins>>

\* A dynamic overlay treats a hook that throws as a failed load: the first time it shows
\* the error panel, and the Retry handler stays.
HookRejects(w) ==
  /\ w \in setups /\ asked[w.content].shell \in Dynamic
  /\ bad < MaxBad /\ bad' = bad + 1
  /\ setups' = setups \ {w}
  /\ IF w.again THEN UNCHANGED <<area, filledWith, inner, typed>> ELSE Put(w.content, "error")
  /\ UNCHANGED <<asked, latest, removed, retry, hook, flights, sent, strays, twins>>

(* ---------------------------- specification ------------------------------ *)
Init ==
  /\ asked = <<>> /\ latest = [s \in Shells_ |-> 0] /\ inner = [s \in Shared |-> 0]
  /\ area = [s \in Shells_ |-> Blank(0)] /\ filledWith = [s \in Shells_ |-> 0]
  /\ removed = {} /\ retry = [s \in Shells_ |-> 0] /\ hook = None /\ typed = {}
  /\ flights = {} /\ setups = {} /\ sent = 0 /\ bad = 0 /\ strays = {} /\ twins = {}

Next ==
  \/ \E s \in Shared, p \in Partials : \E mount \in Mounts[s] : Load(s, mount, p)
  \/ \E s \in Dynamic : Close(s) \/ \E p \in Partials : Load(s, "own", p)
  \/ \E s \in Shells_ : Type(s) \/ ClickRetry(s)
  \/ \E f \in flights : Reply(f) \/ Mount(f) \/ LoadFails(f)
  \/ \E w \in setups : HookWrites(w) \/ HookEnds(w) \/ HookRejects(w)

\* Requests of a load time out, so each is answered and handled; a hook may wait for ever.
Answer == \E f \in flights : Reply(f) \/ Mount(f) \/ LoadFails(f)
Fairness == WF_vars(Answer)
Spec == Init /\ [][Next]_vars /\ Fairness

(* ------------------------------ properties ------------------------------- *)
TypeOK ==
  /\ asked \in Seq([shell : Shells_, mount : {"own", "shell"}, partial : Partials])
  /\ area \in [Shells_ -> [by : 0..MaxAsked, kind : {"blank", "content", "error"}]]
  /\ {latest, retry, filledWith} \subseteq [Shells_ -> 0..MaxAsked]
  /\ inner \in [Shared -> 0..MaxAsked] /\ hook \in Partials \cup {None}
  /\ removed \subseteq Dynamic /\ typed \subseteq Shells_ /\ strays \cup twins \subseteq 1..MaxAsked

\* A form holds the data it was opened for: prepareSharedContainer() gives a load its own
\* element so that a late answer cannot touch the next content. Data of another content
\* come in only through a setup hook: of a content that had lost its place when it was
\* mounted (the global is another partial's) or when its hook came back from an await, or
\* that had its ids in another overlay too.
DataIsItsOwn ==
  \A s \in Shells_ : filledWith[s] # 0 /\ area[s].kind = "content" /\ s \notin removed =>
    filledWith[s] = area[s].by \/ filledWith[s] \in strays \cup twins

\* A Retry button that is on the screen has a load to run, except when another content
\* of the same shell arrived late, or its setup hook ended late, and took the handler away.
RetryHasALoad ==
  \A s \in Shells_ : area[s].kind = "error" /\ s \notin removed =>
    \/ retry[s] # 0
    \/ \E i \in strays : asked[i].shell = s

\* What the user has typed into a form is wiped only by the user, who asks for something
\* else there; by a second answer to Retry, or a content mounted in the shell's own
\* element; by a setup hook that still writes into fields of these ids; or by one that
\* throws in the first load of a dynamic overlay.
InputIsKept ==
  [][\A s \in typed : s \notin typed' =>
       \/ latest'[s] # latest[s] \/ s \in removed'
       \/ \E f \in flights \ flights' :
            asked[f.content].shell = s /\ (f.again \/ asked[f.content].mount = "shell")
       \/ /\ UNCHANGED <<flights, setups>>
          /\ \E w \in setups : filledWith'[s] = w.content /\ w.by = asked[area[s].by].partial
       \/ /\ s \in Dynamic
          /\ \E w \in setups \ setups' : asked[w.content].shell = s /\ ~w.again]_vars

\* A form in a shell is filled with the data it was opened for, a Retry button has a load
\* to run, and no late answer wipes what the user has typed.
ContentsAreTheirs == [](TypeOK /\ DataIsItsOwn /\ RetryHasALoad) /\ InputIsKept

\* An overlay that was opened is filled, whatever becomes of the other loads.
AreaIsFilled ==
  \A s \in Shells_ : latest[s] # 0 /\ area[s].kind = "blank" ~> area[s].kind # "blank" \/ s \in removed

\* Shells whose contents have elements of their own, and dynamic overlays, implement
\* Panel: late, repeated and failing answers never show anything but the content that
\* was asked for last, and never reach into another overlay.
Separate == {s \in Shells_ : s \in Shared => Mounts[s] = {"own"}}
Promise == INSTANCE Panel WITH Areas <- Separate,
  asked <- [s \in Separate |-> latest[s]], area <- [s \in Separate |-> area[s]]
ImplementsPanel == Promise!Spec
===============================================================================
