----------------------------- MODULE OverlaysProofs -----------------------------
(***************************************************************************)
(* Overlays and previews.  Shells keep what Panel promises, and their      *)
(* contents, data and inputs, for any shells, ways of mounting, numbers of *)
(* contents, retries and failures; an overlay that loads from an endpoint  *)
(* and the panel of the file previews show the newest thing they were      *)
(* asked for, for any overlays, viewers, retries, loads and failures.      *)
(* Overlays lie in the order in which they were shown once the timers of   *)
(* the re-indexing have run, and the page is locked and dimmed under them. *)
(***************************************************************************)
EXTENDS MCOverlays, FiniteSetTheorems, TLAPS

-----------------------------------------------------------------------------
(* The inductive invariant.                                                  *)

Setting == [shell : Shells_, mount : {"own", "shell"}, partial : Partials]
Flight == [id : 1..sent, content : Contents, again : BOOLEAN, reply : {None, "ok", "failed"}]
At(s, i) == i \in Contents /\ asked[i].shell = s

\* Requests are numbered, and requests and hooks are for contents that were asked for.
Numbered ==
  /\ asked \in Seq(Setting) /\ Len(asked) <= MaxAsked /\ sent \in Nat
  /\ flights \subseteq Flight /\ \A f, g \in flights : f.id = g.id => f = g
  /\ \A w \in setups : w.content \in Contents /\ w.again \in BOOLEAN
  /\ strays \subseteq Contents /\ twins \subseteq Contents

\* What a shell names as its last, its mounted or its retried content is one of its own; a
\* dynamic overlay has one content, and the element in a shared shell is that of the last.
Own ==
  /\ \A s \in Shells_ : latest[s] # 0 => At(s, latest[s])
  /\ \A s \in Shells_ : retry[s] # 0 => At(s, retry[s])
  /\ \A s \in Dynamic, i \in Contents : At(s, i) => latest[s] = i /\ asked[i].mount = "own"
  /\ \A s \in Shared : inner[s] # 0 => inner[s] = latest[s]

\* What the user has typed is in a content.
TypedIsShown == \A s \in typed : area[s].kind = "content" /\ s \notin removed

\* Nothing else is under way for the content of a request.
Alone(f) ==
  /\ \A g \in flights : g.content = f.content => g = f
  /\ \A w \in setups : w.content # f.content

\* The first load of a content with an element of its own, as long as that is there: nothing
\* is shown in the meantime, and nobody can retry.
FirstIsAlone ==
  \A f \in flights : LET s == asked[f.content].shell IN
    ~f.again /\ asked[f.content].mount = "own" /\ Attached(f.content) =>
      area[s].kind = "blank" /\ Alone(f)

\* The first load of the last content can be retried when it fails.
FirstHasRetry ==
  \A f \in flights : LET s == asked[f.content].shell IN
    ~f.again /\ latest[s] = f.content /\ s \notin removed =>
      \/ retry[s] # 0 /\ area[s].kind = "blank" /\ Alone(f)
      \/ s \in Shared /\ \E i \in strays : asked[i].shell = s

\* So can that of a dynamic overlay when its hook throws: nobody can retry before.
HookHasRetry ==
  \A w \in setups : LET s == asked[w.content].shell IN
    ~w.again /\ s \in Dynamic \ removed =>
      /\ retry[s] # 0 /\ area[s].kind = "content"
      /\ \A f \in flights : f.content # w.content
      /\ \A v \in setups : v.content = w.content => v = w

\* A separate area shows the content asked for last, and has its element.
ShowsTheLast ==
  \A s \in Separate :
    /\ area[s].by = latest[s]
    /\ s \in Shared => inner[s] = latest[s]
    /\ \A i \in Contents : At(s, i) => asked[i].mount = "own"

IInv ==
  /\ TypeOK /\ Numbered /\ Own /\ TypedIsShown /\ FirstIsAlone /\ FirstHasRetry
  /\ HookHasRetry /\ ShowsTheLast /\ DataIsItsOwn /\ RetryHasALoad

Shape ==
  /\ asked \in Seq([shell : Shells_, mount : {"own", "shell"}, partial : Partials])
  /\ area \in [Shells_ -> [by : 0..MaxAsked, kind : {"blank", "content", "error"}]]
  /\ latest \in [Shells_ -> 0..MaxAsked] /\ retry \in [Shells_ -> 0..MaxAsked]
  /\ filledWith \in [Shells_ -> 0..MaxAsked]
  /\ inner \in [Shared -> 0..MaxAsked] /\ hook \in Partials \cup {None}
  /\ removed \subseteq Dynamic /\ typed \subseteq Shells_
  /\ strays \subseteq 1..MaxAsked /\ twins \subseteq 1..MaxAsked

LEMMA TypeIsShape == TypeOK <=> Shape
  BY DEF TypeOK, Shape
LEMMA TypeIsShapeNext == TypeOK' <=> Shape'
  BY DEF TypeOK, Shape

LEMMA Bounds == MaxAsked \in Nat /\ MaxFlights \in Nat /\ MaxBad \in Nat
  BY ShellsAssumption
LEMMA Kinds ==
  /\ Shared \cap Dynamic = {} /\ None \notin Shells_
  /\ None # "ok" /\ None # "failed"
  /\ \A s \in Shared : Mounts[s] \subseteq {"own", "shell"}
  BY ShellsAssumption DEF Shells_

\* A content that was asked for.
LEMMA ContentFacts ==
  ASSUME IInv, NEW i \in Contents
  PROVE  /\ asked[i] \in Setting /\ asked[i].shell \in Shells_
         /\ asked[i].mount \in {"own", "shell"} /\ asked[i].partial \in Partials
         /\ i \in 1..MaxAsked /\ i # 0 /\ i <= Len(asked)
PROOF
<1>1. asked \in Seq(Setting) /\ Len(asked) <= MaxAsked /\ Len(asked) \in Nat
  BY DEF IInv, Numbered
<1>2. asked[i] \in Setting /\ i \in 1..MaxAsked /\ i # 0 /\ i <= Len(asked)
  <2>1. i \in 1..Len(asked) /\ MaxAsked \in Nat
    BY Bounds DEF Contents
  <2>2. i \in 1..MaxAsked /\ i # 0 /\ i <= Len(asked)
    BY <1>1, <2>1
  <2>3. asked[i] \in Setting
    BY <1>1, <2>1
  <2> QED BY <2>2, <2>3
<1> QED BY <1>2 DEF Setting

LEMMA FlightFacts ==
  ASSUME IInv, NEW f \in flights
  PROVE  /\ f.content \in Contents /\ f.again \in BOOLEAN /\ f.id \in 1..sent
         /\ asked[f.content].shell \in Shells_ /\ f.content \in 1..MaxAsked
  BY ContentFacts DEF IInv, Numbered, Flight

LEMMA SetupFacts ==
  ASSUME IInv, NEW w \in setups
  PROVE  /\ w.content \in Contents /\ w.again \in BOOLEAN
         /\ asked[w.content].shell \in Shells_ /\ w.content \in 1..MaxAsked
         /\ At(asked[w.content].shell, w.content)
  BY ContentFacts DEF IInv, Numbered, At

LEMMA InitIsSound == ASSUME Init PROVE IInv
PROOF
<1>1. asked = <<>> /\ Len(asked) = 0 /\ Contents = {} /\ asked \in Seq(Setting) /\ 0 \in 0..MaxAsked
  <2>1. asked = <<>> /\ Len(<<>>) = 0 /\ 1..0 = {} /\ <<>> \in Seq(Setting)
    BY DEF Init
  <2>2. 0 \in 0..MaxAsked
    BY Bounds
  <2> QED BY <2>1, <2>2 DEF Contents
<1>2. \A s \in Shells_ : Blank(0) \in [by : 0..MaxAsked, kind : {"blank", "content", "error"}]
  BY <1>1 DEF Blank
<1>3. TypeOK
  BY <1>1, <1>2, TypeIsShape DEF Init, Shape, Setting
<1>4. Numbered
  <2>1. 0 <= MaxAsked /\ 0 \in Nat
    BY Bounds
  <2> QED BY <1>1, <2>1 DEF Init, Numbered
<1>5. Own /\ TypedIsShown /\ FirstIsAlone /\ FirstHasRetry /\ HookHasRetry
  BY <1>1 DEF Init, Own, TypedIsShown, FirstIsAlone, FirstHasRetry, HookHasRetry, Shells_
<1>6. ShowsTheLast
  BY <1>1 DEF Init, ShowsTheLast, Separate, Shells_, Blank
<1>7. DataIsItsOwn /\ RetryHasALoad
  BY DEF Init, DataIsItsOwn, RetryHasALoad, Blank
<1> QED BY <1>3, <1>4, <1>5, <1>6, <1>7 DEF IInv

-----------------------------------------------------------------------------
(* A content is asked for.                                                   *)

LEMMA LoadFacts ==
  ASSUME IInv, NEW s \in Shells_, NEW mount \in {"own", "shell"}, NEW p \in Partials,
         Load(s, mount, p)
  PROVE  \E i, f :
           /\ i = Len(asked) + 1
           /\ f = [id |-> sent + 1, content |-> i, again |-> FALSE, reply |-> None]
           /\ i \in 1..MaxAsked /\ i \notin Contents /\ Contents' = Contents \cup {i}
           /\ Len(asked') = i /\ Len(asked) \in Nat
           /\ asked' \in Seq(Setting) /\ asked'[i].shell = s /\ asked'[i].mount = mount
           /\ \A j \in Contents : asked'[j] = asked[j]
           /\ latest' = [latest EXCEPT ![s] = i] /\ retry' = [retry EXCEPT ![s] = i]
           /\ area' = [area EXCEPT ![s] = Blank(i)] /\ filledWith' = [filledWith EXCEPT ![s] = 0]
           /\ typed' = typed \ {s} /\ flights' = flights \cup {f} /\ sent' = sent + 1 /\ sent \in Nat
           /\ removed' = removed /\ hook' = hook /\ setups' = setups
           /\ strays' = strays /\ twins' = twins
           /\ f.id = sent + 1 /\ f.content = i /\ ~f.again /\ f.reply = None
           /\ \A g \in flights : g.content \in Contents /\ g.id # f.id /\ g # f
PROOF
<1> DEFINE i == Len(asked) + 1
           f == [id |-> sent + 1, content |-> i, again |-> FALSE, reply |-> None]
           x == [shell |-> s, mount |-> mount, partial |-> p]
<1>1. asked \in Seq(Setting) /\ Len(asked) \in Nat /\ sent \in Nat
  BY DEF IInv, Numbered
<1>2. i <= MaxAsked /\ asked' = Append(asked, x)
  BY DEF Load, Settings
<1>3. x \in Setting
  BY DEF Setting
<1>4. /\ i \in 1..MaxAsked /\ i \notin Contents /\ Len(asked') = i
      /\ asked' \in Seq(Setting) /\ asked'[i] = x
      /\ \A j \in Contents : asked'[j] = asked[j]
  <2>1. i \in Nat /\ 1 <= i /\ MaxAsked \in Nat /\ i \notin Contents
    BY <1>1, Bounds DEF Contents
  <2>2. i \in 1..MaxAsked
    BY <1>2, <2>1
  <2>3. Len(asked') = i /\ asked' \in Seq(Setting) /\ asked'[i] = x
    BY <1>1, <1>2, <1>3
  <2>4. \A j \in Contents : asked'[j] = asked[j]
    BY <1>1, <1>2, <1>3 DEF Contents
  <2> QED BY <2>1, <2>2, <2>3, <2>4
<1>5. Contents' = Contents \cup {i}
  BY <1>1, <1>4 DEF Contents
<1>6. \A g \in flights : g.content \in Contents /\ g.id \in 1..sent
  BY FlightFacts
<1>7. \A g \in flights : g.content \in Contents /\ g.id # f.id /\ g # f
  BY <1>1, <1>6
<1>8. flights' = flights \cup {f} /\ sent' = sent + 1
  BY DEF Load, Fly
<1>9. asked'[i].shell = s /\ asked'[i].mount = mount
  BY <1>4
<1>10. /\ latest' = [latest EXCEPT ![s] = i] /\ retry' = [retry EXCEPT ![s] = i]
       /\ area' = [area EXCEPT ![s] = Blank(i)] /\ filledWith' = [filledWith EXCEPT ![s] = 0]
       /\ typed' = typed \ {s} /\ removed' = removed /\ hook' = hook /\ setups' = setups
       /\ strays' = strays /\ twins' = twins
  BY DEF Load
<1>11. f.id = sent + 1 /\ f.content = i /\ ~f.again /\ f.reply = None
  OBVIOUS
<1>12. i = Len(asked) + 1 /\ f = [id |-> sent + 1, content |-> i, again |-> FALSE, reply |-> None]
  OBVIOUS
<1> HIDE DEF i, f, x
<1>13. i \in 1..MaxAsked /\ i \notin Contents /\ Contents' = Contents \cup {i}
  BY <1>4, <1>5
<1> WITNESS i, f
<1> QED BY <1>1, <1>4, <1>7, <1>8, <1>9, <1>10, <1>11, <1>12, <1>13

LEMMA LoadKeeps ==
  ASSUME IInv, NEW s \in Shells_, NEW mount \in {"own", "shell"}, NEW p \in Partials,
         Load(s, mount, p),
         s \in Dynamic => mount = "own", s \in Shared => mount \in Mounts[s]
  PROVE  IInv'
PROOF
<1>1. PICK i, f :
        /\ i = Len(asked) + 1 /\ f = [id |-> sent + 1, content |-> i, again |-> FALSE, reply |-> None]
        /\ i \in 1..MaxAsked /\ i \notin Contents /\ Contents' = Contents \cup {i}
        /\ Len(asked') = i /\ Len(asked) \in Nat
        /\ asked' \in Seq(Setting) /\ asked'[i].shell = s /\ asked'[i].mount = mount
        /\ \A j \in Contents : asked'[j] = asked[j]
        /\ latest' = [latest EXCEPT ![s] = i] /\ retry' = [retry EXCEPT ![s] = i]
        /\ area' = [area EXCEPT ![s] = Blank(i)] /\ filledWith' = [filledWith EXCEPT ![s] = 0]
        /\ typed' = typed \ {s} /\ flights' = flights \cup {f} /\ sent' = sent + 1 /\ sent \in Nat
        /\ removed' = removed /\ hook' = hook /\ setups' = setups
        /\ strays' = strays /\ twins' = twins
        /\ f.id = sent + 1 /\ f.content = i /\ ~f.again /\ f.reply = None
        /\ \A g \in flights : g.content \in Contents /\ g.id # f.id /\ g # f
  BY LoadFacts
<1>2. /\ latest' = [latest EXCEPT ![s] = i] /\ retry' = [retry EXCEPT ![s] = i]
      /\ area' = [area EXCEPT ![s] = Blank(i)] /\ filledWith' = [filledWith EXCEPT ![s] = 0]
      /\ typed' = typed \ {s} /\ flights' = flights \cup {f} /\ sent' = sent + 1 /\ sent \in Nat
      /\ removed' = removed /\ hook' = hook /\ setups' = setups
        /\ strays' = strays /\ twins' = twins
  BY <1>1
<1>3. f.id = sent + 1 /\ f.content = i /\ ~f.again /\ f.reply = None
      /\ \A g \in flights : g.content \in Contents /\ g.id # f.id /\ g # f
  BY <1>1
<1>4. f \in [id : 1..(sent + 1), content : {i}, again : BOOLEAN, reply : {None}]
  BY <1>1
<1>5. i # 0 /\ i \in 0..MaxAsked /\ 0 \in 0..MaxAsked
  BY <1>1, Bounds
<1>6. Shape
  BY TypeIsShape DEF IInv
<1>7. /\ \A x \in Shells_ \ {s} : latest'[x] = latest[x] /\ retry'[x] = retry[x]
                                  /\ area'[x] = area[x] /\ filledWith'[x] = filledWith[x]
      /\ latest'[s] = i /\ retry'[s] = i /\ area'[s] = Blank(i) /\ filledWith'[s] = 0
  BY <1>2, <1>6 DEF Shape
<1>8. /\ s \in Dynamic => inner' = inner
      /\ s \in Shared => inner' = [inner EXCEPT ![s] = IF mount = "own" THEN i ELSE 0]
  BY <1>1, Kinds DEF Load
<1>9. \A x \in Shared : x # s => inner'[x] = inner[x]
  BY <1>6, <1>8 DEF Shape, Shells_
<1>10. s \in Shared => inner'[s] = IF mount = "own" THEN i ELSE 0
  BY <1>6, <1>8 DEF Shape
<1>11. TypeOK'
  <2>1. Blank(i) \in [by : 0..MaxAsked, kind : {"blank", "content", "error"}]
    BY <1>5 DEF Blank
  <2>2. asked' \in Seq([shell : Shells_, mount : {"own", "shell"}, partial : Partials])
    BY <1>1 DEF Setting
  <2>3. inner' \in [Shared -> 0..MaxAsked]
    BY <1>5, <1>6, <1>8 DEF Shape, Shells_
  <2>4. /\ latest' \in [Shells_ -> 0..MaxAsked] /\ retry' \in [Shells_ -> 0..MaxAsked]
        /\ filledWith' \in [Shells_ -> 0..MaxAsked]
        /\ area' \in [Shells_ -> [by : 0..MaxAsked, kind : {"blank", "content", "error"}]]
    BY <1>2, <1>5, <1>6, <2>1 DEF Shape
  <2>5. hook' \in Partials \cup {None} /\ removed' \subseteq Dynamic /\ typed' \subseteq Shells_
        /\ strays' \subseteq 1..MaxAsked /\ twins' \subseteq 1..MaxAsked
    BY <1>2, <1>6 DEF Shape
  <2> QED BY <2>2, <2>3, <2>4, <2>5, TypeIsShapeNext DEF Shape
<1>12. Numbered'
  <2>1. flights \subseteq Flight /\ (\A g, h \in flights : g.id = h.id => g = h)
        /\ strays \subseteq Contents /\ twins \subseteq Contents
        /\ \A w \in setups : w.content \in Contents /\ w.again \in BOOLEAN
    BY DEF IInv, Numbered
  <2>2. 1..sent \subseteq 1..(sent + 1) /\ sent' \in Nat /\ i <= MaxAsked
    BY <1>1, <1>2, Bounds
  <2>3. flights' \subseteq Flight'
    BY <1>1, <1>2, <1>4, <2>1, <2>2 DEF Flight
  <2>4. \A g, h \in flights' : g.id = h.id => g = h
    BY <1>2, <1>3, <2>1
  <2> QED BY <1>1, <1>2, <2>1, <2>2, <2>3, <2>4 DEF Numbered
<1>13. \A x, j : j \in Contents => (At(x, j)' <=> At(x, j))
  BY <1>1 DEF At
<1>14. At(s, i)' /\ \A x : At(x, i)' => x = s
  BY <1>1 DEF At
<1>15. Own'
  <2>1. ASSUME NEW x \in Shells_, latest'[x] # 0
        PROVE  latest'[x] \in Contents' /\ asked'[latest'[x]].shell = x
    <3>1. CASE x = s
      BY <1>1, <1>7, <3>1
    <3>2. CASE x # s
      BY <1>1, <1>7, <2>1, <3>2 DEF IInv, Own, At
    <3> QED BY <3>1, <3>2
  <2>2. ASSUME NEW x \in Shells_, retry'[x] # 0
        PROVE  retry'[x] \in Contents' /\ asked'[retry'[x]].shell = x
    <3>1. CASE x = s
      BY <1>1, <1>7, <3>1
    <3>2. CASE x # s
      BY <1>1, <1>7, <2>2, <3>2 DEF IInv, Own, At
    <3> QED BY <3>1, <3>2
  <2>3. ASSUME NEW x \in Dynamic, NEW j \in Contents', At(x, j)'
        PROVE  latest'[x] = j /\ asked'[j].mount = "own"
    <3>1. CASE j = i
      BY <1>1, <1>7, <1>14, <2>3, <3>1
    <3>2. CASE j # i
      <4>1. j \in Contents /\ At(x, j) /\ asked'[j] = asked[j]
        BY <1>1, <1>13, <2>3, <3>2
      <4>2. latest[x] = j /\ asked[j].mount = "own"
        BY <4>1 DEF IInv, Own
      <4>3. x # s
        BY <1>1, <4>1, <4>2, ContentFacts DEF Load
      <4> QED BY <1>7, <4>1, <4>2, <4>3 DEF Shells_
    <3> QED BY <3>1, <3>2
  <2>4. ASSUME NEW x \in Shared, inner'[x] # 0 PROVE inner'[x] = latest'[x]
    <3>1. CASE x = s
      BY <1>7, <1>10, <2>4, <3>1
    <3>2. CASE x # s
      BY <1>7, <1>9, <2>4, <3>2 DEF IInv, Own, Shells_
    <3> QED BY <3>1, <3>2
  <2> QED BY <2>1, <2>2, <2>3, <2>4 DEF Own, At
<1>16. TypedIsShown'
  <2>1. \A x \in typed' : x \in Shells_ \ {s} /\ x \in typed
    BY <1>2, <1>6 DEF Shape
  <2> QED BY <1>2, <1>7, <2>1 DEF IInv, TypedIsShown
<1>17. \A g \in flights : g.content \in Contents /\ asked'[g.content] = asked[g.content]
                          /\ asked[g.content].shell \in Shells_ /\ g.content # 0 /\ g.content # i
  BY <1>1, <1>3, ContentFacts
<1>18. \A w \in setups : /\ w.content \in Contents /\ asked'[w.content] = asked[w.content]
                         /\ asked[w.content].shell \in Shells_ /\ w.content # i /\ w.content # 0
                         /\ At(asked[w.content].shell, w.content)
  BY <1>1, SetupFacts, ContentFacts
<1>19. Alone(f)' /\ \A g \in flights : Alone(g) => Alone(g)'
  <2>1. \A h \in flights' : h.content = i => h = f
    BY <1>2, <1>17
  <2>2. \A g \in flights : f.content # g.content
    BY <1>3, <1>17
  <2> QED BY <1>2, <1>3, <1>18, <2>1, <2>2 DEF Alone
<1>20. FirstIsAlone'
  <2> SUFFICES ASSUME NEW g \in flights', ~g.again, asked'[g.content].mount = "own",
                      Attached(g.content)'
               PROVE  area'[asked'[g.content].shell].kind = "blank" /\ Alone(g)'
    BY DEF FirstIsAlone
  <2>1. CASE g = f
    BY <1>1, <1>3, <1>7, <1>19, <2>1 DEF Blank
  <2>2. CASE g \in flights
    <3> DEFINE x == asked[g.content].shell
    <3>1. x \in Shells_ /\ asked'[g.content] = asked[g.content] /\ At(x, g.content)
      BY <1>17, <2>2 DEF At
    <3>2. x # s
      <4> SUFFICES ASSUME x = s PROVE FALSE
        OBVIOUS
      <4>1. CASE s \in Dynamic
        <5>1. latest[s] = g.content
          BY <1>17, <2>2, <3>1, <4>1 DEF IInv, Own
        <5> QED BY <1>17, <2>2, <4>1, <5>1 DEF Load
      <4>2. CASE s \in Shared
        <5>1. inner'[s] = g.content
          BY <3>1, <4>2, Kinds DEF Attached
        <5> QED BY <1>10, <1>17, <2>2, <4>2, <5>1
      <4> QED BY <4>1, <4>2 DEF Shells_
    <3>3. Attached(g.content)
      BY <1>2, <1>9, <3>1, <3>2 DEF Attached, Shells_
    <3>4. area[x].kind = "blank" /\ Alone(g)
      BY <2>2, <3>1, <3>3 DEF IInv, FirstIsAlone
    <3> QED BY <1>7, <1>19, <2>2, <3>1, <3>2, <3>4
  <2> QED BY <1>2, <2>1, <2>2
<1>21. FirstHasRetry'
  <2> SUFFICES ASSUME NEW g \in flights', ~g.again,
                      latest'[asked'[g.content].shell] = g.content,
                      asked'[g.content].shell \notin removed'
               PROVE  \/ /\ retry'[asked'[g.content].shell] # 0
                         /\ area'[asked'[g.content].shell].kind = "blank" /\ Alone(g)'
                      \/ /\ asked'[g.content].shell \in Shared
                         /\ \E j \in strays' : asked'[j].shell = asked'[g.content].shell
    BY DEF FirstHasRetry
  <2>1. CASE g = f
    BY <1>1, <1>3, <1>5, <1>7, <1>19, <2>1 DEF Blank
  <2>2. CASE g \in flights
    <3> DEFINE x == asked[g.content].shell
    <3>1. x \in Shells_ /\ asked'[g.content] = asked[g.content] /\ g.content # i
      BY <1>17, <2>2
    <3>2. x # s
      BY <1>7, <3>1
    <3>3. \/ retry[x] # 0 /\ area[x].kind = "blank" /\ Alone(g)
          \/ x \in Shared /\ \E j \in strays : asked[j].shell = x
      BY <1>2, <1>7, <2>2, <3>1, <3>2 DEF IInv, FirstHasRetry
    <3>4. \A j \in strays : asked'[j] = asked[j]
      BY <1>1 DEF IInv, Numbered
    <3> QED BY <1>2, <1>7, <1>19, <2>2, <3>1, <3>2, <3>3, <3>4
  <2> QED BY <1>2, <2>1, <2>2
<1>22. HookHasRetry'
  <2> SUFFICES ASSUME NEW w \in setups, ~w.again, asked[w.content].shell \in Dynamic \ removed
               PROVE  /\ retry'[asked[w.content].shell] # 0
                      /\ area'[asked[w.content].shell].kind = "content"
                      /\ \A g \in flights' : g.content # w.content
                      /\ \A v \in setups : v.content = w.content => v = w
    BY <1>2, <1>18 DEF HookHasRetry
  <2>1. /\ retry[asked[w.content].shell] # 0 /\ area[asked[w.content].shell].kind = "content"
        /\ \A g \in flights : g.content # w.content
        /\ \A v \in setups : v.content = w.content => v = w
    BY DEF IInv, HookHasRetry
  <2>2. latest[asked[w.content].shell] # 0
    BY <1>18 DEF IInv, Own
  <2>3. asked[w.content].shell # s
    BY <2>2 DEF Load
  <2>4. \A g \in flights' : g.content # w.content
    BY <1>2, <1>3, <1>18, <2>1
  <2> QED BY <1>7, <1>18, <2>1, <2>3, <2>4
<1>23. ShowsTheLast'
  <2> SUFFICES ASSUME NEW x \in Separate
               PROVE  /\ area'[x].by = latest'[x] /\ (x \in Shared => inner'[x] = latest'[x])
                      /\ \A j \in Contents' : At(x, j)' => asked'[j].mount = "own"
    BY DEF ShowsTheLast, Separate
  <2>1. x \in Shells_ /\ (x = s => mount = "own")
    BY DEF Separate, Shells_
  <2>2. \A j \in Contents : At(x, j) => asked'[j].mount = "own"
    BY <1>1 DEF IInv, ShowsTheLast
  <2>3. \A j \in Contents' : At(x, j)' => asked'[j].mount = "own"
    BY <1>1, <1>13, <1>14, <2>1, <2>2
  <2>4. CASE x = s
    BY <1>7, <1>10, <2>1, <2>3, <2>4 DEF Blank
  <2>5. CASE x # s
    BY <1>7, <1>9, <2>1, <2>3, <2>5 DEF IInv, ShowsTheLast
  <2> QED BY <2>4, <2>5
<1>24. DataIsItsOwn'
  BY <1>2, <1>7 DEF IInv, DataIsItsOwn
<1>25. RetryHasALoad'
  <2>1. \A j \in strays : asked'[j] = asked[j]
    BY <1>1 DEF IInv, Numbered
  <2> QED BY <1>2, <1>7, <2>1 DEF IInv, RetryHasALoad, Blank
<1> QED BY <1>11, <1>12, <1>15, <1>16, <1>20, <1>21, <1>22, <1>23, <1>24, <1>25 DEF IInv

-----------------------------------------------------------------------------
(* The user closes, types and retries; requests are answered.                *)

LEMMA CloseKeeps ==
  ASSUME IInv, NEW s \in Dynamic, Close(s)
  PROVE  IInv'
PROOF
<1>1. /\ removed' = removed \cup {s} /\ typed' = typed \ {s} /\ retry' = [retry EXCEPT ![s] = 0]
      /\ asked' = asked /\ latest' = latest /\ inner' = inner /\ area' = area
      /\ filledWith' = filledWith /\ hook' = hook /\ flights' = flights /\ setups' = setups
      /\ sent' = sent /\ strays' = strays /\ twins' = twins
  BY DEF Close
<1>2. Shape
  BY TypeIsShape DEF IInv
<1>3. s \in Shells_ /\ retry'[s] = 0 /\ \A x \in Shells_ \ {s} : retry'[x] = retry[x]
  BY <1>1, <1>2 DEF Shape, Shells_
<1>4. TypeOK'
  <2>0. 0 \in 0..MaxAsked
    BY Bounds
  <2>1. retry' \in [Shells_ -> 0..MaxAsked]
    BY <1>1, <1>2, <2>0 DEF Shape
  <2> QED BY <1>1, <1>2, <2>1, TypeIsShapeNext DEF Shape
<1>5. Numbered'
  BY <1>1 DEF IInv, Numbered, Flight, Contents
<1>6. Own'
  <2>1. \A x \in Shells_ : retry'[x] # 0 => At(x, retry[x]) /\ retry'[x] = retry[x]
    BY <1>3 DEF IInv, Own
  <2> QED BY <1>1, <2>1 DEF IInv, Own, At, Contents
<1>7. TypedIsShown'
  BY <1>1 DEF IInv, TypedIsShown
<1>8. FirstIsAlone'
  <2>1. \A j : Attached(j)' => Attached(j)
    BY <1>1 DEF Attached
  <2> QED BY <1>1, <2>1 DEF IInv, FirstIsAlone, Alone
<1>9. FirstHasRetry'
  <2>1. \A f \in flights : asked[f.content].shell \in Shells_
    BY FlightFacts
  <2> QED BY <1>1, <1>3, <2>1 DEF IInv, FirstHasRetry, Alone
<1>10. HookHasRetry'
  <2>1. \A w \in setups : asked[w.content].shell \in Shells_
    BY SetupFacts
  <2> QED BY <1>1, <1>3, <2>1 DEF IInv, HookHasRetry
<1>11. ShowsTheLast'
  BY <1>1 DEF IInv, ShowsTheLast, Separate, At, Contents
<1>12. DataIsItsOwn' /\ RetryHasALoad'
  BY <1>1, <1>3 DEF IInv, DataIsItsOwn, RetryHasALoad
<1> QED BY <1>4, <1>5, <1>6, <1>7, <1>8, <1>9, <1>10, <1>11, <1>12 DEF IInv

LEMMA TypeKeeps ==
  ASSUME IInv, NEW s \in Shells_, Type(s)
  PROVE  IInv'
PROOF
<1>1. /\ typed' = typed \cup {s} /\ s \notin removed /\ area[s].kind = "content"
      /\ removed' = removed /\ retry' = retry
      /\ asked' = asked /\ latest' = latest /\ inner' = inner /\ area' = area
      /\ filledWith' = filledWith /\ hook' = hook /\ flights' = flights /\ setups' = setups
      /\ sent' = sent /\ strays' = strays /\ twins' = twins
  BY DEF Type
<1>2. TypeOK'
  BY <1>1, TypeIsShape, TypeIsShapeNext DEF IInv, Shape
<1>3. Numbered' /\ Own' /\ TypedIsShown'
  <2>1. Numbered'
    BY <1>1 DEF IInv, Numbered, Flight, Contents
  <2>2. Own'
    BY <1>1 DEF IInv, Own, At, Contents
  <2> QED BY <1>1, <2>1, <2>2 DEF IInv, TypedIsShown
<1>4. FirstIsAlone' /\ FirstHasRetry' /\ HookHasRetry'
  BY <1>1 DEF IInv, FirstIsAlone, FirstHasRetry, HookHasRetry, Attached, Alone
<1>5. ShowsTheLast' /\ DataIsItsOwn' /\ RetryHasALoad'
  BY <1>1 DEF IInv, ShowsTheLast, Separate, At, Contents, DataIsItsOwn, RetryHasALoad
<1> QED BY <1>2, <1>3, <1>4, <1>5 DEF IInv

LEMMA ClickRetryKeeps ==
  ASSUME IInv, NEW s \in Shells_, ClickRetry(s)
  PROVE  IInv'
PROOF
<1>1. PICK f :
        /\ f = [id |-> sent + 1, content |-> retry[s], again |-> TRUE, reply |-> None]
        /\ flights' = flights \cup {f} /\ sent' = sent + 1 /\ area[s].kind = "error"
        /\ retry[s] # 0
        /\ removed' = removed /\ retry' = retry /\ typed' = typed
        /\ asked' = asked /\ latest' = latest /\ inner' = inner /\ area' = area
        /\ filledWith' = filledWith /\ hook' = hook /\ setups' = setups
        /\ strays' = strays /\ twins' = twins
  BY DEF ClickRetry, Fly
<1>2. TypeOK'
  BY <1>1, TypeIsShape, TypeIsShapeNext DEF IInv, Shape
<1>3. /\ f.id = sent + 1 /\ f.content = retry[s] /\ f.again /\ At(s, f.content) /\ f.content \in Contents
      /\ sent \in Nat /\ Contents' = Contents
  BY <1>1 DEF IInv, Own, At, Numbered, Contents
<1>4. f \in [id : 1..(sent + 1), content : Contents, again : BOOLEAN, reply : {None}]
  BY <1>1, <1>3
<1>5. Numbered'
  <2>1. flights \subseteq Flight /\ (\A g, h \in flights : g.id = h.id => g = h)
    BY DEF IInv, Numbered
  <2>2. 1..sent \subseteq 1..(sent + 1) /\ sent' \in Nat
    BY <1>1, <1>3
  <2>3. flights' \subseteq Flight'
    BY <1>1, <1>3, <1>4, <2>1, <2>2 DEF Flight
  <2>4. \A g \in flights : g.id \in 1..sent
    BY FlightFacts
  <2>5. \A g \in flights : g.id # f.id
    BY <1>3, <2>4
  <2>6. \A g, h \in flights' : g.id = h.id => g = h
    BY <1>1, <2>1, <2>5
  <2> QED BY <1>1, <1>3, <2>2, <2>3, <2>6 DEF IInv, Numbered
<1>6. Own' /\ TypedIsShown'
  BY <1>1, <1>3 DEF IInv, Own, At, TypedIsShown
<1>7. \A i : area[asked[i].shell].kind \in {"blank", "content"} => i # f.content
  BY <1>1, <1>3 DEF At
<1>8. \A g \in flights : Alone(g) /\ area[asked[g.content].shell].kind = "blank" => Alone(g)'
  BY <1>1, <1>7 DEF Alone
<1>9. FirstIsAlone'
  BY <1>1, <1>3, <1>8 DEF IInv, FirstIsAlone, Attached
<1>10. FirstHasRetry'
  <2> SUFFICES ASSUME NEW g \in flights', ~g.again,
                      latest[asked[g.content].shell] = g.content, asked[g.content].shell \notin removed
               PROVE  \/ /\ retry[asked[g.content].shell] # 0
                         /\ area[asked[g.content].shell].kind = "blank" /\ Alone(g)'
                      \/ /\ asked[g.content].shell \in Shared
                         /\ \E i \in strays : asked[i].shell = asked[g.content].shell
    BY <1>1 DEF FirstHasRetry
  <2>1. g \in flights
    BY <1>1, <1>3
  <2> QED BY <1>8, <2>1 DEF IInv, FirstHasRetry
<1>11. HookHasRetry'
  <2> SUFFICES ASSUME NEW w \in setups, ~w.again, asked[w.content].shell \in Dynamic \ removed
               PROVE  /\ retry[asked[w.content].shell] # 0
                      /\ area[asked[w.content].shell].kind = "content"
                      /\ \A g \in flights' : g.content # w.content
                      /\ \A v \in setups : v.content = w.content => v = w
    BY <1>1 DEF HookHasRetry
  <2>1. /\ retry[asked[w.content].shell] # 0 /\ area[asked[w.content].shell].kind = "content"
        /\ \A g \in flights : g.content # w.content
        /\ \A v \in setups : v.content = w.content => v = w
    BY DEF IInv, HookHasRetry
  <2> QED BY <1>1, <1>7, <2>1
<1>12. ShowsTheLast' /\ DataIsItsOwn' /\ RetryHasALoad'
  BY <1>1, <1>3 DEF IInv, ShowsTheLast, Separate, At, DataIsItsOwn, RetryHasALoad
<1> QED BY <1>2, <1>5, <1>6, <1>9, <1>10, <1>11, <1>12 DEF IInv

LEMMA ReplyKeeps ==
  ASSUME IInv, NEW f \in flights, Reply(f)
  PROVE  IInv'
PROOF
<1>1. PICK e : /\ e \in Flight /\ e.id = f.id /\ e.content = f.content /\ (~e.again => ~f.again)
               /\ flights' = (flights \ {f}) \cup {e}
  <2>1. PICK r \in {"ok", "failed"} : flights' = (flights \ {f}) \cup {[f EXCEPT !.reply = r]}
    BY DEF Reply
  <2>2. f \in Flight
    BY DEF IInv, Numbered
  <2>3. /\ [f EXCEPT !.reply = r] \in Flight /\ [f EXCEPT !.reply = r].id = f.id
        /\ [f EXCEPT !.reply = r].content = f.content
        /\ (~[f EXCEPT !.reply = r].again => ~f.again)
    BY <2>2 DEF Flight
  <2> QED BY <2>1, <2>3
<1>2. /\ removed' = removed /\ retry' = retry /\ typed' = typed /\ sent' = sent
      /\ asked' = asked /\ latest' = latest /\ inner' = inner /\ area' = area
      /\ filledWith' = filledWith /\ hook' = hook /\ setups' = setups
      /\ strays' = strays /\ twins' = twins
  BY DEF Reply
<1>3. \A g \in flights' : g = e \/ (g \in flights /\ g # f)
  BY <1>1
<1>4. TypeOK'
  BY <1>2, TypeIsShape, TypeIsShapeNext DEF IInv, Shape
<1>5. Numbered'
  <2>1. flights \subseteq Flight /\ \A g, h \in flights : g.id = h.id => g = h
    BY DEF IInv, Numbered
  <2>2. flights' \subseteq Flight
    BY <1>1, <2>1
  <2>3. Flight' = Flight /\ Contents' = Contents
    BY <1>2 DEF Flight, Contents
  <2>4. ASSUME NEW g \in flights', NEW h \in flights', g.id = h.id PROVE g = h
    BY <1>1, <1>3, <2>1, <2>4
  <2> QED BY <1>2, <2>2, <2>3, <2>4 DEF IInv, Numbered
<1>6. Own' /\ TypedIsShown'
  BY <1>2 DEF IInv, Own, At, Contents, TypedIsShown
\* Each request stands for one from before, for the same content.
<1>7. ASSUME NEW g \in flights', ~g.again
      PROVE  \E o \in flights : o.content = g.content /\ ~o.again /\ (Alone(o) => Alone(g)')
  <2>1. PICK o \in flights : /\ o.content = g.content /\ ~o.again
                             /\ ((g = e /\ o = f) \/ (g = o /\ o # f))
    <3>1. CASE g = e
      <4>1. ~e.again
        BY <1>7, <3>1
      <4>2. ~f.again /\ f.content = g.content
        BY <1>1, <3>1, <4>1
      <4> QED BY <3>1, <4>2
    <3>2. CASE g \in flights /\ g # f
      BY <1>7, <3>2
    <3> QED BY <1>3, <3>1, <3>2
  <2>2. Alone(o) => \A h \in flights' : h.content = g.content => h = g
    BY <1>1, <1>3, <2>1 DEF Alone
  <2>3. Alone(o) => \A w \in setups : w.content # g.content
    BY <2>1 DEF Alone
  <2>4. Alone(o) => Alone(g)'
    BY <1>2, <2>2, <2>3 DEF Alone
  <2> QED BY <2>1, <2>4
<1>8. FirstIsAlone'
  <2> SUFFICES ASSUME NEW g \in flights', ~g.again, asked[g.content].mount = "own", Attached(g.content)
               PROVE  area[asked[g.content].shell].kind = "blank" /\ Alone(g)'
    BY <1>2 DEF FirstIsAlone, Attached
  <2>1. PICK o \in flights : o.content = g.content /\ ~o.again /\ (Alone(o) => Alone(g)')
    BY <1>7
  <2> QED BY <2>1 DEF IInv, FirstIsAlone
<1>9. FirstHasRetry'
  <2> SUFFICES ASSUME NEW g \in flights', ~g.again,
                      latest[asked[g.content].shell] = g.content, asked[g.content].shell \notin removed
               PROVE  \/ /\ retry[asked[g.content].shell] # 0
                         /\ area[asked[g.content].shell].kind = "blank" /\ Alone(g)'
                      \/ /\ asked[g.content].shell \in Shared
                         /\ \E i \in strays : asked[i].shell = asked[g.content].shell
    BY <1>2 DEF FirstHasRetry
  <2>1. PICK o \in flights : o.content = g.content /\ ~o.again /\ (Alone(o) => Alone(g)')
    BY <1>7
  <2> QED BY <2>1 DEF IInv, FirstHasRetry
<1>10. HookHasRetry'
  <2>1. \A w \in setups : (\A g \in flights : g.content # w.content)
                          => \A g \in flights' : g.content # w.content
    BY <1>1, <1>3
  <2> QED BY <1>2, <2>1 DEF IInv, HookHasRetry
<1>11. ShowsTheLast' /\ DataIsItsOwn' /\ RetryHasALoad'
  BY <1>2 DEF IInv, ShowsTheLast, Separate, At, Contents, DataIsItsOwn, RetryHasALoad
<1> QED BY <1>4, <1>5, <1>6, <1>8, <1>9, <1>10, <1>11 DEF IInv

-----------------------------------------------------------------------------
(* What is put into a shell: a content, or the error panel.                  *)

Placed(i, s, kind) ==
  /\ s = asked[i].shell /\ s \in Shells_ /\ i # 0 /\ At(s, i)
  /\ \A x \in Shells_ \ {s} : area'[x] = area[x] /\ filledWith'[x] = filledWith[x]
  /\ \A x \in Shared \ {s} : inner'[x] = inner[x]
  /\ Attached(i) => /\ area'[s] = [by |-> i, kind |-> kind]
                    /\ filledWith'[s] = IF kind = "content" THEN i ELSE 0
                    /\ typed' = typed \ {s}
  /\ ~Attached(i) => area' = area /\ filledWith' = filledWith /\ inner' = inner /\ typed' = typed
  /\ s \in Shared => (inner'[s] = inner[s] \/ inner'[s] = 0)
  /\ s \in Shared /\ Attached(i) /\ asked[i].mount = "shell" => inner'[s] = 0
  /\ asked[i].mount = "own" => inner' = inner

LEMMA PutFacts ==
  ASSUME IInv, NEW i \in Contents, NEW kind \in {"content", "error"}, Put(i, kind)
  PROVE  /\ Placed(i, asked[i].shell, kind)
         /\ area' \in [Shells_ -> [by : 0..MaxAsked, kind : {"blank", "content", "error"}]]
         /\ filledWith' \in [Shells_ -> 0..MaxAsked]
         /\ inner' \in [Shared -> 0..MaxAsked] /\ typed' \subseteq typed
PROOF
<1> DEFINE s == asked[i].shell
<1>1. /\ s \in Shells_ /\ i # 0 /\ At(s, i) /\ i \in 0..MaxAsked /\ 0 \in 0..MaxAsked
      /\ asked[i].mount \in {"own", "shell"}
  <2>1. i \in 1..MaxAsked /\ i # 0 /\ s \in Shells_ /\ asked[i].mount \in {"own", "shell"}
    BY ContentFacts
  <2>2. i \in 0..MaxAsked /\ 0 \in 0..MaxAsked
    BY <2>1, Bounds
  <2> QED BY <2>1, <2>2 DEF At
<1>2. /\ ~Attached(i) => area' = area /\ filledWith' = filledWith /\ inner' = inner /\ typed' = typed
      /\ Attached(i) => /\ area' = [area EXCEPT ![s] = [by |-> i, kind |-> kind]]
                        /\ filledWith' = [filledWith EXCEPT ![s] = IF kind = "content" THEN i ELSE 0]
                        /\ inner' = IF s \in Shared /\ asked[i].mount = "shell"
                                    THEN [inner EXCEPT ![s] = 0] ELSE inner
                        /\ typed' = typed \ {s}
  BY DEF Put
<1>3. Shape
  BY TypeIsShape DEF IInv
<1> HIDE DEF s
<1>4. [by |-> i, kind |-> kind] \in [by : 0..MaxAsked, kind : {"blank", "content", "error"}]
  BY <1>1
<1>5. /\ area' \in [Shells_ -> [by : 0..MaxAsked, kind : {"blank", "content", "error"}]]
      /\ \A x \in Shells_ \ {s} : area'[x] = area[x]
      /\ Attached(i) => area'[s] = [by |-> i, kind |-> kind]
  <2>1. area \in [Shells_ -> [by : 0..MaxAsked, kind : {"blank", "content", "error"}]]
    BY <1>3 DEF Shape
  <2>2. CASE Attached(i)
    BY <1>1, <1>2, <1>4, <2>1, <2>2
  <2>3. CASE ~Attached(i)
    BY <1>2, <2>1, <2>3
  <2> QED BY <2>2, <2>3
<1>6. /\ filledWith' \in [Shells_ -> 0..MaxAsked]
      /\ \A x \in Shells_ \ {s} : filledWith'[x] = filledWith[x]
      /\ Attached(i) => filledWith'[s] = IF kind = "content" THEN i ELSE 0
  <2>1. filledWith \in [Shells_ -> 0..MaxAsked]
    BY <1>3 DEF Shape
  <2>2. CASE Attached(i)
    BY <1>1, <1>2, <2>1, <2>2
  <2>3. CASE ~Attached(i)
    BY <1>2, <2>1, <2>3
  <2> QED BY <2>2, <2>3
<1>7. /\ inner' \in [Shared -> 0..MaxAsked]
      /\ \A x \in Shared \ {s} : inner'[x] = inner[x]
      /\ s \in Shared => (inner'[s] = inner[s] \/ inner'[s] = 0)
      /\ s \in Shared /\ Attached(i) /\ asked[i].mount = "shell" => inner'[s] = 0
      /\ asked[i].mount = "own" => inner' = inner
  <2>1. inner \in [Shared -> 0..MaxAsked]
    BY <1>3 DEF Shape
  <2>2. CASE Attached(i) /\ s \in Shared /\ asked[i].mount = "shell"
    <3>1. inner' = [inner EXCEPT ![s] = 0]
      BY <1>2, <2>2
    <3>2. inner' \in [Shared -> 0..MaxAsked] /\ inner'[s] = 0
          /\ \A x \in Shared \ {s} : inner'[x] = inner[x]
      BY <1>1, <2>1, <2>2, <3>1
    <3>3. asked[i].mount # "own"
      BY <2>2
    <3> QED BY <3>2, <3>3
  <2>3. CASE ~(Attached(i) /\ s \in Shared /\ asked[i].mount = "shell")
    <3>1. inner' = inner
      BY <1>2, <2>3
    <3> QED BY <2>1, <2>3, <3>1
  <2> QED BY <2>2, <2>3
<1>8. s = asked[i].shell
  BY DEF s
<1>9. Placed(i, s, kind)
  BY <1>1, <1>2, <1>5, <1>6, <1>7, <1>8 DEF Placed
<1>10. typed' \subseteq typed
  BY <1>2
<1> QED BY <1>5, <1>6, <1>7, <1>8, <1>9, <1>10

\* Nothing is put anywhere but where its content is the last, or is mounted in the shell.
LEMMA PutKeeps ==
  ASSUME IInv, NEW i \in Contents, NEW s, NEW kind \in {"content", "error"}, Placed(i, s, kind),
         UNCHANGED <<asked, latest, removed>>, strays \subseteq strays', twins \subseteq twins'
  PROVE  /\ \A x \in Shared : inner'[x] # 0 => inner'[x] = latest'[x]
         /\ TypedIsShown' /\ ShowsTheLast' /\ DataIsItsOwn'
PROOF
<1>1. /\ s = asked[i].shell /\ s \in Shells_ /\ i # 0 /\ At(s, i)
      /\ \A x \in Shells_ \ {s} : area'[x] = area[x] /\ filledWith'[x] = filledWith[x]
      /\ \A x \in Shared \ {s} : inner'[x] = inner[x]
  BY DEF Placed
<1>2. /\ Attached(i) => /\ area'[s] = [by |-> i, kind |-> kind]
                        /\ filledWith'[s] = IF kind = "content" THEN i ELSE 0
                        /\ typed' = typed \ {s}
      /\ ~Attached(i) => area' = area /\ filledWith' = filledWith /\ inner' = inner /\ typed' = typed
      /\ s \in Shared => (inner'[s] = inner[s] \/ inner'[s] = 0)
      /\ asked[i].mount = "own" => inner' = inner
  BY DEF Placed
<1>3. asked' = asked /\ latest' = latest /\ removed' = removed /\ Contents' = Contents
  BY DEF Contents
<1>4. \A x \in Shared : inner'[x] # 0 => inner'[x] = latest'[x]
  <2>1. \A x \in Shared : inner'[x] # 0 => inner'[x] = inner[x]
    BY <1>1, <1>2
  <2> QED BY <1>3, <2>1 DEF IInv, Own
<1>5. TypedIsShown'
  <2> SUFFICES ASSUME NEW x \in typed' PROVE area'[x].kind = "content" /\ x \notin removed
    BY <1>3 DEF TypedIsShown
  <2>1. x \in typed /\ x \in Shells_
    BY <1>2, TypeIsShape DEF IInv, Shape
  <2>2. area[x].kind = "content" /\ x \notin removed
    BY <2>1 DEF IInv, TypedIsShown
  <2> QED BY <1>1, <1>2, <2>1, <2>2
<1>6. ShowsTheLast'
  <2> SUFFICES ASSUME NEW x \in Separate
               PROVE  area'[x].by = latest[x] /\ (x \in Shared => inner'[x] = latest[x])
    <3>1. \A x \in Separate : \A j \in Contents : At(x, j) => asked[j].mount = "own"
      BY DEF IInv, ShowsTheLast
    <3>2. Separate' = Separate /\ \A x, j : At(x, j)' <=> At(x, j)
      BY <1>3 DEF Separate, At
    <3> QED BY <1>3, <3>1, <3>2 DEF ShowsTheLast
  <2>1. x \in Shells_ /\ area[x].by = latest[x] /\ (x \in Shared => inner[x] = latest[x])
        /\ \A j \in Contents : At(x, j) => asked[j].mount = "own"
    BY DEF IInv, ShowsTheLast, Separate
  <2>2. CASE x = s /\ Attached(i)
    <3>1. asked[i].mount = "own" /\ inner' = inner /\ area'[x].by = i
      BY <1>1, <1>2, <2>1, <2>2
    <3>2. latest[x] = i
      <4>1. CASE s \in Dynamic
        BY <1>1, <2>2, <4>1 DEF IInv, Own
      <4>2. CASE s \notin Dynamic
        <5>1. x \in Shared /\ inner[x] = i
          BY <1>1, <2>2, <3>1, <4>2 DEF Attached, Shells_
        <5> QED BY <2>1, <5>1
      <4> QED BY <4>1, <4>2
    <3> QED BY <2>1, <3>1, <3>2
  <2>3. CASE ~(x = s /\ Attached(i))
    <3>1. area'[x] = area[x]
      BY <1>1, <1>2, <2>1, <2>3
    <3>2. x \in Shared => inner'[x] = inner[x]
      BY <1>1, <1>2, <2>3
    <3> QED BY <2>1, <3>1, <3>2
  <2> QED BY <2>2, <2>3
<1>7. DataIsItsOwn'
  <2> SUFFICES ASSUME NEW x \in Shells_, filledWith'[x] # 0, area'[x].kind = "content", x \notin removed
               PROVE  filledWith'[x] = area'[x].by \/ filledWith'[x] \in strays \cup twins
    BY <1>3 DEF DataIsItsOwn
  <2>1. CASE x = s /\ Attached(i)
    BY <1>2, <2>1
  <2>2. CASE ~(x = s /\ Attached(i))
    <3>1. area'[x] = area[x] /\ filledWith'[x] = filledWith[x]
      BY <1>1, <1>2, <2>2
    <3> QED BY <3>1 DEF IInv, DataIsItsOwn
  <2> QED BY <2>1, <2>2
<1> QED BY <1>4, <1>5, <1>6, <1>7

\* A content keeps its own element, and what the area shows, unless it is its own turn.
LEMMA FirstStays ==
  ASSUME IInv, NEW i \in Contents, NEW s, NEW kind \in {"content", "error"}, Placed(i, s, kind),
         UNCHANGED <<asked, latest, removed>>,
         NEW j \in Contents, asked[j].mount = "own", Attached(j)'
  PROVE  Attached(j) /\ (i # j => area'[asked[j].shell] = area[asked[j].shell])
PROOF
<1> DEFINE t == asked[j].shell
<1>1. /\ s = asked[i].shell /\ s \in Shells_ /\ i # 0 /\ At(s, i)
      /\ \A x \in Shells_ \ {s} : area'[x] = area[x]
      /\ \A x \in Shared \ {s} : inner'[x] = inner[x]
      /\ ~Attached(i) => area' = area
      /\ s \in Shared => (inner'[s] = inner[s] \/ inner'[s] = 0)
      /\ s \in Shared /\ Attached(i) /\ asked[i].mount = "shell" => inner'[s] = 0
  BY DEF Placed
<1>2. t \in Shells_ /\ j # 0 /\ At(t, j) /\ asked[i].mount \in {"own", "shell"}
  BY ContentFacts DEF At
<1>3. t \in Shared /\ t \notin Dynamic => inner'[t] = j /\ inner[t] = j
  <2>1. t \in Shared /\ t \notin Dynamic => inner'[t] = j
    BY DEF Attached
  <2> QED BY <1>1, <1>2, <2>1
<1>4. Attached(j)
  <2>1. CASE t \in Dynamic
    BY <2>1 DEF Attached
  <2>2. CASE t \notin Dynamic
    BY <1>2, <1>3, <2>2 DEF Attached, Shells_
  <2> QED BY <2>1, <2>2
<1>5. ASSUME i # j, t = s, Attached(i) PROVE FALSE
  <2>1. CASE s \in Dynamic
    <3>1. latest[s] = i /\ latest[s] = j
      BY <1>1, <1>2, <1>5, <2>1 DEF IInv, Own
    <3> QED BY <1>5, <3>1
  <2>2. CASE s \notin Dynamic
    <3>1. s \in Shared /\ inner'[s] = j /\ inner[s] = j
      BY <1>1, <1>3, <1>5, <2>2 DEF Shells_
    <3>2. asked[i].mount # "shell"
      BY <1>1, <1>2, <1>5, <3>1
    <3>3. inner[s] = i
      BY <1>1, <1>5, <2>2, <3>2 DEF Attached
    <3> QED BY <1>5, <3>1, <3>3
  <2> QED BY <2>1, <2>2
<1> QED BY <1>1, <1>2, <1>4, <1>5

-----------------------------------------------------------------------------
(* An answer arrives: the content is mounted and its hook called, or the     *)
(* load has failed.                                                          *)

Landing(f, kind) ==
  /\ flights' = flights \ {f} /\ Put(f.content, kind) /\ Stray(f.content)
  /\ asked' = asked /\ latest' = latest /\ removed' = removed /\ retry' = retry
  /\ sent' = sent /\ twins' = twins /\ hook' \in Partials \cup {None}
  /\ kind = "error" => ~f.again /\ setups' = setups
  /\ kind = "content" =>
       \E w : setups' = setups \cup {w} /\ w.content = f.content /\ w.again = f.again

LEMMA LandingKeeps ==
  ASSUME IInv, NEW f \in flights, NEW kind \in {"content", "error"}, Landing(f, kind)
  PROVE  IInv'
PROOF
<1>1. PICK i, s : /\ i = f.content /\ i \in Contents /\ s = asked[i].shell /\ Placed(i, s, kind)
                  /\ area' \in [Shells_ -> [by : 0..MaxAsked, kind : {"blank", "content", "error"}]]
                  /\ filledWith' \in [Shells_ -> 0..MaxAsked]
                  /\ inner' \in [Shared -> 0..MaxAsked] /\ typed' \subseteq typed
  <2>1. f.content \in Contents /\ Put(f.content, kind)
    BY FlightFacts DEF Landing
  <2> QED BY <2>1, PutFacts
<1>2. /\ s \in Shells_ /\ i # 0 /\ At(s, i)
      /\ \A x \in Shells_ \ {s} : area'[x] = area[x]
      /\ Attached(i) => area'[s] = [by |-> i, kind |-> kind]
      /\ ~Attached(i) => area' = area
  BY <1>1 DEF Placed
<1>3. /\ asked' = asked /\ latest' = latest /\ removed' = removed /\ retry' = retry /\ sent' = sent
      /\ twins' = twins /\ flights' = flights \ {f} /\ Contents' = Contents
      /\ hook' \in Partials \cup {None}
      /\ kind = "error" => ~f.again /\ setups' = setups
  BY DEF Landing, Contents
<1>4. /\ strays \subseteq strays' /\ strays' \subseteq strays \cup {i}
      /\ ~Attached(i) => i \in strays'
      /\ latest[s] # i => i \in strays'
  <2>1. strays' = IF Attached(i) /\ latest[s] = i THEN strays ELSE strays \cup {i}
    BY <1>1 DEF Landing, Stray
  <2> QED BY <2>1
<1>5. Shape
  BY TypeIsShape DEF IInv
<1>6. \A g \in flights : g.content \in Contents /\ asked[g.content].shell \in Shells_
                         /\ At(asked[g.content].shell, g.content)
  BY FlightFacts DEF At
<1>7. \A v \in setups' : v \in setups \/ (v.content = i /\ v.again = f.again /\ kind = "content")
  <2>1. CASE kind = "error"
    BY <1>3, <2>1
  <2>2. CASE kind = "content"
    BY <1>1, <2>2 DEF Landing
  <2> QED BY <2>1, <2>2
<1>8. \A g \in flights' : g \in flights /\ g # f
  BY <1>3
<1>9. TypeOK'
  <2>1. strays' \subseteq 1..MaxAsked
    <3>1. i \in 1..MaxAsked
      BY <1>1, ContentFacts
    <3> QED BY <1>4, <1>5, <3>1 DEF Shape
  <2>2. twins' \subseteq 1..MaxAsked
    BY <1>3, <1>5 DEF Shape
  <2>3. typed' \subseteq Shells_
    BY <1>1, <1>5 DEF Shape
  <2> QED BY <1>1, <1>3, <1>5, <2>1, <2>2, <2>3, TypeIsShapeNext DEF Shape
<1>10. Numbered'
  <2>1. Flight' = Flight /\ flights' \subseteq flights
    BY <1>3 DEF Flight
  <2>2. \A v \in setups' : v.content \in Contents /\ v.again \in BOOLEAN
    <3>1. i \in Contents /\ f.again \in BOOLEAN
      BY <1>1, FlightFacts
    <3> QED BY <1>7, <3>1 DEF IInv, Numbered
  <2>3. strays' \subseteq Contents
    BY <1>1, <1>4 DEF IInv, Numbered
  <2> QED BY <1>3, <2>1, <2>2, <2>3 DEF IInv, Numbered
<1>11. TypedIsShown' /\ ShowsTheLast' /\ DataIsItsOwn'
       /\ \A x \in Shared : inner'[x] # 0 => inner'[x] = latest'[x]
  <2>1. UNCHANGED <<asked, latest, removed>> /\ strays \subseteq strays' /\ twins \subseteq twins'
    BY <1>3, <1>4
  <2> QED BY <1>1, <2>1, PutKeeps
<1>12. Own'
  BY <1>3, <1>11 DEF IInv, Own, At
<1>13. \A g \in flights' : Alone(g) => i # g.content /\ Alone(g)'
  <2> SUFFICES ASSUME NEW g \in flights', Alone(g) PROVE i # g.content /\ Alone(g)'
    OBVIOUS
  <2>1. i # g.content
    BY <1>1, <1>8 DEF Alone
  <2>2. \A h \in flights' : h.content = g.content => h = g
    BY <1>8 DEF Alone
  <2>3. \A v \in setups' : v.content # g.content
    BY <1>7, <2>1 DEF Alone
  <2> QED BY <2>1, <2>2, <2>3 DEF Alone
<1>14. FirstIsAlone'
  <2> SUFFICES ASSUME NEW g \in flights', ~g.again, asked[g.content].mount = "own", Attached(g.content)'
               PROVE  area'[asked[g.content].shell].kind = "blank" /\ Alone(g)'
    BY <1>3 DEF FirstIsAlone
  <2>1. Attached(g.content)
        /\ (i # g.content => area'[asked[g.content].shell] = area[asked[g.content].shell])
    <3>1. g.content \in Contents /\ UNCHANGED <<asked, latest, removed>>
      BY <1>3, <1>6, <1>8
    <3> QED BY <1>1, <3>1, FirstStays
  <2>2. area[asked[g.content].shell].kind = "blank" /\ Alone(g)
    BY <1>8, <2>1 DEF IInv, FirstIsAlone
  <2> QED BY <1>13, <2>1, <2>2
<1>15. FirstHasRetry'
  <2> SUFFICES ASSUME NEW g \in flights', ~g.again,
                      latest[asked[g.content].shell] = g.content, asked[g.content].shell \notin removed
               PROVE  \/ /\ retry[asked[g.content].shell] # 0
                         /\ area'[asked[g.content].shell].kind = "blank" /\ Alone(g)'
                      \/ /\ asked[g.content].shell \in Shared
                         /\ \E j \in strays' : asked[j].shell = asked[g.content].shell
    BY <1>3 DEF FirstHasRetry
  <2> DEFINE t == asked[g.content].shell
  <2>1. \/ retry[t] # 0 /\ area[t].kind = "blank" /\ Alone(g)
        \/ t \in Shared /\ \E j \in strays : asked[j].shell = t
    BY <1>8 DEF IInv, FirstHasRetry
  <2>2. CASE t \in Shared /\ \E j \in strays : asked[j].shell = t
    BY <1>4, <2>2
  <2>3. CASE retry[t] # 0 /\ area[t].kind = "blank" /\ Alone(g)
    <3>1. i # g.content /\ Alone(g)'
      BY <1>13, <2>3
    <3>2. CASE t = s
      <4>1. i \in strays' /\ s \notin Dynamic
        BY <1>1, <1>2, <1>4, <3>1, <3>2 DEF IInv, Own
      <4> QED BY <1>1, <1>2, <3>2, <4>1 DEF Shells_
    <3>3. CASE t # s
      <4>1. area'[t] = area[t]
        BY <1>2, <1>6, <1>8, <3>3
      <4> QED BY <2>3, <3>1, <4>1
    <3> QED BY <3>2, <3>3
  <2> QED BY <2>1, <2>2, <2>3
<1>16. HookHasRetry'
  <2> SUFFICES ASSUME NEW v \in setups', ~v.again, asked[v.content].shell \in Dynamic \ removed
               PROVE  /\ retry[asked[v.content].shell] # 0
                      /\ area'[asked[v.content].shell].kind = "content"
                      /\ \A g \in flights' : g.content # v.content
                      /\ \A u \in setups' : u.content = v.content => u = v
    BY <1>3 DEF HookHasRetry
  <2>1. CASE v \in setups
    <3>1. /\ retry[asked[v.content].shell] # 0 /\ area[asked[v.content].shell].kind = "content"
          /\ \A g \in flights : g.content # v.content
          /\ \A u \in setups : u.content = v.content => u = v
      BY <2>1 DEF IInv, HookHasRetry
    <3>2. i # v.content
      BY <1>1, <3>1
    <3>3. At(asked[v.content].shell, v.content)
      BY <2>1, SetupFacts
    <3>4. asked[v.content].shell # s
      <4>1. \A x \in Dynamic, j \in Contents : At(x, j) => latest[x] = j
        BY DEF IInv, Own
      <4>2. At(s, i) /\ i \in Contents /\ v.content \in Contents
        BY <1>1, <1>2, <3>3 DEF At
      <4> QED BY <3>2, <3>3, <4>1, <4>2
    <3>5. area'[asked[v.content].shell] = area[asked[v.content].shell]
      BY <1>2, <2>1, <3>4, SetupFacts
    <3>6. \A u \in setups' : u.content = v.content => u = v
      BY <1>7, <3>1, <3>2
    <3> QED BY <1>8, <3>1, <3>5, <3>6
  <2>2. CASE v \notin setups
    <3>1. v.content = i /\ ~f.again /\ kind = "content"
      BY <1>7, <2>2
    <3>2. s \in Dynamic \ removed /\ latest[s] = i /\ Attached(i)
      BY <1>1, <1>2, <3>1 DEF IInv, Own, Attached
    <3>3. retry[s] # 0 /\ Alone(f)
      <4>1. s \notin Shared
        BY <3>2, Kinds
      <4> QED BY <1>1, <3>1, <3>2, <4>1 DEF IInv, FirstHasRetry
    <3>4. \A g \in flights' : g.content # v.content
      BY <1>1, <1>8, <3>1, <3>3 DEF Alone
    <3>5. \A u \in setups' : u.content = v.content => u = v
      <4>1. \A u \in setups : u.content # v.content
        BY <1>1, <3>1, <3>3 DEF Alone
      <4>2. PICK w : setups' = setups \cup {w}
        BY <3>1 DEF Landing
      <4> QED BY <2>2, <4>1, <4>2
    <3> QED BY <1>1, <1>2, <3>1, <3>2, <3>3, <3>4, <3>5
  <2> QED BY <2>1, <2>2
<1>17. RetryHasALoad'
  <2> SUFFICES ASSUME NEW x \in Shells_, area'[x].kind = "error", x \notin removed
               PROVE  retry[x] # 0 \/ \E j \in strays' : asked[j].shell = x
    BY <1>3 DEF RetryHasALoad
  <2>1. CASE x # s
    <3>1. retry[x] # 0 \/ \E j \in strays : asked[j].shell = x
      BY <1>2, <2>1 DEF IInv, RetryHasALoad
    <3> QED BY <1>4, <3>1
  <2>2. CASE x = s /\ ~(Attached(i) /\ latest[s] = i)
    BY <1>1, <1>4, <2>2
  <2>3. CASE x = s /\ Attached(i) /\ latest[s] = i
    <3>1. ~f.again
      BY <1>2, <1>3, <2>3
    <3>2. retry[s] # 0 \/ \E j \in strays : asked[j].shell = s
      BY <1>1, <2>3, <3>1 DEF IInv, FirstHasRetry
    <3> QED BY <1>4, <2>3, <3>2
  <2> QED BY <2>1, <2>2, <2>3
<1> QED BY <1>9, <1>10, <1>11, <1>12, <1>14, <1>15, <1>16, <1>17 DEF IInv

LEMMA MountLands == ASSUME IInv, NEW f \in flights, Mount(f) PROVE Landing(f, "content")
PROOF
<1>1. hook' \in Partials \cup {None}
  <2>1. hook \in Partials \cup {None} /\ asked[f.content].partial \in Partials
    BY FlightFacts, ContentFacts, TypeIsShape DEF IInv, Shape
  <2> QED BY <2>1 DEF Mount, CallHook
<1>2. \E w : setups' = setups \cup {w} /\ w.content = f.content /\ w.again = f.again
  <2> DEFINE w == [id |-> f.id, content |-> f.content, by |-> hook', again |-> f.again]
  <2>1. setups' = setups \cup {w}
    BY DEF Mount, CallHook
  <2>2. w.content = f.content /\ w.again = f.again
    OBVIOUS
  <2> HIDE DEF w
  <2> QED BY <2>1, <2>2
<1> QED BY <1>1, <1>2 DEF Mount, Landing

LEMMA FailureLands == ASSUME IInv, NEW f \in flights, LoadFails(f), ~f.again PROVE Landing(f, "error")
  BY TypeIsShape DEF IInv, Shape, LoadFails, Landing

LEMMA RetryFailsKeeps ==
  ASSUME IInv, NEW f \in flights, LoadFails(f), f.again
  PROVE  IInv'
PROOF
<1>1. /\ flights' = flights \ {f} /\ asked' = asked /\ latest' = latest /\ inner' = inner
      /\ area' = area /\ filledWith' = filledWith /\ typed' = typed /\ strays' = strays
      /\ removed' = removed /\ retry' = retry /\ hook' = hook /\ setups' = setups /\ sent' = sent
      /\ twins' = twins
  BY DEF LoadFails
<1>2. TypeOK'
  BY <1>1, TypeIsShape, TypeIsShapeNext DEF IInv, Shape
<1>3. Numbered' /\ Own' /\ TypedIsShown'
  <2>1. Numbered'
    BY <1>1 DEF IInv, Numbered, Flight, Contents
  <2>2. Own'
    BY <1>1 DEF IInv, Own, At, Contents
  <2> QED BY <1>1, <2>1, <2>2 DEF IInv, TypedIsShown
<1>4. \A g \in flights' : g \in flights /\ (Alone(g) => Alone(g)')
  BY <1>1 DEF Alone
<1>5. FirstIsAlone' /\ FirstHasRetry' /\ HookHasRetry'
  <2>1. FirstIsAlone'
    BY <1>1, <1>4 DEF IInv, FirstIsAlone, Attached
  <2>2. FirstHasRetry'
    BY <1>1, <1>4 DEF IInv, FirstHasRetry
  <2>3. HookHasRetry'
    BY <1>1, <1>4 DEF IInv, HookHasRetry
  <2> QED BY <2>1, <2>2, <2>3
<1>6. ShowsTheLast' /\ DataIsItsOwn' /\ RetryHasALoad'
  BY <1>1 DEF IInv, ShowsTheLast, Separate, At, Contents, DataIsItsOwn, RetryHasALoad
<1> QED BY <1>2, <1>3, <1>5, <1>6 DEF IInv

-----------------------------------------------------------------------------
(* A hook writes, ends or throws.                                            *)

LEMMA HookWritesKeeps ==
  ASSUME IInv, NEW w \in setups, HookWrites(w)
  PROVE  IInv'
PROOF
<1>1. PICK i : i = w.content /\ i \in Contents /\ i \in 1..MaxAsked
  BY SetupFacts
<1>2. PICK s \in Holders(w.by) : filledWith' = [filledWith EXCEPT ![s] = i] /\ typed' = typed \ {s}
  BY <1>1 DEF HookWrites
<1>3. /\ asked' = asked /\ latest' = latest /\ inner' = inner /\ area' = area
      /\ removed' = removed /\ retry' = retry /\ hook' = hook /\ flights' = flights
      /\ setups' = setups /\ sent' = sent /\ Contents' = Contents
  BY DEF HookWrites, Contents
<1>4. /\ strays \subseteq strays' /\ strays' \subseteq strays \cup {i}
      /\ i \in strays' \/ Shows(i)
  BY <1>1 DEF HookWrites, StrayHook
<1>5. /\ twins \subseteq twins' /\ twins' \subseteq twins \cup {i}
      /\ i \in twins' \/ Holders(w.by) \subseteq {asked[i].shell}
  BY <1>1 DEF HookWrites
<1>6. Shape
  BY TypeIsShape DEF IInv
<1>7. TypeOK'
  <2>1. filledWith' \in [Shells_ -> 0..MaxAsked]
    <3>1. i \in 0..MaxAsked
      BY <1>1, Bounds
    <3> QED BY <1>2, <1>6, <3>1 DEF Shape
  <2>2. strays' \subseteq 1..MaxAsked /\ twins' \subseteq 1..MaxAsked /\ typed' \subseteq Shells_
    BY <1>1, <1>2, <1>4, <1>5, <1>6 DEF Shape
  <2> QED BY <1>3, <1>6, <2>1, <2>2, TypeIsShapeNext DEF Shape
<1>8. Numbered'
  <2>1. strays' \subseteq Contents /\ twins' \subseteq Contents
    BY <1>1, <1>4, <1>5 DEF IInv, Numbered
  <2> QED BY <1>3, <2>1 DEF IInv, Numbered, Flight
<1>9. Own' /\ TypedIsShown'
  <2>1. Own'
    BY <1>3 DEF IInv, Own, At
  <2> QED BY <1>2, <1>3, <2>1 DEF IInv, TypedIsShown
<1>10. FirstIsAlone' /\ HookHasRetry'
  BY <1>3 DEF IInv, FirstIsAlone, HookHasRetry, Attached, Alone
<1>11. FirstHasRetry'
  <2>1. \A g \in flights : Alone(g) => Alone(g)'
    BY <1>3 DEF Alone
  <2> QED BY <1>3, <1>4, <2>1 DEF IInv, FirstHasRetry
<1>12. ShowsTheLast' /\ RetryHasALoad'
  <2>1. ShowsTheLast'
    BY <1>3 DEF IInv, ShowsTheLast, Separate, At
  <2>2. RetryHasALoad'
    BY <1>3, <1>4 DEF IInv, RetryHasALoad
  <2> QED BY <2>1, <2>2
\* A hook that is in its place, and has its ids for itself, writes into its own form.
<1>13. DataIsItsOwn'
  <2> SUFFICES ASSUME NEW x \in Shells_, filledWith'[x] # 0, area[x].kind = "content", x \notin removed
               PROVE  filledWith'[x] = area[x].by \/ filledWith'[x] \in strays' \cup twins'
    BY <1>3 DEF DataIsItsOwn
  <2>1. CASE x = s
    <3>1. filledWith'[x] = i
      BY <1>2, <1>6, <2>1 DEF Shape
    <3>2. CASE i \in strays' \cup twins'
      BY <3>1, <3>2
    <3>3. CASE i \notin strays' \cup twins'
      <4>1. asked[i].shell = s /\ area[asked[i].shell].by = i
        BY <1>2, <1>4, <1>5, <3>3 DEF Shows
      <4> QED BY <2>1, <3>1, <4>1
    <3> QED BY <3>2, <3>3
  <2>2. CASE x # s
    <3>1. filledWith'[x] = filledWith[x]
      BY <1>2, <1>6, <2>2 DEF Shape
    <3>2. filledWith[x] = area[x].by \/ filledWith[x] \in strays \cup twins
      BY <3>1 DEF IInv, DataIsItsOwn
    <3> QED BY <1>4, <1>5, <3>1, <3>2
  <2> QED BY <2>1, <2>2
<1> QED BY <1>7, <1>8, <1>9, <1>10, <1>11, <1>12, <1>13 DEF IInv

LEMMA HookEndsKeeps ==
  ASSUME IInv, NEW w \in setups, HookEnds(w)
  PROVE  IInv'
PROOF
<1>1. PICK i, s : /\ i = w.content /\ s = asked[i].shell /\ i \in Contents /\ i \in 1..MaxAsked
                  /\ s \in Shells_ /\ At(s, i)
  BY SetupFacts
<1>2. retry' = [retry EXCEPT ![s] = 0] /\ setups' = setups \ {w}
  BY <1>1 DEF HookEnds
<1>3. /\ asked' = asked /\ latest' = latest /\ inner' = inner /\ area' = area
      /\ filledWith' = filledWith /\ removed' = removed /\ hook' = hook /\ typed' = typed
      /\ flights' = flights /\ sent' = sent /\ twins' = twins /\ Contents' = Contents
  BY DEF HookEnds, Contents
<1>4. /\ strays \subseteq strays' /\ strays' \subseteq strays \cup {i}
      /\ i \in strays' \/ Shows(i)
  BY <1>1 DEF HookEnds, StrayHook
<1>5. Shape
  BY TypeIsShape DEF IInv
<1>6. retry'[s] = 0 /\ \A x \in Shells_ \ {s} : retry'[x] = retry[x]
  BY <1>1, <1>2, <1>5 DEF Shape
<1>7. TypeOK'
  <2>1. retry' \in [Shells_ -> 0..MaxAsked] /\ strays' \subseteq 1..MaxAsked
    <3>1. 0 \in 0..MaxAsked
      BY Bounds
    <3> QED BY <1>1, <1>2, <1>4, <1>5, <3>1 DEF Shape
  <2> QED BY <1>3, <1>5, <2>1, TypeIsShapeNext DEF Shape
<1>8. Numbered'
  <2>1. strays' \subseteq Contents
    BY <1>1, <1>4 DEF IInv, Numbered
  <2> QED BY <1>2, <1>3, <2>1 DEF IInv, Numbered, Flight
<1>9. Own' /\ TypedIsShown'
  <2>1. \A x \in Shells_ : retry'[x] # 0 => At(x, retry[x]) /\ retry'[x] = retry[x]
    BY <1>6 DEF IInv, Own
  <2>2. Own'
    BY <1>3, <2>1 DEF IInv, Own, At
  <2> QED BY <1>3, <2>2 DEF IInv, TypedIsShown
<1>10. \A g \in flights : Alone(g) => Alone(g)'
  BY <1>2, <1>3 DEF Alone
<1>11. FirstIsAlone'
  BY <1>3, <1>10 DEF IInv, FirstIsAlone, Attached
\* The first load of another content of the shell: the area does not show this one.
<1>12. FirstHasRetry'
  <2> SUFFICES ASSUME NEW g \in flights, ~g.again,
                      latest[asked[g.content].shell] = g.content, asked[g.content].shell \notin removed
               PROVE  \/ /\ retry'[asked[g.content].shell] # 0
                         /\ area[asked[g.content].shell].kind = "blank" /\ Alone(g)'
                      \/ /\ asked[g.content].shell \in Shared
                         /\ \E j \in strays' : asked[j].shell = asked[g.content].shell
    BY <1>3 DEF FirstHasRetry
  <2> DEFINE t == asked[g.content].shell
  <2>1. \/ retry[t] # 0 /\ area[t].kind = "blank" /\ Alone(g)
        \/ t \in Shared /\ \E j \in strays : asked[j].shell = t
    BY DEF IInv, FirstHasRetry
  <2>2. CASE t \in Shared /\ \E j \in strays : asked[j].shell = t
    BY <1>4, <2>2
  <2>3. CASE (retry[t] # 0 /\ area[t].kind = "blank" /\ Alone(g)) /\ t # s
    <3>1. retry'[t] = retry[t]
      BY <1>6, <2>3, FlightFacts
    <3> QED BY <1>10, <2>3, <3>1
  <2>4. CASE (retry[t] # 0 /\ area[t].kind = "blank" /\ Alone(g)) /\ t = s
    <3>1. i # g.content
      BY <1>1, <2>4 DEF Alone
    <3>2. s \notin Dynamic
      BY <1>1, <2>4, <3>1 DEF IInv, Own
    <3>3. i \in strays'
      BY <1>1, <1>4, <2>4 DEF Shows
    <3> QED BY <1>1, <2>4, <3>2, <3>3 DEF Shells_
  <2> QED BY <2>1, <2>2, <2>3, <2>4
<1>13. HookHasRetry'
  <2> SUFFICES ASSUME NEW v \in setups, v # w, ~v.again, asked[v.content].shell \in Dynamic \ removed
               PROVE  /\ retry'[asked[v.content].shell] # 0
                      /\ area[asked[v.content].shell].kind = "content"
                      /\ \A g \in flights : g.content # v.content
                      /\ \A u \in setups : u.content = v.content => u = v
    BY <1>2, <1>3 DEF HookHasRetry
  <2>1. /\ retry[asked[v.content].shell] # 0 /\ area[asked[v.content].shell].kind = "content"
        /\ \A g \in flights : g.content # v.content
        /\ \A u \in setups : u.content = v.content => u = v
    BY DEF IInv, HookHasRetry
  <2>2. asked[v.content].shell # s
    <3>1. \A x \in Dynamic, j \in Contents : At(x, j) => latest[x] = j
      BY DEF IInv, Own
    <3>2. v.content \in Contents /\ At(asked[v.content].shell, v.content)
      BY SetupFacts
    <3>3. i # v.content
      BY <1>1, <2>1
    <3> QED BY <1>1, <3>1, <3>2, <3>3
  <2> QED BY <1>6, <2>1, <2>2, SetupFacts
<1>14. ShowsTheLast' /\ DataIsItsOwn'
  <2>1. ShowsTheLast'
    BY <1>3 DEF IInv, ShowsTheLast, Separate, At
  <2>2. DataIsItsOwn'
    BY <1>3, <1>4 DEF IInv, DataIsItsOwn
  <2> QED BY <2>1, <2>2
<1>15. RetryHasALoad'
  <2> SUFFICES ASSUME NEW x \in Shells_, area[x].kind = "error", x \notin removed
               PROVE  retry'[x] # 0 \/ \E j \in strays' : asked[j].shell = x
    BY <1>3 DEF RetryHasALoad
  <2>1. CASE x = s
    <3>1. i \in strays'
      BY <1>1, <1>4, <2>1 DEF Shows
    <3> QED BY <1>1, <2>1, <3>1
  <2>2. CASE x # s
    <3>1. retry[x] # 0 \/ \E j \in strays : asked[j].shell = x
      BY DEF IInv, RetryHasALoad
    <3> QED BY <1>4, <1>6, <2>2, <3>1
  <2> QED BY <2>1, <2>2
<1> QED BY <1>7, <1>8, <1>9, <1>11, <1>12, <1>13, <1>14, <1>15 DEF IInv


LEMMA HookRejectsKeeps ==
  ASSUME IInv, NEW w \in setups, HookRejects(w)
  PROVE  IInv'
PROOF
<1>1. PICK i, s : /\ i = w.content /\ s = asked[i].shell /\ i \in Contents
                  /\ s \in Shells_ /\ s \in Dynamic /\ s \notin Shared /\ At(s, i)
  BY SetupFacts, Kinds DEF HookRejects
<1>2. /\ asked' = asked /\ latest' = latest /\ removed' = removed /\ retry' = retry
      /\ hook' = hook /\ flights' = flights /\ setups' = setups \ {w} /\ sent' = sent
      /\ strays' = strays /\ twins' = twins /\ Contents' = Contents
  BY DEF HookRejects, Contents
<1>3. Shape
  BY TypeIsShape DEF IInv
\* Nothing is put, or the error panel of the first load.
<1>4. /\ area' \in [Shells_ -> [by : 0..MaxAsked, kind : {"blank", "content", "error"}]]
      /\ filledWith' \in [Shells_ -> 0..MaxAsked]
      /\ inner' \in [Shared -> 0..MaxAsked] /\ typed' \subseteq typed
  <2>1. CASE w.again
    BY <1>3, <2>1 DEF Shape, HookRejects
  <2>2. CASE ~w.again
    BY <1>1, <2>2, PutFacts DEF HookRejects
  <2> QED BY <2>1, <2>2
<1>5. \A x \in Shells_ \ {s} : area'[x] = area[x]
  <2>1. CASE w.again
    BY <2>1 DEF HookRejects
  <2>2. CASE ~w.again
    BY <1>1, <2>2, PutFacts DEF HookRejects, Placed
  <2> QED BY <2>1, <2>2
<1>6. \/ area'[s] = area[s]
      \/ ~w.again /\ s \notin removed /\ area'[s].kind = "error"
  <2>1. CASE w.again
    BY <2>1 DEF HookRejects
  <2>2. CASE ~w.again
    <3>1. Placed(i, s, "error")
      BY <1>1, <2>2, PutFacts DEF HookRejects
    <3>2. Attached(i) => area'[s] = [by |-> i, kind |-> "error"] /\ s \notin removed
      BY <1>1, <3>1 DEF Placed, Attached
    <3>3. ~Attached(i) => area'[s] = area[s]
      BY <3>1 DEF Placed
    <3> QED BY <2>2, <3>2, <3>3
  <2> QED BY <2>1, <2>2
<1>7. TypedIsShown' /\ ShowsTheLast' /\ DataIsItsOwn'
      /\ \A x \in Shared : inner'[x] # 0 => inner'[x] = latest'[x]
  <2>1. CASE w.again
    <3>1. area' = area /\ filledWith' = filledWith /\ inner' = inner /\ typed' = typed
      BY <2>1 DEF HookRejects
    <3> QED BY <1>2, <3>1 DEF IInv, Own, TypedIsShown, ShowsTheLast, DataIsItsOwn, Separate, At
  <2>2. CASE ~w.again
    <3>1. Placed(i, s, "error")
      BY <1>1, <2>2, PutFacts DEF HookRejects
    <3>2. UNCHANGED <<asked, latest, removed>> /\ strays \subseteq strays' /\ twins \subseteq twins'
      BY <1>2
    <3> QED BY <1>1, <3>1, <3>2, PutKeeps
  <2> QED BY <2>1, <2>2
<1>8. \A x \in Dynamic, j \in Contents : At(x, j) => latest[x] = j
  BY DEF IInv, Own
\* A request for this overlay is for this content; while it was under way, the hook could
\* not have thrown.
<1>9. ASSUME NEW g \in flights, g.content = i PROVE area'[s] = area[s]
  <2> SUFFICES ASSUME ~w.again, s \notin removed PROVE FALSE
    BY <1>6
  <2> QED BY <1>1, <1>9 DEF IInv, HookHasRetry
<1>10. \A g \in flights : /\ area'[asked[g.content].shell] = area[asked[g.content].shell]
                          /\ (Alone(g) => Alone(g)')
  <2> SUFFICES ASSUME NEW g \in flights
               PROVE  /\ area'[asked[g.content].shell] = area[asked[g.content].shell]
                      /\ (Alone(g) => Alone(g)')
    OBVIOUS
  <2>1. At(asked[g.content].shell, g.content) /\ asked[g.content].shell \in Shells_
        /\ g.content \in Contents
    BY FlightFacts DEF At
  <2>2. asked[g.content].shell = s => g.content = i
    BY <1>1, <1>8, <2>1
  <2>3. area'[asked[g.content].shell] = area[asked[g.content].shell]
    BY <1>5, <1>9, <2>1, <2>2
  <2>4. Alone(g) => Alone(g)'
    BY <1>2 DEF Alone
  <2> QED BY <2>3, <2>4
<1>11. TypeOK'
  <2>1. typed' \subseteq Shells_
    BY <1>3, <1>4 DEF Shape
  <2> QED BY <1>2, <1>3, <1>4, <2>1, TypeIsShapeNext DEF Shape
<1>12. Numbered'
  BY <1>2 DEF IInv, Numbered, Flight
<1>13. Own'
  BY <1>2, <1>7 DEF IInv, Own, At
<1>14. FirstIsAlone'
  <2> SUFFICES ASSUME NEW g \in flights, ~g.again, asked[g.content].mount = "own", Attached(g.content)'
               PROVE  area'[asked[g.content].shell].kind = "blank" /\ Alone(g)'
    BY <1>2 DEF FirstIsAlone
  <2>1. Attached(g.content)
    <3>1. inner' = inner
      <4>1. CASE w.again
        BY <4>1 DEF HookRejects
      <4>2. CASE ~w.again
        <5>1. Placed(i, s, "error")
          BY <1>1, <4>2, PutFacts DEF HookRejects
        <5> QED BY <1>1, <5>1 DEF Placed, IInv, Own
      <4> QED BY <4>1, <4>2
    <3> QED BY <1>2, <3>1 DEF Attached
  <2>2. area[asked[g.content].shell].kind = "blank" /\ Alone(g)
    BY <2>1 DEF IInv, FirstIsAlone
  <2> QED BY <1>10, <2>2
<1>15. FirstHasRetry'
  BY <1>2, <1>10 DEF IInv, FirstHasRetry
<1>16. HookHasRetry'
  <2> SUFFICES ASSUME NEW v \in setups, v # w, ~v.again, asked[v.content].shell \in Dynamic \ removed
               PROVE  /\ retry[asked[v.content].shell] # 0
                      /\ area'[asked[v.content].shell].kind = "content"
                      /\ \A g \in flights : g.content # v.content
                      /\ \A u \in setups : u.content = v.content => u = v
    BY <1>2 DEF HookHasRetry
  <2>1. /\ retry[asked[v.content].shell] # 0 /\ area[asked[v.content].shell].kind = "content"
        /\ \A g \in flights : g.content # v.content
        /\ \A u \in setups : u.content = v.content => u = v
    BY DEF IInv, HookHasRetry
  <2>2. asked[v.content].shell # s
    <3>1. v.content \in Contents /\ At(asked[v.content].shell, v.content)
      BY SetupFacts
    <3>2. i # v.content
      BY <1>1, <2>1
    <3> QED BY <1>1, <1>8, <3>1, <3>2
  <2> QED BY <1>5, <2>1, <2>2, SetupFacts
<1>17. RetryHasALoad'
  <2> SUFFICES ASSUME NEW x \in Shells_, area'[x].kind = "error", x \notin removed
               PROVE  retry[x] # 0 \/ \E j \in strays : asked[j].shell = x
    BY <1>2 DEF RetryHasALoad
  <2>1. CASE area'[x] = area[x]
    BY <2>1 DEF IInv, RetryHasALoad
  <2>2. CASE area'[x] # area[x]
    <3>1. x = s /\ ~w.again
      BY <1>5, <1>6, <2>2
    <3> QED BY <1>1, <3>1 DEF IInv, HookHasRetry
  <2> QED BY <2>1, <2>2
<1> QED BY <1>7, <1>11, <1>12, <1>13, <1>14, <1>15, <1>16, <1>17 DEF IInv

LEMMA NextKeeps == ASSUME IInv, [Next]_vars PROVE IInv'
PROOF
<1>1. ASSUME NEW s \in Shared, NEW p \in Partials, NEW mount \in Mounts[s], Load(s, mount, p)
      PROVE  IInv'
  <2>1. mount \in {"own", "shell"} /\ s \in Shells_ /\ s \notin Dynamic
    BY Kinds DEF Shells_
  <2> QED BY <1>1, <2>1, LoadKeeps
<1>2. ASSUME NEW s \in Dynamic, NEW p \in Partials, Load(s, "own", p) PROVE IInv'
  <2>1. s \in Shells_ /\ s \notin Shared
    BY Kinds DEF Shells_
  <2> QED BY <1>2, <2>1, LoadKeeps
<1>3. ASSUME NEW s \in Dynamic, Close(s) PROVE IInv'
  BY <1>3, CloseKeeps
<1>4. ASSUME NEW s \in Shells_, Type(s) \/ ClickRetry(s) PROVE IInv'
  BY <1>4, TypeKeeps, ClickRetryKeeps
<1>5. ASSUME NEW f \in flights, Reply(f) PROVE IInv'
  BY <1>5, ReplyKeeps
<1>6. ASSUME NEW f \in flights, Mount(f) PROVE IInv'
  BY <1>6, MountLands, LandingKeeps
<1>7. ASSUME NEW f \in flights, LoadFails(f) PROVE IInv'
  BY <1>7, FailureLands, LandingKeeps, RetryFailsKeeps
<1>8. ASSUME NEW w \in setups, HookWrites(w) PROVE IInv'
  BY <1>8, HookWritesKeeps
<1>9. ASSUME NEW w \in setups, HookEnds(w) \/ HookRejects(w) PROVE IInv'
  BY <1>9, HookEndsKeeps, HookRejectsKeeps
<1>10. ASSUME UNCHANGED vars PROVE IInv'
  <2>1. /\ asked' = asked /\ latest' = latest /\ inner' = inner /\ area' = area
        /\ filledWith' = filledWith /\ removed' = removed /\ retry' = retry /\ hook' = hook
        /\ typed' = typed /\ flights' = flights /\ setups' = setups /\ sent' = sent
        /\ strays' = strays /\ twins' = twins
    BY <1>10 DEF vars
  <2>2. TypeOK'
    BY <2>1, TypeIsShape, TypeIsShapeNext DEF IInv, Shape
  <2>3. Numbered' /\ Own' /\ TypedIsShown'
    BY <2>1 DEF IInv, Numbered, Flight, Contents, Own, At, TypedIsShown
  <2>4. FirstIsAlone' /\ FirstHasRetry' /\ HookHasRetry'
    BY <2>1 DEF IInv, FirstIsAlone, FirstHasRetry, HookHasRetry, Alone, Attached
  <2>5. ShowsTheLast' /\ DataIsItsOwn' /\ RetryHasALoad'
    BY <2>1 DEF IInv, ShowsTheLast, Separate, At, Contents, DataIsItsOwn, RetryHasALoad
  <2> QED BY <2>2, <2>3, <2>4, <2>5 DEF IInv
<1> QED BY <1>1, <1>2, <1>3, <1>4, <1>5, <1>6, <1>7, <1>8, <1>9, <1>10 DEF Next


-----------------------------------------------------------------------------
(* What the user has typed is kept.                                          *)

\* What InputIsKept says of one step.
KeepsInput ==
  \A s \in typed : s \notin typed' =>
       \/ latest'[s] # latest[s] \/ s \in removed'
       \/ \E f \in flights \ flights' :
            asked[f.content].shell = s /\ (f.again \/ asked[f.content].mount = "shell")
       \/ /\ UNCHANGED <<flights, setups>>
          /\ \E w \in setups : filledWith'[s] = w.content /\ w.by = asked[area[s].by].partial
       \/ /\ s \in Dynamic
          /\ \E w \in setups \ setups' : asked[w.content].shell = s /\ ~w.again

LEMMA LoadKeepsInput ==
  ASSUME IInv, NEW s \in Shells_, NEW mount \in {"own", "shell"}, NEW p \in Partials,
         Load(s, mount, p)
  PROVE  KeepsInput
PROOF
<1>1. PICK i : /\ i = Len(asked) + 1 /\ i \notin Contents /\ i # 0 /\ typed' = typed \ {s}
               /\ latest' = [latest EXCEPT ![s] = i]
  <2>1. PICK i : /\ i = Len(asked) + 1 /\ i \in 1..MaxAsked /\ i \notin Contents
                 /\ typed' = typed \ {s} /\ latest' = [latest EXCEPT ![s] = i]
    BY LoadFacts
  <2>2. i # 0
    BY <2>1
  <2> QED BY <2>1, <2>2
<1>2. latest'[s] = i
  BY <1>1, TypeIsShape DEF IInv, Shape
<1>3. latest[s] # i
  BY <1>1 DEF IInv, Own, At
<1> QED BY <1>1, <1>2, <1>3 DEF KeepsInput

LEMMA LandingKeepsInput ==
  ASSUME IInv, NEW f \in flights, NEW kind \in {"content", "error"}, Landing(f, kind)
  PROVE  KeepsInput
PROOF
<1>1. PICK i, s : i = f.content /\ i \in Contents /\ s = asked[i].shell /\ Placed(i, s, kind)
  <2>1. f.content \in Contents /\ Put(f.content, kind)
    BY FlightFacts DEF Landing
  <2> QED BY <2>1, PutFacts
<1>2. Attached(i) => typed' = typed \ {s}
  BY <1>1 DEF Placed
<1>3. ~Attached(i) => typed' = typed
  BY <1>1 DEF Placed
<1> SUFFICES ASSUME NEW x \in typed, x \notin typed'
             PROVE  \E g \in flights \ flights' :
                      asked[g.content].shell = x /\ (g.again \/ asked[g.content].mount = "shell")
  BY DEF KeepsInput
<1>4. x = s /\ Attached(i)
  BY <1>2, <1>3
<1>5. area[s].kind = "content"
  BY <1>4 DEF IInv, TypedIsShown
<1>6. f \in flights \ flights'
  BY DEF Landing
<1>7. f.again \/ asked[f.content].mount = "shell"
  <2> SUFFICES ASSUME ~f.again PROVE asked[f.content].mount # "own"
    BY <1>1, ContentFacts
  <2>1. area[asked[f.content].shell].kind = "content" /\ Attached(f.content)
    BY <1>1, <1>4, <1>5
  <2> QED BY <2>1 DEF IInv, FirstIsAlone
<1> QED BY <1>1, <1>4, <1>6, <1>7

LEMMA HookWritesKeepsInput ==
  ASSUME IInv, NEW w \in setups, HookWrites(w)
  PROVE  KeepsInput
PROOF
<1>1. PICK s \in Holders(w.by) :
        filledWith' = [filledWith EXCEPT ![s] = w.content] /\ typed' = typed \ {s}
  BY DEF HookWrites
<1>2. s \in Shells_ /\ w.by = asked[area[s].by].partial
  BY <1>1 DEF Holders
<1>3. filledWith'[s] = w.content
  BY <1>1, <1>2, TypeIsShape DEF IInv, Shape
<1>4. UNCHANGED <<flights, setups>>
  BY DEF HookWrites
<1> QED BY <1>1, <1>2, <1>3, <1>4 DEF KeepsInput

LEMMA HookRejectsKeepsInput ==
  ASSUME IInv, NEW w \in setups, HookRejects(w)
  PROVE  KeepsInput
PROOF
<1> DEFINE s == asked[w.content].shell
<1>1. typed' = typed \/ (typed' = typed \ {s} /\ ~w.again)
  BY DEF HookRejects, Put
<1>2. s \in Dynamic /\ w \in setups \ setups'
  BY DEF HookRejects
<1> QED BY <1>1, <1>2 DEF KeepsInput

LEMMA NextKeepsInput == ASSUME IInv, [Next]_vars PROVE KeepsInput
PROOF
<1>1. ASSUME NEW s \in Shells_, NEW mount \in {"own", "shell"}, NEW p \in Partials,
             Load(s, mount, p)
      PROVE  KeepsInput
  BY <1>1, LoadKeepsInput
<1>2. ASSUME NEW s \in Dynamic, Close(s) PROVE KeepsInput
  BY <1>2 DEF Close, KeepsInput
<1>3. ASSUME NEW s \in Shells_, Type(s) \/ ClickRetry(s) PROVE KeepsInput
  BY <1>3 DEF Type, ClickRetry, KeepsInput
<1>4. ASSUME NEW f \in flights, Reply(f) PROVE KeepsInput
  BY <1>4 DEF Reply, KeepsInput
<1>5. ASSUME NEW f \in flights, Mount(f) PROVE KeepsInput
  BY <1>5, MountLands, LandingKeepsInput
<1>6. ASSUME NEW f \in flights, LoadFails(f) PROVE KeepsInput
  <2>1. CASE f.again
    BY <1>6, <2>1 DEF LoadFails, KeepsInput
  <2>2. CASE ~f.again
    BY <1>6, <2>2, FailureLands, LandingKeepsInput
  <2> QED BY <2>1, <2>2
<1>7. ASSUME NEW w \in setups, HookWrites(w) PROVE KeepsInput
  BY <1>7, HookWritesKeepsInput
<1>8. ASSUME NEW w \in setups, HookEnds(w) PROVE KeepsInput
  BY <1>8 DEF HookEnds, KeepsInput
<1>9. ASSUME NEW w \in setups, HookRejects(w) PROVE KeepsInput
  BY <1>9, HookRejectsKeepsInput
<1>10. ASSUME UNCHANGED vars PROVE KeepsInput
  BY <1>10 DEF vars, KeepsInput
<1>11. \A s \in Shared : Mounts[s] \subseteq {"own", "shell"} /\ s \in Shells_
  BY Kinds DEF Shells_
<1>12. \A s \in Dynamic : s \in Shells_
  BY DEF Shells_
<1> QED BY <1>1, <1>2, <1>3, <1>4, <1>5, <1>6, <1>7, <1>8, <1>9, <1>10, <1>11, <1>12 DEF Next

\* In every run of the overlays, whatever the shells, the partials and the bounds. A form
\* holds the data it was opened for, or those of a content that had lost its place when its
\* answer or its hook came, or whose ids another overlay had too. A Retry button has a load
\* to run, unless a content of this shell came, or had its hook end, out of its place. What
\* the user has typed is wiped only when something else is asked for, when the overlay is
\* closed, by an answer to Retry or one mounted in the shell itself, by a hook that writes
\* into fields of these ids, or by one that throws in the first load of a dynamic overlay.
THEOREM ContentsAreSound == Spec => ContentsAreTheirs
PROOF
<1>1. Init => IInv
  BY InitIsSound
<1>2. IInv /\ [Next]_vars => IInv'
  BY NextKeeps
<1>3. IInv => TypeOK /\ DataIsItsOwn /\ RetryHasALoad
  BY DEF IInv
<1>4. IInv /\ [Next]_vars => [KeepsInput]_vars
  BY NextKeepsInput
<1> QED BY <1>1, <1>2, <1>3, <1>4, PTL DEF Spec, ContentsAreTheirs, InputIsKept, KeepsInput

-----------------------------------------------------------------------------
(* Every step of the shells is one of Panel, or changes nothing there.       *)

\* The areas of Panel: what each separate shell was last asked for, and what it shows.
LastAsked == [s \in Separate |-> latest[s]]
Shown == [s \in Separate |-> area[s]]

LEMMA LoadOpens ==
  ASSUME IInv, NEW s \in Shells_, NEW mount \in {"own", "shell"}, NEW p \in Partials,
         Load(s, mount, p)
  PROVE  [Promise!Next]_<<LastAsked, Shown>>
PROOF
<1>1. PICK i : /\ i = Len(asked) + 1 /\ Len(asked) \in Nat
               /\ latest' = [latest EXCEPT ![s] = i] /\ area' = [area EXCEPT ![s] = Blank(i)]
  BY LoadFacts
<1>2. Shape
  BY TypeIsShape DEF IInv
<1>3. /\ latest'[s] = i /\ area'[s] = [by |-> i, kind |-> "blank"]
      /\ \A x \in Shells_ \ {s} : latest'[x] = latest[x] /\ area'[x] = area[x]
  BY <1>1, <1>2 DEF Shape, Blank
<1>4. Separate' = Separate /\ Separate \subseteq Shells_
  BY DEF Separate
<1>5. CASE s \notin Separate
  <2>1. LastAsked' = LastAsked /\ Shown' = Shown
    BY <1>3, <1>4, <1>5 DEF LastAsked, Shown
  <2> QED BY <2>1
<1>6. CASE s \in Separate
  <2>1. i > latest[s]
    <3>1. latest[s] = 0 \/ latest[s] \in 1..Len(asked)
      BY DEF IInv, Own, At, Contents
    <3> QED BY <1>1, <3>1
  <2>2. /\ LastAsked'[s] = i /\ LastAsked[s] = latest[s]
        /\ LastAsked' = [LastAsked EXCEPT ![s] = LastAsked'[s]]
    BY <1>3, <1>4, <1>6 DEF LastAsked
  <2>3. Shown' = [Shown EXCEPT ![s] = [by |-> LastAsked'[s], kind |-> "blank"]]
    BY <1>3, <1>4, <1>6, <2>2 DEF Shown
  <2>4. Promise!Open(s)
    BY <2>1, <2>2, <2>3 DEF Promise!Open, LastAsked, Shown
  <2> QED BY <1>6, <2>4 DEF Promise!Next
<1> QED BY <1>5, <1>6

LEMMA PutFills ==
  ASSUME IInv, NEW i \in Contents, NEW kind \in {"content", "error"}, Put(i, kind), latest' = latest
  PROVE  [Promise!Next]_<<LastAsked, Shown>>
PROOF
<1>1. PICK s : s = asked[i].shell /\ Placed(i, s, kind)
  BY PutFacts
<1>2. /\ s \in Shells_ /\ i # 0 /\ At(s, i)
      /\ \A x \in Shells_ \ {s} : area'[x] = area[x]
      /\ Attached(i) => area'[s] = [by |-> i, kind |-> kind]
      /\ ~Attached(i) => area' = area
  BY <1>1 DEF Placed
<1>3. Separate' = Separate /\ Separate \subseteq Shells_
  BY DEF Separate
<1>4. LastAsked' = LastAsked
  BY <1>3 DEF LastAsked
<1>5. CASE s \notin Separate \/ ~Attached(i)
  <2>1. Shown' = Shown
    BY <1>2, <1>3, <1>5 DEF Shown
  <2> QED BY <1>4, <2>1
<1>6. CASE s \in Separate /\ Attached(i)
  <2>1. area[s].by = latest[s] /\ asked[i].mount = "own" /\ (s \in Shared => inner[s] = latest[s])
    BY <1>2, <1>6 DEF IInv, ShowsTheLast
  <2>2. latest[s] = i
    <3>1. CASE s \in Dynamic
      BY <1>2, <3>1 DEF IInv, Own
    <3>2. CASE s \notin Dynamic
      BY <1>1, <1>2, <1>6, <2>1, <3>2 DEF Attached, Shells_
    <3> QED BY <3>1, <3>2
  <2>3. LastAsked[s] = i /\ Shown[s] = area[s]
    BY <1>6, <2>2 DEF LastAsked, Shown
  <2>4. Shown' = [Shown EXCEPT ![s] = [by |-> LastAsked[s], kind |-> kind]]
    BY <1>2, <1>3, <1>6, <2>3 DEF Shown
  <2>5. CASE area[s].kind # "content"
    <3>1. Promise!Fill(s, kind)
      BY <1>2, <1>4, <2>3, <2>4, <2>5 DEF Promise!Fill, LastAsked, Shown
    <3> QED BY <1>6, <3>1 DEF Promise!Next
  <2>6. CASE area[s].kind = "content" /\ kind = "error"
    <3>1. Promise!Refill(s)
      BY <1>2, <1>4, <2>3, <2>4, <2>6 DEF Promise!Refill, LastAsked, Shown
    <3> QED BY <1>6, <3>1 DEF Promise!Next
  <2>7. CASE area[s].kind = "content" /\ kind = "content"
    <3>1. area[s] = [by |-> i, kind |-> "content"]
      <4>1. area[s] \in [by : 0..MaxAsked, kind : {"blank", "content", "error"}]
        BY <1>2, TypeIsShape DEF IInv, Shape
      <4> QED BY <2>1, <2>2, <2>7, <4>1
    <3>2. \A x \in Shells_ : area'[x] = area[x]
      BY <1>2, <1>6, <2>7, <3>1
    <3>3. Shown' = Shown
      BY <1>3, <3>2 DEF Shown
    <3> QED BY <1>4, <3>3
  <2> QED BY <2>5, <2>6, <2>7
<1> QED BY <1>5, <1>6

LEMMA NextImplements == ASSUME IInv, [Next]_vars PROVE [Promise!Next]_<<LastAsked, Shown>>
PROOF
<1>1. ASSUME NEW s \in Shells_, NEW mount \in {"own", "shell"}, NEW p \in Partials,
             Load(s, mount, p)
      PROVE  [Promise!Next]_<<LastAsked, Shown>>
  BY <1>1, LoadOpens
<1>2. latest' = latest /\ area' = area => [Promise!Next]_<<LastAsked, Shown>>
  <2>1. Separate' = Separate
    BY DEF Separate
  <2>2. latest' = latest /\ area' = area => LastAsked' = LastAsked /\ Shown' = Shown
    BY <2>1 DEF LastAsked, Shown
  <2> QED BY <2>2
<1>3. ASSUME NEW s \in Dynamic, Close(s) PROVE latest' = latest /\ area' = area
  BY <1>3 DEF Close
<1>4. ASSUME NEW s \in Shells_, Type(s) \/ ClickRetry(s) PROVE latest' = latest /\ area' = area
  BY <1>4 DEF Type, ClickRetry
<1>5. ASSUME NEW f \in flights, Reply(f) PROVE latest' = latest /\ area' = area
  BY <1>5 DEF Reply
<1>6. ASSUME NEW f \in flights, Mount(f) PROVE [Promise!Next]_<<LastAsked, Shown>>
  BY <1>6, FlightFacts, PutFills DEF Mount
<1>7. ASSUME NEW f \in flights, LoadFails(f) PROVE [Promise!Next]_<<LastAsked, Shown>>
  <2>1. CASE f.again
    <3>1. latest' = latest /\ area' = area
      BY <1>7, <2>1 DEF LoadFails
    <3> QED BY <1>2, <3>1
  <2>2. CASE ~f.again
    BY <1>7, <2>2, FlightFacts, PutFills DEF LoadFails
  <2> QED BY <2>1, <2>2
<1>8. ASSUME NEW w \in setups, HookWrites(w) \/ HookEnds(w) PROVE latest' = latest /\ area' = area
  BY <1>8 DEF HookWrites, HookEnds
<1>9. ASSUME NEW w \in setups, HookRejects(w) PROVE [Promise!Next]_<<LastAsked, Shown>>
  <2>1. CASE w.again
    <3>1. latest' = latest /\ area' = area
      BY <1>9, <2>1 DEF HookRejects
    <3> QED BY <1>2, <3>1
  <2>2. CASE ~w.again
    BY <1>9, <2>2, SetupFacts, PutFills DEF HookRejects
  <2> QED BY <2>1, <2>2
<1>10. UNCHANGED vars => latest' = latest /\ area' = area
  BY DEF vars
<1>11. \A s \in Shared : Mounts[s] \subseteq {"own", "shell"} /\ s \in Shells_
  BY Kinds DEF Shells_
<1>12. \A s \in Dynamic : s \in Shells_
  BY DEF Shells_
<1> QED BY <1>1, <1>2, <1>3, <1>4, <1>5, <1>6, <1>7, <1>8, <1>9, <1>10, <1>11, <1>12 DEF Next

\* Shells in which every content has an element of its own, and overlays created for one
\* content, keep what Panel promises: late, repeated and failing answers never show anything
\* but the content asked for last, and never reach into another overlay.
THEOREM PanelIsImplemented == Spec => ImplementsPanel
PROOF
<1>1. Init => IInv
  BY InitIsSound
<1>2. IInv /\ [Next]_vars => IInv'
  BY NextKeeps
<1>3. Init => Promise!Init
  <2>1. Separate \subseteq Shells_
    BY DEF Separate
  <2> QED BY <2>1 DEF Init, Promise!Init, Blank
<1>4. IInv /\ [Next]_vars =>
        [Promise!Next]_<<[s \in Separate |-> latest[s]], [s \in Separate |-> area[s]]>>
  BY NextImplements DEF LastAsked, Shown
<1> QED BY <1>1, <1>2, <1>3, <1>4, PTL DEF Spec, ImplementsPanel, Promise!Spec
-----------------------------------------------------------------------------
(* Overlays that load from an endpoint.                                      *)

LoadRecord == [id : 1..loads, of : made, attempt : Nat,
               stage : {"sent", "waiting", "ok", "failed"}, expired : BOOLEAN]

\* Loads are numbered, and are for overlays that have been made.
LoadsAreNumbered ==
  /\ loads \in 0..MaxLoads /\ fetching \subseteq LoadRecord
  /\ \A l, m \in fetching : l.id = m.id => l = m

\* Until a load overtakes another, an overlay has one at a time.
LoadsAreAlone == \A l, m \in fetching : l.of = m.of /\ l.of \notin overtaken => l = m

ApiInv ==
  /\ Api!TypeOK /\ Api!ListedIsPresent /\ Api!NewestIsShown /\ Api!HandlersAreDropped
  /\ LoadsAreNumbered /\ LoadsAreAlone

Filling == [kind : {"none", "loader", "content", "error"}, load : 0..MaxLoads]
BodySet == [Ids -> Filling]

\* The type invariant, one variable at a time.
ApiShape ==
  /\ made \subseteq Ids /\ present \subseteq made /\ active \subseteq made
  /\ hiding \subseteq made /\ handlers \subseteq made /\ overtaken \subseteq made
  /\ leaky \subseteq made /\ body \in BodySet

LEMMA ApiTypeIsShape == Api!TypeOK <=> ApiShape
  BY DEF Api!TypeOK, ApiShape, BodySet, Filling
LEMMA ApiTypeIsShapeNext == Api!TypeOK' <=> ApiShape'
  BY DEF Api!TypeOK, ApiShape, BodySet, Filling

LEMMA ApiInitIsSound == ASSUME Api!Init PROVE ApiInv
PROOF
<1>1. MaxLoads \in Nat
  BY OverlaysAssumption
<1>2. 0 \in 0..MaxLoads
  BY <1>1
<1>3. Api!TypeOK
  BY <1>2, ApiTypeIsShape DEF Api!Init, ApiShape, BodySet, Filling
<1> QED BY <1>2, <1>3 DEF Api!Init, ApiInv, Api!ListedIsPresent, Api!NewestIsShown,
          Api!HandlersAreDropped, LoadsAreNumbered, LoadsAreAlone

\* A load that stays the load it was, whatever stage it reaches, breaks nothing.
LEMMA LoadGoesOn ==
  ASSUME ApiInv, NEW l \in fetching, NEW m \in LoadRecord, m.id = l.id, m.of = l.of,
         fetching' = (fetching \ {l}) \cup {m},
         UNCHANGED <<made, present, active, hiding, body, handlers, loads, overtaken, leaky>>
  PROVE  ApiInv'
PROOF
<1>1. Api!TypeOK'
  BY ApiTypeIsShape, ApiTypeIsShapeNext DEF ApiInv, ApiShape, BodySet
<1>2. Api!ListedIsPresent' /\ Api!HandlersAreDropped'
  BY DEF ApiInv, Api!ListedIsPresent, Api!HandlersAreDropped
<1>3. \A k \in fetching' : (k = m /\ k.id = l.id /\ k.of = l.of) \/ (k \in fetching /\ k # l)
  OBVIOUS
<1>4. LoadsAreNumbered'
  <2>1. fetching' \subseteq LoadRecord'
    BY DEF ApiInv, LoadsAreNumbered, LoadRecord
  <2>2. \A j, k \in fetching' : j.id = k.id => j = k
    BY <1>3 DEF ApiInv, LoadsAreNumbered
  <2> QED BY <2>1, <2>2 DEF ApiInv, LoadsAreNumbered
<1>5. LoadsAreAlone'
  BY <1>3 DEF ApiInv, LoadsAreAlone
<1>6. Api!NewestIsShown'
  BY <1>3 DEF ApiInv, Api!NewestIsShown
<1> QED BY <1>1, <1>2, <1>4, <1>5, <1>6 DEF ApiInv

\* What a load that starts adds.
NewLoad(o) == [id |-> loads + 1, of |-> o, attempt |-> 0, stage |-> "sent", expired |-> FALSE]

LEMMA LoadStarts ==
  ASSUME ApiInv, NEW o \in Ids, Api!StartLoad(o), made' = made \cup {o}
  PROVE  /\ fetching' = fetching \cup {NewLoad(o)} /\ NewLoad(o).of = o /\ NewLoad(o).id = loads + 1
         /\ LoadsAreNumbered' /\ LoadsAreAlone' /\ loads + 1 \in 0..MaxLoads
         /\ overtaken \subseteq overtaken' /\ overtaken' \subseteq overtaken \cup {o}
         /\ o \notin overtaken' => \A l \in fetching : l.of # o
PROOF
<1>1. loads \in Nat /\ MaxLoads \in Nat /\ loads <= MaxLoads
  BY OverlaysAssumption DEF ApiInv, LoadsAreNumbered
<1>2. loads' = loads + 1 /\ loads < MaxLoads /\ fetching' = fetching \cup {NewLoad(o)}
  BY DEF Api!StartLoad, NewLoad
<1>3. NewLoad(o).of = o /\ NewLoad(o).id = loads + 1
  BY DEF NewLoad
<1>4. \A l \in fetching : l.id \in 1..loads /\ l \in LoadRecord
  BY DEF ApiInv, LoadsAreNumbered, LoadRecord
<1>5. LoadsAreNumbered'
  <2>1. loads' \in 0..MaxLoads
    BY <1>1, <1>2
  <2>2. NewLoad(o) \in LoadRecord'
    BY <1>1, <1>2 DEF NewLoad, LoadRecord
  <2>3. \A l \in fetching : l \in LoadRecord'
    <3>1. \A i \in 1..loads : i \in 1..loads'
      BY <1>1, <1>2
    <3> QED BY <3>1, <1>4 DEF LoadRecord
  <2>4. \A l \in fetching : l.id # loads + 1
    BY <1>1, <1>4
  <2>5. \A l, m \in fetching' : l.id = m.id => l = m
    BY <1>2, <1>3, <2>4 DEF ApiInv, LoadsAreNumbered
  <2> QED BY <1>2, <2>1, <2>2, <2>3, <2>5 DEF LoadsAreNumbered
<1>6. overtaken' = IF \E l \in fetching : l.of = o THEN overtaken \cup {o} ELSE overtaken
  BY DEF Api!StartLoad
<1>7. LoadsAreAlone'
  BY <1>2, <1>3, <1>6 DEF ApiInv, LoadsAreAlone
<1>8. loads + 1 \in 0..MaxLoads
  BY <1>1, <1>2
<1> QED BY <1>2, <1>3, <1>5, <1>6, <1>7, <1>8

\* The content of one overlay changes.
LEMMA BodyTyped ==
  ASSUME body \in BodySet, NEW o \in Ids, NEW r \in Filling, body' = [body EXCEPT ![o] = r]
  PROVE  body' \in BodySet /\ \A p \in Ids : body'[p] = IF p = o THEN r ELSE body[p]
  BY DEF BodySet

LEMMA ShowIsSound == ASSUME ApiInv, NEW o \in Ids, Api!Show(o) PROVE ApiInv'
PROOF
<1>1. /\ o \notin made /\ made' = made \cup {o} /\ present' = present \cup {o}
      /\ active' = active \cup {o} /\ Api!StartLoad(o) /\ UNCHANGED <<hiding, handlers, leaky>>
      /\ body' = [body EXCEPT ![o] = [kind |-> "loader", load |-> loads + 1]]
  BY DEF Api!Show, Api!Make
<1>2. ApiShape
  BY ApiTypeIsShape DEF ApiInv
<1>3. /\ fetching' = fetching \cup {NewLoad(o)} /\ NewLoad(o).of = o /\ NewLoad(o).id = loads + 1
      /\ LoadsAreNumbered' /\ LoadsAreAlone' /\ loads + 1 \in 0..MaxLoads
      /\ overtaken \subseteq overtaken' /\ overtaken' \subseteq overtaken \cup {o}
  BY <1>1, LoadStarts
<1>4. body' \in BodySet /\ \A p \in Ids : body'[p] =
        IF p = o THEN [kind |-> "loader", load |-> loads + 1] ELSE body[p]
  <2>1. body \in BodySet /\ [kind |-> "loader", load |-> loads + 1] \in Filling
    BY <1>2, <1>3 DEF ApiShape, Filling
  <2> QED BY <2>1, <1>1, <1>3, BodyTyped
<1>5. Api!TypeOK'
  BY <1>1, <1>2, <1>3, <1>4, ApiTypeIsShapeNext DEF ApiShape, BodySet, Filling
<1>6. Api!ListedIsPresent' /\ Api!HandlersAreDropped'
  BY <1>1 DEF ApiInv, Api!ListedIsPresent, Api!HandlersAreDropped
<1>7. Api!NewestIsShown'
  <2>1. \A l \in fetching : l.of \in made
    BY DEF ApiInv, LoadsAreNumbered, LoadRecord
  <2>2. SUFFICES ASSUME NEW p \in present' \ overtaken', NEW l \in fetching', l.of = p
                 PROVE  body'[p] = [kind |-> "loader", load |-> l.id]
    BY DEF Api!NewestIsShown
  <2>3. p \in Ids
    BY <1>1, <1>2 DEF ApiShape
  <2>4. CASE l = NewLoad(o)
    BY <2>2, <2>3, <2>4, <1>3, <1>4
  <2>5. CASE l \in fetching
    <3>1. p # o /\ p \in present \ overtaken
      BY <2>1, <2>2, <2>5, <1>1, <1>3
    <3>2. body[p] = [kind |-> "loader", load |-> l.id]
      BY <2>2, <2>5, <3>1 DEF ApiInv, Api!NewestIsShown
    <3> QED BY <3>1, <3>2, <2>3, <1>4
  <2> QED BY <2>4, <2>5, <1>3
<1> QED BY <1>3, <1>5, <1>6, <1>7 DEF ApiInv

LEMMA ReloadIsSound == ASSUME ApiInv, NEW o \in Ids, Api!Reload(o) PROVE ApiInv'
PROOF
<1>1. /\ o \in active /\ Api!StartLoad(o) /\ Api!Update(o, "loader", loads + 1)
      /\ UNCHANGED <<made, present, active, hiding, handlers, leaky>>
  BY DEF Api!Reload
<1>2. ApiShape /\ active = present
  BY ApiTypeIsShape DEF ApiInv, Api!ListedIsPresent
<1>3. o \in present /\ made' = made \cup {o}
  BY <1>1, <1>2 DEF ApiShape
<1>4. /\ fetching' = fetching \cup {NewLoad(o)} /\ NewLoad(o).of = o /\ NewLoad(o).id = loads + 1
      /\ LoadsAreNumbered' /\ LoadsAreAlone' /\ loads + 1 \in 0..MaxLoads
      /\ overtaken \subseteq overtaken' /\ overtaken' \subseteq overtaken \cup {o}
      /\ o \notin overtaken' => \A l \in fetching : l.of # o
  BY <1>1, <1>3, LoadStarts
<1>5. body' = [body EXCEPT ![o] = [kind |-> "loader", load |-> loads + 1]]
  BY <1>1, <1>3 DEF Api!Update
<1>6. body' \in BodySet /\ \A p \in Ids : body'[p] =
        IF p = o THEN [kind |-> "loader", load |-> loads + 1] ELSE body[p]
  <2>1. body \in BodySet /\ [kind |-> "loader", load |-> loads + 1] \in Filling
    BY <1>2, <1>3, <1>4 DEF ApiShape, Filling
  <2> QED BY <2>1, <1>4, <1>5, BodyTyped
<1>7. Api!TypeOK'
  BY <1>1, <1>2, <1>3, <1>4, <1>6, ApiTypeIsShapeNext DEF ApiShape, BodySet, Filling
<1>8. Api!ListedIsPresent' /\ Api!HandlersAreDropped'
  BY <1>1 DEF ApiInv, Api!ListedIsPresent, Api!HandlersAreDropped
<1>9. Api!NewestIsShown'
  <2>1. SUFFICES ASSUME NEW p \in present' \ overtaken', NEW l \in fetching', l.of = p
                 PROVE  body'[p] = [kind |-> "loader", load |-> l.id]
    BY DEF Api!NewestIsShown
  <2>2. p \in Ids
    BY <1>1, <1>2 DEF ApiShape
  <2>3. CASE l = NewLoad(o)
    BY <2>1, <2>2, <2>3, <1>4, <1>6
  <2>4. CASE l \in fetching
    <3>1. p # o /\ p \in present \ overtaken
      BY <2>1, <2>4, <1>1, <1>4
    <3>2. body[p] = [kind |-> "loader", load |-> l.id]
      BY <2>1, <2>4, <3>1 DEF ApiInv, Api!NewestIsShown
    <3> QED BY <3>1, <3>2, <2>2, <1>6
  <2> QED BY <2>3, <2>4, <1>4
<1> QED BY <1>4, <1>7, <1>8, <1>9 DEF ApiInv

\* Overlays go, or are on their way out, and the loads stay what they were.
LEMMA OverlaysGo ==
  ASSUME ApiInv, NEW os \in SUBSET Ids, present' = present \ os, active' = active \ os,
         hiding' \subseteq made, handlers' \subseteq handlers, leaky \subseteq leaky',
         leaky' \subseteq made, \A o \in handlers' \cap os : o \in leaky',
         UNCHANGED <<made, body, fetching, loads, overtaken>>
  PROVE  ApiInv'
PROOF
<1>1. Api!TypeOK'
  BY ApiTypeIsShape, ApiTypeIsShapeNext DEF ApiInv, ApiShape, BodySet
<1>2. Api!ListedIsPresent' /\ Api!HandlersAreDropped'
  BY DEF ApiInv, Api!ListedIsPresent, Api!HandlersAreDropped
<1>3. LoadsAreNumbered' /\ LoadsAreAlone'
  BY DEF ApiInv, LoadsAreNumbered, LoadsAreAlone, LoadRecord
<1>4. Api!NewestIsShown'
  BY DEF ApiInv, Api!NewestIsShown
<1> QED BY <1>1, <1>2, <1>3, <1>4 DEF ApiInv

LEMMA LoadEndsSoundly == ASSUME ApiInv, NEW l \in fetching, Api!LoadEnds(l) PROVE ApiInv'
PROOF
<1>1. /\ fetching' = fetching \ {l} /\ UNCHANGED <<made, present, active, hiding, loads, overtaken>>
      /\ \/ Api!Update(l.of, "content", l.id) /\ UNCHANGED <<handlers, leaky>>
         \/ /\ Api!Update(l.of, "error", l.id) /\ handlers' = handlers \cup {l.of}
            /\ leaky' = IF l.of \in present THEN leaky ELSE leaky \cup {l.of}
  BY DEF Api!LoadEnds
<1>2. ApiShape
  BY ApiTypeIsShape DEF ApiInv
<1>3. l.of \in made /\ l.of \in Ids /\ l.id \in 0..MaxLoads
  <2>1. l \in LoadRecord /\ loads \in 0..MaxLoads
    BY DEF ApiInv, LoadsAreNumbered
  <2>2. l.id \in 1..loads /\ l.of \in made
    BY <2>1 DEF LoadRecord
  <2>3. MaxLoads \in Nat
    BY OverlaysAssumption
  <2> QED BY <1>2, <2>1, <2>2, <2>3 DEF ApiShape
<1>4. PICK kind \in {"content", "error"} : Api!Update(l.of, kind, l.id)
  BY <1>1
<1>5. body' \in BodySet /\ \A p \in Ids : p # l.of => body'[p] = body[p]
  <2>1. body \in BodySet /\ [kind |-> kind, load |-> l.id] \in Filling
    BY <1>2, <1>3 DEF ApiShape, Filling
  <2>2. CASE l.of \in present
    <3>1. body' = [body EXCEPT ![l.of] = [kind |-> kind, load |-> l.id]]
      BY <1>4, <2>2 DEF Api!Update
    <3> QED BY <3>1, <2>1, <1>3, BodyTyped
  <2>3. CASE l.of \notin present
    BY <1>4, <2>1, <2>3 DEF Api!Update
  <2> QED BY <2>2, <2>3
<1>6. Api!TypeOK'
  BY <1>1, <1>2, <1>3, <1>5, ApiTypeIsShapeNext DEF ApiShape, BodySet, Filling
<1>7. Api!ListedIsPresent' /\ Api!HandlersAreDropped'
  BY <1>1 DEF ApiInv, Api!ListedIsPresent, Api!HandlersAreDropped
<1>8. LoadsAreNumbered' /\ LoadsAreAlone'
  BY <1>1 DEF ApiInv, LoadsAreNumbered, LoadsAreAlone, LoadRecord
<1>9. Api!NewestIsShown'
  <2>1. SUFFICES ASSUME NEW p \in present' \ overtaken', NEW m \in fetching', m.of = p
                 PROVE  body'[p] = [kind |-> "loader", load |-> m.id]
    BY DEF Api!NewestIsShown
  <2>2. m \in fetching /\ m # l /\ p \in present \ overtaken /\ p \in Ids
    BY <1>1, <1>2 DEF ApiShape
  <2>3. p # l.of
    BY <2>1, <2>2 DEF ApiInv, LoadsAreAlone
  <2>4. body[p] = [kind |-> "loader", load |-> m.id]
    BY <2>1, <2>2 DEF ApiInv, Api!NewestIsShown
  <2> QED BY <2>2, <2>3, <2>4, <1>5
<1> QED BY <1>6, <1>7, <1>8, <1>9 DEF ApiInv

LEMMA ApiStepIsSound == ASSUME ApiInv, Api!Next PROVE ApiInv'
PROOF
<1>1. ASSUME NEW o \in Ids, Api!Show(o) \/ Api!Reload(o) PROVE ApiInv'
  BY <1>1, ShowIsSound, ReloadIsSound
<1>2. ASSUME NEW os, Api!Hide(os) PROVE ApiInv'
  <2>1. /\ os \subseteq present /\ hiding' = hiding \cup os
        /\ UNCHANGED <<made, present, active, body, handlers, fetching, loads, overtaken, leaky>>
    BY <1>2 DEF Api!Hide
  <2>2. ApiShape
    BY ApiTypeIsShape DEF ApiInv
  <2>3. /\ present' = present \ {} /\ active' = active \ {} /\ {} \in SUBSET Ids
        /\ hiding' \subseteq made /\ leaky' \subseteq made /\ handlers' \subseteq handlers
        /\ leaky \subseteq leaky' /\ handlers' \cap {} = {}
    BY <2>1, <2>2 DEF ApiShape
  <2> QED BY <2>1, <2>3, OverlaysGo
<1>3. ASSUME NEW o \in Ids, Api!Hidden(o) PROVE ApiInv'
  <2>1. /\ present' = present \ {o} /\ active' = active \ {o} /\ hiding' = hiding \ {o}
        /\ handlers' = handlers \ {o} /\ UNCHANGED <<made, body, fetching, loads, overtaken, leaky>>
    BY <1>3 DEF Api!Hidden, Api!Forget
  <2>2. ApiShape
    BY ApiTypeIsShape DEF ApiInv
  <2>3. /\ hiding' \subseteq made /\ leaky' \subseteq made /\ handlers' \subseteq handlers
        /\ leaky \subseteq leaky' /\ handlers' \cap {o} = {} /\ {o} \in SUBSET Ids
    BY <2>1, <2>2 DEF ApiShape
  <2> QED BY <2>1, <2>3, OverlaysGo
<1>4. ASSUME NEW o \in Ids, Api!Dispose(o) PROVE ApiInv'
  <2>1. /\ o \in active /\ present' = present \ {o} /\ active' = active \ {o} /\ hiding' = hiding \ {o}
        /\ leaky' = leaky \cup {o} /\ UNCHANGED <<made, body, handlers, fetching, loads, overtaken>>
    BY <1>4 DEF Api!Dispose, Api!Forget
  <2>2. ApiShape
    BY ApiTypeIsShape DEF ApiInv
  <2>3. /\ hiding' \subseteq made /\ leaky' \subseteq made /\ handlers' \subseteq handlers
        /\ leaky \subseteq leaky' /\ \A p \in {o} : p \in leaky'
        /\ {o} \in SUBSET Ids
    BY <2>1, <2>2 DEF ApiShape
  <2> QED BY <2>1, <2>3, OverlaysGo
<1>5. ASSUME Api!DisposeAll PROVE ApiInv'
  <2>1. /\ present' = present \ active /\ active' = active \ active /\ hiding' = hiding \ active
        /\ handlers' = {} /\ UNCHANGED <<made, body, fetching, loads, overtaken, leaky>>
    BY <1>5 DEF Api!DisposeAll, Api!Forget
  <2>2. ApiShape
    BY ApiTypeIsShape DEF ApiInv
  <2>3. /\ hiding' \subseteq made /\ leaky' \subseteq made /\ handlers' \subseteq handlers
        /\ leaky \subseteq leaky' /\ active \in SUBSET Ids /\ handlers' \cap active = {}
    BY <2>1, <2>2 DEF ApiShape
  <2> QED BY <2>1, <2>3, OverlaysGo
<1>6. ASSUME NEW l \in fetching, Api!FetchFails(l) \/ Api!TryAgain(l) \/ Api!FetchAnswered(l)
      PROVE  ApiInv'
  <2>1. l \in LoadRecord
    BY DEF ApiInv, LoadsAreNumbered
  <2>2. UNCHANGED <<made, present, active, hiding, body, handlers, loads, overtaken, leaky>>
    BY <1>6 DEF Api!FetchFails, Api!TryAgain, Api!FetchAnswered
  <2>3. \E m \in LoadRecord :
          m.id = l.id /\ m.of = l.of /\ fetching' = (fetching \ {l}) \cup {m}
    <3>1. CASE Api!FetchFails(l)
      <4>1. PICK expires \in BOOLEAN : fetching' = (fetching \ {l}) \cup
               {[l EXCEPT !.expired = @ \/ expires,
                          !.stage = IF l.attempt < Retries THEN "waiting" ELSE "failed"]}
        BY <3>1 DEF Api!FetchFails
      <4> DEFINE m == [l EXCEPT !.expired = @ \/ expires,
                                !.stage = IF l.attempt < Retries THEN "waiting" ELSE "failed"]
      <4>2. m \in LoadRecord /\ m.id = l.id /\ m.of = l.of
        BY <2>1 DEF LoadRecord
      <4> QED BY <4>1, <4>2
    <3>2. CASE Api!TryAgain(l)
      <4> DEFINE m == [l EXCEPT !.stage = "sent", !.attempt = @ + 1]
      <4>1. fetching' = (fetching \ {l}) \cup {m}
        BY <3>2 DEF Api!TryAgain
      <4>2. l.attempt + 1 \in Nat
        BY <2>1 DEF LoadRecord
      <4>3. \A n \in Nat : LET k == [l EXCEPT !.stage = "sent", !.attempt = n] IN
               k \in LoadRecord /\ k.id = l.id /\ k.of = l.of
        BY <2>1 DEF LoadRecord
      <4> QED BY <4>1, <4>2, <4>3
    <3>3. CASE Api!FetchAnswered(l)
      <4>1. PICK ok \in BOOLEAN :
              fetching' = (fetching \ {l}) \cup {[l EXCEPT !.stage = IF ok THEN "ok" ELSE "failed"]}
        BY <3>3 DEF Api!FetchAnswered
      <4> DEFINE m == [l EXCEPT !.stage = IF ok THEN "ok" ELSE "failed"]
      <4>2. m \in LoadRecord /\ m.id = l.id /\ m.of = l.of
        BY <2>1 DEF LoadRecord
      <4> QED BY <4>1, <4>2
    <3> QED BY <1>6, <3>1, <3>2, <3>3
  <2> QED BY <2>2, <2>3, LoadGoesOn
<1>7. ASSUME NEW l \in fetching, Api!LoadEnds(l) PROVE ApiInv'
  BY <1>7, LoadEndsSoundly
<1> QED BY <1>1, <1>2, <1>3, <1>4, <1>5, <1>6, <1>7 DEF Api!Next

-----------------------------------------------------------------------------
(* Previews of files.                                                        *)

Preview == [file : 1..last, viewer : Viewers, attempt : 1..Retry,
            stage : {"fetch", "fetch text", "pause", "ready", "failed", "hung"}, timed : BOOLEAN]

\* Previews are of files that were asked for, and one that pauses may try once more.
PreviewsAreNumbered ==
  /\ last \in 0..MaxFiles /\ work \subseteq Preview
  /\ \A p \in work : p.stage = "pause" => p.attempt < Retry

\* Until two previews are under way at a time, the one there is shows the last file.
PreviewsAreOfTheLast == ~crossed => \A p \in work : p.file = last

\* Every overlay of the full screen was entered, and so was every listener.
EntriesAreCounted == {entries, covers, listeners} \subseteq Nat /\ covers <= entries /\ entries <= MaxEntries

FilesInv ==
  /\ Files!TypeOK /\ Files!LastFileIsShown
  /\ PreviewsAreNumbered /\ PreviewsAreOfTheLast /\ EntriesAreCounted

Boxes == [kind : {"none", "loader", "viewer", "error"}, file : 0..MaxFiles]
FilesShape ==
  /\ box \in Boxes /\ covers \in 0..MaxEntries
  /\ \A p \in work : p.attempt \in 1..Retry /\
       p.stage \in {"fetch", "fetch text", "pause", "ready", "failed", "hung"}
  /\ native \in BOOLEAN /\ scroll \in BOOLEAN /\ crossed \in BOOLEAN /\ hung \in BOOLEAN
  /\ twice \in BOOLEAN

LEMMA FilesTypeIsShape == Files!TypeOK <=> FilesShape
  BY DEF Files!TypeOK, FilesShape, Boxes
LEMMA FilesTypeIsShapeNext == Files!TypeOK' <=> FilesShape'
  BY DEF Files!TypeOK, FilesShape, Boxes

LEMMA FilesInitIsSound == ASSUME Files!Init PROVE FilesInv
PROOF
<1>1. MaxFiles \in Nat /\ MaxEntries \in Nat /\ 0 \in 0..MaxFiles /\ 0 \in 0..MaxEntries
  BY OverlaysAssumption
<1>2. Files!TypeOK
  BY <1>1, FilesTypeIsShape DEF Files!Init, FilesShape, Boxes
<1> QED BY <1>1, <1>2 DEF Files!Init, FilesInv, Files!LastFileIsShown, PreviewsAreNumbered,
          PreviewsAreOfTheLast, EntriesAreCounted

\* What shows and fetches files stays as it is, or what goes on with the full screen does.
LEMMA ShowStays ==
  ASSUME FilesInv, UNCHANGED <<last, box, work, mishaps, crossed, hung>>,
         native' \in BOOLEAN, scroll' \in BOOLEAN, twice' \in BOOLEAN, EntriesAreCounted'
  PROVE  FilesInv'
PROOF
<1>1. covers' \in 0..MaxEntries
  BY OverlaysAssumption DEF EntriesAreCounted
<1>2. Files!TypeOK'
  BY <1>1, FilesTypeIsShape, FilesTypeIsShapeNext DEF FilesInv, FilesShape
<1> QED BY <1>2 DEF FilesInv, Files!LastFileIsShown, PreviewsAreNumbered, PreviewsAreOfTheLast, Preview

LEMMA ScreenStays ==
  ASSUME FilesInv, UNCHANGED <<native, covers, listeners, scroll, entries, twice>>,
         box' \in Boxes, crossed' \in BOOLEAN, hung' \in BOOLEAN,
         Files!LastFileIsShown', PreviewsAreNumbered', PreviewsAreOfTheLast'
  PROVE  FilesInv'
PROOF
<1>1. \A p \in work' : p.attempt \in 1..Retry /\
        p.stage \in {"fetch", "fetch text", "pause", "ready", "failed", "hung"}
  BY DEF PreviewsAreNumbered, Preview
<1>2. Files!TypeOK'
  BY <1>1, FilesTypeIsShape, FilesTypeIsShapeNext DEF FilesInv, FilesShape
<1>3. EntriesAreCounted'
  BY DEF FilesInv, EntriesAreCounted
<1> QED BY <1>2, <1>3 DEF FilesInv

\* A preview that stays that of its file, whatever stage it reaches, breaks nothing.
LEMMA PreviewGoesOn ==
  ASSUME FilesInv, NEW p \in work, NEW q \in Preview, q.file = p.file,
         q.stage = "pause" => q.attempt < Retry, work' = (work \ {p}) \cup {q}, hung' \in BOOLEAN,
         UNCHANGED <<last, box, crossed, native, covers, listeners, scroll, entries, twice>>
  PROVE  FilesInv'
PROOF
<1>1. box' \in Boxes /\ crossed' \in BOOLEAN
  BY FilesTypeIsShape DEF FilesInv, FilesShape
<1>2. Files!LastFileIsShown'
  BY DEF FilesInv, Files!LastFileIsShown
<1>3. PreviewsAreNumbered'
  BY DEF FilesInv, PreviewsAreNumbered, Preview
<1>4. PreviewsAreOfTheLast'
  BY DEF FilesInv, PreviewsAreOfTheLast
<1> QED BY <1>1, <1>2, <1>3, <1>4, ScreenStays

LEMMA AskIsSound == ASSUME FilesInv, NEW viewer \in Viewers, Files!Ask(viewer) PROVE FilesInv'
PROOF
<1>1. /\ last < MaxFiles /\ last' = last + 1 /\ crossed' = (crossed \/ work # {})
      /\ UNCHANGED <<mishaps, hung, native, covers, listeners, scroll, entries, twice>>
  BY DEF Files!Ask, Files!screen
<1>2. last \in Nat /\ MaxFiles \in Nat /\ last' \in 0..MaxFiles /\ last' \in 1..last'
      /\ \A i \in 1..last : i \in 1..last'
  BY <1>1, OverlaysAssumption DEF FilesInv, PreviewsAreNumbered
<1>3. Retry \in Nat /\ 1 \in 1..Retry
  BY OverlaysAssumption
<1>4. hung' \in BOOLEAN /\ crossed' \in BOOLEAN /\ (~crossed' => work = {})
  BY <1>1, FilesTypeIsShape DEF FilesInv, FilesShape
<1> DEFINE new == [file |-> last + 1, viewer |-> viewer, attempt |-> 1, stage |-> "fetch", timed |-> TRUE]
<1>5. \/ box' = [kind |-> "error", file |-> last'] /\ work' = work
      \/ box' = [kind |-> "loader", file |-> last'] /\ work' = work \cup {new}
  BY <1>1 DEF Files!Ask
<1>6. box' \in Boxes /\ box'.file = last'
  BY <1>2, <1>5 DEF Boxes
<1>7. \A p \in work : p \in Preview' /\ (p.stage = "pause" => p.attempt < Retry)
  BY <1>2 DEF FilesInv, PreviewsAreNumbered, Preview
<1>8. new \in Preview' /\ new.stage # "pause" /\ new.file = last'
  BY <1>1, <1>2, <1>3 DEF Preview
<1>9. PreviewsAreNumbered'
  BY <1>2, <1>5, <1>7, <1>8 DEF PreviewsAreNumbered
<1>10. PreviewsAreOfTheLast'
  BY <1>4, <1>5, <1>8 DEF PreviewsAreOfTheLast
<1>11. Files!LastFileIsShown'
  BY <1>6 DEF Files!LastFileIsShown
<1> QED BY <1>1, <1>4, <1>6, <1>9, <1>10, <1>11, ScreenStays

LEMMA FetchIsSound ==
  ASSUME FilesInv, NEW p \in work,
         Files!FetchOk(p) \/ Files!FetchBad(p) \/ Files!Hang(p) \/ Files!Again(p)
  PROVE  FilesInv'
PROOF
<1>1. p \in Preview /\ Retry \in Nat /\ (p.stage = "pause" => p.attempt < Retry)
  BY OverlaysAssumption DEF FilesInv, PreviewsAreNumbered
<1>2. UNCHANGED <<last, box, crossed, native, covers, listeners, scroll, entries, twice>>
  BY DEF Files!FetchOk, Files!FetchBad, Files!Hang, Files!Again, Files!screen
<1>3. hung' \in BOOLEAN
  BY FilesTypeIsShape DEF FilesInv, FilesShape, Files!FetchOk, Files!FetchBad, Files!Hang, Files!Again
<1>4. \E q \in Preview : /\ q.file = p.file /\ (q.stage = "pause" => q.attempt < Retry)
                         /\ work' = (work \ {p}) \cup {q}
  <2>1. CASE Files!FetchOk(p)
    <3> DEFINE q == [p EXCEPT !.timed = FALSE, !.stage =
                       IF p.viewer = "text" /\ p.stage = "fetch" THEN "fetch text" ELSE "ready"]
    <3>1. work' = (work \ {p}) \cup {q}
      BY <2>1 DEF Files!FetchOk, Files!Becomes
    <3>2. q \in Preview /\ q.file = p.file /\ q.stage # "pause"
      BY <1>1 DEF Preview
    <3> QED BY <3>1, <3>2
  <2>2. CASE Files!FetchBad(p)
    <3> DEFINE q == [p EXCEPT !.timed = FALSE, !.stage = Files!NextStage(p)]
    <3>1. work' = (work \ {p}) \cup {q}
      BY <2>2 DEF Files!FetchBad, Files!Becomes
    <3>2. /\ q \in Preview /\ q.file = p.file /\ q.attempt = p.attempt
          /\ (q.stage = "pause" => p.attempt < Retry)
      BY <1>1 DEF Preview, Files!NextStage
    <3> QED BY <3>1, <3>2
  <2>3. CASE Files!Hang(p)
    <3> DEFINE q == [p EXCEPT !.stage = IF p.timed THEN "failed" ELSE "hung"]
    <3>1. work' = (work \ {p}) \cup {q}
      BY <2>3 DEF Files!Hang, Files!Becomes
    <3>2. q \in Preview /\ q.file = p.file /\ q.stage # "pause"
      BY <1>1 DEF Preview
    <3> QED BY <3>1, <3>2
  <2>4. CASE Files!Again(p)
    <3> DEFINE q == [p EXCEPT !.stage = "fetch", !.attempt = @ + 1]
    <3>1. work' = (work \ {p}) \cup {q} /\ p.stage = "pause"
      BY <2>4 DEF Files!Again, Files!Becomes
    <3>2. p.attempt + 1 \in 1..Retry
      <4>1. p.attempt \in 1..Retry /\ p.attempt < Retry
        BY <1>1, <3>1 DEF Preview
      <4> QED BY <4>1, <1>1
    <3>3. \A n \in 1..Retry : LET k == [p EXCEPT !.stage = "fetch", !.attempt = n] IN
             k \in Preview /\ k.file = p.file /\ k.stage # "pause"
      BY <1>1 DEF Preview
    <3> QED BY <3>1, <3>2, <3>3
  <2> QED BY <2>1, <2>2, <2>3, <2>4
<1> QED BY <1>2, <1>3, <1>4, PreviewGoesOn

LEMMA FinishIsSound == ASSUME FilesInv, NEW p \in work, Files!Finish(p) PROVE FilesInv'
PROOF
<1>1. /\ work' = work \ {p}
      /\ box' = [kind |-> IF p.stage = "ready" THEN "viewer" ELSE "error", file |-> p.file]
      /\ UNCHANGED <<last, mishaps, crossed, hung, native, covers, listeners, scroll, entries, twice>>
  BY DEF Files!Finish, Files!screen
<1>2. p.file \in 0..MaxFiles
  <2>1. p.file \in 1..last /\ last \in 0..MaxFiles
    BY DEF FilesInv, PreviewsAreNumbered, Preview
  <2>2. MaxFiles \in Nat
    BY OverlaysAssumption
  <2> QED BY <2>1, <2>2
<1>3. box' \in Boxes /\ box'.file = p.file
  BY <1>1, <1>2 DEF Boxes
<1>4. crossed' \in BOOLEAN /\ hung' \in BOOLEAN
  BY <1>1, FilesTypeIsShape DEF FilesInv, FilesShape
<1>5. PreviewsAreNumbered'
  BY <1>1 DEF FilesInv, PreviewsAreNumbered, Preview
<1>6. PreviewsAreOfTheLast' /\ Files!LastFileIsShown'
  BY <1>1, <1>3 DEF FilesInv, PreviewsAreOfTheLast, Files!LastFileIsShown
<1> QED BY <1>1, <1>3, <1>4, <1>5, <1>6, ScreenStays

LEMMA FullScreenIsSound ==
  ASSUME FilesInv, \/ Files!EnterNative \/ Files!LeaveNative \/ Files!EnterCustom
                   \/ Files!ExitCustom \/ Files!Escape
  PROVE  FilesInv'
PROOF
<1>1. UNCHANGED <<last, box, work, mishaps, crossed, hung>>
  BY DEF Files!EnterNative, Files!LeaveNative, Files!EnterCustom, Files!ExitCustom, Files!Escape, Files!show
<1>2. native' \in BOOLEAN /\ scroll' \in BOOLEAN /\ twice' \in BOOLEAN
  BY FilesTypeIsShape DEF FilesInv, FilesShape, Files!EnterNative, Files!LeaveNative,
     Files!EnterCustom, Files!ExitCustom, Files!Escape
<1>3. MaxEntries \in Nat /\ entries \in Nat /\ covers \in Nat /\ listeners \in Nat
      /\ covers <= entries /\ entries <= MaxEntries
  BY OverlaysAssumption DEF FilesInv, EntriesAreCounted
<1>4. EntriesAreCounted'
  BY <1>3 DEF EntriesAreCounted, Files!EnterNative, Files!LeaveNative, Files!EnterCustom,
     Files!ExitCustom, Files!Escape
<1> QED BY <1>1, <1>2, <1>4, ShowStays

LEMMA FilesStepIsSound == ASSUME FilesInv, Files!Next PROVE FilesInv'
  BY AskIsSound, FetchIsSound, FinishIsSound, FullScreenIsSound DEF Files!Next

-----------------------------------------------------------------------------
(* Both.                                                                     *)

LEMMA ApiStutters == ASSUME ApiInv, UNCHANGED apiVars PROVE ApiInv'
PROOF
<1>1. Api!TypeOK'
  BY ApiTypeIsShape, ApiTypeIsShapeNext DEF ApiInv, ApiShape, BodySet, apiVars
<1> QED BY <1>1 DEF ApiInv, apiVars, Api!ListedIsPresent, Api!NewestIsShown, Api!HandlersAreDropped,
          LoadsAreNumbered, LoadsAreAlone, LoadRecord

LEMMA FilesStutter == ASSUME FilesInv, UNCHANGED filesVars PROVE FilesInv'
PROOF
<1>1. EntriesAreCounted' /\ native' \in BOOLEAN /\ scroll' \in BOOLEAN /\ twice' \in BOOLEAN
  BY FilesTypeIsShape DEF FilesInv, FilesShape, filesVars, EntriesAreCounted
<1>2. UNCHANGED <<last, box, work, mishaps, crossed, hung>>
  BY DEF filesVars
<1> QED BY <1>1, <1>2, ShowStays

overlaysVars ==
  <<part, partialsVars, apiVars, stackVars, filesVars, noticesVars, datesVars, dataVars>>

\* However its loads cross, an overlay that showModalApi() opened shows what it was asked to
\* load last, is listed while it is on the page and drops its handlers with its element; and
\* previewFiles() shows the last file that was asked for, unless its answer was overtaken.
THEOREM TheNewestIsShown == OverlaysSpec => []NewestIsShown
PROOF
<1>1. OverlaysInit => ApiInv /\ FilesInv
  BY ApiInitIsSound, FilesInitIsSound DEF OverlaysInit
<1>2. ApiInv /\ FilesInv /\ [OverlaysNext]_overlaysVars => ApiInv' /\ FilesInv'
  <2> SUFFICES ASSUME ApiInv, FilesInv, [OverlaysNext]_overlaysVars PROVE ApiInv' /\ FilesInv'
    OBVIOUS
  <2>1. \/ Api!Next \/ UNCHANGED apiVars
    BY DEF OverlaysNext, overlaysVars
  <2>2. \/ Files!Next \/ UNCHANGED filesVars
    BY DEF OverlaysNext, overlaysVars
  <2>3. ApiInv'
    BY <2>1, ApiStepIsSound, ApiStutters
  <2>4. FilesInv'
    BY <2>2, FilesStepIsSound, FilesStutter
  <2> QED BY <2>3, <2>4
<1>3. ApiInv /\ FilesInv => NewestIsShown
  BY DEF ApiInv, FilesInv, NewestIsShown
<1> QED BY <1>1, <1>2, <1>3, PTL DEF OverlaysSpec, overlaysVars

-----------------------------------------------------------------------------
(* THE STACK                                                                 *)

Phases == {"hidden", "showing", "appearing", "shown", "hiding"}

StackShape ==
  /\ managed \in BOOLEAN /\ phase \in [Layers -> Phases] /\ ticks \in Seq({"helper", "manager"})
  /\ sequence \in 0..MaxShows /\ order \in [Layers -> 0..MaxShows] /\ backdrops \in [Layers -> 0..MaxShows]
  /\ opened \in [Layers -> 0..MaxShows]
  /\ zIndex \in [Layers -> 0..Cardinality(Layers)] /\ zBackdrop \in [Layers -> 0..Cardinality(Layers)]
  /\ bodyOpen \in BOOLEAN /\ early \subseteq Layers

\* Overlays are shown one after the other, each with a backdrop of its own until it is hidden.
ShowsAreNumbered ==
  /\ \A o \in Layers :
       /\ opened[o] <= sequence
       /\ backdrops[o] = IF phase[o] = "hidden" THEN 0 ELSE opened[o]
       /\ phase[o] # "hidden" => opened[o] > 0
       /\ phase[o] # "hidden" /\ o \notin early => managed /\ order[o] = opened[o]
  /\ \A o, p \in Layers : opened[o] = opened[p] /\ opened[o] # 0 => o = p

AtRest == \A o \in Layers : phase[o] \in {"shown", "hidden"}
Indexed ==
  \A o \in Layers : phase[o] = "shown" =>
    zIndex[o] = Stack!OverlayIndex("manager", o) /\ zBackdrop[o] = Stack!BackdropIndex(o)

\* When no overlay moves, the last timer that waits, or the last that has gone, is the manager's.
ManagerIsLast ==
  managed /\ early = {} /\ AtRest /\ (\E o \in Layers : phase[o] = "shown") =>
    IF ticks = <<>> THEN Indexed ELSE ticks[Len(ticks)] = "manager"

\* When no overlay moves and no timer waits, the last timer has locked the page or not.
BodyIsLast == Stack!PageIsLockedUnderModals

StackInv == StackShape /\ ShowsAreNumbered /\ ManagerIsLast /\ BodyIsLast

-----------------------------------------------------------------------------
LEMMA StackCardinality == \A S : Stack!Cardinality(S) = Cardinality(S)
  BY DEF Cardinality, Stack!Cardinality

LEMMA LayersAreCounted ==
  /\ Cardinality(Layers) \in Nat /\ MaxShows \in Nat /\ Modals \subseteq Layers
  /\ \A S \in SUBSET Layers : IsFiniteSet(S) /\ Cardinality(S) \in 0..Cardinality(Layers)
PROOF
<1>1. IsFiniteSet(Layers) /\ MaxShows \in Nat /\ Modals \subseteq Layers
  BY OverlaysAssumption
<1>2. Cardinality(Layers) \in Nat
  BY <1>1, FS_CardinalityType
<1>3. ASSUME NEW S \in SUBSET Layers PROVE IsFiniteSet(S) /\ Cardinality(S) \in 0..Cardinality(Layers)
  <2>1. IsFiniteSet(S) /\ Cardinality(S) <= Cardinality(Layers)
    BY <1>1, FS_Subset
  <2>2. Cardinality(S) \in Nat
    BY <2>1, FS_CardinalityType
  <2> QED BY <1>2, <2>1, <2>2
<1> QED BY <1>1, <1>2, <1>3

LEMMA IndexesAreCounts ==
  ASSUME NEW who, NEW o \in Layers
  PROVE  /\ Stack!OverlayIndex(who, o) \in 0..Cardinality(Layers)
         /\ Stack!BackdropIndex(o) \in 0..Cardinality(Layers)
PROOF
<1>1. {p \in Stack!Visible : Stack!NotAbove(who, p, o)} \in SUBSET Layers
  BY DEF Stack!Visible
<1>2. {p \in Layers : 0 < backdrops[p] /\ backdrops[p] <= backdrops[o]} \in SUBSET Layers
  OBVIOUS
<1>3. Stack!OverlayIndex(who, o) \in 0..Cardinality(Layers)
  BY <1>1, LayersAreCounted, StackCardinality DEF Stack!OverlayIndex
<1>4. Stack!BackdropIndex(o) \in 0..Cardinality(Layers)
  BY <1>2, LayersAreCounted, StackCardinality DEF Stack!BackdropIndex
<1> QED BY <1>3, <1>4

LEMMA StackStarts == ASSUME Stack!Init PROVE StackInv
PROOF
<1>1. StackShape
  <2>1. 0 \in 0..MaxShows /\ 0 \in 0..Cardinality(Layers)
    BY LayersAreCounted
  <2>2. ticks \in Seq({"helper", "manager"})
    BY DEF Stack!Init
  <2>3. phase \in [Layers -> Phases]
    BY DEF Stack!Init, Phases
  <2>4. /\ order \in [Layers -> 0..MaxShows] /\ backdrops \in [Layers -> 0..MaxShows]
        /\ opened \in [Layers -> 0..MaxShows]
        /\ zIndex \in [Layers -> 0..Cardinality(Layers)] /\ zBackdrop \in [Layers -> 0..Cardinality(Layers)]
    BY <2>1 DEF Stack!Init, Stack!Nowhere
  <2>5. managed \in BOOLEAN /\ bodyOpen \in BOOLEAN /\ early \subseteq Layers /\ sequence \in 0..MaxShows
    BY <2>1 DEF Stack!Init
  <2> QED BY <2>2, <2>3, <2>4, <2>5 DEF StackShape
<1>2. ShowsAreNumbered
  BY LayersAreCounted DEF Stack!Init, Stack!Nowhere, ShowsAreNumbered
<1>3. ManagerIsLast
  BY DEF Stack!Init, ManagerIsLast
<1>4. BodyIsLast
  BY LayersAreCounted DEF Stack!Init, BodyIsLast, Stack!PageIsLockedUnderModals
<1> QED BY <1>1, <1>2, <1>3, <1>4 DEF StackInv

\* The timers of an event: that of the manager comes last.
LEMMA SyncsWait ==
  ASSUME StackShape, NEW helperToo \in BOOLEAN, Stack!Sync(helperToo)
  PROVE  /\ ticks' \in Seq({"helper", "manager"})
         /\ (helperToo => ticks' # <<>>)
         /\ (managed => ticks' # <<>> /\ ticks'[Len(ticks')] = "manager")
PROOF
<1> DEFINE first == IF helperToo THEN Append(ticks, "helper") ELSE ticks
<1>1. first \in Seq({"helper", "manager"}) /\ (helperToo => first # <<>>)
  <2>1. /\ ticks \in Seq({"helper", "manager"})
        /\ Append(ticks, "helper") \in Seq({"helper", "manager"})
    BY DEF StackShape
  <2>4. Len(Append(ticks, "helper")) = Len(ticks) + 1 /\ Len(ticks) \in Nat
    BY <2>1
  <2>5. Append(ticks, "helper") # <<>>
    BY <2>4
  <2>2. CASE helperToo
    BY <2>1, <2>2, <2>5
  <2>3. CASE ~helperToo
    BY <2>1, <2>3
  <2> QED BY <2>2, <2>3
<1>2. ticks' = IF managed THEN Append(first, "manager") ELSE first
  BY DEF Stack!Sync
<1> HIDE DEF first
<1>3. /\ Append(first, "manager") \in Seq({"helper", "manager"}) /\ Append(first, "manager") # <<>>
      /\ Append(first, "manager")[Len(Append(first, "manager"))] = "manager"
  <2>1. /\ Append(first, "manager") \in Seq({"helper", "manager"}) /\ Len(first) \in Nat
        /\ Len(Append(first, "manager")) = Len(first) + 1
        /\ Append(first, "manager")[Len(first) + 1] = "manager"
    BY <1>1
  <2> QED BY <2>1
<1>4. CASE managed
  BY <1>2, <1>3, <1>4
<1>5. CASE ~managed
  BY <1>1, <1>2, <1>5
<1> QED BY <1>4, <1>5

LEMMA ShowKeepsStack == ASSUME StackInv, NEW o \in Layers, Stack!Show(o) PROVE StackInv'
PROOF
<1>1. /\ phase[o] = "hidden" /\ sequence < MaxShows
      /\ phase' = [phase EXCEPT ![o] = "showing"] /\ sequence' = sequence + 1
      /\ order' = IF managed THEN [order EXCEPT ![o] = sequence + 1] ELSE order
      /\ backdrops' = [backdrops EXCEPT ![o] = sequence + 1]
      /\ zBackdrop' = [zBackdrop EXCEPT ![o] = 0]
      /\ bodyOpen' = (bodyOpen \/ o \in Modals)
      /\ Stack!Sync(FALSE)
      /\ opened' = [opened EXCEPT ![o] = sequence + 1]
      /\ early' = IF managed THEN early \ {o} ELSE early \cup {o}
      /\ UNCHANGED <<managed, zIndex>>
  BY DEF Stack!Show
<1>2. StackShape /\ ShowsAreNumbered /\ MaxShows \in Nat /\ 0 \in 0..Cardinality(Layers)
  BY LayersAreCounted DEF StackInv
<1>3. sequence + 1 \in 0..MaxShows /\ sequence + 1 > 0 /\ sequence \in Nat
  BY <1>1, <1>2 DEF StackShape
<1>4. ticks' \in Seq({"helper", "manager"})
  BY <1>1, <1>2, SyncsWait
<1>5. bodyOpen' \in BOOLEAN /\ early' \subseteq Layers /\ managed' \in BOOLEAN
  BY <1>1, <1>2 DEF StackShape
<1>6. StackShape'
  BY <1>1, <1>2, <1>3, <1>4, <1>5 DEF StackShape, Phases
<1>7. /\ phase'[o] = "showing" /\ opened'[o] = sequence + 1 /\ backdrops'[o] = sequence + 1
      /\ (managed => order'[o] = sequence + 1) /\ (~managed => o \in early')
      /\ \A p \in Layers : p # o =>
           /\ phase'[p] = phase[p] /\ opened'[p] = opened[p] /\ backdrops'[p] = backdrops[p]
           /\ order'[p] = order[p] /\ (p \in early' <=> p \in early)
  BY <1>1, <1>2 DEF StackShape
<1>8. \A p \in Layers : opened[p] \in Nat /\ opened[p] <= sequence
  BY <1>2 DEF StackShape, ShowsAreNumbered
<1>9. ShowsAreNumbered'
  <2>1. ASSUME NEW p \in Layers
        PROVE  /\ opened'[p] <= sequence'
               /\ backdrops'[p] = IF phase'[p] = "hidden" THEN 0 ELSE opened'[p]
               /\ phase'[p] # "hidden" => opened'[p] > 0
               /\ phase'[p] # "hidden" /\ p \notin early' => managed' /\ order'[p] = opened'[p]
    <3>1. CASE p = o
      BY <1>1, <1>3, <1>7, <3>1
    <3>2. CASE p # o
      BY <1>1, <1>2, <1>3, <1>7, <1>8, <3>2 DEF ShowsAreNumbered
    <3> QED BY <3>1, <3>2
  <2>2. ASSUME NEW p \in Layers, NEW q \in Layers, opened'[p] = opened'[q], opened'[p] # 0
        PROVE  p = q
    BY <1>2, <1>3, <1>7, <1>8, <2>2 DEF ShowsAreNumbered
  <2> QED BY <2>1, <2>2 DEF ShowsAreNumbered
<1>10. ~AtRest'
  BY <1>7 DEF AtRest
<1> QED BY <1>6, <1>9, <1>10 DEF StackInv, ManagerIsLast, BodyIsLast, AtRest, Stack!PageIsLockedUnderModals, Stack!Settled

LEMMA PhasesKeepStack ==
  ASSUME StackInv, NEW o \in Layers, Stack!Appear(o) \/ Stack!Hide(o) PROVE StackInv'
PROOF
<1>1. PICK to \in {"appearing", "hiding"} : phase' = [phase EXCEPT ![o] = to]
  BY DEF Stack!Appear, Stack!Hide
<1>2. /\ phase[o] # "hidden"
      /\ UNCHANGED <<managed, order, sequence, zIndex, backdrops, zBackdrop, bodyOpen, ticks, opened, early>>
  BY DEF Stack!Appear, Stack!Hide
<1>3. StackShape /\ ShowsAreNumbered
  BY DEF StackInv
<1>4. phase' \in [Layers -> Phases] /\ phase'[o] = to /\ (\A p \in Layers : phase'[p] = "hidden" <=> phase[p] = "hidden")
  BY <1>1, <1>2, <1>3 DEF StackShape, Phases
<1>5. StackShape'
  BY <1>2, <1>3, <1>4 DEF StackShape
<1>6. ShowsAreNumbered'
  BY <1>2, <1>3, <1>4 DEF ShowsAreNumbered
<1>7. ~AtRest'
  BY <1>4 DEF AtRest
<1> QED BY <1>5, <1>6, <1>7 DEF StackInv, ManagerIsLast, BodyIsLast, AtRest, Stack!PageIsLockedUnderModals, Stack!Settled

LEMMA ShownKeepsStack == ASSUME StackInv, NEW o \in Layers, Stack!Shown(o) PROVE StackInv'
PROOF
<1>1. /\ phase[o] = "appearing" /\ phase' = [phase EXCEPT ![o] = "shown"] /\ Stack!Sync(TRUE)
      /\ UNCHANGED <<managed, order, sequence, zIndex, backdrops, zBackdrop, bodyOpen, opened, early>>
  BY DEF Stack!Shown
<1>2. StackShape /\ ShowsAreNumbered
  BY DEF StackInv
<1>3. /\ ticks' \in Seq({"helper", "manager"}) /\ ticks' # <<>>
      /\ (managed => ticks'[Len(ticks')] = "manager")
  BY <1>1, <1>2, SyncsWait
<1>4. phase' \in [Layers -> Phases] /\ (\A p \in Layers : phase'[p] = "hidden" <=> phase[p] = "hidden")
  BY <1>1, <1>2 DEF StackShape, Phases
<1>5. StackShape'
  BY <1>1, <1>2, <1>3, <1>4 DEF StackShape
<1>6. ShowsAreNumbered'
  BY <1>1, <1>2, <1>4 DEF ShowsAreNumbered
<1> QED BY <1>1, <1>3, <1>5, <1>6 DEF StackInv, ManagerIsLast, BodyIsLast, Stack!PageIsLockedUnderModals, Stack!Settled

LEMMA HiddenKeepsStack == ASSUME StackInv, NEW o \in Layers, Stack!Hidden(o) PROVE StackInv'
PROOF
<1>1. /\ phase[o] = "hiding" /\ phase' = [phase EXCEPT ![o] = "hidden"]
      /\ backdrops' = [backdrops EXCEPT ![o] = 0]
      /\ bodyOpen' = (bodyOpen /\ o \notin Modals) /\ Stack!Sync(TRUE)
      /\ UNCHANGED <<managed, order, sequence, zIndex, zBackdrop, opened, early>>
  BY DEF Stack!Hidden
<1>2. StackShape /\ ShowsAreNumbered /\ 0 \in 0..MaxShows
  BY LayersAreCounted DEF StackInv
<1>3. /\ ticks' \in Seq({"helper", "manager"}) /\ ticks' # <<>>
      /\ (managed => ticks'[Len(ticks')] = "manager")
  BY <1>1, <1>2, SyncsWait
<1>4. bodyOpen' \in BOOLEAN
  BY <1>1
<1>5. StackShape'
  BY <1>1, <1>2, <1>3, <1>4 DEF StackShape, Phases
<1>6. /\ phase'[o] = "hidden" /\ backdrops'[o] = 0
      /\ \A p \in Layers : p # o => phase'[p] = phase[p] /\ backdrops'[p] = backdrops[p]
  BY <1>1, <1>2 DEF StackShape
<1>7. ShowsAreNumbered'
  BY <1>1, <1>2, <1>6 DEF ShowsAreNumbered
<1> QED BY <1>1, <1>3, <1>5, <1>7 DEF StackInv, ManagerIsLast, BodyIsLast, Stack!PageIsLockedUnderModals, Stack!Settled

LEMMA ReindexKeepsStack == ASSUME StackInv, Stack!Reindex PROVE StackInv'
PROOF
<1>1. /\ ticks # <<>> /\ ticks' = Tail(ticks)
      /\ zIndex' = [o \in Layers |-> IF Stack!IsVisible(o) THEN Stack!OverlayIndex(Head(ticks), o) ELSE zIndex[o]]
      /\ zBackdrop' = [o \in Layers |-> IF backdrops[o] # 0 THEN Stack!BackdropIndex(o) ELSE zBackdrop[o]]
      /\ bodyOpen' = (\E o \in Modals : Stack!IsVisible(o))
      /\ UNCHANGED <<managed, phase, order, sequence, backdrops, opened, early>>
  BY DEF Stack!Reindex
<1>2. StackShape /\ ShowsAreNumbered /\ Modals \subseteq Layers
  BY LayersAreCounted DEF StackInv
<1>3. ticks' \in Seq({"helper", "manager"}) /\ Head(ticks) \in {"helper", "manager"}
  BY <1>1, <1>2 DEF StackShape
<1>4. zIndex' \in [Layers -> 0..Cardinality(Layers)] /\ zBackdrop' \in [Layers -> 0..Cardinality(Layers)]
  BY <1>1, <1>2, IndexesAreCounts DEF StackShape
<1>5. bodyOpen' \in BOOLEAN
  BY <1>1
<1>6. StackShape'
  BY <1>1, <1>2, <1>3, <1>4, <1>5 DEF StackShape
<1>7. ShowsAreNumbered'
  BY <1>1, <1>2 DEF ShowsAreNumbered
<1>8. ManagerIsLast'
  <2>1. SUFFICES ASSUME managed, early = {}, AtRest, \E o \in Layers : phase[o] = "shown"
                 PROVE  IF ticks' = <<>> THEN Indexed' ELSE ticks'[Len(ticks')] = "manager"
    BY <1>1 DEF ManagerIsLast, AtRest
  <2>2. ticks[Len(ticks)] = "manager" /\ ticks \in Seq({"helper", "manager"})
    BY <1>1, <2>1 DEF StackInv, ManagerIsLast, StackShape
  <2>3. CASE ticks' = <<>>
    <3>1. Head(ticks) = "manager"
      <4>1. Len(ticks) \in Nat /\ Len(ticks) # 0 /\ Len(Tail(ticks)) = Len(ticks) - 1 /\ Head(ticks) = ticks[1]
        BY <1>1, <2>2
      <4>4. Tail(ticks) = <<>>
        BY <1>1, <2>3
      <4>5. Len(<<>>) = 0
        OBVIOUS
      <4>3. Len(Tail(ticks)) = 0
        BY <4>4, <4>5, Zenon
      <4>2. Len(ticks) = 1
        BY <4>1, <4>3
      <4> QED BY <2>2, <4>1, <4>2
    <3>2. ASSUME NEW o \in Layers, phase[o] = "shown"
          PROVE  zIndex'[o] = Stack!OverlayIndex("manager", o) /\ zBackdrop'[o] = Stack!BackdropIndex(o)
      <4>1. Stack!IsVisible(o)
        BY <3>2 DEF Stack!IsVisible
      <4>2. backdrops[o] # 0
        <5>1. backdrops[o] = opened[o] /\ opened[o] > 0
          BY <1>2, <3>2 DEF ShowsAreNumbered
        <5>2. opened[o] \in Nat
          BY <1>2, LayersAreCounted DEF StackShape
        <5> QED BY <5>1, <5>2
      <4> QED BY <1>1, <3>1, <3>2, <4>1, <4>2
    <3>3. ASSUME NEW o \in Layers
          PROVE  /\ Stack!OverlayIndex("manager", o)' = Stack!OverlayIndex("manager", o)
                 /\ Stack!BackdropIndex(o)' = Stack!BackdropIndex(o)
      BY <1>1 DEF Stack!OverlayIndex, Stack!BackdropIndex, Stack!Visible, Stack!IsVisible, Stack!NotAbove,
         Stack!StackOrder
    <3> QED BY <1>1, <2>3, <3>2, <3>3 DEF Indexed
  <2>4. CASE ticks' # <<>>
    BY <1>1, <2>2, <2>4
  <2> QED BY <2>3, <2>4
<1>9. BodyIsLast'
  <2>1. SUFFICES ASSUME \A o \in Layers : phase[o] \in {"shown", "hidden"}
                 PROVE  (\E o \in Modals : Stack!IsVisible(o)) <=> (\E o \in Modals : phase[o] = "shown")
    BY <1>1 DEF BodyIsLast, Stack!PageIsLockedUnderModals, Stack!Settled
  <2> QED BY <1>2, <2>1 DEF Stack!IsVisible
<1> QED BY <1>6, <1>7, <1>8, <1>9 DEF StackInv

LEMMA MakeManagerKeepsStack == ASSUME StackInv, Stack!MakeManager PROVE StackInv'
PROOF
<1>1. /\ ~managed /\ managed' = TRUE
      /\ UNCHANGED <<phase, order, sequence, zIndex, backdrops, zBackdrop, bodyOpen, ticks, opened, early>>
  BY DEF Stack!MakeManager
<1>2. StackShape' /\ ShowsAreNumbered' /\ BodyIsLast'
  BY <1>1 DEF StackInv, StackShape, ShowsAreNumbered, BodyIsLast, Stack!PageIsLockedUnderModals, Stack!Settled
<1>3. ManagerIsLast'
  <2>1. \A o \in Layers : o \notin early => phase[o] = "hidden"
    BY <1>1 DEF StackInv, ShowsAreNumbered
  <2> QED BY <1>1, <2>1 DEF ManagerIsLast
<1> QED BY <1>2, <1>3 DEF StackInv

LEMMA StackStutters == ASSUME StackInv, UNCHANGED stackVars PROVE StackInv'
PROOF
<1>1. StackShape' /\ ShowsAreNumbered' /\ BodyIsLast'
  BY DEF StackInv, StackShape, ShowsAreNumbered, BodyIsLast, Stack!PageIsLockedUnderModals, Stack!Settled, stackVars
<1>2. ASSUME NEW o \in Layers
      PROVE  /\ Stack!OverlayIndex("manager", o)' = Stack!OverlayIndex("manager", o)
             /\ Stack!BackdropIndex(o)' = Stack!BackdropIndex(o)
  BY DEF stackVars, Stack!OverlayIndex, Stack!BackdropIndex, Stack!Visible, Stack!IsVisible, Stack!NotAbove,
     Stack!StackOrder
<1>3. Indexed' <=> Indexed
  BY <1>2 DEF Indexed, stackVars
<1>4. ManagerIsLast'
  BY <1>3 DEF StackInv, ManagerIsLast, AtRest, stackVars
<1> QED BY <1>1, <1>4 DEF StackInv

LEMMA StackStepIsSound == ASSUME StackInv, Stack!Next PROVE StackInv'
  BY MakeManagerKeepsStack, ReindexKeepsStack, ShowKeepsStack, PhasesKeepStack, ShownKeepsStack, HiddenKeepsStack
  DEF Stack!Next

\* At rest the manager's stack is that of the shows, for overlays and for backdrops.
LEMMA StackIsByShow ==
  ASSUME StackInv, Stack!Settled, managed, early = {}, NEW o \in Layers, phase[o] = "shown"
  PROVE  /\ zIndex[o] = Cardinality({p \in Layers : phase[p] = "shown" /\ opened[p] <= opened[o]})
         /\ zBackdrop[o] = zIndex[o]
PROOF
<1>1. StackShape /\ ShowsAreNumbered /\ AtRest /\ Indexed
  BY DEF StackInv, ManagerIsLast, AtRest, Stack!Settled
<1>2. \A p \in Layers : opened[p] \in Nat /\ order[p] \in Nat /\ backdrops[p] \in Nat
  BY <1>1, LayersAreCounted DEF StackShape
<1>3. \A p \in Layers : phase[p] = "shown" => order[p] = opened[p] /\ backdrops[p] = opened[p] /\ opened[p] > 0
  BY <1>1 DEF ShowsAreNumbered
<1>4. \A p \in Layers : phase[p] # "shown" => backdrops[p] = 0
  BY <1>1 DEF ShowsAreNumbered, AtRest
<1>5. \A p \in Layers : Stack!IsVisible(p) <=> phase[p] = "shown"
  BY <1>1 DEF AtRest, Stack!IsVisible
<1>6. \A p \in Layers : phase[p] = "shown" => Stack!StackOrder(p) = opened[p]
  BY <1>2, <1>3 DEF Stack!StackOrder
<1>7. ASSUME NEW p \in Layers, phase[p] = "shown"
      PROVE  Stack!NotAbove("manager", p, o) <=> opened[p] <= opened[o]
  <2>1. Stack!StackOrder(p) = opened[p] /\ Stack!StackOrder(o) = opened[o]
    BY <1>6, <1>7
  <2>2. opened[p] = opened[o] => p = o
    BY <1>1, <1>3, <1>7 DEF ShowsAreNumbered
  <2>3. Position[o] \in Nat
    BY OverlaysAssumption
  <2> QED BY <1>2, <2>1, <2>2, <2>3 DEF Stack!NotAbove
<1>8. {p \in Stack!Visible : Stack!NotAbove("manager", p, o)} = {p \in Layers : phase[p] = "shown" /\ opened[p] <= opened[o]}
  BY <1>5, <1>7 DEF Stack!Visible
<1>9. ASSUME NEW p \in Layers
      PROVE  (0 < backdrops[p] /\ backdrops[p] <= backdrops[o]) <=> (phase[p] = "shown" /\ opened[p] <= opened[o])
  BY <1>2, <1>3, <1>4
<1>10. {p \in Layers : 0 < backdrops[p] /\ backdrops[p] <= backdrops[o]} = {p \in Layers : phase[p] = "shown" /\ opened[p] <= opened[o]}
  BY <1>9
<1>11. Stack!OverlayIndex("manager", o) = Cardinality({p \in Layers : phase[p] = "shown" /\ opened[p] <= opened[o]})
  BY <1>8, StackCardinality DEF Stack!OverlayIndex
<1>12. Stack!BackdropIndex(o) = Cardinality({p \in Layers : phase[p] = "shown" /\ opened[p] <= opened[o]})
  BY <1>10, StackCardinality DEF Stack!BackdropIndex
<1> QED BY <1>1, <1>11, <1>12 DEF Indexed

LEMMA StackInvIsEnough ==
  ASSUME StackInv
  PROVE  Stack!TypeOK /\ Stack!LaterLiesAbove /\ Stack!BackdropDimsWhatIsBelow /\ Stack!PageIsLockedUnderModals
PROOF
<1>1. Stack!TypeOK
  BY StackCardinality DEF StackInv, StackShape, Phases, Stack!TypeOK
<1>2. Stack!BackdropDimsWhatIsBelow
  BY StackIsByShow DEF Stack!BackdropDimsWhatIsBelow
<1>3. Stack!LaterLiesAbove
  <2> SUFFICES ASSUME Stack!Settled, managed, early = {}, NEW o \in Layers, NEW p \in Layers,
                      phase[o] = "shown", phase[p] = "shown", opened[o] < opened[p]
               PROVE  zIndex[o] < zIndex[p]
    BY DEF Stack!LaterLiesAbove
  <2> DEFINE Upto(l) == {q \in Layers : phase[q] = "shown" /\ opened[q] <= opened[l]}
  <2>1. zIndex[o] = Cardinality(Upto(o)) /\ zIndex[p] = Cardinality(Upto(p))
    BY StackIsByShow
  <2>2. \A q \in Layers : opened[q] \in Nat
    BY LayersAreCounted DEF StackInv, StackShape
  <2>3. Upto(o) \subseteq Upto(p) /\ p \in Upto(p) /\ p \notin Upto(o)
    BY <2>2
  <2>4. Upto(p) \in SUBSET Layers /\ Upto(o) \in SUBSET Layers
    OBVIOUS
  <2> HIDE DEF Upto
  <2>5. IsFiniteSet(Upto(p)) /\ Cardinality(Upto(o)) \in Nat /\ Cardinality(Upto(p)) \in Nat
    BY <2>4, LayersAreCounted
  <2>6. Cardinality(Upto(o)) <= Cardinality(Upto(p)) /\ Cardinality(Upto(o)) # Cardinality(Upto(p))
    BY <2>3, <2>5, FS_Subset
  <2> QED BY <2>1, <2>5, <2>6
<1> QED BY <1>1, <1>2, <1>3 DEF StackInv, BodyIsLast

-----------------------------------------------------------------------------
(* Page and panel.                                                           *)

\* While no overlay was opened from within another there is one at most.
CoverIsAlone ==
  /\ covers \in Nat /\ listeners \in Nat /\ scroll \in BOOLEAN /\ twice \in BOOLEAN
  /\ ~twice => covers <= 1 /\ (scroll <=> covers = 0)
DimInv == overlay \in BOOLEAN /\ panel \in BOOLEAN /\ recoloured \in BOOLEAN /\ Notices!DimmedUnderPanel

LEMMA CoverStepsKeep == ASSUME CoverIsAlone, Files!Next PROVE CoverIsAlone'
PROOF
<1>1. CASE UNCHANGED <<covers, listeners, scroll, twice>>
  BY <1>1 DEF CoverIsAlone
<1>2. CASE Files!EnterCustom
  <2>1. covers' = covers + 1 /\ listeners' = listeners + 1 /\ scroll' = FALSE /\ twice' = (twice \/ covers > 0)
    BY <1>2 DEF Files!EnterCustom
  <2>2. covers' \in Nat /\ listeners' \in Nat
    BY <2>1 DEF CoverIsAlone
  <2>3. scroll' \in BOOLEAN /\ twice' \in BOOLEAN /\ ~scroll'
    BY <2>1
  <2>4. ~twice' => ~(covers > 0)
    BY <2>1
  <2>5. ~twice' => covers' = 1
    BY <2>1, <2>4 DEF CoverIsAlone
  <2> QED BY <2>2, <2>3, <2>5 DEF CoverIsAlone
<1>3. CASE Files!ExitCustom
  <2>1. covers > 0 /\ covers' = covers - 1 /\ scroll' = TRUE /\ UNCHANGED <<listeners, twice>>
    BY <1>3 DEF Files!ExitCustom
  <2>2. covers' \in Nat /\ (~twice => covers' = 0)
    BY <2>1 DEF CoverIsAlone
  <2> QED BY <2>1, <2>2 DEF CoverIsAlone
<1>4. CASE Files!Escape
  <2>1. /\ listeners > 0 /\ covers > 0 /\ scroll' = TRUE /\ UNCHANGED <<listeners, twice>>
        /\ covers' = IF listeners >= covers THEN 0 ELSE covers - listeners
    BY <1>4 DEF Files!Escape
  <2>2. covers' \in Nat /\ (~twice => covers' = 0)
    BY <2>1 DEF CoverIsAlone
  <2> QED BY <2>1, <2>2 DEF CoverIsAlone
<1>5. Files!Next => \/ UNCHANGED <<covers, listeners, scroll, twice>>
                    \/ Files!EnterCustom \/ Files!ExitCustom \/ Files!Escape
  BY DEF Files!Next, Files!Ask, Files!FetchOk, Files!FetchBad, Files!Hang, Files!Again, Files!Finish,
     Files!EnterNative, Files!LeaveNative, Files!screen
<1> QED BY <1>1, <1>2, <1>3, <1>4, <1>5

LEMMA DimStepsKeep == ASSUME DimInv, Notices!Next PROVE DimInv'
PROOF
<1>1. CASE Notices!TogglePanel
  BY <1>1 DEF DimInv, Notices!TogglePanel, Notices!DimmedUnderPanel
<1>2. CASE Notices!Closed
  BY <1>2 DEF DimInv, Notices!Closed, Notices!DimmedUnderPanel
<1>3. CASE Notices!ChangeTheme
  BY <1>3 DEF DimInv, Notices!ChangeTheme, Notices!DimmedUnderPanel
<1>4. Notices!Next => Notices!TogglePanel \/ Notices!Closed \/ Notices!ChangeTheme
  BY DEF Notices!Next, Notices!ClickOverlay, Notices!PressEscape
<1> QED BY <1>1, <1>2, <1>3, <1>4

\* However overlays are shown and hidden, for any overlays and any timers that wait: at rest
\* what was shown later lies above, each backdrop lies right under its overlay and the page is
\* locked under modals; and it is locked under a full-screen preview and dimmed under the panel.
THEOREM TheStackIsInOrder == OverlaysSpec => []StackIsInOrder
PROOF
<1> DEFINE Inv == StackInv /\ CoverIsAlone /\ DimInv
<1>1. OverlaysInit => Inv
  <2>1. Stack!Init => StackInv
    BY StackStarts
  <2>2. ASSUME Files!Init PROVE CoverIsAlone
    <3>1. covers = 0 /\ listeners = 0 /\ scroll = TRUE /\ twice = FALSE
      BY <2>2 DEF Files!Init
    <3>2. scroll \in BOOLEAN /\ twice \in BOOLEAN /\ (scroll <=> covers = 0)
      BY <3>1
    <3> QED BY <3>1, <3>2 DEF CoverIsAlone
  <2>3. Notices!Init => DimInv
    BY DEF Notices!Init, DimInv, Notices!DimmedUnderPanel
  <2> QED BY <2>1, <2>2, <2>3 DEF OverlaysInit
<1>2. Inv /\ [OverlaysNext]_overlaysVars => Inv'
  <2> SUFFICES ASSUME Inv, [OverlaysNext]_overlaysVars PROVE Inv'
    OBVIOUS
  <2>1. /\ Stack!Next \/ UNCHANGED stackVars
        /\ Files!Next \/ UNCHANGED filesVars
        /\ Notices!Next \/ UNCHANGED noticesVars
    BY DEF OverlaysNext, overlaysVars
  <2>2. StackInv'
    BY <2>1, StackStepIsSound, StackStutters
  <2>3. CoverIsAlone'
    <3>1. CASE UNCHANGED filesVars
      BY <3>1 DEF filesVars, CoverIsAlone
    <3> QED BY <2>1, <3>1, CoverStepsKeep
  <2>4. DimInv'
    <3>1. CASE UNCHANGED noticesVars
      BY <3>1 DEF noticesVars, DimInv, Notices!DimmedUnderPanel
    <3> QED BY <2>1, <3>1, DimStepsKeep
  <2> QED BY <2>2, <2>3, <2>4
<1>3. Inv => StackIsInOrder
  <2>1. StackInv => Stack!TypeOK /\ Stack!LaterLiesAbove /\ Stack!BackdropDimsWhatIsBelow /\ Stack!PageIsLockedUnderModals
    BY StackInvIsEnough
  <2>2. CoverIsAlone => Files!LockedUnderCover
    BY DEF CoverIsAlone, Files!LockedUnderCover
  <2> QED BY <2>1, <2>2 DEF DimInv, StackIsInOrder
<1>4. OverlaysSpec => OverlaysInit /\ [][OverlaysNext]_overlaysVars
  BY DEF OverlaysSpec, overlaysVars
<1> QED BY <1>1, <1>2, <1>3, <1>4, PTL
===============================================================================
