----------------------------- MODULE RateLimit -----------------------------
(***************************************************************************)
(* One counter of the throttle middleware, app/http/middleware/RateLimit:  *)
(* the file of one signature, read without a lock, incremented by the      *)
(* request and written back by file_put_contents(LOCK_EX), which opens,    *)
(* locks, truncates and writes.  A file that is absent, empty or cut reads *)
(* as no state, and so begins a window.                                    *)
(*                                                                         *)
(* Times are the seconds left.  Counts above the limit are alike.          *)
(***************************************************************************)
EXTENDS Naturals, FiniteSets

CONSTANTS
  Clients,     \* requests with this signature that run at once
  MaxAttempts, \* of the middleware: hits of a window that pass
  Decay,       \* seconds of a window
  None,        \* no file, an empty file, no holder
  MaxFaults    \* bound: writes that fail, and requests that are killed

VARIABLES
  file,    \* [attempts, reset_at] or None
  lock,    \* who holds the lock of the file
  pc, state, \* where each request is, and the state it has computed
  verdict, \* what became of its last hit: "passed", "refused" or None
  hits,    \* history: how long ago the last, the last but one, ... hit was
  before,  \* history: the hits there were with its own when each request read
  passes,  \* history: the same of the requests that passed
  overlap, \* history: two requests were under way at a time
  faults

vars == <<file, lock, pc, state, verdict, hits, before, passes, overlap, faults>>
history == <<hits, before, passes, overlap>>

Over == MaxAttempts + 1  \* attempts saturate here
Most == 2 * MaxAttempts + 1  \* and histories are so long
Count == [attempts : 1..Over, reset_at : 0..Decay]
Ages == [1..Most -> 0..Decay]  \* as old as Decay is long enough ago
Never == [n \in 1..Most |-> Decay]

Least(a, b) == IF a < b THEN a ELSE b

\* What happened in the last Decay seconds.
Recent(f) == Cardinality({n \in 1..Most : f[n] < Decay})
Noted(f) == [n \in 1..Most |-> IF n = 1 THEN 0 ELSE f[n - 1]]
Older(f) == [n \in 1..Most |-> Least(f[n] + 1, Decay)]

TypeOK ==
  /\ file \in Count \cup {None} /\ lock \in Clients \cup {None}
  /\ pc \in [Clients -> {"idle", "put", "write"}] /\ state \in [Clients -> Count \cup {None}]
  /\ verdict \in [Clients -> {"passed", "refused", None}]
  /\ hits \in Ages /\ passes \in Ages
  /\ before \in [Clients -> 0..Most] /\ overlap \in BOOLEAN /\ faults \in 0..MaxFaults
  /\ lock # None => pc[lock] = "write"

Init ==
  /\ file = None /\ lock = None
  /\ pc = [c \in Clients |-> "idle"] /\ state = [c \in Clients |-> None]
  /\ verdict = [c \in Clients |-> None]
  /\ hits = Never /\ passes = Never
  /\ before = [c \in Clients |-> 0] /\ overlap = FALSE /\ faults = 0

-----------------------------------------------------------------------------
GoTo(c, l) == pc' = [pc EXCEPT ![c] = l]

\* The window of the state is over, or there is no state.
WindowOver(s) == s = None \/ s.reset_at = 0

\* The state with one more attempt, in a window of its own if need be.
Counted(s) ==
  IF WindowOver(s) THEN [attempts |-> 1, reset_at |-> Decay]
  ELSE [s EXCEPT !.attempts = Least(@ + 1, Over)]

\* handle() reads the clock and the file.
Hit(c) ==
  /\ pc[c] = "idle"
  /\ state' = [state EXCEPT ![c] = Counted(file)]
  /\ verdict' = [verdict EXCEPT ![c] = None]
  /\ hits' = Noted(hits)
  /\ before' = [before EXCEPT ![c] = Recent(hits')]
  /\ overlap' = (overlap \/ \E d \in Clients : pc[d] # "idle")
  /\ GoTo(c, "put")
  /\ UNCHANGED <<file, lock, passes, faults>>

\* The file is opened, or created, locked and truncated.
Truncate(c) ==
  /\ pc[c] = "put" /\ lock = None
  /\ lock' = c /\ file' = None
  /\ GoTo(c, "write")
  /\ UNCHANGED <<state, verdict, history, faults>>

Passes(s) == s.attempts <= MaxAttempts

\* The hit is answered: 429 above the limit.
Answer(c) ==
  /\ verdict' = [verdict EXCEPT ![c] = IF Passes(state[c]) THEN "passed" ELSE "refused"]
  /\ passes' = IF Passes(state[c]) THEN Noted(passes) ELSE passes
  /\ state' = [state EXCEPT ![c] = None]
  /\ GoTo(c, "idle")

\* Mutant: a refused hit leaves the file as it was truncated.
WritesWhatPassed(c) ==
  /\ pc[c] = "write"
  /\ file' = (IF Passes(state[c]) THEN state[c] ELSE None) /\ lock' = None
  /\ Answer(c)
  /\ UNCHANGED <<hits, before, overlap, faults>>

\* The state is written, also after a refusal, and the lock released.
Write(c) ==
  /\ pc[c] = "write"
  /\ file' = state[c] /\ lock' = None
  /\ Answer(c)
  /\ UNCHANGED <<hits, before, overlap, faults>>

\* The file cannot be opened or written; nobody looks at what file_put_contents returns.
WriteFails(c) ==
  /\ pc[c] # "idle" /\ faults < MaxFaults
  /\ faults' = faults + 1
  /\ lock' = IF lock = c THEN None ELSE lock
  /\ Answer(c)
  /\ UNCHANGED <<file, hits, before, overlap>>

\* The request is killed; its lock goes with it.
Kill(c) ==
  /\ pc[c] # "idle" /\ faults < MaxFaults
  /\ faults' = faults + 1
  /\ lock' = IF lock = c THEN None ELSE lock
  /\ state' = [state EXCEPT ![c] = None] /\ GoTo(c, "idle")
  /\ UNCHANGED <<file, verdict, history>>

\* A second passes.
Later(s) == IF s = None \/ s.reset_at = 0 THEN s ELSE [s EXCEPT !.reset_at = @ - 1]
Tick ==
  /\ file' = Later(file) /\ state' = [c \in Clients |-> Later(state[c])]
  /\ hits' = Older(hits) /\ passes' = Older(passes)
  /\ UNCHANGED <<lock, pc, verdict, before, overlap, faults>>

Step(c) == Truncate(c) \/ Write(c)
Next == Tick \/ \E c \in Clients : Hit(c) \/ Step(c) \/ WriteFails(c) \/ Kill(c)

Spec == Init /\ [][Next]_vars
\* The clock runs, and a request that has begun goes on.
FairSpec == Spec /\ WF_vars(Tick) /\ \A c \in Clients : WF_vars(Step(c))

-----------------------------------------------------------------------------
(* Properties. *)

\* A client is refused only after more hits than the limit in the last window's time:
\* what concurrent requests do to the file may forget hits, but never invents any
\* (RateLimit::handle).
RefusedForCause ==
  \A c \in Clients : verdict[c] = "refused" => before[c] > MaxAttempts

\* One request after the other, no more pass in the time of a window than two windows
\* that meet in it allow (RateLimit::handle "so the counter stays accurate").
FewPass == ~overlap /\ faults = 0 => Recent(passes) <= 2 * MaxAttempts

\* Refusals end, also for clients that do not stop trying: what they try while they are
\* refused does not move the end of the window (RateLimit::handle, "retry_after").
RefusalsEnd ==
  \A c \in Clients :
     []<>(pc[c] = "put") => []<>(\E d \in Clients : verdict[d] = "passed")
=============================================================================
