----------------------------- MODULE FormRules -----------------------------
(***************************************************************************)
(* The checking of a form before it is sent (public/general/js/            *)
(* validation.js, called by every form of app/views).  A page calls        *)
(* validationJs with rules for the names it knows; what passes is put to   *)
(* the user in a dialog and sent, what fails is listed in a toast and      *)
(* marked in the form.  The user edits and adds or removes the rows of an  *)
(* array field between two checks.                                         *)
(*                                                                         *)
(* A value is a record of what the rules can tell of it:                   *)
(*   is     "text", "list" (a multiple select) or "files"                  *)
(*   str    String(value)           len    its length                      *)
(*   empty  value === ""            blank  nothing but white space         *)
(*   null   "" or "null"            truth  "yes", "no" or "?"              *)
(*   num    its number, or NaN      date   its day, or NaN                 *)
(*   n      items or files in it    places its decimals                    *)
(*   has, starts, ends   texts inside it, at its start, at its end         *)
(*   fits   the formats, patterns and file properties it satisfies         *)
(* A rule is [name, field, op, args]: field and op are used by the         *)
(* conditional rules, args are values as well.                             *)
(***************************************************************************)
EXTENDS Integers, Sequences, FiniteSets, TLC

CONSTANTS
  Layout,     \* the elements of the form, rows included, in document order
  NameOf,     \* element of the form -> the name it is sent under
  KindOf,     \* element -> "text", "check", "multi", "file" or "time"
  Facts,      \* value -> what the rules can tell of it
  Choices,    \* element -> the values the user can give it
  ArrayNames, \* the names that end in []
  Rows,       \* the elements the user can add and remove
  ConfirmationOf, \* name -> the name with _confirmation after it
  Books,      \* page -> the rules it checks with: name -> sequence of rules
  Pairs,      \* conditions [field, op, args] the opposite rules are put to
  MaxSteps    \* bound: changes of the form and checks

NaN == -1
Absent == [is |-> "none"]
Global == <<"_global", 0>>

VARIABLES
  form,     \* the elements of the form, in document order
  value,    \* what each element holds
  mark,     \* element -> "", "valid" or "is-invalid"
  errors,   \* validationErrors: <<name, row>> -> name of the broken rule
  verdict,  \* "none", "passed", "refused" or "broken" (no such form)
  page,     \* whose rules the last check used
  shown,    \* the fields the last toast named
  dialog,   \* the user is asked to confirm
  sent,     \* what was sent: element -> value
  steps     \* changes and checks so far

vars == <<form, value, mark, errors, verdict, page, shown, dialog, sent,
          steps>>

Elements == DOMAIN NameOf
Present == {form[i] : i \in 1 .. Len(form)}

\* form.querySelectorAll and form.querySelector.
AllNamed(n) == SelectSeq(form, LAMBDA e : NameOf[e] = n)
ValueOf(n) == IF AllNamed(n) = <<>> THEN Absent ELSE Facts[value[AllNamed(n)[1]]]

---------------------------------------------------------------------------
\* The rules, one operator per family.

\* value.length
Size(v) == IF v.is = "text" THEN v.len ELSE v.n

\* Mutant: white space counts.
FilledWithSpace(v, kind) ==
  IF kind = "file" \/ v.is = "list" THEN v.n > 0 ELSE ~v.empty

\* validateRequired, of the type of the element it was given.
Filled(v, kind) ==
  IF kind = "file" \/ v.is = "list" THEN v.n > 0 ELSE ~v.blank

\* normalizeValue and isNullOrEmpty of the two conditional rules.
Norm(v) == IF v.null THEN "null" ELSE v.str
Listed(v, args) == \E i \in 1 .. Len(args) : Norm(args[i]) = Norm(v)
AnyNull(args) == \E i \in 1 .. Len(args) : args[i].null

Compares(op, a, b) ==
  CASE op = ">" -> a > b [] op = ">=" -> a >= b
    [] op = "<" -> a < b [] op = "<=" -> a <= b

\* The operators that compare or count.
NumberCondition(op, v, kind, args) ==
  LET Within(x) ==
        \/ Len(args) = 1 /\ x = args[1].num
        \/ /\ Len(args) = 2
           /\ x >= args[1].num
           /\ args[2].num \in {0, NaN} \/ x <= args[2].num
  IN  CASE op \in {">", ">=", "<", "<="} ->
             /\ ~v.null /\ v.num # NaN
             /\ \E i \in 1 .. Len(args) : /\ args[i].num # NaN
                                          /\ Compares(op, v.num, args[i].num)
        [] op = "length" -> Within(v.len)
        [] op = "count" ->
             Within(IF v.is \in {"list", "files"} THEN v.n
                    ELSE IF kind = "check" /\ ~v.empty THEN 1 ELSE 0)

\* The operators that look into the text.
TextCondition(op, v, args) ==
  LET Some(set) == \E i \in 1 .. Len(args) : ~args[i].null /\ args[i].str \in set
  IN  CASE op = "contains" -> v.is = "text" /\ Some(v.has)
        [] op = "not_contains" -> v.is = "text" => ~Some(v.has)
        [] op = "starts_with" -> v.is = "text" /\ Some(v.starts)
        [] op = "ends_with" -> v.is = "text" /\ Some(v.ends)
        [] op = "regex" -> args # <<>> /\ args[1].str \in v.fits

Numbered == {">", ">=", "<", "<=", "length", "count"}
Textual == {"contains", "not_contains", "starts_with", "ends_with", "regex"}
Plain == {"=", "!=", "in", "not_in", "empty", "not_empty", "true", "false"}
Operators == Numbered \cup Textual \cup Plain

\* The condition a conditional rule states on another field.
Condition(op, v, kind, args) ==
  CASE op = "=" -> IF AnyNull(args) THEN v.null ELSE Listed(v, args)
    [] op = "!=" -> IF AnyNull(args) THEN ~v.null ELSE ~Listed(v, args)
    [] op = "in" -> Listed(v, args)
    [] op = "not_in" -> ~Listed(v, args)
    [] op = "empty" -> v.null
    [] op = "not_empty" -> ~v.null
    [] op = "true" -> v.truth = "yes"
    [] op = "false" -> v.truth = "no"
    [] op \in Numbered -> NumberCondition(op, v, kind, args)
    [] op \in Textual -> TextCondition(op, v, args)
    [] OTHER -> FALSE

KindNamed(n) == KindOf[AllNamed(n)[1]]

\* validateRequiredIf: the element is not handed on, so a file field is
\* judged as a text, and never blank.
IfNoTypeIsKnown == "none"
RequiredIf(v, r) ==
  LET target == ValueOf(r.field)
  IN  \/ target = Absent
      \/ ~Condition(r.op, target, KindNamed(r.field), r.args)
      \/ Filled(v, IfNoTypeIsKnown)

\* validateRequiredUnless: an operator it does not know compares.
RequiredUnless(v, r) ==
  LET target == ValueOf(r.field)
      met == IF r.op \in Operators
             THEN Condition(r.op, target, KindNamed(r.field), r.args)
             ELSE Listed(target, r.args)
  IN  \/ target # Absent /\ met
      \/ Filled(v, IfNoTypeIsKnown)

\* validateRequiredWith calls validateRequired without the element: the
\* TypeError is caught, and the field is refused whatever it holds.
RequiredWith(r) ==
  \A i \in 1 .. Len(r.args) :
     LET other == ValueOf(r.args[i].str) IN other = Absent \/ other.blank

\* validateMin and validateMax: a number by its value, a list by its items,
\* a text by its length.  validateMinLength, validateMaxLength, validateSize.
Measure(v, kind) ==
  IF kind = "file" \/ v.is # "text" THEN v.n
  ELSE IF v.num # NaN THEN v.num
  ELSE IF "," \in v.has THEN v.n ELSE v.len

\* validateBetween: every text by its length, also a number.
Between(v, low, high) ==
  IF v.is = "text" THEN low <= v.len /\ v.len <= high
  ELSE v.num # NaN /\ low <= v.num /\ v.num <= high

Bounds(name, v, kind, args) ==
  CASE name = "min" -> Measure(v, kind) >= args[1].num
    [] name = "max" -> Measure(v, kind) <= args[1].num
    [] name = "between" -> Between(v, args[1].num, args[2].num)
    [] name = "min_length" -> v.len >= args[1].num
    [] name = "max_length" -> v.len <= args[1].num

\* validateGreaterThan, validateLessThan, validateLessThanOrEqual: against a
\* field of that name or the argument itself.
Against(arg) == IF ValueOf(arg.str) = Absent THEN arg ELSE ValueOf(arg.str)
Orders(name, v, args) ==
  LET w == Against(args[1])
      both == v.is = "text" /\ w.is = "text" /\ v.num # NaN /\ w.num # NaN
      a == IF both THEN v.num ELSE v.len
      b == IF both THEN w.num ELSE w.len
  IN  CASE name = "gt" -> a > b [] name = "lt" -> a < b [] name = "lte" -> a <= b

\* validateAfter, validateBefore (a literal date only), validateAfterOrEqual
\* and validateBeforeOrEqual (a field or a literal).
Dates(name, v, args) ==
  LET d == IF name \in {"after", "before"} THEN args[1].date ELSE Against(args[1]).date
  IN  /\ d # NaN /\ v.date # NaN
      /\ CASE name = "after" -> v.date > d [] name = "before" -> v.date < d
           [] name = "after_or_equal" -> v.date >= d
           [] name = "before_or_equal" -> v.date <= d

\* validateSame, validateDifferent, validateConfirmed compare with ===: two
\* lists are never the same.
SameAs(v, w) == v.is = "text" /\ w.is = "text" /\ v.str = w.str
Twins(name, v, e, args) ==
  LET w == ValueOf(IF name = "confirmed" THEN ConfirmationOf[NameOf[e]]
                   ELSE args[1].str)
  IN  IF name = "different" THEN w = Absent \/ ~SameAs(v, w)
      ELSE w # Absent /\ SameAs(v, w)

\* validateIn, validateNotIn, validateContains, validateDoesntContain.
InList(name, v, args) ==
  LET strs == {args[i].str : i \in 1 .. Len(args)}
  IN  CASE name = "in" -> v.str \in strs
        [] name = "not_in" -> v.str \notin strs
        [] name = "contains" -> strs \subseteq v.has
        [] name = "doesnt_contain" -> strs \cap v.has = {}

\* validateFile, validateSize, validateMimes, validateImage and
\* validateDimensions, whose promise has no "valid".
Files(name, v, kind, args) ==
  CASE name = "file" -> v.is = "files"
    [] name = "size" -> kind = "file" => v.n = 0 \/ "small" \in v.fits
    [] name = "mimes" ->
         \/ Size(v) = 0
         \/ v.is = "files" /\ \E i \in 1 .. Len(args) : args[i].str \in v.fits
    [] name = "image" ->
         v.empty \/ (v.is = "files" /\ (v.n = 0 \/ "image" \in v.fits))
    [] name = "dimensions" ->
         Size(v) = 0 \/ (v.is = "files" /\ "image" \notin v.fits)

\* validateDigits, validateDigitsBetween, validateCurrency, validateDecimal.
Figures(name, v, args) ==
  CASE name = "digits" -> "digits" \in v.fits /\ v.len = args[1].num
    [] name = "digits_between" ->
         "digits" \in v.fits /\ args[1].num <= v.len /\ v.len <= args[2].num
    [] name = "currency" ->
         /\ "currency" \in v.fits
         /\ v.len <= IF args = <<>> THEN 16 ELSE args[1].num
    [] name = "decimal" ->
         /\ "decimal" \in v.fits
         /\ v.places >= IF args = <<>> THEN 1 ELSE args[1].num
         /\ args = <<>> \/ v.places <= args[IF Len(args) = 1 THEN 1 ELSE 2].num

\* The rules a regular expression or a parser decides.
NumberFormats == {"numeric", "integer"}
TextFormats == {"email", "date"}
ParsedFormats == {"weekend", "time", "url", "boolean"}
LetterFormats == {"alpha", "alpha_num"}
CodeFormats == {"json", "ip", "ipv4", "ipv6", "uuid"}
CaseFormats == {"alpha_dash", "lowercase", "uppercase"}
Formats == NumberFormats \cup TextFormats \cup ParsedFormats \cup LetterFormats \cup CodeFormats
             \cup CaseFormats
Patterned == {"date_format", "regex"}

Ordered == {"gt", "lt", "lte"}
Bounded == {"min", "max", "between", "min_length", "max_length"}
Dated == {"after", "before", "after_or_equal", "before_or_equal"}
Twinned == {"same", "different", "confirmed"}
Searched == {"in", "not_in", "contains", "doesnt_contain"}
FileRules == {"file", "size", "mimes", "image", "dimensions"}
Figured == {"digits", "digits_between", "currency", "decimal"}

\* validateRule.
ValidateRule(r, v, e) ==
  CASE r.name = "required" -> Filled(v, KindOf[e])
    [] r.name = "required_if" -> RequiredIf(v, r)
    [] r.name = "required_unless" -> RequiredUnless(v, r)
    [] r.name = "required_with" -> RequiredWith(r)
    [] r.name = "accepted" -> "accepted" \in v.fits
    [] r.name = "string" -> v.is = "text"
    [] r.name = "array" -> v.is # "files"
    [] r.name \in Formats -> v.empty \/ r.name \in v.fits
    [] r.name \in Patterned -> v.empty \/ r.args[1].str \in v.fits
    [] r.name \in Bounded -> v.empty \/ Bounds(r.name, v, KindOf[e], r.args)
    [] r.name \in Ordered -> v.empty \/ Orders(r.name, v, r.args)
    [] r.name \in Dated -> v.empty \/ Dates(r.name, v, r.args)
    [] r.name \in Twinned -> Twins(r.name, v, e, r.args)
    [] r.name \in Searched -> v.empty \/ InList(r.name, v, r.args)
    [] r.name \in FileRules -> Files(r.name, v, KindOf[e], r.args)
    [] r.name \in Figured -> v.empty \/ Figures(r.name, v, r.args)
    [] OTHER -> TRUE

---------------------------------------------------------------------------
\* The page.

\* The elements a name is checked on: every row of an array, else the first.
Targets(n) ==
  LET all == AllNamed(n)
  IN  IF n \in ArrayNames \/ all = <<>> THEN all ELSE <<all[1]>>

\* The rules of b an element breaks, by their places; the first one counts.
BrokenBy(e, rules) == {i \in 1 .. Len(rules) : ~ValidateRule(rules[i], Facts[value[e]], e)}
FirstBroken(e, rules) ==
  CHOOSE i \in BrokenBy(e, rules) : \A j \in BrokenBy(e, rules) : i <= j

Slots(b) == {slot \in (DOMAIN b) \X (1 .. Len(form)) : slot[2] <= Len(Targets(slot[1]))}
At(slot) == Targets(slot[1])[slot[2]]

Untouched(e) == CHOOSE v \in Choices[e] : Size(Facts[v]) = 0

Init ==
  /\ form = SelectSeq(Layout, LAMBDA e : e \notin Rows)
  /\ value = [e \in Elements |-> Untouched(e)]
  /\ mark = [e \in Elements |-> ""]
  /\ errors = <<>> /\ verdict = "none" /\ page = "none" /\ shown = {}
  /\ dialog = FALSE /\ sent = <<>>
  /\ steps = 0

\* The user changes a field; nothing is checked again.
Type(e, v) ==
  /\ ~dialog /\ e \in Present /\ steps < MaxSteps
  /\ v \in Choices[e] /\ v # value[e]
  /\ value' = [value EXCEPT ![e] = v]
  /\ steps' = steps + 1 /\ verdict' = "none"
  /\ UNCHANGED <<form, mark, errors, page, shown, dialog, sent>>

\* A row of an array field is added, blank and unmarked, or taken away.
AddRow(e) ==
  /\ ~dialog /\ e \in Rows \ Present /\ steps < MaxSteps
  /\ form' = Append(form, e)
  /\ value' = [value EXCEPT ![e] = Untouched(e)]
  /\ mark' = [mark EXCEPT ![e] = ""]
  /\ steps' = steps + 1 /\ verdict' = "none"
  /\ UNCHANGED <<errors, page, shown, dialog, sent>>

DropRow(e) ==
  /\ ~dialog /\ e \in Rows \cap Present /\ steps < MaxSteps
  /\ form' = SelectSeq(form, LAMBDA d : d # e)
  /\ mark' = [mark EXCEPT ![e] = ""]
  /\ steps' = steps + 1 /\ verdict' = "none"
  /\ UNCHANGED <<value, errors, page, shown, dialog, sent>>

\* The classes of the fields that were checked.
Marks(checked, refused) ==
  [e \in Elements |-> IF e \in refused THEN "is-invalid"
                      ELSE IF e \in checked THEN "valid" ELSE mark[e]]

\* validationJsError: one toast lists every field that was refused.
Toast(refused) == IF refused = {} THEN shown ELSE refused

\* validationJs, and what the submit handlers do with its answer: the dialog
\* of confirmSubmitAction, or the toast of validationJsError.
Check(p) ==
  LET b == Books[p]
      bad == {s \in Slots(b) : BrokenBy(At(s), b[s[1]]) # {}}
      checked == {At(s) : s \in Slots(b)}
  IN  /\ ~dialog /\ steps < MaxSteps
      /\ errors' = [s \in bad |-> b[s[1]][FirstBroken(At(s), b[s[1]])].name]
      /\ mark' = Marks(checked, {At(s) : s \in bad})
      /\ verdict' = IF bad = {} THEN "passed" ELSE "refused"
      /\ dialog' = (bad = {})
      /\ shown' = Toast(bad)
      /\ page' = p /\ steps' = steps + 1
      /\ UNCHANGED <<form, value, sent>>

\* The form named by the page is not in it.
CheckNothing ==
  /\ ~dialog /\ steps < MaxSteps
  /\ errors' = (Global :> "system error") /\ verdict' = "broken"
  /\ shown' = {Global} /\ steps' = steps + 1
  /\ UNCHANGED <<form, value, mark, page, dialog, sent>>

\* The user confirms: the form is read again and sent.
Confirm ==
  /\ dialog
  /\ dialog' = FALSE /\ sent' = [e \in Present |-> value[e]]
  /\ UNCHANGED <<form, value, mark, errors, verdict, page, shown, steps>>

Cancel ==
  /\ dialog /\ dialog' = FALSE
  /\ UNCHANGED <<form, value, mark, errors, verdict, page, shown, sent, steps>>

Next ==
  \/ \E e \in Elements : \E v \in Choices[e] : Type(e, v)
  \/ \E e \in Rows : AddRow(e) \/ DropRow(e)
  \/ \E p \in DOMAIN Books : Check(p)
  \/ CheckNothing
  \/ Confirm \/ Cancel

Spec == Init /\ [][Next]_vars

---------------------------------------------------------------------------
\* The state keeps its shape.
TypeOK ==
  /\ Present \subseteq Elements /\ Elements \ Rows \subseteq Present
  /\ \A e \in Elements : value[e] \in Choices[e]
  /\ mark \in [Elements -> {"", "valid", "is-invalid"}]
  /\ verdict \in {"none", "passed", "refused", "broken"}
  /\ dialog => verdict = "passed"
  /\ steps \in 0 .. MaxSteps

\* What the messages of getErrorMessage say of a rule: the reference the
\* rules are held against.
Given(v) == IF v.is = "text" THEN ~v.blank ELSE v.n > 0

Means(r, v, e) ==
  LET target == ValueOf(r.field)
      holds == target # Absent /\ Condition(r.op, target, KindNamed(r.field), r.args)
  IN  CASE r.name = "required" -> Given(v)
        [] r.name = "required_if" -> holds => Given(v)
        [] r.name = "required_unless" -> holds \/ Given(v)
        [] r.name = "required_with" ->
             (\E i \in 1 .. Len(r.args) :
                LET w == ValueOf(r.args[i].str) IN w # Absent /\ Given(w)) => Given(v)
        [] r.name = "between" ->
             \/ ~Given(v)
             \/ /\ Measure(v, KindOf[e]) >= r.args[1].num
                /\ Measure(v, KindOf[e]) <= r.args[2].num
        [] r.name = "dimensions" -> Given(v) => {"image", "fits the page"} \subseteq v.fits
        [] OTHER -> ValidateRule(r, v, e)

\* Where the code lets through what the message forbids: files under a
\* conditional rule; a number or a list by its length; what is no image; an
\* operator it does not know, which compares.
TooLenient(r, v) ==
  \/ r.name \in {"required_if", "required_unless"} /\ v.is = "files"
  \/ r.name = "between" /\ (v.num # NaN \/ "," \in v.has)
  \/ r.name = "dimensions" /\ "image" \notin v.fits
  \/ r.name = "required_unless" /\ r.op \notin Operators

\* Where it refuses what the message allows: a partner that is filled in
\* refuses the field in any case; a number by its length; every image;
\* white space under a length.
TooStrict(r, v) ==
  \/ r.name = "required_with"
  \/ r.name = "between" /\ (v.num # NaN \/ "," \in v.has \/ v.blank)
  \/ r.name = "dimensions" /\ v.len > 0

\* What is sent obeys every rule of the check before it, as its message puts
\* it, on every element the rule is for, rows of array fields included:
\* nothing changed behind the dialog, no rule was skipped.
SentFormObeysItsRules ==
  [][sent' # sent =>
       \A s \in Slots(Books[page]) : \A i \in 1 .. Len(Books[page][s[1]]) :
          LET r == Books[page][s[1]][i]
              v == Facts[sent'[At(s)]]
          IN  Means(r, v, At(s)) \/ TooLenient(r, v)]_vars

\* A field refused breaks the rule its message is about.
RefusedFieldBreaksItsRule ==
  verdict = "refused" =>
     \A s \in DOMAIN errors : \E i \in 1 .. Len(Books[page][s[1]]) :
        LET r == Books[page][s[1]][i]
            v == Facts[value[At(s)]]
        IN  r.name = errors[s] /\ (~Means(r, v, At(s)) \/ TooStrict(r, v))

\* Until the form is changed, a refusal names exactly the fields it marks
\* among those it checked, and the toast lists every one of them.
MessagesAreTheMarks ==
  verdict = "refused" =>
     /\ shown = DOMAIN errors /\ shown # {}
     /\ {At(s) : s \in DOMAIN errors} =
          {At(s) : s \in {t \in Slots(Books[page]) : mark[At(t)] = "is-invalid"}}

\* required_if and required_unless are written out separately over the same
\* operators: with one condition, a blank text is refused by exactly one of
\* them, and a text that is filled in by neither.
IfAndUnlessAreOpposite ==
  \A p \in Pairs : ValueOf(p.field) # Absent =>
     \A v \in {w \in {Facts[value[e]] : e \in Present} : w.is = "text"} :
        LET r == [name |-> "", field |-> p.field, op |-> p.op, args |-> p.args]
        IN  IF v.blank THEN RequiredIf(v, r) # RequiredUnless(v, r)
            ELSE RequiredIf(v, r) /\ RequiredUnless(v, r)

=============================================================================
