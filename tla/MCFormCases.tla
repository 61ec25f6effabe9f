----------------------------- MODULE MCFormCases -----------------------------
(* The form, the values and the pages FormRules is checked with. The form has a    *)
(* text with its confirmation, a check box, a multiple select, a file and an array *)
(* field of two rows; the values are those on which the rules differ.              *)
EXTENDS Integers, Sequences, TLC

NotANumber == -1

(* ------------------------------- the values ------------------------------ *)
T(s, len, num) ==
  [is |-> "text", str |-> s, len |-> len, empty |-> len = 0, blank |-> len = 0,
   null |-> len = 0, truth |-> IF len = 0 THEN "no" ELSE "?", num |-> num,
   date |-> NotANumber, n |-> IF len = 0 THEN 0 ELSE 1, places |-> 0,
   has |-> {s}, starts |-> {s}, ends |-> {s}, fits |-> {"alpha", s}]
Empty == [T("", 0, NotANumber) EXCEPT !.fits = {}]
Null == [T("null", 4, NotANumber) EXCEPT !.null = TRUE]
Space == [T(" ", 1, NotANumber) EXCEPT !.blank = TRUE, !.n = 0, !.fits = {"integer"}]
Seven == [T("7", 1, 7) EXCEPT !.fits = {"integer", "numeric", "digits", "currency"}, !.has = {"7"}]
Twelve == [T("12", 2, 12) EXCEPT !.fits = {"integer", "numeric", "digits", "currency"},
                                 !.has = {"12", "1", "2"}, !.starts = {"12", "1"}]
Yes == [T("yes", 3, NotANumber) EXCEPT !.truth = "yes", !.fits = {"alpha", "accepted", "lowercase"}]
AB == [T("a,b", 3, NotANumber) EXCEPT !.n = 2, !.has = {",", "a", "b", "a,b"},
                                      !.starts = {"a", "a,b"}, !.fits = {"lowercase"}]
Day(s, d) == [T(s, 10, NotANumber) EXCEPT !.date = d,
                !.fits = {"date", "Y-m-d"} \cup IF d % 7 \in {0, 6} THEN {"weekend"} ELSE {}]
FilesOf(n, fits) ==
  [T("[object FileList]", 17, NotANumber) EXCEPT !.is = "files", !.n = n, !.fits = fits]
ListOf(s, n) ==
  [T(s, IF n = 0 THEN 0 ELSE 3, NotANumber) EXCEPT
     !.is = "list", !.n = n, !.empty = FALSE, !.null = FALSE, !.truth = "?"]
Number(k) == T(ToString(k), 1, k)
Named(s) == T(s, 2, NotANumber)

MCFacts ==
  [none |-> Empty, space |-> Space, null |-> Null, seven |-> Seven, twelve |-> Twelve,
   yes |-> Yes, ab |-> AB, sat |-> Day("2024-01-06", 6), mon |-> Day("2024-01-08", 8),
   noTags |-> ListOf("", 0), twoTags |-> ListOf("7,9", 2), noFile |-> FilesOf(0, {}),
   jpg |-> FilesOf(1, {"image", "small", "jpg", "fits the page"}), exe |-> FilesOf(1, {"exe"})]

(* -------------------------------- the form ------------------------------- *)
MCLayout == <<"text", "mate", "id", "tags", "photo", "cc1", "cc2">>
MCRows == {"cc1", "cc2"}
MCNameOf == [text |-> "name", id |-> "id", mate |-> "name_confirmation", tags |-> "tags",
             photo |-> "photo", cc1 |-> "cc[]", cc2 |-> "cc[]"]
MCKindOf == [text |-> "text", id |-> "check", mate |-> "text", tags |-> "multi",
             photo |-> "file", cc1 |-> "text", cc2 |-> "text"]
MCChoices == [text |-> {"none", "space", "null", "seven", "twelve", "yes", "ab", "sat", "mon"},
              id |-> {"none", "null", "seven", "yes"}, mate |-> {"none", "seven", "sat"},
              tags |-> {"noTags", "twoTags"}, photo |-> {"noFile", "jpg", "exe"},
              cc1 |-> {"none", "seven"}, cc2 |-> {"none", "yes"}]
MCConfirmationOf == [n \in {MCNameOf[e] : e \in DOMAIN MCNameOf} |->
                       IF n = "name" THEN "name_confirmation" ELSE "none"]

(* -------------------------------- the rules ------------------------------ *)
R(name, args) == [name |-> name, field |-> "", op |-> "", args |-> args]
C(name, field, op, args) == [name |-> name, field |-> field, op |-> op, args |-> args]
Text(rule) == [name |-> <<rule>>]
Photo(rule) == [photo |-> <<rule>>]
Sunday == Day("2024-01-07", 7)

\* A page for each rule, pages for the conditional rules on each kind of field, the
\* rules of views/directory/_userForm.php, and a page with an array field.
MCBooks == [
  required |-> Text(R("required", <<>>)), accepted |-> Text(R("accepted", <<>>)),
  string |-> Photo(R("string", <<>>)), array |-> Text(R("array", <<>>)),
  alpha |-> Text(R("alpha", <<>>)), pattern |-> Text(R("date_format", <<Named("Y-m-d")>>)),
  min |-> Text(R("min", <<Number(3)>>)), max |-> Text(R("max", <<Number(2)>>)),
  between |-> Text(R("between", <<Number(1), Number(2)>>)),
  minLength |-> Text(R("min_length", <<Number(2)>>)),
  maxLength |-> Text(R("max_length", <<Number(2)>>)),
  gt |-> Text(R("gt", <<Number(7)>>)), lt |-> Text(R("lt", <<Named("id")>>)),
  lte |-> Text(R("lte", <<Named("name_confirmation")>>)),
  after |-> Text(R("after", <<Sunday>>)), before |-> Text(R("before", <<Sunday>>)),
  notBefore |-> Text(R("after_or_equal", <<Named("name_confirmation")>>)),
  notAfter |-> Text(R("before_or_equal", <<Sunday>>)),
  same |-> Text(R("same", <<Named("id")>>)), different |-> Text(R("different", <<Named("id")>>)),
  confirmed |-> Text(R("confirmed", <<>>)),
  in |-> Text(R("in", <<Seven, Twelve>>)), notIn |-> Text(R("not_in", <<Seven>>)),
  contains |-> Text(R("contains", <<Named("a")>>)),
  lacks |-> Text(R("doesnt_contain", <<Named("1")>>)),
  file |-> Photo(R("file", <<>>)), size |-> Photo(R("size", <<>>)), image |-> Photo(R("image", <<>>)),
  mimes |-> Photo(R("mimes", <<Named("jpg")>>)), dimensions |-> Photo(R("dimensions", <<>>)),
  photo |-> Photo(R("required", <<>>)), photoIf |-> Photo(C("required_if", "id", "empty", <<>>)),
  digits |-> Text(R("digits", <<Number(2)>>)),
  digitsIn |-> Text(R("digits_between", <<Number(1), Number(1)>>)),
  currency |-> Text(R("currency", <<>>)), decimal |-> Text(R("decimal", <<Number(0)>>)),
  nullable |-> Text(R("nullable", <<>>)),
  with |-> Text(R("required_with", <<Named("id"), Named("photo")>>)),
  requiredIf |-> Text(C("required_if", "id", "empty", <<>>)),
  ifMore |-> Text(C("required_if", "id", ">", <<Number(3)>>)),
  ifTags |-> Text(C("required_if", "tags", "count", <<Number(1), Number(2)>>)),
  unless |-> Text(C("required_unless", "id", "=", <<Seven>>)),
  unlessOdd |-> Text(C("required_unless", "id", "~", <<Seven>>)),
  unlessGone |-> Text(C("required_unless", "none", "=", <<Seven>>)),
  user |-> [name |-> <<R("required", <<>>), R("integer", <<>>), R("min", <<Number(8)>>)>>,
            id |-> <<R("integer", <<>>)>>, ghost |-> <<R("required", <<>>)>>],
  rows |-> "tags" :> <<R("required", <<>>), R("min", <<Number(2)>>)>> @@
           "cc[]" :> <<R("required", <<>>), R("numeric", <<>>)>>]

\* The conditions the two conditional rules are put to: every operator on the check
\* box, those that count on the select and the file.
MCPairs ==
  LET P(field, op, args) == [field |-> field, op |-> op, args |-> args]
  IN {P("id", op, <<Seven>>) : op \in {"=", "!=", "in", "not_in", "empty", "not_empty", "true", "false",
        ">", ">=", "<", "<=", "length", "count", "contains", "not_contains", "starts_with",
        "ends_with", "regex"}}
     \cup {P("id", op, <<Null, Seven>>) : op \in {"=", "!=", "in", "length"}}
     \cup {P("tags", op, <<Number(1), Number(2)>>) :
             op \in {"count", "length", "empty", "contains", "not_contains"}}
     \cup {P("photo", "count", <<Number(1)>>)}
==============================================================================
