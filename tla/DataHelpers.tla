------------------------------ MODULE DataHelpers ------------------------------
(* The helpers of helper.js for values, arrays and texts. A value is a node: what it *)
(* is, and its own keys. An array of the page is filled and emptied by array_push()  *)
(* and remove_item_array() while the others read it. Arrays inside a value are       *)
(* objects whose keys are indexes.                                                   *)
EXTENDS Integers, FiniteSets, SequencesExt, TLC

CONSTANTS
  NoPath,
  Leaves,      \* values without keys: names such as "null", "zero", "blank", "text"
  Keys,        \* own keys of objects
  Items,       \* values put into the array; "a,b" is a text that holds the separator
  MaxItems     \* bound: length of the array

VARIABLES
  value, path, default,   \* what hasData() was asked about; NoPath when there is no path
  array,
  removal                 \* the last remove_item_array(): item, arrays before and after

vars == <<value, path, default, array, removal>>

(* --------------------------------- values --------------------------------- *)
NoKeys == [k \in {} |-> k]
Leaf(is) == [is |-> is, at |-> NoKeys]
Missing == Leaf("missing")
Object(at) == [is |-> "object", at |-> at]

\* JavaScript's conversion to a boolean, and the keys every object inherits.
Falsy(v) == v.is \in {"undefined", "null", "false", "zero", "NaN", "blank"}
Inherited == {"toString"}

Isset(v) == v.is \notin {"undefined", "null"}

\* One key of traverse().
Step(v, k) ==
  IF v.is # "object" THEN Missing
  ELSE IF k \in DOMAIN v.at THEN v.at[k]
  ELSE IF k \in Inherited THEN Leaf("function") ELSE Missing

\* Brackets become dots: a path that begins with one begins with the key "".
KeysOf(p) == IF p.bracket THEN <<"">> \o p.keys ELSE p.keys
Traverse(v, p) == FoldLeft(LAMBDA node, k : Step(node, k), v, KeysOf(p))

\* The answer as a boolean, and the answer when the data is asked for. Without a path
\* the default is returned for data that is there, too.
HasData(v, p) == ~Falsy(v) /\ (p = NoPath \/ Traverse(v, p) # Missing)
DataOrDefault(v, p, d) ==
  IF Falsy(v) \/ p = NoPath THEN IF Isset(d) THEN d ELSE v
  ELSE IF HasData(v, p) THEN Traverse(v, p) ELSE d

\* empty(), after PHP's.
Empty(v) == Falsy(v) \/ v.is = "'0'" \/ (v.is = "object" /\ DOMAIN v.at = {})

Ask(v, p, d) ==
  /\ value' = v /\ path' = p /\ default' = d
  /\ UNCHANGED <<array, removal>>

(* --------------------------------- arrays --------------------------------- *)
\* data.includes() finds NaN; === does not.
InArray(x) == Contains(array, x)
Positions(x) == {i \in DOMAIN array : array[i] = x /\ x # "NaN"}
IndexOf(x) == IF Positions(x) = {} THEN 0 ELSE CHOOSE i \in Positions(x) : \A j \in Positions(x) : i <= j

\* array_search(), which refuses to look for ''; 0 stands for false.
ArraySearch(x) == IF x = "blank" THEN 0 ELSE IndexOf(x)

ArrayPush(x) ==
  /\ Len(array) < MaxItems /\ array' = Append(array, x)
  /\ UNCHANGED <<value, path, default, removal>>

RemoveItemArray(x) ==
  /\ array' = IF IndexOf(x) = 0 THEN array ELSE RemoveAt(array, IndexOf(x))
  /\ removal' = [item |-> x, before |-> array, after |-> array', found |-> ArraySearch(x)]
  /\ UNCHANGED <<value, path, default>>

\* chunkData(), and chunkDataObj() on the entries of an object: slice() stops at the end.
ChunkData(per) ==
  LET size == IF per <= 0 THEN 15 ELSE per
      Until(i) == IF i * size < Len(array) THEN i * size ELSE Len(array)
  IN  [i \in 1 .. (Len(array) + size - 1) \div size |-> SubSeq(array, (i - 1) * size + 1, Until(i))]

(* ---------------------------------- texts --------------------------------- *)
\* A text is its letters and separators; join() writes null and undefined as nothing.
Text(x) == CASE x \in {"blank", "null"} -> <<>>
             [] x = "a,b" -> <<"a", ",", "b">>
             [] OTHER -> <<x>>

Implode(s) ==
  FoldLeft(LAMBDA text, i : text \o (IF i = 1 THEN <<>> ELSE <<",">>) \o Text(s[i]), <<>>,
           [i \in DOMAIN s |-> i])

\* Every separator begins another part, the first part is there from the start.
Explode(text) ==
  FoldLeft(LAMBDA parts, c : IF c = "," THEN Append(parts, <<>>)
                             ELSE Append(Front(parts), Append(Last(parts), c)), << <<>> >>, text)

(* ----------------------------- specification ------------------------------ *)
Nodes == {Leaf(is) : is \in Leaves}
Flat == UNION {{Object(at) : at \in [K -> Nodes]} : K \in SUBSET Keys}
Values == Nodes \cup Flat \cup {Object(k :> v) : k \in Keys, v \in Flat}
Paths == [keys : UNION {[1..n -> Keys \cup Inherited] : n \in 1..2}, bracket : BOOLEAN]

NoRemoval == [item |-> "none", before |-> <<>>, after |-> <<>>, found |-> 0]

Init ==
  /\ value = Missing /\ path = NoPath /\ default = Missing
  /\ array = <<>> /\ removal = NoRemoval

\* A value is looked into once; an array is followed.
Next ==
  \/ /\ value = Missing /\ array = <<>> /\ removal = NoRemoval
     /\ \E v \in Values, p \in Paths \cup {NoPath}, d \in {Leaf("null"), Leaf("text")} : Ask(v, p, d)
  \/ value = Missing /\ \E x \in Items : ArrayPush(x) \/ RemoveItemArray(x)

Spec == Init /\ [][Next]_vars

(* ------------------------------- properties ------------------------------- *)
TypeOK ==
  /\ value \in Values \cup {Missing} /\ path \in Paths \cup {NoPath}
  /\ array \in BoundedSeq(Items, MaxItems)

\* The paths of own keys, by what the value is made of.
OwnPaths ==
  {<<k>> : k \in DOMAIN value.at} \cup
  UNION {{<<k, l>> : l \in DOMAIN value.at[k].at} : k \in DOMAIN value.at}
ByPath == path # NoPath /\ ~path.bracket /\ Range(path.keys) \cap Inherited = {}

\* hasData() finds what is at a path of own keys, also when that is null or 0, and gives
\* the default exactly where there is nothing.
PathsAreFollowed ==
  ByPath =>
    /\ HasData(value, path) <=> path.keys \in OwnPaths
    /\ path.keys \in OwnPaths =>
         LET first == value.at[path.keys[1]]
         IN  DataOrDefault(value, path, default) =
               IF Len(path.keys) = 1 THEN first ELSE first.at[path.keys[2]]
    /\ value.is = "object" /\ path.keys \notin OwnPaths => DataOrDefault(value, path, default) = default

\* What is not empty() has data, and of what has data only the text 0 and a value without
\* keys of its own are empty(): the two tests of the views differ there alone.
EmptyIsNoData ==
  /\ ~HasData(value, NoPath) => Empty(value)
  /\ Empty(value) /\ HasData(value, NoPath) <=>
       value.is = "'0'" \/ (value.is = "object" /\ DOMAIN value.at = {})

\* An item is taken out where array_search() found it, and nothing else is; an item that
\* it does not find stays, but for '', which it does not look for.
RemovedIsTheFound ==
  LET i == removal.found IN
  IF i > 0 THEN removal.after = SubSeq(removal.before, 1, i - 1)
                                  \o SubSeq(removal.before, i + 1, Len(removal.before))
  ELSE removal.item # "blank" => removal.after = removal.before

\* The chunks are the array in order, none is empty, and all but the last are full.
ChunksMakeTheWhole ==
  \A per \in -1 .. MaxItems + 1 :
    LET chunks == ChunkData(per) IN
    /\ FlattenSeq(chunks) = array
    /\ \A i \in DOMAIN chunks : chunks[i] # <<>> /\ (per > 0 /\ i < Len(chunks) => Len(chunks[i]) = per)

\* explode() reads back what implode() has written, unless the array was empty or a text
\* held the separator.
TextReadsBack ==
  array # <<>> /\ ~Contains(array, "a,b") =>
    Explode(Implode(array)) = [i \in DOMAIN array |-> Text(array[i])]
===============================================================================
