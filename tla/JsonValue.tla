----------------------------- MODULE JsonValue -----------------------------
(***************************************************************************)
(* Json::Value (jsoncpp/json_value.cpp) as far as the reader and the       *)
(* writers use it.  A value is a function from paths to nodes: the root is *)
(* at the empty path, and a path goes down by the index or the name of a   *)
(* child.  A node has a type, its data and its comments; a string is the   *)
(* sequence of its characters, and a number keeps its integer part in num  *)
(* and, of a double, the fraction in data.                                 *)
(***************************************************************************)
EXTENDS Integers, Sequences, FiniteSets, Functions, SequencesExt, FiniteSetsExt

CONSTANTS Names,    \* the member names, in the order of strcmp
          MaxInt    \* the largest Int; the widths follow from it

ASSUME MaxIntAssumption == MaxInt \in Nat /\ MaxInt > 9

Infinity == <<"inf">>   \* the data of a double that has overflowed

MaxUInt == 2 * MaxInt + 1
MinInt == -MaxInt - 1

Index(i) == [index |-> i]
Name(s) == [name |-> s]

NoComments == [before |-> << >>, same |-> << >>, after |-> << >>]
NullNode == [type |-> "null", data |-> << >>, num |-> 0, comments |-> NoComments]

\* A Value that has just been constructed.
Null == [p \in {<< >>} |-> NullNode]

Below(v, p) == {q \in DOMAIN v : Len(q) > Len(p) /\ SubSeq(q, 1, Len(p)) = p}
Children(v, p) == {q \in Below(v, p) : Len(q) = Len(p) + 1}
HasChildren(v, p) == Children(v, p) # {}

\* A plausible slip: the children of the value before stay.
Fault_Assign(v, p, type, data, num) ==
  [q \in DOMAIN v |->
     IF q = p THEN [v[q] EXCEPT !.type = type, !.data = data, !.num = num] ELSE v[q]]

\* *p = Value(...): operator= copies and swaps type and contents; what the
\* value had is destroyed, its children with it, but its comments stay.
Assign(v, p, type, data, num) ==
  [q \in DOMAIN v \ Below(v, p) |->
     IF q = p THEN [v[q] EXCEPT !.type = type, !.data = data, !.num = num] ELSE v[q]]

\* (*p)[step]: the child, inserted as a null if there is none.
Resolve(v, p, step) ==
  LET q == Append(p, step)
  IN  IF q \in DOMAIN v THEN v
      ELSE [r \in DOMAIN v \cup {q} |-> IF r = q THEN NullNode ELSE v[r]]

setComment(v, p, placement, text) == [v EXCEPT ![p].comments[placement] = text]

\* The size of an array is its highest index + 1.
size(v, p) ==
  IF v[p].type = "array"
  THEN IF HasChildren(v, p) THEN Max({Last(q).index : q \in Children(v, p)}) + 1 ELSE 0
  ELSE Cardinality(Children(v, p))

getMemberNames(v, p) ==
  SelectSeq(Names, LAMBDA s : Append(p, Name(s)) \in DOMAIN v)

\* operator==: types, contents and children agree; comments do not count.
Equal(v, w) ==
  /\ DOMAIN v = DOMAIN w
  /\ \A p \in DOMAIN v : /\ v[p].type = w[p].type
                         /\ v[p].data = w[p].data
                         /\ v[p].num = w[p].num

----------------------------------------------------------------------------
(***************************************************************************)
(* Numbers and strings between text and value.  A character of a string is *)
(* a class: a plain one, a quote, a new line, another control character,   *)
(* the terminating zero, or one beyond 16 bits, which is a surrogate pair  *)
(* in an escape and bytes above 0x7F outside one.                          *)
(***************************************************************************)

\* decodeNumber of an integer: as soon as another digit might not fit, it is
\* read as a double.
decodeNumber(n) ==
  LET threshold == (IF n < 0 THEN -MinInt ELSE MaxUInt) \div 10
      magnitude == IF n < 0 THEN -n ELSE n
  IN  CASE magnitude \div 10 >= threshold -> "real"
        [] n <= MaxInt -> "int"
        [] OTHER -> "uint"

Decoded ==
  [c \in {"\\\"", "\\n", "\\u001F", "\\u0000", "\\uD800\\uDC00"} |->
     CASE c = "\\\"" -> "quote"
       [] c = "\\n" -> "newline"
       [] c = "\\u001F" -> "control"
       [] c = "\\u0000" -> "zero"
       [] OTHER -> "wide"]

\* A bad escape, or a surrogate without its other half.
Undecodable == {"\\x", "\\uD800"}

\* decodeString: escapes become characters, all others stay; or an error.
decodeString(text) ==
  [ok |-> \A i \in DOMAIN text : text[i] \notin Undecodable,
   chars |-> [i \in DOMAIN text |-> IF text[i] \in DOMAIN Decoded
                                    THEN Decoded[text[i]] ELSE text[i]]]

\* A plausible slip: the code of a control character has three digits.
Fault_valueToQuotedString(chars) ==
  [i \in DOMAIN chars |->
     CASE chars[i] = "quote" -> "\\\""
       [] chars[i] = "newline" -> "\\n"
       [] chars[i] = "control" -> "\\x"
       [] OTHER -> chars[i]]

\* valueToQuotedString: quotes and control characters are escaped.
valueToQuotedString(chars) ==
  [i \in DOMAIN chars |->
     CASE chars[i] = "quote" -> "\\\""
       [] chars[i] = "newline" -> "\\n"
       [] chars[i] = "control" -> "\\u001F"
       [] OTHER -> chars[i]]

\* What a char* shows of a string: it ends at the first zero.
CString(chars) ==
  IF \E i \in DOMAIN chars : chars[i] = "zero"
  THEN SubSeq(chars, 1, SelectInSeq(chars, LAMBDA c : c = "zero") - 1)
  ELSE chars
=============================================================================
