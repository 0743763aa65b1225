----------------------------- MODULE JsonWriter -----------------------------
(***************************************************************************)
(* The writers of jsoncpp/json_writer.cpp: FastWriter, StyledWriter and    *)
(* StyledStreamWriter.  What they write is a sequence of tokens, as        *)
(* JsonReader takes them.  A document_ in progress has the tokens so far,  *)
(* the kind of its last character, and nl, whether a new line came after   *)
(* the last token.                                                         *)
(***************************************************************************)
EXTENDS JsonValue

CONSTANT Wide   \* an array of so many elements does not fit on a line

ASSUME WideAssumption == Wide \in Nat \ {0}

Mark(type) == [type |-> type, text |-> << >>, num |-> 0, nl |-> FALSE, ends |-> FALSE]
Quoted(chars) == [Mark("string") EXCEPT !.text = valueToQuotedString(CString(chars))]

\* The text of a double, "%#.16g": 16 digits, and of an infinity "1.#INF" and
\* zeroes, which is a number, four characters that start no token, and another.
realToString(node) ==
  IF node.data = Infinity
  THEN <<[Mark("number") EXCEPT !.num = 1, !.text = <<".0">>]>>
         \o [i \in 1..4 |-> Mark("error")] \o <<Mark("number")>>
  ELSE <<[Mark("number") EXCEPT !.num = node.num, !.text = <<node.data[1]>>]>>

\* The text of a value without children: valueToString, or the brackets.
valueToString(node) ==
  CASE node.type \in {"int", "uint"} -> <<[Mark("number") EXCEPT !.num = node.num]>>
    [] node.type = "real" -> realToString(node)
    [] node.type = "string" -> <<Quoted(node.data)>>
    [] node.type = "boolean" -> <<Mark(node.data[1])>>
    [] node.type = "null" -> <<Mark("null")>>
    [] node.type = "array" -> <<Mark("["), Mark("]")>>
    [] OTHER -> <<Mark("{"), Mark("}")>>

\* The steps down to the children, in the order they are written.
Steps(v, p) ==
  IF v[p].type = "array" THEN [i \in 1..size(v, p) |-> Index(i - 1)]
  ELSE LET names == getMemberNames(v, p) IN [i \in DOMAIN names |-> Name(names[i])]

----------------------------------------------------------------------------
\* FastWriter::writeValue: no space, no new line and no comment.
FastWriter(v, top) ==
  LET text[p \in DOMAIN v] ==
        LET array == v[p].type = "array"
            steps == Steps(v, p)
            child(i) == (IF i = 1 THEN << >> ELSE <<Mark(",")>>)
                          \o (IF array THEN << >> ELSE <<Quoted(steps[i].name), Mark(":")>>)
                          \o text[Append(p, steps[i])]
        IN  IF ~HasChildren(v, p) THEN valueToString(v[p])
            ELSE <<Mark(IF array THEN "[" ELSE "{")>>
                   \o FlattenSeq([i \in DOMAIN steps |-> child(i)])
                   \o <<Mark(IF array THEN "]" ELSE "}")>>
  IN  text[top]

----------------------------------------------------------------------------
(***************************************************************************)
(* StyledWriter and StyledStreamWriter are one text twice; they differ in  *)
(* writeIndent.                                                            *)
(***************************************************************************)
Empty(stream) == [stream |-> stream, tokens |-> << >>, nl |-> FALSE, last |-> "nothing",
                  depth |-> 0]

Write(document, token) ==
  [document EXCEPT !.tokens = Append(@, [token EXCEPT !.nl = document.nl]),
                   !.nl = FALSE,
                   !.last = IF token.text = <<"//">> THEN "new line" ELSE "other"]
NewLine(document) == [document EXCEPT !.nl = TRUE, !.last = "new line"]
Space(document) == [document EXCEPT !.last = "space"]

\* A StyledWriter starts a line unless it has; the other one always does.
writeIndent(document) ==
  LET started == ~document.stream /\ document.last \in {"nothing", "new line"}
      begun == IF started THEN document ELSE NewLine(document)
  IN  IF ~document.stream /\ document.last = "space" THEN document
      ELSE IF document.depth > 0 THEN Space(begun) ELSE begun

\* writeValue makes calls to the document: a token is written, or layout, which
\* is a mark of its name.
Do(document, call) ==
  CASE call.type = "new line" -> NewLine(document)
    [] call.type = "space" -> Space(document)
    [] call.type = "writeIndent" -> writeIndent(document)
    [] call.type = "indent" -> [document EXCEPT !.depth = @ + 1]
    [] call.type = "unindent" -> [document EXCEPT !.depth = @ - 1]
    [] OTHER -> Write(document, call)

writeWithIndent(token) == <<Mark("writeIndent"), token>>

\* Comments of the lines before or after a value: each ends its line.
writeComments(comments) == FlattenSeq([i \in DOMAIN comments |-> <<comments[i], Mark("new line")>>])

writeCommentBeforeValue(node) == writeComments(node.comments.before)

writeCommentAfterValueOnSameLine(node) ==
  node.comments.same
    \o (IF node.comments.after = << >> THEN << >>
        ELSE <<Mark("new line")>> \o writeComments(node.comments.after))

\* An array is written on one line unless it is too long or a child has
\* children.  Comments were to count too, but the test for them is an "and".
isMultineArray(v, p) ==
  \/ size(v, p) >= Wide
  \/ \E q \in Children(v, p) : HasChildren(v, q)

\* On one line the comments of the elements are left out.
writeOneLine(v, p) == FastWriter(v, p)

writeValue(v, top) ==
  LET calls[p \in DOMAIN v] ==
        LET array == v[p].type = "array"
            steps == Steps(v, p)
            named(i) == IF array THEN <<Mark("writeIndent")>>
                        ELSE writeWithIndent(Quoted(steps[i].name)) \o <<Mark(":"), Mark("space")>>
            child(i) ==
              LET q == Append(p, steps[i])
              IN  writeCommentBeforeValue(v[q]) \o named(i) \o calls[q]
                    \o (IF i < Len(steps) THEN <<Mark(",")>> ELSE << >>)
                    \o writeCommentAfterValueOnSameLine(v[q])
        IN  IF ~HasChildren(v, p) THEN valueToString(v[p])
            ELSE IF array /\ ~isMultineArray(v, p) THEN writeOneLine(v, p)
            ELSE writeWithIndent(Mark(IF array THEN "[" ELSE "{")) \o <<Mark("indent")>>
                   \o FlattenSeq([i \in DOMAIN steps |-> child(i)])
                   \o <<Mark("unindent")>> \o writeWithIndent(Mark(IF array THEN "]" ELSE "}"))
  IN  calls[top]

StyledWriter(v, stream) ==
  LET calls == writeCommentBeforeValue(v[<< >>]) \o writeValue(v, << >>)
                 \o writeCommentAfterValueOnSameLine(v[<< >>])
  IN  FoldLeft(Do, Empty(stream), calls).tokens

\* What a writer makes of a value.
Written(v, writer) ==
  CASE writer = "fast" -> FastWriter(v, << >>)
    [] writer = "styled" -> StyledWriter(v, FALSE)
    [] OTHER -> StyledWriter(v, TRUE)
=============================================================================
