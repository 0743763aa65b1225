----------------------------- MODULE JsonReader -----------------------------
(***************************************************************************)
(* Json::Reader::parse (jsoncpp/json_reader.cpp) over a document of        *)
(* tokens.  The functions call each other: stack has a frame for each call *)
(* that has not returned, with the path of its value, which is nodes_.  An *)
(* action takes one token, or the few a function takes without a loop.     *)
(*                                                                         *)
(* A token has a type, the text of a string, the number of a number, and   *)
(* two marks for comments: nl, a new line stands before it; ends, it has   *)
(* one inside, as every // comment does.                                   *)
(***************************************************************************)
EXTENDS JsonValue

VARIABLES doc,              \* the tokens of the document
          strict,           \* Features::strictMode, or all
          current_,         \* the place of the next token
          stack,            \* the calls in progress, the innermost last
          result,           \* what the function returned that ended last
          root,             \* the Value the document is read into
          errors_,          \* messages
          commentsBefore_,  \* comments that wait for a value
          lastValue_,       \* the path of the value read last, in a set
          lastValueEnd_,    \* where it ended
          status            \* "reading", or what parse returned

reader == <<doc, strict, current_, stack, result, root, errors_,
            commentsBefore_, lastValue_, lastValueEnd_, status>>

----------------------------------------------------------------------------
EndOfStream == [type |-> "end", text |-> << >>, num |-> 0, nl |-> FALSE, ends |-> FALSE]

collectComments_ == ~strict

Token == IF current_ > Len(doc) THEN EndOfStream ELSE doc[current_]
Next_ == IF current_ > Len(doc) THEN current_ ELSE current_ + 1
Is(type) == Token.type = type

Running == status = "reading" /\ result = "none" /\ stack # << >>
Top == Last(stack)
In(function) == Running /\ Top.fn = function
Instead(f) == Append(Front(stack), f)

ValueOf(p) == [fn |-> "readValue", at |-> p]
ObjectAt(p) == [fn |-> "readObject", at |-> p, pc |-> "name", named |-> FALSE]
ArrayAt(p, i) == [fn |-> "readArray", at |-> p, pc |-> "value", index |-> i]
RecoverAt(p, type) == [fn |-> "recoverFromError", at |-> p, until |-> type]

\* The start of parse: everything of a document before is forgotten.
Parse(d) ==
  /\ doc' = d /\ current_' = 1
  /\ stack' = <<ValueOf(<< >>)>> /\ result' = "none"
  /\ root' = Null /\ errors_' = << >>
  /\ commentsBefore_' = << >> /\ lastValue_' = {} /\ lastValueEnd_' = 1
  /\ status' = "reading"

\* readValue has a value at p, or failed to make one: it is the last value.
Return(p, end, how) ==
  /\ stack' = Front(stack)
  /\ result' = how
  /\ IF collectComments_ THEN lastValue_' = {p} /\ lastValueEnd_' = end
     ELSE UNCHANGED <<lastValue_, lastValueEnd_>>

addError(message) == errors_' = Append(errors_, message)

----------------------------------------------------------------------------
\* A new line between the end of the last value and the comment at hand.
containsNewLine ==
  \E i \in lastValueEnd_..current_ :
    doc[i].nl \/ (i < current_ /\ doc[i].ends)

SameLine ==
  /\ lastValue_ # {} /\ ~containsNewLine
  /\ Token.text = <<"//">> \/ ~Token.ends

\* readComment and addComment: a comment goes to the last value when it is on
\* its line, else it waits for the next one.
TakeComment ==
  CASE ~collectComments_ -> UNCHANGED <<root, commentsBefore_>>
    [] collectComments_ /\ SameLine ->
         /\ root' = setComment(root, CHOOSE p \in lastValue_ : TRUE, "same", <<Token>>)
         /\ UNCHANGED commentsBefore_
    [] OTHER -> /\ commentsBefore_' = Append(commentsBefore_, Token)
                /\ UNCHANGED root

\* The loops that skip comments: before a value, before the name of a member,
\* after a member or an element, while recovering, and at the end of parse.  A
\* comment after a member changes what may follow it.
SkipComment ==
  /\ status = "reading" /\ Is("comment")
  /\ \/ In("readValue") /\ ~strict /\ UNCHANGED stack
     \/ In("readObject") /\ Top.pc \in {"name", "after comment"} /\ UNCHANGED stack
     \/ In("readObject") /\ Top.pc = "after" /\ stack' = Instead([Top EXCEPT !.pc = "after comment"])
     \/ In("readArray") /\ Top.pc = "after" /\ UNCHANGED stack
     \/ In("recoverFromError") /\ UNCHANGED stack
     \/ stack = << >> /\ ~strict /\ UNCHANGED stack
  /\ TakeComment
  /\ current_' = current_ + 1
  /\ UNCHANGED <<doc, strict, result, errors_, lastValue_, lastValueEnd_, status>>

\* The comments that wait are put before the value that begins.
WithComments(v, p) ==
  IF collectComments_ /\ commentsBefore_ # << >>
  THEN setComment(v, p, "before", commentsBefore_) ELSE v

\* What follows the integer part of a number that is no integer; a double keeps
\* 17 digits, and an exponent that is too large makes it infinite.
Fractions == {<<".0">>, <<".5">>, <<".5", "17th digit">>}
Exponent == <<"e999">>

\* What a token that is a value by itself is decoded to.
Scalar(t) ==
  CASE t.type = "number" /\ t.text = << >> ->
         [ok |-> TRUE, type |-> decodeNumber(t.num), num |-> t.num,
          data |-> IF decodeNumber(t.num) = "real" THEN <<".0">> ELSE << >>]
    [] t.type = "number" /\ t.text \in Fractions ->
         [ok |-> TRUE, type |-> "real", data |-> t.text, num |-> t.num]
    [] t.type = "number" /\ t.text = Exponent ->
         [ok |-> TRUE, type |-> "real", data |-> Infinity, num |-> 0]
    [] t.type = "string" ->
         [ok |-> decodeString(t.text).ok, type |-> "string",
          data |-> CString(decodeString(t.text).chars), num |-> 0]
    [] t.type \in {"true", "false"} ->
         [ok |-> TRUE, type |-> "boolean", data |-> <<t.type>>, num |-> 0]
    [] t.type = "null" -> [ok |-> TRUE, type |-> "null", data |-> << >>, num |-> 0]
    [] OTHER -> [ok |-> FALSE, type |-> "null", data |-> << >>, num |-> 0]

Scalars == {"number", "string", "true", "false", "null"}

ReadScalar ==
  /\ In("readValue") /\ Token.type \in Scalars
  /\ LET p == Top.at
         s == Scalar(Token)
     IN  /\ root' = LET v == WithComments(root, p)
                    IN  IF s.ok THEN Assign(v, p, s.type, s.data, s.num) ELSE v
         /\ IF s.ok THEN UNCHANGED errors_ ELSE addError("not a number, or not a string")
         /\ Return(p, Next_, IF s.ok THEN "ok" ELSE "error")
  /\ current_' = Next_ /\ commentsBefore_' = << >>
  /\ UNCHANGED <<doc, strict, status>>

ReadNoValue ==
  /\ In("readValue")
  /\ Token.type \notin Scalars \cup {"{", "["}
  /\ Is("comment") => strict
  /\ addError("value, object or array expected")
  /\ root' = WithComments(root, Top.at)
  /\ stack' = Front(stack) /\ result' = "error"
  /\ current_' = Next_ /\ commentsBefore_' = << >>
  /\ UNCHANGED <<doc, strict, lastValue_, lastValueEnd_, status>>

----------------------------------------------------------------------------
BeginObject ==
  /\ In("readValue") /\ Is("{")
  /\ root' = Assign(WithComments(root, Top.at), Top.at, "object", << >>, 0)
  /\ stack' = Instead(ObjectAt(Top.at))
  /\ current_' = Next_ /\ commentsBefore_' = << >>
  /\ UNCHANGED <<doc, strict, result, errors_, lastValue_, lastValueEnd_, status>>

\* The end is taken for that of an empty object as long as the name before is
\* empty, which it also is after a member called "".
EndEmptyObject ==
  /\ In("readObject") /\ Top.pc = "name" /\ Is("}") /\ ~Top.named
  /\ Return(Top.at, Next_, "ok")
  /\ current_' = Next_
  /\ UNCHANGED <<doc, strict, root, errors_, commentsBefore_, status>>

\* addErrorAndRecover: tokens are skipped up to the end of the object or array.
Recovering(message, type) ==
  /\ addError(message)
  /\ stack' = Instead(RecoverAt(Top.at, type))

NoName ==
  /\ In("readObject") /\ Top.pc = "name"
  /\ Token.type \notin {"string", "comment"} /\ ~(Is("}") /\ ~Top.named)
  /\ Recovering("Missing '}' or object member name", "}")
  /\ current_' = Next_
  /\ UNCHANGED <<doc, strict, result, root, commentsBefore_, lastValue_, lastValueEnd_,
                 status>>

\* The name, which must be a good string, the colon, and the member it names.
ReadName ==
  /\ In("readObject") /\ Top.pc = "name" /\ Is("string")
  /\ LET s == decodeString(Token.text)
         colon == IF Next_ > Len(doc) THEN EndOfStream ELSE doc[Next_]
         beyond == IF s.ok /\ Next_ <= Len(doc) THEN Next_ + 1 ELSE Next_
     IN  /\ current_' = beyond
         /\ CASE ~s.ok -> Recovering("bad escape sequence", "}") /\ UNCHANGED root
              [] s.ok /\ colon.type # ":" -> Recovering("Missing ':'", "}") /\ UNCHANGED root
              [] OTHER ->
                   LET step == Name(CString(s.chars))
                   IN  /\ root' = Resolve(root, Top.at, step)
                       /\ stack' = Append(Instead([Top EXCEPT !.pc = "value",
                                                              !.named = s.chars # << >>]),
                                          ValueOf(Append(Top.at, step)))
                       /\ UNCHANGED errors_
  /\ UNCHANGED <<doc, strict, result, commentsBefore_, lastValue_, lastValueEnd_, status>>

AfterMember ==
  /\ In("readObject") /\ Top.pc = "after" /\ ~Is("comment")
  /\ current_' = Next_
  /\ CASE Is("}") -> Return(Top.at, Next_, "ok") /\ UNCHANGED errors_
       [] Is(",") -> /\ stack' = Instead([Top EXCEPT !.pc = "name"])
                     /\ UNCHANGED <<result, errors_, lastValue_, lastValueEnd_>>
       [] OTHER -> /\ Recovering("Missing ',' or '}' in object declaration", "}")
                   /\ UNCHANGED <<result, lastValue_, lastValueEnd_>>
  /\ UNCHANGED <<doc, strict, root, commentsBefore_, status>>

\* After a comment any token is taken for the comma.
AfterMemberComment ==
  /\ In("readObject") /\ Top.pc = "after comment" /\ ~Is("comment")
  /\ current_' = Next_
  /\ IF Is("}") THEN Return(Top.at, Next_, "ok")
     ELSE /\ stack' = Instead([Top EXCEPT !.pc = "name"])
          /\ UNCHANGED <<result, lastValue_, lastValueEnd_>>
  /\ UNCHANGED <<doc, strict, root, errors_, commentsBefore_, status>>

----------------------------------------------------------------------------
BeginArray ==
  /\ In("readValue") /\ Is("[")
  /\ LET p == Top.at
         v == Assign(WithComments(root, p), p, "array", << >>, 0)
         empty == Next_ <= Len(doc) /\ doc[Next_].type = "]"
     IN  IF empty
         THEN /\ root' = v
              /\ current_' = Next_ + 1
              /\ Return(p, Next_ + 1, "ok")
         ELSE /\ root' = Resolve(v, p, Index(0))
              /\ current_' = Next_
              /\ stack' = Append(Instead(ArrayAt(p, 0)), ValueOf(Append(p, Index(0))))
              /\ UNCHANGED <<result, lastValue_, lastValueEnd_>>
  /\ commentsBefore_' = << >>
  /\ UNCHANGED <<doc, strict, errors_, status>>

\* The test for a missing comma compares the token with two types at once, and
\* never holds: whatever is not the end is taken for the comma.
AfterElement ==
  /\ In("readArray") /\ Top.pc = "after" /\ ~Is("comment")
  /\ current_' = Next_
  /\ IF Is("]")
     THEN Return(Top.at, Next_, "ok") /\ UNCHANGED root
     ELSE LET i == Top.index + 1
          IN  /\ root' = Resolve(root, Top.at, Index(i))
              /\ stack' = Append(Instead(ArrayAt(Top.at, i)), ValueOf(Append(Top.at, Index(i))))
              /\ UNCHANGED <<result, lastValue_, lastValueEnd_>>
  /\ UNCHANGED <<doc, strict, errors_, commentsBefore_, status>>

\* A plausible slip: an object or array with a child that failed is dropped at
\* once, the child with it, which is the last value.
Fault_Resume ==
  /\ status = "reading" /\ result # "none" /\ stack # << >>
  /\ result' = "none"
  /\ IF result = "ok"
     THEN stack' = Instead([Top EXCEPT !.pc = "after"]) /\ UNCHANGED root
     ELSE /\ stack' = Instead(RecoverAt(Top.at, IF Top.fn = "readObject" THEN "}" ELSE "]"))
          /\ root' = Assign(root, Top.at, "null", << >>, 0)
  /\ UNCHANGED <<doc, strict, current_, errors_, commentsBefore_, lastValue_,
                 lastValueEnd_, status>>

\* readValue has returned to readObject or readArray.
Resume ==
  /\ status = "reading" /\ result # "none" /\ stack # << >>
  /\ result' = "none"
  /\ stack' = IF result = "ok" THEN Instead([Top EXCEPT !.pc = "after"])
              ELSE Instead(RecoverAt(Top.at, IF Top.fn = "readObject" THEN "}" ELSE "]"))
  /\ UNCHANGED <<doc, strict, current_, root, errors_, commentsBefore_, lastValue_,
                 lastValueEnd_, status>>

\* A plausible slip: the document is taken up again behind what was skipped.
Fault_Recover_ok ==
  /\ In("recoverFromError") /\ ~Is("comment")
  /\ current_' = Next_
  /\ IF Token.type \in {Top.until, "end"} THEN Return(Top.at, Next_, "ok")
     ELSE UNCHANGED <<stack, result, lastValue_, lastValueEnd_>>
  /\ UNCHANGED <<doc, strict, root, errors_, commentsBefore_, status>>

\* A plausible slip: only the token looked for ends the search.
Fault_Recover_end ==
  /\ In("recoverFromError") /\ ~Is("comment")
  /\ current_' = Next_
  /\ IF Is(Top.until) THEN Return(Top.at, Next_, "error")
     ELSE UNCHANGED <<stack, result, lastValue_, lastValueEnd_>>
  /\ UNCHANGED <<doc, strict, root, errors_, commentsBefore_, status>>

\* recoverFromError: the error stays one, whatever follows.
Recover ==
  /\ In("recoverFromError") /\ ~Is("comment")
  /\ current_' = Next_
  /\ IF Token.type \in {Top.until, "end"} THEN Return(Top.at, Next_, "error")
     ELSE UNCHANGED <<stack, result, lastValue_, lastValueEnd_>>
  /\ UNCHANGED <<doc, strict, root, errors_, commentsBefore_, status>>

\* The end of parse: comments that are left go after the root; and a strict
\* reader refuses a root that is neither an array nor an object.
ParseEnds ==
  /\ status = "reading" /\ stack = << >> /\ result # "none"
  /\ Is("comment") => strict
  /\ root' = IF collectComments_ /\ commentsBefore_ # << >>
             THEN setComment(root, << >>, "after", commentsBefore_) ELSE root
  /\ IF strict /\ root[<< >>].type \notin {"array", "object"}
     THEN addError("must be either an array or an object value") /\ status' = "error"
     ELSE status' = result /\ UNCHANGED errors_
  /\ UNCHANGED <<doc, strict, current_, stack, result, commentsBefore_, lastValue_,
                 lastValueEnd_>>

ReaderNext ==
  \/ SkipComment \/ ReadScalar \/ ReadNoValue \/ BeginObject \/ EndEmptyObject
  \/ NoName \/ ReadName \/ AfterMember \/ AfterMemberComment
  \/ BeginArray \/ AfterElement \/ Resume \/ Recover \/ ParseEnds
=============================================================================
