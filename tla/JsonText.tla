------------------------------ MODULE JsonText ------------------------------
(***************************************************************************)
(* A document is read, and what was read is written and read again.  The  *)
(* style sheet of a window and of each of its widgets is such a document:  *)
(* DeviceWidget::load reads it, and DeviceModbus::load hands it to a       *)
(* script as the StyledWriter writes it.  One Reader reads both times, as  *)
(* its interface allows, so that what it keeps from the first document is  *)
(* there when it begins the second.                                        *)
(***************************************************************************)
EXTENDS JsonReader, JsonWriter

CONSTANT Documents   \* what is read first: [text, meaning], with the value
                     \* the text stands for in a set, or none

ASSUME DocumentsAssumption == \A d \in Documents : Cardinality(d.meaning) <= 1

VARIABLES phase,     \* "first", or "second" once the value has been written
          meaning    \* the value that should be read, in a set, or none

textVars == <<reader, phase, meaning>>

Begins(d) ==
  /\ doc = d.text /\ current_ = 1
  /\ stack = <<ValueOf(<< >>)>> /\ result = "none"
  /\ root = Null /\ errors_ = << >>
  /\ commentsBefore_ = << >> /\ lastValue_ = {} /\ lastValueEnd_ = 1
  /\ status = "reading"

TextInit ==
  /\ \E d \in Documents : Begins(d) /\ meaning = d.meaning
  /\ strict \in BOOLEAN
  /\ phase = "first"

\* What has been read is written by one of the writers, and read again into a
\* new Value.
Rewrite(writer) ==
  /\ phase = "first" /\ status = "ok"
  /\ phase' = "second" /\ meaning' = {root}
  /\ Parse(Written(root, writer))
  /\ UNCHANGED strict

Read == ReaderNext /\ UNCHANGED <<phase, meaning>>

TextNext ==
  \/ Read
  \/ \E writer \in {"fast", "styled", "stream"} : Rewrite(writer)

\* A call of parse goes on; that its value is written again is no promise.
TextSpec == TextInit /\ [][TextNext]_textVars /\ WF_textVars(Read)

----------------------------------------------------------------------------
ReadAsMeant == status = "ok" /\ \A v \in meaning : Equal(root, v)

\* Whatever a well-formed document says is what is read, the last of two
\* members of one name included, wherever comments stand in it (but those the
\* grammar of Documents leaves out); a reader that allows no comments and only
\* an array or an object as root is held to documents of that kind.
\* (Reader::parse, readObject and readArray in json_reader.cpp.)
WellFormedIsRead ==
  (phase = "first" /\ status # "reading" /\ meaning # {}) =>
    \/ ReadAsMeant
    \/ strict /\ \/ \E i \in DOMAIN doc : doc[i].type = "comment"
                 \/ doc[1].type \notin {"[", "{"}

\* The value with its doubles to 16 digits.
Rounded(v) ==
  [p \in DOMAIN v |-> IF v[p].type = "real" THEN [v[p] EXCEPT !.data = <<@[1]>>] ELSE v[p]]

\* What any of the writers makes of any value that was read, of a sloppy
\* document too, is read again as a value that is equal but for the 17th digit
\* of a double: layout, comments, escapes and numbers at the edge of their types
\* lose nothing else that operator== sees.  A value with a double that has
\* overflowed cannot be read again; by itself it is read as 1, with no error.
\* (FastWriter, StyledWriter, StyledStreamWriter and valueToString of
\* json_writer.cpp against Reader::parse.)
WrittenIsRead ==
  (phase = "second" /\ status # "reading") =>
    \A v \in meaning :
      LET infinite == {p \in DOMAIN v : v[p].type = "real" /\ v[p].data = Infinity}
      IN  CASE infinite = {} -> status = "ok" /\ Equal(root, Rounded(v))
            [] infinite = {<< >>} -> status = "ok" /\ root[<< >>].num = 1
            [] OTHER -> status = "error"

\* The Reader keeps bare pointers to values: nodes_, those it is at work on,
\* and lastValue_, the one the next comment may go to.  None of them is ever
\* to a value that operator= or a new document has destroyed.  (readValue,
\* readComment and addComment of json_reader.cpp.)
PointersAlive ==
  status = "reading" =>
    /\ \A i \in DOMAIN stack : stack[i].at \in DOMAIN root
    /\ lastValue_ \subseteq DOMAIN root

\* parse succeeds exactly when it has no error to report: one in a value, however
\* deep, fails every object and array around it, though reading goes on behind
\* what was skipped, and nothing that was put right in passing is reported.
\* (readValue, addErrorAndRecover and recoverFromError of json_reader.cpp.)
ErrorsFail ==
  status # "reading" => (status = "ok" <=> errors_ = << >>)

\* parse returns, on any document: none of its loops goes on beyond the end of
\* an object, an array or a member that is not finished.  (readObject,
\* readArray, recoverFromError and skipCommentTokens of json_reader.cpp.)
ParseReturns == status = "reading" ~> status # "reading"
=============================================================================
