----------------------------- MODULE MCJsonText -----------------------------
(***************************************************************************)
(* Documents for JsonText.  A document is put together with its meaning:   *)
(* values of every kind at the root, in an array and as a member, and      *)
(* arrays and objects nested three deep, with the empty name and one name  *)
(* twice.  Then each is spoilt once: a comment is put in anywhere, a token *)
(* is left out, or one is put in.                                          *)
(***************************************************************************)
EXTENDS JsonText

MCNames == << << >>, <<"a">>, <<"a", "newline">> >>

Leaf(token, type, data, num) ==
  [text |-> <<token>>,
   meaning |-> {[p \in {<< >>} |->
                  [NullNode EXCEPT !.type = type, !.data = data, !.num = num]]}]

NumberToken(n) == [Mark("number") EXCEPT !.num = n]
DecimalToken(text) == [NumberToken(1) EXCEPT !.text = text]
StringToken(text) == [Mark("string") EXCEPT !.text = text]

Whole(n) == Leaf(NumberToken(n), "int", << >>, n)
Unsigned(n) == Leaf(NumberToken(n), "uint", << >>, n)
Double(n) == Leaf(NumberToken(n), "real", <<".0">>, n)
String(text, chars) == Leaf(StringToken(text), "string", chars, 0)

One == Whole(1)
Edges ==
  {Whole(MaxInt), Unsigned(MaxInt + 1), Double(MaxUInt), Whole(-1), Double(MinInt),
   Leaf(DecimalToken(<<".5">>), "real", <<".5">>, 1),
   Leaf(DecimalToken(<<".5", "17th digit">>), "real", <<".5", "17th digit">>, 1),
   Leaf(DecimalToken(Exponent), "real", Infinity, 0),
   Leaf(Mark("true"), "boolean", <<"true">>, 0), Leaf(Mark("null"), "null", << >>, 0),
   String(<< >>, << >>), String(<<"a", "\\\"", "\\n">>, <<"a", "quote", "newline">>),
   String(<<"control", "\\u001F">>, <<"control", "control">>),
   String(<<"a", "\\u0000", "a">>, <<"a">>),
   String(<<"\\uD800\\uDC00", "wide">>, <<"wide", "wide">>)}
Bad ==
  {[text |-> <<StringToken(t)>>, meaning |-> {}] : t \in {<<"\\x">>, <<"a", "\\uD800">>}}
    \cup {[text |-> <<[NumberToken(1) EXCEPT !.text = <<"-">>]>>, meaning |-> {}]}

----------------------------------------------------------------------------
\* A container of the children, each a step and a document; of two children of
\* one step the last is meant.
Container(type, children) ==
  LET kept == {i \in DOMAIN children :
                 \A j \in DOMAIN children : children[j].step = children[i].step => j <= i}
      tree(i) == CHOOSE v \in children[i].child.meaning : TRUE
      paths == {<< >>} \cup UNION {{<<children[i].step>> \o p : p \in DOMAIN tree(i)} : i \in kept}
  IN  IF \E i \in DOMAIN children : children[i].child.meaning = {} THEN {}
      ELSE {[p \in paths |->
              IF p = << >> THEN [NullNode EXCEPT !.type = type]
              ELSE tree(CHOOSE i \in kept : children[i].step = p[1])[Tail(p)]]}

Comma(i) == IF i = 1 THEN << >> ELSE <<Mark(",")>>

Array(elements) ==
  [text |-> <<Mark("[")>>
              \o FlattenSeq([i \in DOMAIN elements |-> Comma(i) \o elements[i].text])
              \o <<Mark("]")>>,
   meaning |-> Container("array", [i \in DOMAIN elements |->
                                     [step |-> Index(i - 1), child |-> elements[i]]])]

\* Members are pairs of a token for the name with what it says, and a document.
Object(members) ==
  [text |-> <<Mark("{")>>
              \o FlattenSeq([i \in DOMAIN members |->
                   Comma(i) \o <<StringToken(members[i][1][1]), Mark(":")>> \o members[i][2].text])
              \o <<Mark("}")>>,
   meaning |-> Container("object", [i \in DOMAIN members |->
                                      [step |-> Name(members[i][1][2]), child |-> members[i][2]]])]

NoName_ == << << >>, << >> >>
A == << <<"a">>, <<"a">> >>
B == << <<"a", "\\n">>, <<"a", "newline">> >>

Shallow ==
  {One, Array(<< >>), Object(<< >>), Array(<<One>>), Array(<<One, Whole(2)>>),
   Object(<< <<A, One>> >>), Object(<< <<NoName_, One>> >>)}

Deep ==
  {Array(<<u>>) : u \in Shallow}
    \cup {Array(<<u, w>>) : u, w \in Shallow}
    \cup {Object(<< <<A, u>>, <<B, w>> >>) : u, w \in Shallow}
    \cup {Object(<< <<A, u>>, <<A, w>> >>) : u, w \in Shallow}

Edge ==
  Edges \cup Bad
    \cup {Array(<<u, One>>) : u \in Edges \cup Bad}
    \cup {Object(<< <<A, u>>, <<NoName_, One>> >>) : u \in Edges \cup Bad}

Deeper ==
  {Array(<<Whole(1), Array(<<One, Whole(2)>>), Whole(3)>>),
   Array(<<One, Whole(2), Whole(3)>>),
   Object(<< <<A, Object(<< <<A, Array(<<One>>)>> >>)>>, <<B, One>> >>),
   Object(<< <<A, Object(<< <<A, Array(<<Whole(2)>>)>> >>)>>, <<A, Object(<< <<B, One>> >>)>> >>),
   Object(<< <<B, One>>, <<A, One>>, <<B, Whole(2)>> >>)}

----------------------------------------------------------------------------
Comments ==
  {[Mark("comment") EXCEPT !.text = <<"//">>, !.ends = TRUE, !.nl = nl] : nl \in BOOLEAN}
    \cup {[Mark("comment") EXCEPT !.text = <<"/**/">>]}

Put(text, i, token) == SubSeq(text, 1, i - 1) \o <<token>> \o SubSeq(text, i, Len(text))

\* The reader takes a comment anywhere but before a colon and in an empty array.
Allowed(text, i) ==
  /\ i <= Len(text) => text[i].type # ":"
  /\ (i \in 2..Len(text)) => ~(text[i - 1].type = "[" /\ text[i].type = "]")

Commented(d) ==
  {[text |-> Put(d.text, i, c), meaning |-> IF Allowed(d.text, i) THEN d.meaning ELSE {}] :
      i \in 1..(Len(d.text) + 1), c \in Comments}

CommentedTwice(d) == UNION {Commented(e) : e \in Commented(d)}

Spoilt(d) ==
  {[text |-> SubSeq(d.text, 1, i - 1) \o SubSeq(d.text, i + 1, Len(d.text)), meaning |-> {}] :
      i \in DOMAIN d.text}
    \cup {[text |-> Put(d.text, i, t), meaning |-> {}] :
            i \in 1..(Len(d.text) + 1),
            t \in {Mark(x) : x \in {"[", "]", "{", "}", ",", ":", "error"}}
                    \cup {NumberToken(3), StringToken(<<"a">>)}}

MCDocuments ==
  Edge \cup Deep \cup Deeper
    \cup UNION {Commented(d) : d \in Deep \cup Deeper}
    \cup UNION {CommentedTwice(d) : d \in Shallow}
    \cup UNION {Spoilt(d) : d \in Shallow \cup Deeper}
=============================================================================
