------------------------- MODULE RenderBlockParser -------------------------
(***************************************************************************)
(* The parser of `render { }` blocks (src/src/Iris/RenderBlockParser.cpp)  *)
(* over a tokenised source file.  A token is a record                      *)
(*   [k |-> kind, t |-> text, ln |-> line, ws |-> whitespace before it]    *)
(* and every position the program keeps (a line and a column, or a byte    *)
(* offset) is the index of the token that starts there; Len(source) + 1 is *)
(* the end of the file.  The recursive descent is a stack of frames, one   *)
(* per call of ParseRenderBlock, ParseElementAfterLAngle and               *)
(* ParseJsxEscapeHatch; every iteration of their loops is a step.          *)
(***************************************************************************)
EXTENDS Integers, Sequences, SequencesExt

CONSTANT Files    \* the source files: records [host, target, found, tokens]

\* Comments are notes; characters without a class of their own are punct.
TokenKinds == {"id", "str", "note", "punct", "open", "close"}
ASSUME FilesAssumption ==
  \A f \in Files : f.tokens \in Seq([k : TokenKinds, t : STRING, ln : Nat, ws : BOOLEAN])

VARIABLES file,   \* the file being read, never changed
          reader, \* the token reader below the parser
          stack,  \* calls in progress, innermost last
          blocks, \* Blocks_
          errors  \* positions of Errors_

vars == <<file, reader, stack, blocks, errors>>

source == file.tokens
Eof == Len(source) + 1
Kind(i) == IF i \in 1..Len(source) THEN source[i].k ELSE "eof"
Text(i) == IF i \in 1..Len(source) THEN source[i].t ELSE ""
Punct(i, c) == Kind(i) = "punct" /\ Text(i) = c

\* The elements of a set, each of which comes before the next.
Sorted(set, Before(_, _)) ==
  [x \in 1..Cardinality(set) |-> CHOOSE e \in set : Cardinality({d \in set : Before(d, e)}) = x - 1]

-----------------------------------------------------------------------------
(* The reader: the host tokenizer's position, Pending_, Lookahead_ (0 when *)
(* empty) and Current_.                                                    *)

\* The last token of the raw token that starts at i: the C++ tokenizer joins
\* everything up to the next word, string, comment or brace, the Nyx one joins
\* nothing here.
RawEnd(i) ==
  IF file.host = "cpp" /\ Kind(i) = "punct"
  THEN CHOOSE j \in i..Len(source) : /\ \A x \in i..j : Kind(x) = "punct"
                                     /\ Kind(j + 1) # "punct"
  ELSE i

Advance(r) ==
  IF r.look # 0 THEN [r EXCEPT !.cur = r.look, !.look = 0]
  ELSE IF r.pending # <<>>
  THEN [r EXCEPT !.cur = Head(r.pending), !.pending = Tail(r.pending)]
  ELSE LET first == CHOOSE i \in r.next..Eof : /\ Kind(i) # "note"
                                               /\ \A x \in r.next..(i - 1) : Kind(x) = "note"
           last == RawEnd(first)
       IN  [next    |-> IF first = Eof THEN Eof ELSE last + 1,
            pending |-> [x \in 1..(last - first) |-> first + x],
            look    |-> 0,
            cur     |-> first]

PeekNext(r) ==
  IF r.look # 0 THEN r
  ELSE LET after == Advance(r) IN [after EXCEPT !.look = after.cur, !.cur = r.cur]

PrecededByWhitespace(i) == i > 1 /\ (Kind(i - 1) = "note" \/ (i < Eof /\ source[i].ws))

\* The peek of IsJsxEscapeHatchStart stays in Lookahead_ whatever its answer.
JsxPeek(r) == IF Punct(r.cur, "!") THEN PeekNext(r) ELSE r
JsxStart(r) == Punct(r.cur, "!") /\ Kind(PeekNext(r).look) = "open"

-----------------------------------------------------------------------------
(* Trees: an element, its values and its children.                         *)

Element(at) == [tag |-> 0, at |-> at, props |-> <<>>, key |-> <<>>, ref |-> <<>>,
                children |-> <<>>, close |-> 0]
Literal(at) == [kind |-> "literal", at |-> at]
Hatch(at, from, to) == [kind |-> "hatch", at |-> at, from |-> from, to |-> to]
Jsx(at, segs) == [kind |-> "jsx", at |-> at, segs |-> segs]
TextChild(words) == [kind |-> "text", at |-> Head(words), words |-> words]
ElementChild(node) == [kind |-> "element", at |-> node.at, node |-> node]
HatchChild(value) == [kind |-> "hatch", at |-> value.at, value |-> value]

\* What is written there, comments aside.
Words(words) == [x \in DOMAIN words |-> Text(words[x])]
Code(from, to) == Words(SelectSeq([x \in 1..(to + 1 - from) |-> from + x - 1],
                                  LAMBDA i : Kind(i) # "note"))

\* Frames.
Block(at) == [f |-> "block", at |-> at]
Recovery(at) == [f |-> "recover", at |-> at, depth |-> 1]
ElementFrame(at) == [f |-> "element", stage |-> "tag", node |-> Element(at), name |-> 0, text |-> <<>>]
JsxFrame(at) == [f |-> "jsx", at |-> at, depth |-> 1, segs |-> <<>>, text |-> <<>>]

top == Last(stack)
below == Front(stack)
\* The innermost call goes on as frame g.
Become(g) == Append(below, g)

FlushChildren(g) ==
  IF g.text = <<>> THEN g.node.children ELSE Append(g.node.children, TextChild(g.text))
Flushed(g) == [g EXCEPT !.node.children = FlushChildren(g), !.text = <<>>]
\* Mutant: the text behind the last element is not flushed.
FlushSegsLost(g) == g.segs

FlushSegs(g) ==
  IF g.text = <<>> THEN g.segs ELSE Append(g.segs, [kind |-> "text", words |-> g.text])

\* A value returned to the element that asked for it: its current prop, or a
\* child when it asked from ParseChildren.
GiveValue(g, value) ==
  IF g.stage = "children"
  THEN [g EXCEPT !.node.children = Append(g.node.children, HatchChild(value))]
  ELSE CASE Text(g.name) = "key" -> [g EXCEPT !.node.key = <<value>>]
         [] Text(g.name) = "ref" -> [g EXCEPT !.node.ref = <<value>>]
         [] OTHER -> [g EXCEPT !.node.props =
                        Append(g.node.props, [name |-> Text(g.name), at |-> g.name, value |-> value])]

\* An element returned to the call that started it.
GiveElement(g, node) ==
  CASE g.f = "element" -> [g EXCEPT !.node.children = Append(g.node.children, ElementChild(node))]
    [] g.f = "jsx" -> [g EXCEPT !.segs = Append(g.segs, [kind |-> "element", node |-> node])]
    [] OTHER -> [f |-> "closing", at |-> g.at, root |-> node]

ReturnTo(stk, g) == Append(Front(stk), g)
Return(node) == ReturnTo(below, GiveElement(Last(below), node))

-----------------------------------------------------------------------------
Init ==
  /\ file \in Files
  /\ reader = [next |-> 1, pending |-> <<>>, look |-> 0, cur |-> 0]
  /\ stack = <<>>
  /\ blocks = <<>>
  /\ errors = <<>>

cur == reader.cur
Parsing == cur # 0
Fail(at) == errors' = Append(errors, at)

\* Parse primes Current_ ...
Prime ==
  /\ cur = 0
  /\ reader' = Advance(reader)
  /\ UNCHANGED <<file, stack, blocks, errors>>

\* ... and looks for `render {`.
Scan ==
  /\ Parsing /\ stack = <<>> /\ cur # Eof
  /\ LET next == Advance(reader)
     IN  IF Kind(cur) = "id" /\ Text(cur) = "render" /\ Kind(next.cur) = "open"
         THEN reader' = Advance(next) /\ stack' = <<Block(cur)>>
         ELSE reader' = next /\ UNCHANGED stack
  /\ UNCHANGED <<file, blocks, errors>>

In(f) == Parsing /\ stack # <<>> /\ top.f = f

\* ParseRenderBlock: the root element starts, or there is none.
StartRoot ==
  /\ In("block")
  /\ IF Punct(cur, "<")
     THEN /\ reader' = Advance(reader)
          /\ stack' = Append(stack, ElementFrame(cur))
          /\ UNCHANGED errors
     ELSE stack' = <<Recovery(top.at)>> /\ Fail(cur) /\ UNCHANGED reader
  /\ UNCHANGED <<file, blocks>>

\* ParseRenderBlock after its root: the block ends, or something follows the root.
EndBlock ==
  /\ In("closing")
  /\ IF Kind(cur) = "close"
     THEN /\ blocks' = Append(blocks, [root |-> top.root, at |-> top.at, end |-> cur])
          /\ reader' = Advance(reader)
          /\ stack' = <<>>
          /\ UNCHANGED errors
     ELSE stack' = <<Recovery(top.at)>> /\ Fail(cur) /\ UNCHANGED <<reader, blocks>>
  /\ UNCHANGED file

\* Mutant: recovery stops at the first brace that closes.
RecoverToAnyEnd ==
  /\ In("recover")
  /\ LET ends == Kind(cur) \in {"eof", "close"}
     IN  /\ stack' = IF ends THEN <<>> ELSE stack
         /\ reader' = IF Kind(cur) = "eof" THEN reader ELSE Advance(reader)
  /\ UNCHANGED <<file, blocks, errors>>

\* One iteration of RecoverToBlockEnd; the brace that ends the block is consumed.
RecoverToBlockEnd ==
  /\ In("recover")
  /\ LET depth == CASE Kind(cur) = "open" -> top.depth + 1
                    [] Kind(cur) = "close" -> top.depth - 1
                    [] OTHER -> top.depth
         ends == Kind(cur) = "eof" \/ depth = 0
     IN  /\ stack' = IF ends THEN <<>> ELSE <<[top EXCEPT !.depth = depth]>>
         /\ reader' = IF Kind(cur) = "eof" THEN reader ELSE Advance(reader)
  /\ UNCHANGED <<file, blocks, errors>>

-----------------------------------------------------------------------------
(* ParseElementAfterLAngle.                                                *)

InElement(stage) == In("element") /\ top.stage = stage

\* An error leaves the cursor where it is and returns the element so far.
Abandon == stack' = Return(top.node) /\ Fail(cur) /\ UNCHANGED reader

TagName ==
  /\ InElement("tag")
  /\ IF Kind(cur) = "id"
     THEN /\ stack' = Become([top EXCEPT !.node.tag = cur, !.stage = "props"])
          /\ reader' = Advance(reader)
          /\ UNCHANGED errors
     ELSE Abandon
  /\ UNCHANGED <<file, blocks>>

SelfClose ==
  /\ InElement("props") /\ Punct(cur, "/")
  /\ LET next == Advance(reader)
     IN  IF Punct(next.cur, ">")
         THEN reader' = Advance(next) /\ UNCHANGED errors
         ELSE reader' = next /\ Fail(next.cur)
  /\ stack' = Return(top.node)
  /\ UNCHANGED <<file, blocks>>

EndOpeningTag ==
  /\ InElement("props") /\ Punct(cur, ">")
  /\ reader' = Advance(reader)
  /\ stack' = Become([top EXCEPT !.stage = "children"])
  /\ UNCHANGED <<file, blocks, errors>>

\* A prop's name and its `=`; the value follows.
PropName ==
  /\ InElement("props") /\ ~Punct(cur, "/") /\ ~Punct(cur, ">")
  /\ LET next == Advance(reader)
     IN  CASE Kind(cur) # "id" -> Abandon
           [] Kind(cur) = "id" /\ Punct(next.cur, "=") ->
                /\ reader' = Advance(next)
                /\ stack' = Become([top EXCEPT !.name = cur, !.stage = "value"])
                /\ UNCHANGED errors
           [] OTHER -> reader' = next /\ stack' = Return(top.node) /\ Fail(next.cur)
  /\ UNCHANGED <<file, blocks>>

\* The close brace that ends a hatch opened just before raw token `from`, found
\* by counting raw braces; Eof when there is none.
Opens(from, to) == Cardinality({x \in from..to : Kind(x) = "open"})
Closes(from, to) == Cardinality({x \in from..to : Kind(x) = "close"})
HatchEnd(from) ==
  CHOOSE e \in from..Eof :
    /\ e = Eof \/ Closes(from, e) = Opens(from, e) + 1
    /\ \A x \in from..(e - 1) : Closes(from, x) <= Opens(from, x)

\* ParseEscapeHatch: the value, and the reader after it.  It reads raw tokens,
\* past whatever the parser has read ahead.
EscapeHatch(r) == Hatch(r.cur, r.cur + 1, HatchEnd(r.next) - 1)
AfterHatch(r) ==
  LET e == HatchEnd(r.next)
  IN  Advance([r EXCEPT !.next = IF e = Eof THEN Eof ELSE e + 1])
HatchErrors(r) == IF HatchEnd(r.next) = Eof THEN Append(errors, r.cur) ELSE errors

\* ParsePropValue.  A missing value is an error, but the element goes on with an
\* empty hatch and nothing is consumed.
PropLiteral ==
  /\ InElement("value") /\ Kind(cur) = "str"
  /\ stack' = Become([GiveValue(top, Literal(cur)) EXCEPT !.stage = "props"])
  /\ reader' = Advance(reader)
  /\ UNCHANGED <<file, blocks, errors>>

PropHatch ==
  /\ InElement("value") /\ Kind(cur) = "open"
  /\ stack' = Become([GiveValue(top, EscapeHatch(JsxPeek(reader))) EXCEPT !.stage = "props"])
  /\ reader' = AfterHatch(JsxPeek(reader))
  /\ errors' = HatchErrors(JsxPeek(reader))
  /\ UNCHANGED <<file, blocks>>

\* Mutant: the element goes on waiting for the value it did not get.
PropMissingAgain ==
  /\ InElement("value") /\ Kind(cur) \notin {"str", "open"} /\ ~JsxStart(reader)
  /\ reader' = JsxPeek(reader)
  /\ Fail(cur)
  /\ UNCHANGED <<file, stack, blocks>>

PropMissing ==
  /\ InElement("value") /\ Kind(cur) \notin {"str", "open"} /\ ~JsxStart(reader)
  /\ stack' = Become([GiveValue(top, Hatch(cur, cur, cur - 1)) EXCEPT !.stage = "props"])
  /\ reader' = JsxPeek(reader)
  /\ Fail(cur)
  /\ UNCHANGED <<file, blocks>>

-----------------------------------------------------------------------------
(* ParseJsxEscapeHatch, entered from a prop value or from a child.         *)

StartJsx ==
  /\ In("element") /\ top.stage \in {"value", "children"} /\ JsxStart(reader)
  /\ stack' = Append(Become(IF top.stage = "children" THEN Flushed(top) ELSE top), JsxFrame(cur))
  /\ reader' = Advance(Advance(PeekNext(reader)))
  /\ UNCHANGED <<file, blocks, errors>>

\* The hatch ends at its own `}`, or at the end of the file.
EndJsx ==
  /\ In("jsx") /\ (Kind(cur) = "eof" \/ (Kind(cur) = "close" /\ top.depth = 1))
  /\ LET value == Jsx(top.at, FlushSegs(top))
         caller == GiveValue(Last(below), value)
     IN  stack' = ReturnTo(below, [caller EXCEPT !.stage = IF @ = "value" THEN "props" ELSE @])
  /\ IF Kind(cur) = "eof" THEN Fail(top.at) /\ UNCHANGED reader
                          ELSE reader' = Advance(reader) /\ UNCHANGED errors
  /\ UNCHANGED <<file, blocks>>

\* `<` starts an element after whitespace or `(`, if a name follows; otherwise it
\* is an operator of the host language.
CanStartJsx == PrecededByWhitespace(cur) \/ (top.text # <<>> /\ Punct(Last(top.text), "("))
JsxElementStart == Punct(cur, "<") /\ CanStartJsx /\ Kind(PeekNext(reader).look) = "id"

\* The blank appended before the element makes a segment of its own where there is
\* no text.
JsxElement ==
  /\ In("jsx") /\ JsxElementStart
  /\ stack' = Append(Become([top EXCEPT !.segs = Append(@, [kind |-> "text", words |-> top.text]),
                                        !.text = <<>>]),
                     ElementFrame(cur))
  /\ reader' = Advance(PeekNext(reader))
  /\ UNCHANGED <<file, blocks, errors>>

JsxText ==
  /\ In("jsx") /\ Kind(cur) # "eof" /\ ~JsxElementStart
  /\ ~(Kind(cur) = "close" /\ top.depth = 1)
  /\ stack' = Become([top EXCEPT !.text = Append(@, cur),
                                 !.depth = CASE Kind(cur) = "open" -> @ + 1
                                             [] Kind(cur) = "close" -> @ - 1
                                             [] OTHER -> @])
  /\ reader' = Advance(IF Punct(cur, "<") /\ CanStartJsx THEN PeekNext(reader) ELSE reader)
  /\ UNCHANGED <<file, blocks, errors>>

-----------------------------------------------------------------------------
(* ParseChildren.                                                          *)

\* `<` starts a child, or is the first half of a closing tag.
ChildElement ==
  /\ InElement("children") /\ Punct(cur, "<")
  /\ LET next == Advance(reader)
     IN  /\ ~Punct(next.cur, "/")
         /\ reader' = next
         /\ stack' = Append(Become(Flushed(top)), ElementFrame(cur))
  /\ UNCHANGED <<file, blocks, errors>>

\* A closing tag ends the element whatever its name; a wrong or missing name and a
\* missing `>` are errors.
ClosingTag ==
  /\ InElement("children") /\ Punct(cur, "<") /\ Punct(Advance(reader).cur, "/")
  /\ LET name == Advance(Advance(reader))
         named == Kind(name.cur) = "id"
         angle == IF named THEN Advance(name) ELSE name
         closed == Punct(angle.cur, ">")
         matches == named /\ Text(name.cur) = Text(top.node.tag)
         g == Flushed(top)
     IN  /\ reader' = IF closed THEN Advance(angle) ELSE angle
         /\ errors' = errors \o (IF named THEN <<>> ELSE <<name.cur>>)
                             \o (IF closed THEN <<>> ELSE <<angle.cur>>)
                             \o (IF matches THEN <<>> ELSE <<cur>>)
         /\ stack' = Return(IF named THEN [g.node EXCEPT !.close = name.cur] ELSE g.node)
  /\ UNCHANGED <<file, blocks>>

ChildHatch ==
  /\ InElement("children") /\ Kind(cur) = "open"
  /\ stack' = Become(GiveValue(Flushed(top), EscapeHatch(JsxPeek(reader))))
  /\ reader' = AfterHatch(JsxPeek(reader))
  /\ errors' = HatchErrors(JsxPeek(reader))
  /\ UNCHANGED <<file, blocks>>

\* A `}` or the end of the file where a closing tag should be.
Unterminated ==
  /\ InElement("children") /\ Kind(cur) \in {"close", "eof"}
  /\ stack' = Return(Flushed(top).node)
  /\ Fail(cur)
  /\ UNCHANGED <<file, reader, blocks>>

ChildText ==
  /\ InElement("children") /\ Kind(cur) \notin {"open", "close", "eof"}
  /\ ~Punct(cur, "<") /\ ~JsxStart(reader)
  /\ stack' = Become([top EXCEPT !.text = Append(@, cur)])
  /\ reader' = Advance(JsxPeek(reader))
  /\ UNCHANGED <<file, blocks, errors>>

-----------------------------------------------------------------------------
ParseStep ==
  \/ Prime \/ Scan \/ StartRoot \/ EndBlock \/ RecoverToBlockEnd
  \/ TagName \/ SelfClose \/ EndOpeningTag \/ PropName
  \/ PropLiteral \/ PropHatch \/ PropMissing
  \/ StartJsx \/ EndJsx \/ JsxElement \/ JsxText
  \/ ChildElement \/ ClosingTag \/ ChildHatch \/ Unterminated \/ ChildText

Parsed == Parsing /\ stack = <<>> /\ cur = Eof

Next == ParseStep \/ (Parsed /\ UNCHANGED vars)
Spec == Init /\ [][Next]_vars

-----------------------------------------------------------------------------
(* Properties.                                                             *)

\* Whatever is wrong in a block, its parse ends just behind the `}` that matches its
\* `{` by counting braces alone (or at the end of the file): the nested loops,
\* their error returns and RecoverToBlockEnd agree on which braces they have seen,
\* and the code behind a broken block is never taken for part of it.
Nesting(i) == Cardinality({x \in 1..i : Kind(x) = "open"})
                - Cardinality({x \in 1..i : Kind(x) = "close"})
BehindBlock(at) ==
  LET open == CHOOSE i \in at..Eof : Kind(i) = "open" /\ \A x \in at..(i - 1) : Kind(x) # "open"
      ends == {c \in open..Eof : Kind(c) = "eof" \/ Nesting(c) < Nesting(open)}
      end  == CHOOSE c \in ends : \A d \in ends : c <= d
  IN  CHOOSE i \in (end + 1)..(Eof + 1) :
        /\ Kind(i) # "note" \/ i > Eof
        /\ \A x \in (end + 1)..(i - 1) : Kind(x) = "note"
BlockEndsAtBrace ==
  [][stack # <<>> /\ stack' = <<>> => cur' = Eof \/ cur' = BehindBlock(stack[1].at)]_vars

\* The parser ends on every file: a step goes on to a later token, or stays at its
\* token and leaves a call, a value or an attempt at a root behind.  An error return
\* that consumes nothing never leads back to the loop iteration it came from.
Left(frame) == CASE frame.f = "block" -> 3
                 [] frame.f = "closing" -> 2
                 [] frame.f = "element" /\ frame.stage = "value" -> 2
                 [] OTHER -> 1
Tasks(stk) == UNION {{i} \X (1..Left(stk[i])) : i \in DOMAIN stk}
ToLeave == Cardinality(Tasks(stack))
Advances ==
  [][cur' > cur \/ (cur' = cur /\ ToLeave' < ToLeave)]_vars
=============================================================================
