------------------------------ MODULE Compile ------------------------------
(***************************************************************************)
(* Compiling one file (Driver.cpp) and what the language server makes of   *)
(* it (VirtualDocument.cpp, SemanticTokens.cpp).  Everything but the       *)
(* parser is a function of the file and of the parser's result, so the     *)
(* only steps are the parser's; the rest is read off the state in which it *)
(* has finished.                                                           *)
(***************************************************************************)
EXTENDS Backends

Ln(i) == CASE i = 0 -> 1
           [] i = Eof -> 1 + (IF source = <<>> THEN 0 ELSE Last(source).ln)
           [] OTHER -> source[i].ln

-----------------------------------------------------------------------------
(* ImportResolver.cpp.                                                     *)

\* `import` and the first token after it, comments aside, if that is a word.
NextToken(i) == CHOOSE j \in (i + 1)..Eof : Kind(j) # "note" /\ \A x \in (i + 1)..(j - 1) : Kind(x) = "note"
Imports ==
  {[at |-> i, name |-> NextToken(i)] :
     i \in {j \in DOMAIN source : Kind(j) = "id" /\ Text(j) = "import" /\ Kind(NextToken(j)) = "id"}}
Resolved(import) == Text(import.name) \in file.found

-----------------------------------------------------------------------------
(* Driver.cpp: CompileFile.  Only C++ files report imports nobody can find *)
(* and only they are generated.                                            *)

Diagnostic(what, at) == [what |-> what, at |-> at]
Diagnostics ==
  {Diagnostic("import", i.at) : i \in {j \in Imports : file.host = "cpp" /\ ~Resolved(j)}}
    \cup {Diagnostic("parse", e) : e \in ToSet(errors)}
    \cup UNION {Validate(b.root, {Text(i.name) : i \in Imports}) : b \in ToSet(blocks)}
    \cup IF file.host = "cpp" THEN UNION {EmitErrors(b.root) : b \in ToSet(blocks)} ELSE {}
Accepted == Parsed /\ Diagnostics = {}

\* The output as a sequence of items: tokens of the source, line breaks and what
\* the driver writes itself.
Break == [k |-> "break"]
Breaks(n) == [x \in 1..n |-> Break]
Directive(line) == [k |-> "line", line |-> line]
CopiedToken(i) == [k |-> "token", i |-> i]

\* The source text behind token e and before token i.
Copied(e, i) ==
  FlattenSeq([x \in 1..(i - e) |->
    Breaks(Ln(e + x) - Ln(e + x - 1)) \o (IF e + x < i THEN <<CopiedToken(e + x)>> ELSE <<>>)])

\* Line breaks inside the generated expression: those of the `{ }` hatches copied
\* into it.  Everything else is written on one line.
RECURSIVE EmittedBreaks(_)
EmittedBreaks(node) ==
  LET values == EmittedValues(node)
      breaks(v) == IF v.kind = "hatch" /\ v.from <= v.to THEN Ln(v.to) - Ln(v.from) ELSE 0
      elements == EmittedChildren(node) \cup UNION {JsxElements(v) : v \in values}
  IN  MapThenSumSet(breaks, values) + MapThenSumSet(LAMBDA e : EmittedBreaks(e), elements)

ImportEdit(i) == [start |-> i.at, end |-> i.name, text |-> <<[k |-> "include", name |-> Text(i.name)]>>]
\* Mutant: the lines go on from the start of the block.
BlockEditStart(b) ==
  [start |-> b.at, end |-> b.end,
   text |-> <<[k |-> "return", root |-> b.at]>> \o Breaks(EmittedBreaks(b.root) + 1)
              \o <<Directive(Ln(b.at)), Break>>]

BlockEdit(b) ==
  [start |-> b.at, end |-> b.end,
   text |-> <<[k |-> "return", root |-> b.at]>> \o Breaks(EmittedBreaks(b.root) + 1)
              \o <<Directive(Ln(b.end)), Break>>]

\* Mutant: the edits are made as they were collected, imports before blocks.
EditsUnsorted ==
  LET ByStart(a, b) == a.start < b.start
  IN  Sorted({ImportEdit(i) : i \in Imports}, ByStart) \o Sorted({BlockEdit(b) : b \in ToSet(blocks)}, ByStart)

Edits == Sorted({ImportEdit(i) : i \in Imports} \cup {BlockEdit(b) : b \in ToSet(blocks)},
                      LAMBDA a, b : a.start < b.start)

\* The source with the edits made.  An edit that starts before the end of the one
\* before it makes `StartOffset - Cursor` wrap: the whole rest is copied.
Spliced ==
  LET apply(acc, edit) ==
        [cursor |-> edit.end,
         out |-> acc.out \o Copied(acc.cursor, IF edit.start > acc.cursor THEN edit.start ELSE Eof)
                         \o edit.text]
      last == FoldLeft(apply, [cursor |-> 0, out |-> <<>>], Edits)
  IN  last.out \o Copied(last.cursor, Eof)
Output == <<[k |-> "pragma once"], Break, Directive(1), Break>> \o Spliced

-----------------------------------------------------------------------------
(* IrisIr.cpp: BuildIrisIr.  The document of a Nyx file: its blocks, and   *)
(* the gaps between them as host source.                                   *)

NyxSource(e, i) ==
  IF Copied(e, i) = <<>> /\ ~(i # Eof /\ source[i].ws) THEN <<>>
  ELSE <<[kind |-> "nyx_source", location |-> e + 1, source |-> Copied(e, i)]>>
RenderBlock(b) ==
  [kind |-> "render_block", root |-> SerializeElement(b.root), location |-> b.at, endLocation |-> b.end]
Body ==
  LET add(acc, b) == [cursor |-> b.end,
                      out |-> acc.out \o NyxSource(acc.cursor, b.at) \o <<RenderBlock(b)>>]
      last == FoldLeft(add, [cursor |-> 0, out |-> <<>>], blocks)
  IN  last.out \o NyxSource(last.cursor, Eof)
SerializeImport(i) == [kind |-> "import", name |-> Text(i.name), resolvedPath |-> Text(i.name), location |-> i.at]
BuildIrisIr ==
  [kind |-> "document", version |-> "1.0", sourceFile |-> "App.irisx", hostLanguage |-> "nyx",
   imports |-> {SerializeImport(i) : i \in {j \in Imports : Resolved(j)}}, body |-> Body]

-----------------------------------------------------------------------------
(* VirtualDocument.cpp: lines of the generated file and of the source.     *)

\* The line of an output on which item x stands.
GeneratedLine(output, x) == 1 + Len(SelectSeq(SubSeq(output, 1, x - 1), LAMBDA item : item.k = "break"))
LineSegments(output) ==
  Sorted({[generated |-> GeneratedLine(output, x) + 1, source |-> output[x].line] :
                  x \in {y \in DOMAIN output : output[y].k = "line"}},
               LAMBDA a, b : a.generated < b.generated)
\* The last segment before the first that starts behind the line.
Owner(segments, side, line) ==
  LET behind == {s \in DOMAIN segments : segments[s][side] > line}
  IN  segments[IF behind = {} THEN Len(segments) ELSE Min(behind) - 1]
ToGenerated(segments, line) ==
  LET owner == Owner(segments, "source", line) IN owner.generated + (line - owner.source)
ToSource(segments, line) ==
  LET owner == Owner(segments, "generated", line) IN owner.source + (line - owner.generated)

-----------------------------------------------------------------------------
(* SemanticTokens.cpp, and the delta encoding of                           *)
(* Server::HandleSemanticTokensFull.  A token is as wide as its text.      *)

Width(i) == Len(Text(i))
Column(i) ==
  LET before == {x \in 1..(i - 1) : source[x].ln = source[i].ln}
      spaces == {x \in 1..i : source[x].ln = source[i].ln /\ source[x].ws}
  IN  1 + MapThenSumSet(Width, before) + Cardinality(spaces)

Highlight(i, shift, width, type) ==
  [line |-> source[i].ln, column |-> Column(i) + shift, width |-> width, type |-> type]

\* Of the opening tag, which the closing one is given too.
TagWidth(node) == Width(node.tag)

RECURSIVE WalkElement(_)
WalkPropValue(v) ==
  CASE v.kind = "literal" -> {Highlight(v.at, 0, Width(v.at), "string")}
    [] v.kind = "jsx" -> UNION {WalkElement(e) : e \in JsxElements(v)}
    [] OTHER -> {}
WalkElement(node) ==
  {Highlight(node.at, 1, TagWidth(node), "type")}
    \cup {Highlight(p.at, 0, Width(p.at), "property") : p \in ToSet(node.props)}
    \cup UNION {WalkPropValue(v) : v \in PropValues(node.props) \cup KeyRef(node) \cup HatchesOf(node.children)}
    \cup UNION {WalkElement(e) : e \in ElementsOf(node.children)}
    \cup (IF node.close = 0 THEN {} ELSE {Highlight(node.close, 0, TagWidth(node), "type")})
CollectRenderBlockSemanticTokens ==
  Sorted(UNION {WalkElement(b.root) : b \in ToSet(blocks)},
               LAMBDA a, b : a.line < b.line \/ (a.line = b.line /\ a.column < b.column))

\* Mutant: columns relative to the token before also on a new line.
EncodedAcrossLines ==
  LET tokens == CollectRenderBlockSemanticTokens
      delta(x) == [lines |-> tokens[x].line - (IF x = 1 THEN 1 ELSE tokens[x - 1].line),
                   chars |-> tokens[x].column - (IF x = 1 THEN 1 ELSE tokens[x - 1].column),
                   width |-> tokens[x].width, type |-> tokens[x].type]
  IN  [x \in DOMAIN tokens |-> delta(x)]

\* What is sent: each token relative to the one before it, lines and columns from 0.
Encoded ==
  LET tokens == CollectRenderBlockSemanticTokens
      delta(x) ==
        LET line == IF x = 1 THEN 0 ELSE tokens[x - 1].line - 1
            char == IF x = 1 THEN 0 ELSE tokens[x - 1].column - 1
            lines == tokens[x].line - 1 - line
        IN  [lines |-> lines, width |-> tokens[x].width, type |-> tokens[x].type,
             chars |-> tokens[x].column - 1 - (IF lines = 0 THEN char ELSE 0)]
  IN  [x \in DOMAIN tokens |-> delta(x)]
-----------------------------------------------------------------------------
(* Properties.                                                             *)

\* The text of a tree, attributes in the order of their values.
RECURSIVE WrittenElement(_)
WrittenValue(v) ==
  CASE v.kind = "literal" -> <<Text(v.at)>>
    [] v.kind = "hatch" -> <<"{">> \o Code(v.from, v.to) \o <<"}">>
    [] v.kind = "jsx" ->
         <<"!", "{">> \o FlattenSeq([x \in DOMAIN v.segs |->
                           IF v.segs[x].kind = "text" THEN Words(v.segs[x].words)
                                                      ELSE WrittenElement(v.segs[x].node)])
                      \o <<"}">>
WrittenChild(c) ==
  CASE c.kind = "text" -> Words(c.words)
    [] c.kind = "element" -> WrittenElement(c.node)
    [] c.kind = "hatch" -> WrittenValue(c.value)
WrittenElement(node) ==
  LET named(name, values) == {[name |-> name, value |-> v] : v \in ToSet(values)}
      attributes == Sorted({[name |-> p.name, value |-> p.value] : p \in ToSet(node.props)}
                                   \cup named("key", node.key) \cup named("ref", node.ref),
                                 LAMBDA a, b : a.value.at < b.value.at)
      inside == FlattenSeq([x \in DOMAIN attributes |->
                  <<attributes[x].name, "=">> \o WrittenValue(attributes[x].value)])
      children == FlattenSeq([x \in DOMAIN node.children |-> WrittenChild(node.children[x])])
  IN  <<"<", Text(node.tag)>> \o inside
        \o IF node.close = 0 THEN <<"/", ">">>
           ELSE <<">">> \o children \o <<"<", "/", Text(node.close), ">">>

\* A file accepted without an error is in the tree completely: writing each block's
\* tree gives the block's tokens back, in their order and without its comments.
\* No lookahead, flush or error path loses, repeats or moves a token.
AcceptedIsWritten ==
  Parsed /\ errors = <<>> =>
    \A b \in ToSet(blocks) :
      <<"render", "{">> \o WrittenElement(b.root) \o <<"}">> = Code(b.at, b.end)

InBlock(i) == \E b \in ToSet(blocks) : i \in b.at..b.end
InImport(i) == \E import \in Imports : i \in import.at..import.name
TokensOf(items) ==
  LET tokens == SelectSeq(items, LAMBDA item : item.k = "token")
  IN  [x \in DOMAIN tokens |-> tokens[x].i]

\* Compiling never touches the host program around the blocks.  In the C++ output
\* each of its tokens stands once and in order, but for the imports, which became
\* includes, wherever they stand between the blocks and behind them.  The exception is a file
\* with the word `import` in the text of an element: ScanImports takes it for one,
\* its edit lies within the block's, and Output repeats host code.  The document
\* of a Nyx file is the file, block after gap after block, with nothing between its
\* nodes or in two of them, and the reader accepts it, with no exception.  Edits out
\* of order, or a cursor left in the wrong place, would lose or repeat host code.
ImportsOutside == \A import \in Imports : ~InBlock(import.at)
HostKept ==
  Accepted =>
    IF file.host = "cpp"
    THEN ImportsOutside => TokensOf(Output) = SelectSeq([i \in DOMAIN source |-> i], LAMBDA i : ~InBlock(i) /\ ~InImport(i))
    ELSE LET covered(node) == IF node.kind = "nyx_source" THEN TokensOf(node.source)
                              ELSE [x \in 1..(node.endLocation + 1 - node.location) |-> node.location + x - 1]
         IN  /\ FlattenSeq([x \in DOMAIN Body |-> covered(Body[x])]) = [i \in DOMAIN source |-> i]
             /\ \A x \in DOMAIN Body : Body[x].kind = "nyx_source" => x = 1 \/ Body[x - 1].kind = "render_block"
             /\ DocumentErrors(BuildIrisIr) = {}

\* C++ compiler messages and clangd's positions come back on the line the user wrote:
\* every host token of the output stands on a line that #line (and the language
\* server's segments) give its own line in the source, whatever the generated
\* expressions before it collapse or spread over; and the language server asks clangd
\* about it there, but for a token before a block that ends on the token's line: that
\* line belongs to the segment behind the block.  Holds while an import and its name
\* share a line and none is in a block.
OneLineImports == \A import \in Imports : Ln(import.at) = Ln(import.name)
BeforeBlockEnd(i) == \E b \in ToSet(blocks) : i < b.at /\ Ln(b.end) = Ln(i)
LinesKept ==
  Accepted /\ file.host = "cpp" /\ OneLineImports /\ ImportsOutside =>
    LET output == Output
        segments == LineSegments(output)
    IN  \A x \in {y \in DOMAIN output : output[y].k = "token"} :
          LET i == output[x].i
              line == GeneratedLine(output, x)
          IN  /\ ToSource(segments, line) = Ln(i)
              /\ BeforeBlockEnd(i) \/ ToGenerated(segments, Ln(i)) = line

\* What the editor decodes, also for a file that does not compile: highlights in the
\* order of the text that do not overlap, and each that is not empty covers one
\* token of its kind.  There are two exceptions: a tag that does not follow its `<`
\* directly, and a closing tag of another name than the opening one, whose highlight
\* starts where it should and has the width of the opening one.
Decoded(encoded) ==
  LET step(acc, d) == LET line == Last(acc).line + d.lines
                          column == d.chars + IF d.lines = 0 THEN Last(acc).column ELSE 1
                      IN  Append(acc, [line |-> line, column |-> column, width |-> d.width, type |-> d.type])
  IN  Tail(FoldLeft(step, <<[line |-> 1, column |-> 1]>>, encoded))
KindOfType == [type |-> "id", property |-> "id", string |-> "str"]
RECURSIVE NodesIn(_)
NodesIn(node) ==
  LET values == PropValues(node.props) \cup KeyRef(node) \cup HatchesOf(node.children)
  IN  {node} \cup UNION {NodesIn(e) : e \in ElementsOf(node.children) \cup UNION {JsxElements(v) : v \in values}}
MisnamedClosings ==
  {node.close : node \in {n \in UNION {NodesIn(b.root) : b \in ToSet(blocks)} :
                            n.close # 0 /\ Text(n.close) # Text(n.tag)}}
Covers(h, i) ==
  /\ h.line = source[i].ln /\ h.column = Column(i)
  /\ h.width = Width(i) \/ i \in MisnamedClosings
  /\ Kind(i) = KindOfType[h.type]
  /\ h.type = "type" => i > 1 /\ Text(i - 1) \in {"<", "/"}
  /\ h.type = "property" => Text(NextToken(i)) = "="
TagsFollow == \A i \in DOMAIN source : i > 1 /\ Text(i - 1) = "<" => ~source[i].ws /\ Kind(i) # "note"
HighlightsFit ==
  Parsed /\ TagsFollow =>
    LET shown == Decoded(Encoded)
    IN  /\ \A h \in ToSet(shown) : h.width > 0 => \E i \in DOMAIN source : Covers(h, i)
        /\ \A x \in 1..(Len(shown) - 1) :
             \/ shown[x].line < shown[x + 1].line
             \/ /\ shown[x].line = shown[x + 1].line
                /\ shown[x].column < shown[x + 1].column
                /\ \/ shown[x].column + shown[x].width <= shown[x + 1].column
                   \/ \E i \in MisnamedClosings : Covers(shown[x], i)
=============================================================================
