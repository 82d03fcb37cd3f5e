------------------------------ MODULE Backends ------------------------------
(***************************************************************************)
(* What happens to the tree of a render block: validation                  *)
(* (SemanticValidator.cpp), and the two ways it becomes components.        *)
(* A C++ file goes through Codegen.cpp; a Nyx file is serialized           *)
(* (IrisIr.cpp), read again by the runtime (IrisIrDocument.cpp) and        *)
(* converted (IrisIrRuntime.cpp).  Generated code is modelled by the       *)
(* component it constructs when it runs, the values in it as pieces: text, *)
(* host code kept verbatim, and components.                                *)
(***************************************************************************)
EXTENDS RenderBlockParser

Tag(node) == Text(node.tag)

CoreTags == {"Frame", "Inline", "Grid", "Image", "Icon", "Text", "Scroll", "Input", "TextArea",
             "Slot", "Native", "Portal", "Split"}
GatedTags == [Model3d |-> "umbra"]
PropTypes ==
  [class |-> "string", src |-> "string", icon |-> "string", size |-> "float", wheelStep |-> "float",
   direction |-> "string", horizontalWheelStep |-> "float", axis |-> "string", ratio |-> "float",
   minPaneSize |-> "float", handleThickness |-> "float", x |-> "float", y |-> "float",
   width |-> "float", height |-> "float", dismissOnOutsideClick |-> "bool", onDismiss |-> "function",
   text |-> "string", preferredWidth |-> "float", checked |-> "bool", handle |-> "texture",
   onPress |-> "function", onRelease |-> "function", onHover |-> "function", onFocus |-> "function",
   onChange |-> "function", onTextChange |-> "text function"]

Known(p) == p.name \in DOMAIN PropTypes
Leaf == {"Image", "Icon", "Input", "TextArea"}   \* primitives without children
Ordinary == CoreTags \ {"Slot", "Native", "Text"}

Error(what, node) == [what |-> what, at |-> node.at]
When(wrong, what, node) == IF wrong THEN {Error(what, node)} ELSE {}

\* The elements inside a value: only `!{ }` has any.
JsxElements(v) ==
  IF v.kind = "jsx" THEN {seg.node : seg \in {s \in ToSet(v.segs) : s.kind = "element"}} ELSE {}
ElementsOf(children) == {c.node : c \in {d \in ToSet(children) : d.kind = "element"}}
HatchesOf(children) == {c.value : c \in {d \in ToSet(children) : d.kind = "hatch"}}
PropValues(props) == {p.value : p \in ToSet(props)}
KeyRef(node) == ToSet(node.key) \cup ToSet(node.ref)
NestedElements(node) ==
  ElementsOf(node.children)
    \cup UNION {JsxElements(v) : v \in KeyRef(node) \cup PropValues(node.props) \cup HatchesOf(node.children)}

-----------------------------------------------------------------------------
(* SemanticValidator.cpp.                                                  *)

OutOfScope(tag, imported) ==
  /\ tag \notin CoreTags
  /\ IF tag \in DOMAIN GatedTags THEN file.target # GatedTags[tag] ELSE tag \notin imported

Has(node, name) == \E p \in ToSet(node.props) : p.name = name

RECURSIVE Validate(_, _)
Validate(node, imported) ==
  When(OutOfScope(Tag(node), imported), "scope", node)
    \cup When(Has(node, "style"), "style", node)
    \cup When(Tag(node) = "Text" /\ Has(node, "font"), "font", node)
    \cup UNION {Validate(e, imported) : e \in NestedElements(node)}

-----------------------------------------------------------------------------
(* Components.                                                             *)

Component(tag, props, children) ==
  [tag |-> tag, props |-> props, children |-> children,
   slot |-> <<>>, native |-> <<>>, key |-> <<>>, ref |-> <<>>]
NoProps == <<>>
TextComponent(pieces) == Component("Text", [text |-> pieces], <<>>)

String(words) == <<[string |-> words]>>
HostCode(words) == IF words = <<>> THEN <<>> ELSE <<[code |-> words]>>

\* Props from a list of <<name, pieces>> where the first entry of a name counts (an
\* initializer list), or the last (assignments).
Names(pairs) == {pair[1] : pair \in ToSet(pairs)}
FirstOf(pairs) ==
  [n \in Names(pairs) |->
     pairs[CHOOSE x \in DOMAIN pairs : pairs[x][1] = n /\ \A y \in 1..(x - 1) : pairs[y][1] # n][2]]
LastOf(pairs) == FirstOf(Reverse(pairs))

-----------------------------------------------------------------------------
(* Codegen.cpp.                                                            *)

\* What Emit goes into: the values and the child elements it writes out.
EmittedValues(node) ==
  KeyRef(node) \cup
  CASE Tag(node) \in Ordinary ->
         PropValues(SelectSeq(node.props, Known))
           \cup (IF Tag(node) = "Inline" THEN HatchesOf(node.children) ELSE {})
    [] Tag(node) = "Text" -> PropValues(SelectSeq(node.props, Known)) \cup HatchesOf(node.children)
    [] Tag(node) = "Slot" -> HatchesOf(node.children)
    [] Tag(node) = "Native" -> PropValues(SelectSeq(node.props, LAMBDA p : p.name = "build"))
    [] OTHER -> PropValues(node.props)
EmittedChildren(node) ==
  IF Tag(node) \in Ordinary \ Leaf THEN ElementsOf(node.children) ELSE {}

NotElement(c) == c.kind # "element"
OneHatch(children) == Len(children) = 1 /\ children[1].kind = "hatch"
OneElement(children) == Len(children) = 1 /\ children[1].kind = "element"
Builds(node) == SelectSeq(node.props, LAMBDA p : p.name = "build")

EmitErrorsHere(node) ==
  CASE Tag(node) \in Ordinary ->
         When(~\A p \in ToSet(node.props) : Known(p), "unknown prop", node)
           \cup When(Tag(node) \in Leaf /\ node.children # <<>>, "children", node)
           \cup When(/\ Tag(node) \notin Leaf \cup {"Inline"}
                     /\ \E c \in ToSet(node.children) : NotElement(c), "text", node)
           \cup When(Tag(node) = "Split" /\ Len(node.children) # 2, "panes", node)
           \cup When(Tag(node) = "Portal" /\ ~OneElement(node.children), "one child", node)
    [] Tag(node) = "Text" ->
         When(~\A p \in ToSet(node.props) : Known(p), "unknown prop", node)
           \cup When(ElementsOf(node.children) # {}, "nested", node)
    [] Tag(node) = "Slot" ->
         When(node.props # <<>>, "props", node)
           \cup When(~OneHatch(node.children), "one hatch", node)
    [] Tag(node) = "Native" ->
         When(node.children # <<>>, "children", node)
           \cup When(\E p \in ToSet(node.props) : p.name # "build", "unknown prop", node)
           \cup When(Builds(node) = <<>> \/ Last(Builds(node)).value.kind = "literal", "build", node)
    [] OTHER -> When(node.children # <<>>, "children", node)

RECURSIVE EmitErrors(_)
EmitErrors(node) ==
  EmitErrorsHere(node)
    \cup UNION {EmitErrors(e) : e \in EmittedChildren(node) \cup UNION {JsxElements(v) : v \in EmittedValues(node)}}

RECURSIVE Emit(_)
EmitEscapeHatchExpression(v) ==
  IF v.kind = "hatch" THEN HostCode(Code(v.from, v.to))
  ELSE FlattenSeq([x \in DOMAIN v.segs |->
         IF v.segs[x].kind = "text" THEN HostCode(Words(v.segs[x].words))
                                    ELSE <<[component |-> Emit(v.segs[x].node)]>>])
EmitPropValueExpression(v) ==
  IF v.kind = "literal" THEN String(<<Text(v.at)>>) ELSE EmitEscapeHatchExpression(v)
EmitPiece(c) == IF c.kind = "text" THEN String(Words(c.words)) ELSE EmitEscapeHatchExpression(c.value)
EmitProps(props) == [x \in DOMAIN props |-> <<props[x].name, EmitPropValueExpression(props[x].value)>>]
EmitChildrenList(node) ==
  [x \in DOMAIN node.children |->
     IF NotElement(node.children[x]) THEN TextComponent(EmitPiece(node.children[x]))
                                     ELSE Emit(node.children[x].node)]
\* The text of a <Text> is the last entry of its initializer list.
EmitTextPrimitive(node) ==
  LET text == FlattenSeq([x \in DOMAIN node.children |-> EmitPiece(node.children[x])])
      pairs == Append(EmitProps(node.props), <<"text", text>>)
  IN  Component("Text", FirstOf(pairs), <<>>)
EmitSlot(node) ==
  [Component("Slot", NoProps, <<>>) EXCEPT
     !.slot = <<EmitEscapeHatchExpression(node.children[1].value)>>]
EmitNative(node) ==
  [Component("Native", NoProps, <<>>) EXCEPT
     !.native = <<EmitEscapeHatchExpression(Last(Builds(node)).value)>>]

\* The component of a tree without errors.
Emit(node) ==
  LET base == CASE Tag(node) = "Text" -> EmitTextPrimitive(node)
                [] Tag(node) = "Slot" -> EmitSlot(node)
                [] Tag(node) = "Native" -> EmitNative(node)
                [] Tag(node) \in Ordinary ->
                     Component(Tag(node), FirstOf(EmitProps(node.props)), EmitChildrenList(node))
                [] OTHER -> Component(Tag(node), FirstOf(EmitProps(node.props)), <<>>)
      values(keyOrRef) == [x \in DOMAIN keyOrRef |-> EmitPropValueExpression(keyOrRef[x])]
  IN  [base EXCEPT !.key = values(node.key), !.ref = values(node.ref)]

-----------------------------------------------------------------------------
(* IrisIr.cpp: the tree as JSON.  An optional field is absent, not null.   *)

Optional(field, values) == IF values = <<>> THEN <<>> ELSE field :> values[1]
RECURSIVE SerializeElement(_)
TextSegment(words) == [kind |-> "text", value |-> words]
\* Mutant: the text of a hatch in one run before its elements, as an earlier schema
\* had it.
SerializeTextFirst(v) ==
  IF v.kind = "literal" THEN [kind |-> "literal", value |-> Text(v.at), location |-> v.at]
  ELSE [kind |-> "nyx_expression", location |-> v.at,
        segments |-> IF v.kind = "hatch" THEN <<TextSegment(Code(v.from, v.to))>>
                     ELSE LET texts == SelectSeq(v.segs, LAMBDA s : s.kind = "text")
                              elements == SelectSeq(v.segs, LAMBDA s : s.kind = "element")
                          IN  [x \in DOMAIN texts |-> TextSegment(Words(texts[x].words))]
                                \o [x \in DOMAIN elements |-> SerializeElement(elements[x].node)]]

SerializePropValue(v) ==
  IF v.kind = "literal" THEN [kind |-> "literal", value |-> Text(v.at), location |-> v.at]
  ELSE [kind |-> "nyx_expression", location |-> v.at,
        segments |-> IF v.kind = "hatch" THEN <<TextSegment(Code(v.from, v.to))>>
                     ELSE [x \in DOMAIN v.segs |->
                             IF v.segs[x].kind = "text" THEN TextSegment(Words(v.segs[x].words))
                                                        ELSE SerializeElement(v.segs[x].node)]]
SerializeProp(p) ==
  [kind |-> "prop", name |-> p.name, value |-> SerializePropValue(p.value), location |-> p.at]
SerializeElementChild(c) ==
  CASE c.kind = "element" -> SerializeElement(c.node)
    [] c.kind = "hatch" -> SerializePropValue(c.value)
    [] c.kind = "text" -> [kind |-> "text", value |-> Words(c.words), location |-> c.at]
SerializeElement(node) ==
  [kind |-> "element", tag |-> Tag(node), location |-> node.at,
   props |-> [x \in DOMAIN node.props |-> SerializeProp(node.props[x])],
   children |-> [x \in DOMAIN node.children |-> SerializeElementChild(node.children[x])]]
    @@ Optional("key", [x \in DOMAIN node.key |-> SerializePropValue(node.key[x])])
    @@ Optional("ref", [x \in DOMAIN node.ref |-> SerializePropValue(node.ref[x])])

-----------------------------------------------------------------------------
(* IrisIrDocument.cpp: reading it back.  A field that is missing, or a     *)
(* node of a kind not expected where it stands, is an error.               *)

Field(obj, name) == name \in DOMAIN obj
FieldErrors(obj, names) == names \ DOMAIN obj
RECURSIVE ParseElementNode(_), DocumentErrors(_)
ParseNyxExpression(obj) ==
  [at |-> obj.location,
   segments |-> [x \in DOMAIN obj.segments |->
      LET seg == obj.segments[x]
      IN  IF seg.kind = "text" THEN [kind |-> "text", text |-> seg.value]
                               ELSE [kind |-> "element", element |-> ParseElementNode(seg)]]]
ParsePropValueNode(obj) ==
  IF obj.kind = "literal" THEN [kind |-> "literal", value |-> obj.value, at |-> obj.location]
                          ELSE [kind |-> "expression", value |-> ParseNyxExpression(obj)]
ParseProp(obj) == [name |-> obj.name, at |-> obj.location, value |-> ParsePropValueNode(obj.value)]
ParseElementChild(obj) ==
  CASE obj.kind = "element" -> [kind |-> "element", element |-> ParseElementNode(obj)]
    [] obj.kind = "nyx_expression" -> [kind |-> "expression", value |-> ParseNyxExpression(obj)]
    [] obj.kind = "text" -> [kind |-> "text", text |-> obj.value, at |-> obj.location]
ParseElementNode(obj) ==
  [tag |-> obj.tag, at |-> obj.location,
   key |-> IF Field(obj, "key") THEN <<ParsePropValueNode(obj.key)>> ELSE <<>>,
   ref |-> IF Field(obj, "ref") THEN <<ParsePropValueNode(obj.ref)>> ELSE <<>>,
   props |-> [x \in DOMAIN obj.props |-> ParseProp(obj.props[x])],
   children |-> [x \in DOMAIN obj.children |-> ParseElementChild(obj.children[x])]]

\* The errors of reading a node, by its kind.
Expecting(kinds, obj) == IF obj.kind \in kinds THEN DocumentErrors(obj) ELSE {obj.kind}
SegmentErrors(obj) ==
  IF obj.kind = "text" THEN FieldErrors(obj, {"value"}) ELSE Expecting({"element"}, obj)
DocumentErrors(obj) ==
  CASE obj.kind = "element" ->
         FieldErrors(obj, {"tag", "location", "props", "children"})
           \cup UNION {DocumentErrors(p) : p \in ToSet(obj.props)}
           \cup UNION {Expecting({"element", "nyx_expression", "text"}, c) : c \in ToSet(obj.children)}
           \cup UNION {Expecting({"literal", "nyx_expression"}, obj[f]) : f \in {"key", "ref"} \cap DOMAIN obj}
    [] obj.kind = "prop" ->
         FieldErrors(obj, {"name", "location", "value"}) \cup Expecting({"literal", "nyx_expression"}, obj.value)
    [] obj.kind = "nyx_expression" ->
         FieldErrors(obj, {"location", "segments"}) \cup UNION {SegmentErrors(s) : s \in ToSet(obj.segments)}
    [] obj.kind \in {"literal", "text"} -> FieldErrors(obj, {"value", "location"})
    [] obj.kind = "document" ->
         FieldErrors(obj, {"version", "sourceFile", "hostLanguage", "imports", "body"})
           \cup UNION {DocumentErrors(i) : i \in obj.imports}
           \cup UNION {Expecting({"nyx_source", "render_block"}, x) : x \in ToSet(obj.body)}
    [] obj.kind = "import" -> FieldErrors(obj, {"name", "resolvedPath", "location"})
    [] obj.kind = "nyx_source" -> FieldErrors(obj, {"source", "location"})
    [] obj.kind = "render_block" ->
         FieldErrors(obj, {"location", "root", "endLocation"}) \cup DocumentErrors(obj.root)

-----------------------------------------------------------------------------
(* IrisIrRuntime.cpp: components from the document.  The Nyx evaluator is  *)
(* handed the expressions and stands for what they evaluate to.            *)

Source(expression) ==
  HostCode(FlattenSeq([x \in DOMAIN expression.segments |->
             IF expression.segments[x].kind = "text" THEN expression.segments[x].text ELSE <<>>]))
ConvertKeyRefValue(v) == IF v.kind = "literal" THEN String(<<v.value>>) ELSE Source(v.value)
ConvertTypedPropValue(p) == <<p.name, ConvertKeyRefValue(p.value)>>
ConvertPiece(c) == IF c.kind = "text" THEN String(c.text) ELSE Source(c.value)
ConvertPrimitiveProps(props) == [x \in DOMAIN props |-> ConvertTypedPropValue(props[x])]

IrElements(children) == {c.element : c \in {d \in ToSet(children) : d.kind = "element"}}
LiteralOfOtherType(p) == Known(p) /\ p.value.kind = "literal" /\ PropTypes[p.name] # "string"

ConvertErrorsHere(node) ==
  CASE node.tag \in Ordinary \cup {"Text"} ->
         When(\E p \in ToSet(node.props) : ~Known(p) \/ LiteralOfOtherType(p), "prop", node)
           \cup When(node.tag \in Leaf /\ node.children # <<>>, "children", node)
           \cup When(/\ node.tag \notin Leaf \cup {"Inline", "Text"}
                     /\ \E c \in ToSet(node.children) : NotElement(c), "text", node)
           \cup When(node.tag = "Text" /\ IrElements(node.children) # {}, "nested", node)
           \cup When(node.tag = "Split" /\ Len(node.children) # 2, "panes", node)
           \cup When(node.tag = "Portal" /\ ~OneElement(node.children), "one child", node)
    [] node.tag = "Slot" ->
         When(node.props # <<>>, "props", node)
           \cup When(~(Len(node.children) = 1 /\ node.children[1].kind = "expression"), "one hatch", node)
    [] node.tag = "Native" ->
         When(Builds(node) = <<>> \/ Builds(node)[1].value.kind = "literal", "build", node)
    [] OTHER -> When(node.children # <<>>, "children", node)

\* A slot's elements are converted when its callable runs and picks them.
Picked(children) ==
  UNION {{s.element : s \in {t \in ToSet(c.value.segments) : t.kind = "element"}}
           : c \in {d \in ToSet(children) : d.kind = "expression"}}
RECURSIVE ConvertErrors(_), Convert(_)
ConvertErrors(node) ==
  ConvertErrorsHere(node)
    \cup UNION {ConvertErrors(e) : e \in IF node.tag = "Slot" THEN Picked(node.children)
                                         ELSE IF node.tag \in Ordinary \ Leaf THEN IrElements(node.children)
                                         ELSE {}}

ConvertChildrenList(node) ==
  [x \in DOMAIN node.children |->
     IF NotElement(node.children[x]) THEN TextComponent(ConvertPiece(node.children[x]))
                                     ELSE Convert(node.children[x].element)]
ConvertTextPrimitive(node) ==
  LET text == FlattenSeq([x \in DOMAIN node.children |-> ConvertPiece(node.children[x])])
      pairs == Append(ConvertPrimitiveProps(node.props), <<"text", text>>)
  IN  Component("Text", LastOf(pairs), <<>>)
ConvertSlot(node) ==
  LET segments == node.children[1].value.segments
  IN  [Component("Slot", NoProps, <<>>) EXCEPT
         !.slot = <<FlattenSeq([x \in DOMAIN segments |->
                       IF segments[x].kind = "text" THEN HostCode(segments[x].text)
                       ELSE <<[component |-> Convert(segments[x].element)]>>])>>]
ConvertNative(node) ==
  [Component("Native", NoProps, <<>>) EXCEPT !.native = <<Source(Builds(node)[1].value.value)>>]
Convert(node) ==
  LET base == CASE node.tag = "Text" -> ConvertTextPrimitive(node)
                [] node.tag = "Slot" -> ConvertSlot(node)
                [] node.tag = "Native" -> ConvertNative(node)
                [] node.tag \in Ordinary ->
                     Component(node.tag, LastOf(ConvertPrimitiveProps(node.props)), ConvertChildrenList(node))
                [] OTHER -> Component(node.tag, LastOf(ConvertPrimitiveProps(node.props)), <<>>)
      values(keyOrRef) == [x \in DOMAIN keyOrRef |-> ConvertKeyRefValue(keyOrRef[x])]
  IN  [base EXCEPT !.key = values(node.key), !.ref = values(node.ref)]

-----------------------------------------------------------------------------
(* Properties.                                                             *)

\* What the two backends are known to treat differently: a prop given twice (the
\* initializer list keeps the first value, the assignments the last), `text` on
\* <Text>, a string for a prop of another type (left to the C++ compiler), extra
\* props or children of <Native> (handed to the builder by the runtime), and
\* elements in hatches other than a slot's.
RECURSIVE Comparable(_)
Comparable(node) ==
  /\ Cardinality({p.name : p \in ToSet(node.props)}) = Len(node.props)
  /\ Tag(node) = "Text" => ~Has(node, "text")
  /\ Tag(node) \in CoreTags => ~\E p \in ToSet(node.props) : LiteralOfOtherType(p)
  /\ Tag(node) = "Native" => Len(node.props) <= 1 /\ node.children = <<>>
  /\ \A v \in KeyRef(node) \cup PropValues(node.props)
               \cup (IF Tag(node) = "Slot" THEN {} ELSE HatchesOf(node.children)) : v.kind # "jsx"
  /\ \A e \in NestedElements(node) : Comparable(e)

\* One language, two implementations: apart from those, code generation and the
\* round trip through the document accept the same blocks, the document the writer
\* produces is one the reader accepts, and both build the same components.
BackendsAgree ==
  Parsed /\ errors = <<>> =>
    \A b \in ToSet(blocks) :
      LET json == SerializeElement(b.root)
          ir == ParseElementNode(json)
      IN  /\ DocumentErrors(json) = {}
          /\ Comparable(b.root) =>
               /\ EmitErrors(b.root) = {} <=> ConvertErrors(ir) = {}
               /\ EmitErrors(b.root) = {} => Emit(b.root) = Convert(ir)
=============================================================================
