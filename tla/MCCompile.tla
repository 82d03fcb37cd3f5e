----------------------------- MODULE MCCompile -----------------------------
EXTENDS Compile

\* A file is written as lines of words; " " is whitespace before the next word.
Punctuation == {"<", ">", "/", "=", "!", "(", ")", ";", "?"}
KindOf(w) == CASE w = "{" -> "open" [] w = "}" -> "close" [] w \in Punctuation -> "punct"
               [] w = "'s'" -> "str" [] w = "//" -> "note" [] OTHER -> "id"
New(w, ln, ws) == [k |-> KindOf(w), t |-> w, ln |-> ln, ws |-> ws]
LineTokens(words, ln) ==
  LET at == SelectSeq([x \in DOMAIN words |-> x], LAMBDA x : words[x] # " ")
  IN  [n \in DOMAIN at |->
         New(words[at[n]], ln, IF at[n] = 1 THEN ln > 1 ELSE words[at[n] - 1] = " ")]
Tokens(lines) == FlattenSeq([n \in DOMAIN lines |-> LineTokens(lines[n], n)])

\* Nested braces, a key, a comment, a multi-line hatch, text, components on one line
\* two blocks, and imports before and behind them.
Shop == Tokens(<<
  <<"import", " ", "Row">>,
  <<"Shop", "(", ")", " ", "{">>,
  <<"render", " ", "{">>,
  <<"<", "Frame", " ", "key", "=", "'s'", " ", "class", "=", "{", " ", "c", "{", "//">>,
  <<"}", " ", "d", "}", ">", " ", "//">>,
  <<"<", "Slot", ">", "!", "{", " ", "f", "(", "<", "Row", " ", "/", ">", ")", " ", "{", "a", "<", "b", "}", "}",
    "<", "/", "Slot", ">">>,
  <<"<", "/", "Frame", ">">>,
  <<"}", " ", "end", ";">>,
  <<"}">>,
  <<"One", "(", ")", "{", "render", "{", "<", "Text", ">", "hi", " ", "!", "<", "/", "Text", ">", "}", "}">>,
  <<"import", " ", "Row">>,
  <<"last", ";">> >>)
\* Hatches within hatches, and elements in props.
Nest == Tokens(<<
  <<"render", "{">>,
  <<"<", "Portal", ">", "<", "Inline", " ", "class", "=", "!", "{", "g", " ", "<", "Icon", " ", "size", "=",
    "{", "z", "}", "/", ">", "}", ">">>,
  <<"!", "{", "x", " ", "?", "<", "Text", ">", "{", "y", "}", "'s'", "<", "/", "Text", ">", "}">>,
  <<"<", "/", "Inline", ">", "<", "/", "Portal", ">", "}", "tail">> >>)

\* Every file one edit away: a token dropped, replaced or inserted.
Alphabet == {"<", ">", "/", "=", "!", "{", "}", "render", "Row", "'s'"}
Edited(s) ==
  {s} \cup {RemoveAt(s, i) : i \in DOMAIN s}
      \cup {ReplaceAt(s, i, New(w, s[i].ln, TRUE)) : i \in DOMAIN s, w \in Alphabet}
      \cup {InsertAt(s, i, New(w, s[i].ln, TRUE)) : i \in DOMAIN s, w \in Alphabet}
\* Tokens that stand together in the text are still these tokens.
Lexable(s) ==
  \A i \in 1..(Len(s) - 1) :
    ~s[i + 1].ws => /\ ~(s[i].t = "/" /\ s[i + 1].t = "/")
                    /\ ~(s[i].k = "id" /\ s[i + 1].k = "id")
                    /\ s[i].k # "note" \/ s[i + 1].ln > s[i].ln

\* The word `import` in the text of an element.
Travel == <<"goods", " ", "import", " ", "Row">>

\* Every small element: a tag, an attribute or two, up to two children.
Tags == {"Frame", "Inline", "Image", "Text", "Slot", "Split", "Portal", "Native", "Row", "Other", "Model3d"}
Attributes ==
  {<<>>, <<"class", "=", "'s'">>, <<"size", "=", "'s'">>, <<"size", "=", "{", "z", "}">>, <<"style", "=", "'s'">>,
   <<"build", "=", "{", "b", "}">>, <<"text", "=", "'s'">>, <<"font", "=", "'s'">>,
   <<"ref", "=", "'s'", " ", "key", "=", "{", "k", "}">>,
   <<"class", "=", "'s'", " ", "class", "=", "{", "c", "}">>}
Leaves == {<<"word">>, <<"{", "e", "}">>, <<"!", "{", "f", "(", "<", "Row", "/", ">", ")", "}">>,
           <<"<", "Row", " ", "class", "=", "'s'", "/", ">">>,
           <<"<", "Text", ">", "word", "{", "e", "}", "<", "/", "Text", ">">>,
           <<"<", "Frame", ">", "word", "<", "/", "Frame", ">">>}
Children == {<<>>} \cup Leaves \cup {a \o <<" ">> \o b : a, b \in Leaves}
Small(tag, attribute, children) ==
  Tokens(<< <<"import", " ", "Row">>,
            <<"App", "{", "render", "{", "<", tag, " ">> \o attribute \o <<">">> \o children
              \o <<"<", "/", tag, ">", "}", "}">> >>)

File(host, tokens) == [host |-> host, target |-> "penumbra", found |-> {"Row"}, tokens |-> tokens]
MCFiles ==
  {File(h, s) : h \in {"cpp", "nyx"}, s \in {e \in Edited(Shop) \cup Edited(Nest) : Lexable(e)}}
    \cup {File(IF attribute = <<>> THEN "nyx" ELSE "cpp", Small(tag, attribute, children)) :
            tag \in Tags, attribute \in Attributes, children \in Children}
    \cup {File(h, Small("Text", <<>>, Travel)) : h \in {"cpp", "nyx"}}
=============================================================================
