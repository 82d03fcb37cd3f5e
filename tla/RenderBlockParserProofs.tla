---------------------- MODULE RenderBlockParserProofs ----------------------
(***************************************************************************)
(* Proofs about RenderBlockParser, for every source file: the parser ends, *)
(* and it leaves a block behind the brace that closes it.                  *)
(***************************************************************************)
EXTENDS RenderBlockParser, FiniteSetTheorems, SequenceTheorems, WellFoundedInduction, TLAPS

-----------------------------------------------------------------------------
(* The token reader.                                                       *)

\* Token j is the next one after i that is not a comment.
Follows(i, j) ==
  i < j /\ j <= Eof /\ Kind(j) # "note" /\ \A x \in (i + 1)..(j - 1) : Kind(x) = "note"

\* What has been read and not consumed: after the lookahead, or the current token,
\* come the rest of its run of punctuation and then the raw tokens.
ReadTo(r) == IF r.look # 0 THEN r.look ELSE r.cur
Reading(r) ==
  /\ r \in [next : 1..Eof, pending : Seq(Nat), look : 0..Eof, cur : 0..Eof]
  /\ \/ r.next = ReadTo(r) + Len(r.pending) + 1
     \/ ReadTo(r) = Eof /\ r.next = Eof /\ r.pending = <<>>
  /\ r.pending # <<>> => Kind(ReadTo(r)) = "punct"
  /\ \A x \in 1..Len(r.pending) : r.pending[x] = ReadTo(r) + x /\ Kind(ReadTo(r) + x) = "punct"
  /\ r.look # 0 => Kind(r.cur) = "punct" /\ Follows(r.cur, r.look)

-----------------------------------------------------------------------------
(* The stack of calls.                                                     *)

HeadFrame(g) ==
  \/ g = Block(g.at)
  \/ g = [f |-> "closing", at |-> g.at, root |-> g.root]
  \/ g = [f |-> "recover", at |-> g.at, depth |-> g.depth] /\ g.depth \in Nat \ {0}
InnerFrame(g) ==
  \/ /\ g = [f |-> "element", stage |-> g.stage, node |-> g.node, name |-> g.name, text |-> g.text]
     /\ g.stage \in {"tag", "props", "value", "children"}
  \/ /\ g = [f |-> "jsx", at |-> g.at, depth |-> g.depth, segs |-> g.segs, text |-> g.text]
     /\ g.depth \in Nat \ {0}

\* A block below, then elements and hatches; a hatch is in an element.
Stacked(stk) ==
  /\ \E S : stk \in Seq(S)
  /\ \A i \in 1..Len(stk) :
       /\ i = 1 => HeadFrame(stk[i])
       /\ i > 1 => InnerFrame(stk[i]) /\ stk[1].f = "block"
       /\ stk[i].f = "jsx" => i > 1 /\ stk[i - 1].f = "element"

-----------------------------------------------------------------------------
(* Braces.                                                                 *)

\* How many braces are open behind c that open in o..c.
Level(o, c) == Opens(o, c) - Closes(o, c)
\* What a token does to that.
Turn(i) == CASE Kind(i) = "open" -> 1 [] Kind(i) = "close" -> -1 [] OTHER -> 0

\* From o to the token before c a brace is always open, in the end n of them.
Within(o, c, n) ==
  /\ o \in Nat /\ n \in Nat /\ o < c
  /\ \A x \in o..(c - 1) : Level(o, x) >= 1
  /\ Level(o, c - 1) = n

\* How many a frame has seen open and not closed, and the frames of a stack together.
Weight(g) == CASE g.f \in {"block", "closing"} -> 1 [] g.f \in {"recover", "jsx"} -> g.depth [] OTHER -> 0
Weighs(stk, n) ==
  \E w : /\ w[0] = 0 /\ w[Len(stk)] = n
         /\ \A i \in 1..Len(stk) : w[i] = w[i - 1] + Weight(stk[i])
         /\ \A i \in 0..Len(stk) : w[i] \in Nat

\* o is the brace of the block whose `render` is at.
OpensBlock(at, o) == at \in Nat /\ at < o /\ o <= Eof /\ Kind(o) = "open" /\ \A x \in at..(o - 1) : Kind(x) # "open"
Tracked(stk, c) ==
  \E o, n \in Nat : OpensBlock(stk[1].at, o) /\ Within(o, c, n) /\ Weighs(stk, n)

\* The inductive invariant.
IInv ==
  /\ file \in Files /\ Reading(reader) /\ Stacked(stack)
  /\ stack # <<>> => cur # 0 /\ (cur = Eof \/ Tracked(stack, cur))

-----------------------------------------------------------------------------
(* Sequences, tokens and numbers.                                          *)

\* A set of natural numbers that is not empty has a least one.
LEMMA LeastNumber ==
    ASSUME NEW S \in SUBSET Nat, S # {}
    PROVE  \E x \in S : \A y \in S : x <= y
<1> DEFINE R == OpToRel(<, Nat)
<1>1. IsWellFoundedOn(R, Nat)
  BY NatLessThanWellFounded
<1>2. \A x, y \in Nat : x < y => <<x, y>> \in R
  BY Zenon DEF OpToRel
<1> HIDE DEF R
<1>3. PICK x \in S : \A y \in S : ~(<<y, x>> \in R)
  BY <1>1, WFMin
<1>4. \A y \in S : ~(y < x)
  BY <1>2, <1>3
<1>5. QED
  BY <1>4

\* The same for what lies between two numbers.
LEMMA LeastBetween ==
    ASSUME NEW a \in Nat, NEW b \in Nat, NEW S \in SUBSET (a..b), S # {}
    PROVE  \E x \in S : x \in a..b /\ \A y \in a..(x - 1) : y \notin S
<1>1. S \in SUBSET Nat
  OBVIOUS
<1>2. PICK x \in S : \A y \in S : x <= y
  BY <1>1, LeastNumber
<1>3. \A y \in a..(x - 1) : y \notin S
  BY <1>2
<1>4. QED
  BY <1>2, <1>3

\* A source file and its end.
LEMMA SourceFacts ==
    ASSUME file \in Files
    PROVE  /\ Len(source) \in Nat /\ Eof \in Nat /\ Eof = Len(source) + 1 /\ Eof >= 1
           /\ \A i \in 1..Len(source) : Kind(i) \in TokenKinds /\ source[i].k = Kind(i)
           /\ \A i : i \notin 1..Len(source) => Kind(i) = "eof"
           /\ Kind(Eof) = "eof" /\ Kind(0) = "eof"
           /\ \A i \in Nat : Kind(i) # "eof" => i \in 1..Len(source) /\ i < Eof /\ i # Eof /\ i # 0
           /\ \A i \in 0..Eof : Kind(i) = "eof" => i = 0 \/ i = Eof
<1>1. source \in Seq([k : TokenKinds, t : STRING, ln : Nat, ws : BOOLEAN])
  BY FilesAssumption DEF source
<1>2. Len(source) \in Nat
  BY <1>1, LenProperties
<1>3. \A i \in 1..Len(source) : source[i] \in [k : TokenKinds, t : STRING, ln : Nat, ws : BOOLEAN]
  BY <1>1, ElementOfSeq
<1>4. \A i \in 1..Len(source) : Kind(i) \in TokenKinds /\ source[i].k = Kind(i)
  BY <1>3 DEF Kind
<1>5. \A i : i \notin 1..Len(source) => Kind(i) = "eof"
  BY DEF Kind
<1>6. "eof" \notin TokenKinds
  BY DEF TokenKinds
<1>7. Eof \in Nat /\ Eof = Len(source) + 1 /\ Eof >= 1 /\ Eof \notin 1..Len(source) /\ 0 \notin 1..Len(source)
  BY <1>2 DEF Eof
<1>8. \A i \in Nat : Kind(i) # "eof" => i \in 1..Len(source) /\ i < Eof /\ i # Eof /\ i # 0
  BY <1>2, <1>5, <1>7
<1>9. \A i \in 0..Eof : Kind(i) = "eof" => i = 0 \/ i = Eof
  BY <1>2, <1>4, <1>6, <1>7
<1>10. QED
  BY <1>2, <1>4, <1>5, <1>7, <1>8, <1>9

\* A raw token ends in the file, and one of several characters is punctuation.
LEMMA RawEndFacts ==
    ASSUME file \in Files, NEW i \in 1..Eof
    PROVE  /\ RawEnd(i) \in i..Eof
           /\ i # Eof => RawEnd(i) \in i..Len(source)
           /\ RawEnd(i) # i => i # Eof /\ \A x \in i..RawEnd(i) : Kind(x) = "punct"
<1> USE SourceFacts
<1>1. CASE file.host = "cpp" /\ Kind(i) = "punct"
  <2>1. i \in 1..Len(source) /\ i # Eof
    BY <1>1
  <2>0. PICK S : S = {j \in i..Len(source) : Kind(j + 1) # "punct"}
    OBVIOUS
  <2>2. Len(source) \in S
    BY <2>0, <2>1
  <2>3. i \in Nat /\ Len(source) \in Nat /\ S \in SUBSET (i..Len(source)) /\ S # {}
    BY <2>0, <2>1, <2>2
  <2>4. PICK j \in S : j \in i..Len(source) /\ \A y \in i..(j - 1) : y \notin S
    <3> PICK b : b = Len(source)
      OBVIOUS
    <3> QED
      BY <2>3, LeastBetween
  <2>5. ASSUME NEW x \in i..j PROVE Kind(x) = "punct"
    <3>1. CASE x = i
      BY <1>1, <3>1
    <3>2. CASE x # i
      <4>1. x - 1 \in i..(j - 1) /\ x - 1 \in i..Len(source) /\ x - 1 + 1 = x
        BY <2>1, <2>4, <3>2
      <4>2. QED
        BY <2>0, <2>4, <4>1
    <3>3. QED
      BY <3>1, <3>2
  <2>6. \E e \in i..Len(source) : (\A x \in i..e : Kind(x) = "punct") /\ Kind(e + 1) # "punct"
    BY <2>0, <2>4, <2>5
  <2>7. RawEnd(i) = CHOOSE e \in i..Len(source) : (\A x \in i..e : Kind(x) = "punct") /\ Kind(e + 1) # "punct"
    BY <1>1 DEF RawEnd
  <2>8. RawEnd(i) \in i..Len(source) /\ \A x \in i..RawEnd(i) : Kind(x) = "punct"
    BY <2>6, <2>7
  <2>9. QED
    BY <2>1, <2>8
<1>2. CASE ~(file.host = "cpp" /\ Kind(i) = "punct")
  <2>1. RawEnd(i) = i
    BY <1>2 DEF RawEnd
  <2>2. QED
    BY <2>1
<1>3. QED
  BY <1>1, <1>2

\* From every token on there is one that is not a comment.
LEMMA FirstToken ==
    ASSUME file \in Files, NEW n \in 1..Eof
    PROVE  \E i \in n..Eof : Kind(i) # "note" /\ \A x \in n..(i - 1) : Kind(x) = "note"
<1> USE SourceFacts
<1>0. PICK b, S : b = Eof /\ S = {i \in n..b : Kind(i) # "note"}
  OBVIOUS
<1>1. b \in S
  BY <1>0
<1>2. n \in Nat /\ b \in Nat /\ S \in SUBSET (n..b) /\ S # {}
  BY <1>0, <1>1
<1>3. PICK i \in S : i \in n..b /\ \A y \in n..(i - 1) : y \notin S
  BY <1>2, LeastBetween
<1>4. \A x \in n..(i - 1) : x \in n..b
  BY <1>2, <1>3
<1>5. QED
  BY <1>0, <1>3, <1>4

-----------------------------------------------------------------------------
(* What the reader does.                                                   *)

\* A run of consecutive numbers as a queue.
LEMMA RunFacts ==
    ASSUME NEW a \in Nat, NEW b \in Nat, a <= b, NEW q, q = [x \in 1..(b - a) |-> a + x]
    PROVE  /\ q \in Seq(Nat) /\ Len(q) = b - a
           /\ \A x \in 1..Len(q) : q[x] = a + x
           /\ q # <<>> => a < b
<1>1. b - a \in Nat
  OBVIOUS
<1>2. q \in [1..(b - a) -> Nat]
  OBVIOUS
<1>3. q \in Seq(Nat) /\ Len(q) = b - a
  BY <1>1, <1>2
<1>4. q # <<>> => Len(q) # 0
  BY <1>3, EmptySeq
<1>5. QED
  BY <1>1, <1>3, <1>4

\* A raw token is pulled.
LEMMA PullFacts ==
    ASSUME file \in Files, NEW r, r.look = 0, r.pending = <<>>, r.next \in 1..Eof, NEW a, a = Advance(r)
    PROVE  /\ Reading(a) /\ a.look = 0
           /\ a.cur \in r.next..Eof /\ Kind(a.cur) # "note" /\ \A x \in r.next..(a.cur - 1) : Kind(x) = "note"
<1> USE SourceFacts
<1>1. PICK first : /\ first \in r.next..Eof /\ Kind(first) # "note" /\ \A x \in r.next..(first - 1) : Kind(x) = "note"
                   /\ first = CHOOSE i \in r.next..Eof : /\ Kind(i) # "note"
                                                          /\ \A x \in r.next..(i - 1) : Kind(x) = "note"
  BY FirstToken
<1>2. PICK last : last = RawEnd(first)
  OBVIOUS
<1>3. PICK q : q = [x \in 1..(last - first) |-> first + x]
  OBVIOUS
<1>4. first \in 1..Eof /\ first \in Nat
  BY <1>1
<1>5. /\ last \in Nat /\ first <= last
      /\ first # Eof => last + 1 \in 1..Eof
      /\ first = Eof => last = first
      /\ last # first => first # Eof /\ \A x \in first..last : Kind(x) = "punct"
  BY <1>2, <1>4, RawEndFacts
<1>6. /\ q \in Seq(Nat) /\ Len(q) = last - first
      /\ q # <<>> => first < last
      /\ \A x \in 1..Len(q) : q[x] = first + x
  BY <1>3, <1>4, <1>5, RunFacts
<1>7. a = [next |-> IF first = Eof THEN Eof ELSE last + 1, pending |-> q, look |-> 0, cur |-> first]
  BY <1>1, <1>2, <1>3 DEF Advance
<1>8. a.look = 0 /\ a.cur = first /\ a.pending = q /\ a.next = (IF first = Eof THEN Eof ELSE last + 1)
  BY <1>7
<1>9. a \in [next : 1..Eof, pending : Seq(Nat), look : 0..Eof, cur : 0..Eof]
  <2>1. (IF first = Eof THEN Eof ELSE last + 1) \in 1..Eof /\ first \in 0..Eof /\ 0 \in 0..Eof
    BY <1>4, <1>5
  <2>2. QED
    BY <1>6, <1>7, <2>1
<1>10. ReadTo(a) = first
  BY <1>8 DEF ReadTo
<1>11. first = Eof => q = <<>>
  BY <1>5, <1>6, EmptySeq
<1>12. first # Eof => last + 1 = first + Len(q) + 1
  BY <1>4, <1>5, <1>6
<1>13. q # <<>> => Kind(first) = "punct"
  BY <1>4, <1>5, <1>6
<1>14. \A x \in 1..Len(q) : q[x] = first + x /\ Kind(first + x) = "punct"
  BY <1>4, <1>5, <1>6
<1>15. Reading(a)
  BY <1>8, <1>9, <1>10, <1>11, <1>12, <1>13, <1>14 DEF Reading
<1>16. QED
  BY <1>1, <1>8, <1>15

\* The parser goes on to the next token that is not a comment.
LEMMA AdvanceFacts ==
    ASSUME file \in Files, NEW r, Reading(r), r.cur # Eof, NEW a, a = Advance(r)
    PROVE  Reading(a) /\ a.look = 0 /\ Follows(r.cur, a.cur) /\ (r.look # 0 => a.cur = r.look)
<1> USE SourceFacts
<1>0. /\ r \in [next : 1..Eof, pending : Seq(Nat), look : 0..Eof, cur : 0..Eof] /\ Eof \in Nat
      /\ r.next \in 1..Eof /\ r.pending \in Seq(Nat) /\ r.look \in 0..Eof /\ r.cur \in 0..Eof
      /\ Len(r.pending) \in Nat
  BY LenProperties DEF Reading
<1>1. CASE r.look # 0
  <2>1. a = [r EXCEPT !.cur = r.look, !.look = 0]
    BY <1>1 DEF Advance
  <2>2. a.cur = r.look /\ a.look = 0 /\ a.next = r.next /\ a.pending = r.pending
        /\ a \in [next : 1..Eof, pending : Seq(Nat), look : 0..Eof, cur : 0..Eof]
    <3>1. a = [next |-> r.next, pending |-> r.pending, look |-> 0, cur |-> r.look]
      BY <1>0, <2>1
    <3>2. 0 \in 0..Eof
      BY <1>0
    <3>3. a.cur = r.look /\ a.look = 0 /\ a.next = r.next /\ a.pending = r.pending
      BY <3>1
    <3>4. a \in [next : 1..Eof, pending : Seq(Nat), look : 0..Eof, cur : 0..Eof]
      BY <1>0, <3>1, <3>2
    <3>5. QED
      BY <3>3, <3>4
  <2>3. ReadTo(a) = ReadTo(r)
    BY <1>1, <2>2 DEF ReadTo
  <2>4. QED
    BY <1>1, <2>2, <2>3 DEF Reading
<1>2. CASE r.look = 0 /\ r.pending # <<>>
  <2>1. ReadTo(r) = r.cur
    BY <1>2 DEF ReadTo
  <2>2. a = [r EXCEPT !.cur = Head(r.pending), !.pending = Tail(r.pending)]
    BY <1>2 DEF Advance
  <2>3. /\ Head(r.pending) = r.pending[1] /\ Tail(r.pending) \in Seq(Nat) /\ Len(Tail(r.pending)) = Len(r.pending) - 1
        /\ \A x \in 1..Len(Tail(r.pending)) : Tail(r.pending)[x] = r.pending[x + 1]
        /\ Len(r.pending) >= 1
    BY <1>0, <1>2, HeadTailProperties, EmptySeq
  <2>4. Head(r.pending) = r.cur + 1 /\ Kind(r.cur + 1) = "punct" /\ r.cur + 1 \in 0..Eof
    <3>1. 1 \in 1..Len(r.pending)
      BY <1>0, <2>3
    <3>2. r.pending[1] = r.cur + 1 /\ Kind(r.cur + 1) = "punct"
      BY <2>1, <3>1 DEF Reading
    <3>3. r.cur + 1 \in Nat
      BY <1>0
    <3>4. r.cur + 1 < Eof
      BY <3>2, <3>3
    <3>5. QED
      BY <1>0, <2>3, <3>2, <3>4
  <2>5. PICK q : q = Tail(r.pending)
    OBVIOUS
  <2>6. /\ a.cur = r.cur + 1 /\ a.look = 0 /\ a.next = r.next /\ a.pending = q
        /\ a \in [next : 1..Eof, pending : Seq(Nat), look : 0..Eof, cur : 0..Eof]
    BY <1>0, <1>2, <2>2, <2>3, <2>4, <2>5
  <2>7. ReadTo(a) = r.cur + 1
    BY <2>6 DEF ReadTo
  <2>8. r.next = r.cur + Len(r.pending) + 1
    BY <1>2, <2>1 DEF Reading
  <2>9. r.next = r.cur + 1 + Len(q) + 1
    BY <1>0, <2>3, <2>5, <2>8
  <2>10. ASSUME NEW x \in 1..Len(q) PROVE q[x] = r.cur + 1 + x /\ Kind(r.cur + 1 + x) = "punct"
    <3>1. x + 1 \in 1..Len(r.pending)
      BY <1>0, <2>3, <2>5
    <3>2. r.pending[x + 1] = r.cur + (x + 1) /\ Kind(r.cur + (x + 1)) = "punct"
      BY <2>1, <3>1 DEF Reading
    <3>3. r.cur + (x + 1) = r.cur + 1 + x
      BY <1>0
    <3>4. QED
      BY <2>3, <2>5, <3>2, <3>3
  <2>11. Reading(a)
    BY <2>4, <2>6, <2>7, <2>9, <2>10 DEF Reading
  <2>12. Follows(r.cur, r.cur + 1)
    BY <1>0, <2>4 DEF Follows
  <2>13. QED
    BY <1>2, <2>6, <2>11, <2>12
<1>3. CASE r.look = 0 /\ r.pending = <<>>
  <2>1. r.next = r.cur + 1
    BY <1>0, <1>3 DEF Reading, ReadTo
  <2>2. /\ Reading(a) /\ a.look = 0
        /\ a.cur \in r.next..Eof /\ Kind(a.cur) # "note" /\ \A x \in r.next..(a.cur - 1) : Kind(x) = "note"
    BY <1>0, <1>3, PullFacts
  <2>3. Follows(r.cur, a.cur)
    BY <1>0, <2>1, <2>2 DEF Follows
  <2>4. QED
    BY <1>3, <2>2, <2>3
<1>4. QED
  BY <1>1, <1>2, <1>3

\* Looking at the token behind a punctuation character moves nothing.
LEMMA PeekFacts ==
    ASSUME file \in Files, NEW r, Reading(r), Kind(r.cur) = "punct", NEW p, p = PeekNext(r)
    PROVE  Reading(p) /\ p.cur = r.cur /\ p.look # 0 /\ Follows(r.cur, p.look)
<1> USE SourceFacts
<1>0. /\ r \in [next : 1..Eof, pending : Seq(Nat), look : 0..Eof, cur : 0..Eof]
      /\ r.cur # Eof /\ r.cur \in 0..Eof
  BY DEF Reading
<1>1. CASE r.look # 0
  BY <1>1 DEF PeekNext, Reading
<1>2. CASE r.look = 0
  <2>1. PICK a : a = Advance(r)
    OBVIOUS
  <2>2. Reading(a) /\ a.look = 0 /\ Follows(r.cur, a.cur)
    BY <1>0, <2>1, AdvanceFacts
  <2>3. p = [a EXCEPT !.look = a.cur, !.cur = r.cur]
    BY <1>2, <2>1 DEF PeekNext
  <2>4. a \in [next : 1..Eof, pending : Seq(Nat), look : 0..Eof, cur : 0..Eof] /\ a.cur # 0
    BY <1>0, <2>2 DEF Reading, Follows
  <2>5. /\ p.look = a.cur /\ p.cur = r.cur /\ p.next = a.next /\ p.pending = a.pending
        /\ p \in [next : 1..Eof, pending : Seq(Nat), look : 0..Eof, cur : 0..Eof]
    BY <1>0, <2>3, <2>4
  <2>6. ReadTo(p) = ReadTo(a)
    BY <2>2, <2>4, <2>5 DEF ReadTo
  <2>7. QED
    BY <2>2, <2>4, <2>5, <2>6 DEF Reading
<1>3. QED
  BY <1>1, <1>2

-----------------------------------------------------------------------------
(* Counting braces.                                                        *)

\* The tokens of one kind between two places.
Count(k, a, b) == Cardinality({x \in a..b : Kind(x) = k})

LEMMA CountFacts ==
    ASSUME NEW k, NEW o \in Nat, NEW m \in Nat, NEW c \in Nat, o <= m + 1, m <= c
    PROVE  /\ Count(k, o, c) \in Nat /\ Count(k, o, m) \in Nat /\ Count(k, m + 1, c) \in Nat
           /\ Count(k, o, c) = Count(k, o, m) + Count(k, m + 1, c)
<1>1. PICK first, rest : first = {x \in o..m : Kind(x) = k} /\ rest = {x \in (m + 1)..c : Kind(x) = k}
  OBVIOUS
<1>2. {x \in o..c : Kind(x) = k} = first \cup rest /\ first \cap rest = {}
  BY <1>1
<1>3. IsFiniteSet(o..m) /\ IsFiniteSet((m + 1)..c)
  BY FS_Interval
<1>4. IsFiniteSet(first) /\ IsFiniteSet(rest)
  <2>1. first \subseteq o..m /\ rest \subseteq (m + 1)..c
    BY <1>1
  <2>2. QED
    BY <1>3, <2>1, FS_Subset
<1>5. /\ Cardinality(first) \in Nat /\ Cardinality(rest) \in Nat
      /\ Cardinality(first \cup rest) = Cardinality(first) + Cardinality(rest) - Cardinality(first \cap rest)
  BY <1>4, FS_CardinalityType, FS_Union
<1>6. Cardinality(first \cap rest) = 0
  BY <1>2, FS_EmptySet
<1>7. Cardinality(first \cup rest) = Cardinality(first) + Cardinality(rest)
  BY <1>5, <1>6
<1>8. QED
  BY <1>1, <1>2, <1>5, <1>7 DEF Count

LEMMA BraceCounts ==
    ASSUME NEW a, NEW b
    PROVE  Opens(a, b) = Count("open", a, b) /\ Closes(a, b) = Count("close", a, b)
BY DEF Opens, Closes, Count

LEMMA LevelSplit ==
    ASSUME NEW o \in Nat, NEW m \in Nat, NEW c \in Nat, o <= m + 1, m <= c
    PROVE  /\ Level(o, c) \in Int /\ Level(o, m) \in Int /\ Level(m + 1, c) \in Int
           /\ Level(o, c) = Level(o, m) + Level(m + 1, c)
<1>1. /\ Opens(o, c) \in Nat /\ Opens(o, m) \in Nat /\ Opens(m + 1, c) \in Nat
      /\ Opens(o, c) = Opens(o, m) + Opens(m + 1, c)
  BY CountFacts, BraceCounts
<1>2. /\ Closes(o, c) \in Nat /\ Closes(o, m) \in Nat /\ Closes(m + 1, c) \in Nat
      /\ Closes(o, c) = Closes(o, m) + Closes(m + 1, c)
  BY CountFacts, BraceCounts
<1>3. QED
  BY <1>1, <1>2 DEF Level

LEMMA LevelOne ==
    ASSUME NEW c \in Nat
    PROVE  Level(c, c) = Turn(c) /\ Turn(c) \in {-1, 0, 1} /\ Opens(c, c) \in Nat /\ Closes(c, c) \in Nat
<1>1. Opens(c, c) = (IF Kind(c) = "open" THEN 1 ELSE 0)
  <2>1. {x \in c..c : Kind(x) = "open"} = (IF Kind(c) = "open" THEN {c} ELSE {})
    OBVIOUS
  <2>2. QED
    BY <2>1, FS_Singleton, FS_EmptySet DEF Opens
<1>2. Closes(c, c) = (IF Kind(c) = "close" THEN 1 ELSE 0)
  <2>1. {x \in c..c : Kind(x) = "close"} = (IF Kind(c) = "close" THEN {c} ELSE {})
    OBVIOUS
  <2>2. QED
    BY <2>1, FS_Singleton, FS_EmptySet DEF Closes
<1>3. QED
  BY <1>1, <1>2 DEF Level, Turn

\* Comments hold no braces.
LEMMA LevelNotes ==
    ASSUME NEW a \in Nat, NEW b \in Int, \A x \in a..b : Kind(x) = "note"
    PROVE  Level(a, b) = 0
<1>1. {x \in a..b : Kind(x) = "open"} = {} /\ {x \in a..b : Kind(x) = "close"} = {}
  OBVIOUS
<1>2. QED
  BY <1>1, FS_EmptySet DEF Level, Opens, Closes

\* The parser consumes token c.
LEMMA LevelBehind ==
    ASSUME NEW o \in Nat, NEW c \in Nat, NEW n \in Nat, Within(o, c, n), NEW d \in Nat, Follows(c, d)
    PROVE  \A x \in c..(d - 1) : Level(o, x) = n + Turn(c)
<1>1. o < c /\ c < d /\ c - 1 \in Nat /\ Level(o, c - 1) = n
  BY DEF Within, Follows
<1>2. Level(o, c) = n + Turn(c)
  <2>1. PICK m : m = c - 1
    OBVIOUS
  <2>2. m \in Nat /\ o <= m + 1 /\ m <= c /\ m + 1 = c /\ Level(o, m) = n
    BY <1>1, <2>1
  <2>3. Level(o, c) = Level(o, m) + Level(m + 1, c)
    BY <2>2, LevelSplit
  <2>4. QED
    BY <2>2, <2>3, LevelOne
<1>3. ASSUME NEW x \in c..(d - 1) PROVE Level(o, x) = n + Turn(c)
  <2>1. /\ x \in Nat /\ c \in Nat /\ o <= c + 1 /\ c <= x
    BY <1>1
  <2>2. Level(o, x) = Level(o, c) + Level(c + 1, x)
    BY <2>1, LevelSplit
  <2>3. \A y \in (c + 1)..x : Kind(y) = "note"
    BY <1>1 DEF Follows
  <2>4. Level(c + 1, x) = 0
    BY <2>1, <2>3, LevelNotes
  <2>5. n + Turn(c) \in Int
    BY LevelOne
  <2>6. QED
    BY <1>2, <2>2, <2>4, <2>5
<1>4. QED
  BY <1>3

LEMMA WithinMoves ==
    ASSUME NEW o \in Nat, NEW c \in Nat, NEW n \in Nat, Within(o, c, n), NEW d \in Nat, Follows(c, d),
           NEW m \in Nat, m = n + Turn(c), m >= 1
    PROVE  Within(o, d, m)
<1>1. \A x \in c..(d - 1) : Level(o, x) = m
  BY LevelBehind
<1>2. o < c /\ c < d
  BY DEF Within, Follows
<1>3. \A x \in o..(d - 1) : x \in o..(c - 1) \/ x \in c..(d - 1)
  BY <1>2
<1>4. \A x \in o..(d - 1) : Level(o, x) >= 1
  BY <1>1, <1>3 DEF Within
<1>5. d - 1 \in c..(d - 1) /\ o < d
  BY <1>2
<1>6. QED
  BY <1>1, <1>4, <1>5 DEF Within

\* The end of a hatch, counting from the token behind its brace.
LEMMA HatchEndFacts ==
    ASSUME file \in Files, NEW from \in 1..Eof, NEW e, e = HatchEnd(from)
    PROVE  /\ e \in from..Eof
           /\ \A x \in from..(e - 1) : Level(from, x) >= 0
           /\ e # Eof => Level(from, e) = -1
<1>1. PICK b, S : b = Eof /\ S = {x \in from..b : x = b \/ Level(from, x) < 0}
  OBVIOUS
<1>2. from \in Nat /\ b \in Nat /\ S \in SUBSET (from..b) /\ S # {}
  <2>1. Eof \in Nat
    BY SourceFacts
  <2>2. b \in S
    BY <1>1, <2>1
  <2>3. QED
    BY <1>1, <2>1, <2>2
<1>3. PICK i \in S : i \in from..b /\ \A y \in from..(i - 1) : y \notin S
  BY <1>2, LeastBetween
<1>4. ASSUME NEW x \in from..b
      PROVE  Opens(from, x) \in Nat /\ Closes(from, x) \in Nat /\ Level(from, x) = Opens(from, x) - Closes(from, x)
  <2>1. from \in Nat /\ x \in Nat /\ from <= x + 1 /\ x <= x
    BY <1>2
  <2>2. Opens(from, x) \in Nat /\ Closes(from, x) \in Nat
    <3>1. \A k : Count(k, from, x) \in Nat
      BY <2>1, CountFacts
    <3>2. QED
      BY <3>1, BraceCounts
  <2>3. QED
    BY <2>2 DEF Level
<1>5. \A y \in from..(i - 1) : y \in from..b /\ Level(from, y) >= 0
  <2>1. \A y \in from..(i - 1) : y \in from..b
    BY <1>2, <1>3
  <2>2. QED
    BY <1>1, <1>3, <1>4, <2>1
<1>6. i # b => Level(from, i) = -1
  <2> SUFFICES ASSUME i # b PROVE Level(from, i) = -1
    OBVIOUS
  <2>1. Level(from, i) < 0
    BY <1>1, <1>3
  <2>2. CASE i = from
    <3>1. Level(from, from) = Turn(from) /\ Turn(from) \in {-1, 0, 1}
      BY <1>2, LevelOne
    <3>2. QED
      BY <2>1, <2>2, <3>1
  <2>3. CASE i # from
    <3>1. PICK m : m = i - 1
      OBVIOUS
    <3>2. from \in Nat /\ m \in Nat /\ i \in Nat /\ from <= m + 1 /\ m <= i /\ m + 1 = i /\ m \in from..(i - 1)
      BY <1>2, <1>3, <2>3, <3>1
    <3>3. Level(from, i) = Level(from, m) + Level(m + 1, i) /\ Level(from, m) \in Int
      BY <3>2, LevelSplit
    <3>4. Level(i, i) \in {-1, 0, 1}
      BY <3>2, LevelOne
    <3>5. Level(from, m) >= 0
      BY <1>5, <3>2
    <3>6. QED
      BY <2>1, <3>2, <3>3, <3>4, <3>5
  <2>4. QED
    BY <2>2, <2>3
<1>7. \E x \in from..Eof : /\ x = Eof \/ Closes(from, x) = Opens(from, x) + 1
                           /\ \A y \in from..(x - 1) : Closes(from, y) <= Opens(from, y)
  <2>1. i = Eof \/ Closes(from, i) = Opens(from, i) + 1
    BY <1>1, <1>3, <1>4, <1>6
  <2>2. \A y \in from..(i - 1) : Closes(from, y) <= Opens(from, y)
    BY <1>4, <1>5
  <2>3. QED
    BY <1>1, <1>3, <2>1, <2>2
<1>8. /\ e \in from..Eof
      /\ e = Eof \/ Closes(from, e) = Opens(from, e) + 1
      /\ \A y \in from..(e - 1) : Closes(from, y) <= Opens(from, y)
  BY <1>7 DEF HatchEnd
<1>9. \A y \in from..(e - 1) : Level(from, y) >= 0
  <2>1. \A y \in from..(e - 1) : y \in from..b
    BY <1>1, <1>2, <1>8
  <2>2. QED
    BY <1>4, <1>8, <2>1
<1>10. e # Eof => Level(from, e) = -1
  BY <1>1, <1>4, <1>8
<1>11. QED
  BY <1>8, <1>9, <1>10

\* An escape hatch is read as raw tokens: nothing was read ahead when it starts, so
\* the parser goes on behind the brace that closes it, or at the end of the file.
LEMMA HatchFacts ==
    ASSUME file \in Files, NEW r, Reading(r), Kind(r.cur) = "open", NEW a, a = AfterHatch(r)
    PROVE  /\ Reading(a) /\ r.cur < a.cur
           /\ \A o, n \in Nat : Within(o, r.cur, n) /\ n >= 1 => a.cur = Eof \/ Within(o, a.cur, n)
<1>1. /\ r \in [next : 1..Eof, pending : Seq(Nat), look : 0..Eof, cur : 0..Eof]
      /\ r.cur \in Nat /\ r.cur \in 0..Eof /\ r.cur < Eof /\ r.cur # Eof /\ Eof \in Nat
  BY SourceFacts DEF Reading
<1>2. r.look = 0 /\ ReadTo(r) = r.cur /\ r.pending = <<>> /\ Len(r.pending) = 0
  BY <1>1 DEF Reading, ReadTo
<1>3. r.next = r.cur + 1 /\ r.next \in 1..Eof
  BY <1>1, <1>2 DEF Reading
<1>4. PICK from, e : from = r.cur + 1 /\ e = HatchEnd(from)
  OBVIOUS
<1>5. from \in 1..Eof
  BY <1>3, <1>4
<1>6. /\ e \in from..Eof
      /\ \A x \in from..(e - 1) : Level(from, x) >= 0
      /\ e # Eof => Level(from, e) = -1
  BY <1>4, <1>5, HatchEndFacts
<1>7. PICK s : s = [r EXCEPT !.next = IF e = Eof THEN Eof ELSE e + 1]
  OBVIOUS
<1>8. s.look = 0 /\ s.pending = <<>> /\ s.next = (IF e = Eof THEN Eof ELSE e + 1) /\ s.next \in 1..Eof
  BY <1>1, <1>2, <1>5, <1>6, <1>7
<1>9. a = Advance(s)
  BY <1>3, <1>4, <1>7 DEF AfterHatch
<1>10. /\ Reading(a)
       /\ a.cur \in s.next..Eof /\ Kind(a.cur) # "note" /\ \A x \in s.next..(a.cur - 1) : Kind(x) = "note"
  BY <1>8, <1>9, PullFacts
<1>11. r.cur < a.cur
  BY <1>1, <1>4, <1>6, <1>8, <1>10
<1>12. ASSUME NEW o \in Nat, NEW n \in Nat, Within(o, r.cur, n), n >= 1, a.cur # Eof
       PROVE  Within(o, a.cur, n)
  <2>1. e # Eof /\ e \in Nat /\ from \in Nat /\ o < r.cur /\ from <= e /\ s.next = e + 1 /\ a.cur \in Nat /\ e < a.cur
    BY <1>1, <1>5, <1>6, <1>8, <1>10, <1>12 DEF Within
  <2>2. Turn(r.cur) = 1
    BY DEF Turn
  <2>3. Level(o, r.cur) = n + 1
    <3>1. PICK m : m = r.cur - 1
      OBVIOUS
    <3>2. m \in Nat /\ o <= m + 1 /\ m <= r.cur /\ m + 1 = r.cur /\ Level(o, m) = n
      BY <1>1, <1>12, <2>1, <3>1 DEF Within
    <3>3. Level(o, r.cur) = Level(o, m) + Level(m + 1, r.cur)
      BY <1>1, <3>2, LevelSplit
    <3>4. Level(r.cur, r.cur) = 1
      BY <1>1, <2>2, LevelOne
    <3>5. QED
      BY <3>2, <3>3, <3>4
  <2>4. ASSUME NEW x \in from..e PROVE Level(o, x) >= 1 /\ (x = e => Level(o, x) = n)
    <3>1. x \in Nat /\ r.cur \in Nat /\ o <= r.cur + 1 /\ r.cur <= x
      BY <1>1, <1>4, <2>1
    <3>2. Level(o, x) = Level(o, r.cur) + Level(r.cur + 1, x) /\ Level(r.cur + 1, x) \in Int
      BY <3>1, LevelSplit
    <3>3. x = e => Level(from, x) = -1
      BY <1>6, <2>1
    <3>4. x # e => x \in from..(e - 1)
      BY <2>1
    <3>5. x # e => Level(from, x) >= 0
      BY <1>6, <3>4
    <3>6. Level(o, x) = n + 1 + Level(from, x) /\ Level(from, x) \in Int
      BY <1>4, <2>3, <3>2
    <3>7. QED
      BY <1>12, <3>3, <3>5, <3>6
  <2>5. ASSUME NEW x \in (e + 1)..(a.cur - 1) PROVE Level(o, x) = n
    <3>1. x \in Nat /\ e \in Nat /\ o <= e + 1 /\ e <= x
      BY <1>1, <1>4, <2>1
    <3>2. Level(o, x) = Level(o, e) + Level(e + 1, x)
      BY <3>1, LevelSplit
    <3>3. \A y \in (e + 1)..x : Kind(y) = "note"
      BY <1>10, <2>1
    <3>4. Level(e + 1, x) = 0
      BY <2>1, <3>1, <3>3, LevelNotes
    <3>5. e \in from..e
      BY <2>1
    <3>6. Level(o, e) = n
      BY <2>4, <3>5
    <3>7. QED
      BY <3>2, <3>4, <3>6
  <2>6. ASSUME NEW x \in o..(a.cur - 1) PROVE Level(o, x) >= 1
    <3>1. x \in o..(r.cur - 1) \/ x = r.cur \/ x \in from..e \/ x \in (e + 1)..(a.cur - 1)
      BY <1>1, <1>4, <2>1
    <3>2. QED
      BY <1>12, <2>3, <2>4, <2>5, <3>1 DEF Within
  <2>7. Level(o, a.cur - 1) = n
    <3>1. a.cur - 1 \in (e + 1)..(a.cur - 1) \/ a.cur - 1 = e
      BY <2>1
    <3>2. e \in from..e
      BY <2>1
    <3>3. QED
      BY <2>4, <2>5, <3>1, <3>2
  <2>8. o < a.cur
    BY <1>1, <1>11, <2>1
  <2>9. QED
    BY <2>6, <2>7, <2>8 DEF Within
<1>13. QED
  BY <1>10, <1>11, <1>12

-----------------------------------------------------------------------------
(* Calls are pushed and popped.                                            *)

LEMMA PushFacts ==
    ASSUME NEW s, \E S : s \in Seq(S), NEW g, NEW t, t = Append(s, g)
    PROVE  /\ \E S : t \in Seq(S)
           /\ Len(s) \in Nat /\ Len(t) \in Nat /\ Len(t) = Len(s) + 1 /\ t # <<>>
           /\ t[Len(t)] = g /\ \A i \in 1..Len(s) : t[i] = s[i]
           /\ DOMAIN s = 1..Len(s) /\ DOMAIN t = 1..Len(t)
<1>1. PICK S : s \in Seq(S)
  OBVIOUS
<1>2. PICK T : T = S \cup {g}
  OBVIOUS
<1>3. s \in Seq(T) /\ g \in T
  <2>1. s \in [1..Len(s) -> S] /\ Len(s) \in Nat
    BY <1>1, LenProperties
  <2>2. s \in [1..Len(s) -> T]
    BY <1>2, <2>1
  <2>3. QED
    BY <1>2, <2>1, <2>2, SeqDef
<1>4. /\ t \in Seq(T) /\ t # <<>> /\ Len(t) = Len(s) + 1 /\ t[Len(s) + 1] = g
      /\ \A i \in 1..Len(s) : t[i] = s[i]
  BY <1>3, AppendProperties
<1>5. Len(s) \in Nat /\ Len(t) \in Nat /\ DOMAIN s = 1..Len(s) /\ DOMAIN t = 1..Len(t)
  BY <1>3, <1>4, LenProperties
<1>6. QED
  BY <1>4, <1>5

LEMMA PopFacts ==
    ASSUME NEW s, \E S : s \in Seq(S), s # <<>>, NEW t, t = Front(s)
    PROVE  /\ \E S : t \in Seq(S)
           /\ Len(s) \in Nat /\ Len(s) >= 1 /\ Len(t) \in Nat /\ Len(t) = Len(s) - 1
           /\ Last(s) = s[Len(s)] /\ \A i \in 1..Len(t) : t[i] = s[i]
           /\ DOMAIN s = 1..Len(s) /\ DOMAIN t = 1..Len(t) /\ Len(s) \in 1..Len(s)
<1>1. PICK S : s \in Seq(S)
  OBVIOUS
<1>2. Len(s) \in Nat /\ Len(s) >= 1 /\ DOMAIN s = 1..Len(s) /\ s \in [1..Len(s) -> S]
  BY <1>1, LenProperties, EmptySeq
<1>3. Last(s) = s[Len(s)]
  BY DEF Last
<1>4. PICK n : n = Len(s) - 1
  OBVIOUS
<1>5. n \in Nat /\ n <= Len(s)
  BY <1>2, <1>4
<1>6. t = SubSeq(s, 1, n)
  BY <1>4 DEF Front
<1>7. t = [i \in 1..n |-> s[i]]
  BY <1>2, <1>5, <1>6, SubSeqProperties
<1>8. t \in [1..n -> S]
  BY <1>2, <1>5, <1>7
<1>9. t \in Seq(S) /\ Len(t) = n /\ DOMAIN t = 1..n
  BY <1>5, <1>8
<1>10. \A i \in 1..Len(t) : t[i] = s[i]
  BY <1>7, <1>9
<1>11. QED
  BY <1>2, <1>3, <1>4, <1>5, <1>9, <1>10

LEMMA LeftFacts ==
    ASSUME NEW g
    PROVE  Left(g) \in {1, 2, 3}
BY DEF Left

LEMMA WeightFacts ==
    ASSUME NEW g, HeadFrame(g) \/ InnerFrame(g)
    PROVE  Weight(g) \in Nat
<1>1. CASE HeadFrame(g)
  BY <1>1 DEF HeadFrame, Weight, Block
<1>2. CASE InnerFrame(g)
  BY <1>2 DEF InnerFrame, Weight
<1>3. QED
  BY <1>1, <1>2

\* A stack with fewer tasks is closer to the end.
LEMMA FewerTasks ==
    ASSUME NEW s, \E S : s \in Seq(S), NEW t, Tasks(t) \subseteq Tasks(s), NEW p \in Tasks(s), p \notin Tasks(t)
    PROVE  Cardinality(Tasks(t)) < Cardinality(Tasks(s))
<1>1. Len(s) \in Nat /\ DOMAIN s = 1..Len(s)
  BY LenProperties
<1>2. PICK A, B : A = Tasks(s) /\ B = Tasks(t)
  OBVIOUS
<1>3. A \subseteq (1..Len(s)) \X (1..3)
  <2>1. ASSUME NEW i \in DOMAIN s PROVE {i} \X (1..Left(s[i])) \subseteq (1..Len(s)) \X (1..3)
    <3>1. Left(s[i]) \in {1, 2, 3}
      BY LeftFacts
    <3>2. 1..Left(s[i]) \subseteq 1..3
      BY <3>1
    <3>3. QED
      BY <1>1, <3>2
  <2>2. QED
    BY <1>2, <2>1 DEF Tasks
<1>4. IsFiniteSet(A)
  <2>1. IsFiniteSet(1..Len(s)) /\ IsFiniteSet(1..3)
    <3>1. PICK a, b, c : a = 1 /\ b = Len(s) /\ c = 3
      OBVIOUS
    <3>2. a \in Int /\ b \in Int /\ c \in Int
      BY <1>1, <3>1
    <3>3. IsFiniteSet(a..b) /\ IsFiniteSet(a..c)
      BY <3>2, FS_Interval
    <3>4. QED
      BY <3>1, <3>3
  <2>2. PICK X, Y : X = 1..Len(s) /\ Y = 1..3
    OBVIOUS
  <2>3. IsFiniteSet(X \X Y)
    BY <2>1, <2>2, FS_Product
  <2>4. A \in SUBSET (X \X Y)
    BY <1>3, <2>2
  <2>5. QED
    BY <2>3, <2>4, FS_Subset
<1>5. B \subseteq A /\ A # B
  BY <1>2
<1>6. Cardinality(B) <= Cardinality(A) /\ Cardinality(A) # Cardinality(B) /\ IsFiniteSet(B)
  BY <1>4, <1>5, FS_Subset
<1>7. Cardinality(A) \in Nat /\ Cardinality(B) \in Nat
  BY <1>4, <1>6, FS_CardinalityType
<1>8. QED
  BY <1>2, <1>6, <1>7

\* The innermost call returns.
LEMMA Popped ==
    ASSUME NEW s, Stacked(s), s # <<>>, Len(s) # 1, NEW t, t = Front(s)
    PROVE  /\ Stacked(t) /\ t # <<>> /\ Len(t) = Len(s) - 1 /\ t[1] = s[1] /\ s[1].f = "block"
           /\ InnerFrame(Last(s)) /\ (Last(s).f = "jsx" => Last(t).f = "element")
           /\ Tasks(t) \subseteq Tasks(s) /\ <<Len(s), 1>> \in Tasks(s) /\ <<Len(s), 1>> \notin Tasks(t)
           /\ \A n \in Nat : Weighs(s, n) => n - Weight(Last(s)) \in Nat /\ Weighs(t, n - Weight(Last(s)))
<1>1. /\ \E S : t \in Seq(S)
      /\ Len(s) \in Nat /\ Len(s) >= 1 /\ Len(t) \in Nat /\ Len(t) = Len(s) - 1
      /\ Last(s) = s[Len(s)] /\ \A i \in 1..Len(t) : t[i] = s[i]
      /\ DOMAIN s = 1..Len(s) /\ DOMAIN t = 1..Len(t) /\ Len(s) \in 1..Len(s)
  BY PopFacts DEF Stacked
<1>2. Len(t) >= 1 /\ 1 \in 1..Len(t) /\ Len(s) > 1 /\ t[1] = s[1] /\ Len(t) \in 1..Len(t)
  BY <1>1
<1>3. t # <<>>
  BY <1>2, EmptySeq
<1>4. InnerFrame(Last(s)) /\ s[1].f = "block"
  BY <1>1, <1>2 DEF Stacked
<1>5. Last(t) = s[Len(s) - 1]
  BY <1>1, <1>2 DEF Last
<1>6. Last(s).f = "jsx" => Last(t).f = "element"
  BY <1>1, <1>5 DEF Stacked
<1>7. Stacked(t)
  <2>1. ASSUME NEW i \in 1..Len(t)
        PROVE  /\ i = 1 => HeadFrame(t[i])
               /\ i > 1 => InnerFrame(t[i]) /\ t[1].f = "block"
               /\ t[i].f = "jsx" => i > 1 /\ t[i - 1].f = "element"
    <3>1. i \in 1..Len(s) /\ t[i] = s[i]
      BY <1>1
    <3>2. i > 1 => i - 1 \in 1..Len(t)
      BY <1>1
    <3>3. i > 1 => t[i - 1] = s[i - 1]
      BY <1>1, <3>2
    <3>4. /\ i = 1 => HeadFrame(s[i])
          /\ i > 1 => InnerFrame(s[i]) /\ s[1].f = "block"
          /\ s[i].f = "jsx" => i > 1 /\ s[i - 1].f = "element"
      BY <3>1 DEF Stacked
    <3>5. QED
      BY <1>2, <3>1, <3>3, <3>4
  <2>2. QED
    BY <1>1, <2>1 DEF Stacked
<1>8. Tasks(t) \subseteq Tasks(s)
  <2>1. \A i \in DOMAIN t : i \in DOMAIN s /\ t[i] = s[i]
    BY <1>1
  <2>2. QED
    BY <2>1 DEF Tasks
<1>9. <<Len(s), 1>> \in Tasks(s) /\ <<Len(s), 1>> \notin Tasks(t)
  <2>1. 1 \in 1..Left(s[Len(s)])
    BY LeftFacts
  <2>2. Len(s) \in DOMAIN s /\ Len(s) \notin DOMAIN t
    BY <1>1
  <2>3. QED
    BY <2>1, <2>2 DEF Tasks
<1>10. ASSUME NEW n \in Nat, Weighs(s, n)
       PROVE  n - Weight(Last(s)) \in Nat /\ Weighs(t, n - Weight(Last(s)))
  <2>1. PICK w : /\ w[0] = 0 /\ w[Len(s)] = n
                 /\ \A i \in 1..Len(s) : w[i] = w[i - 1] + Weight(s[i])
                 /\ \A i \in 0..Len(s) : w[i] \in Nat
    BY <1>10 DEF Weighs
  <2>2. Weight(Last(s)) \in Nat
    BY <1>4, WeightFacts
  <2>3. w[Len(s)] = w[Len(s) - 1] + Weight(Last(s)) /\ w[Len(s) - 1] \in Nat /\ Len(s) - 1 = Len(t)
    <3>1. Len(s) - 1 \in 0..Len(s)
      BY <1>1
    <3>2. QED
      BY <1>1, <2>1, <3>1
  <2>4. w[Len(t)] = n - Weight(Last(s)) /\ n - Weight(Last(s)) \in Nat
    BY <2>1, <2>2, <2>3
  <2>5. \A i \in 1..Len(t) : w[i] = w[i - 1] + Weight(t[i])
    <3>1. \A i \in 1..Len(t) : i \in 1..Len(s) /\ t[i] = s[i]
      BY <1>1
    <3>2. QED
      BY <2>1, <3>1
  <2>6. \A i \in 0..Len(t) : w[i] \in Nat
    <3>1. \A i \in 0..Len(t) : i \in 0..Len(s)
      BY <1>1
    <3>2. QED
      BY <2>1, <3>1
  <2>7. QED
    BY <2>1, <2>4, <2>5, <2>6 DEF Weighs
<1>11. QED
  BY <1>1, <1>2, <1>3, <1>4, <1>6, <1>7, <1>8, <1>9, <1>10

\* An element or a hatch starts.
LEMMA Pushed ==
    ASSUME NEW s, Stacked(s), s # <<>>, s[1].f = "block", NEW g, InnerFrame(g),
           g.f = "jsx" => Last(s).f = "element", NEW t, t = Append(s, g)
    PROVE  /\ Stacked(t) /\ t # <<>> /\ t[1] = s[1]
           /\ \A n \in Nat : Weighs(s, n) => n + Weight(g) \in Nat /\ Weighs(t, n + Weight(g))
<1>1. /\ \E S : t \in Seq(S)
      /\ Len(s) \in Nat /\ Len(t) \in Nat /\ Len(t) = Len(s) + 1 /\ t # <<>>
      /\ t[Len(t)] = g /\ \A i \in 1..Len(s) : t[i] = s[i]
  BY PushFacts DEF Stacked
<1>2. Len(s) >= 1
  BY PopFacts DEF Stacked
<1>3. t[1] = s[1] /\ Len(s) \in 1..Len(s) /\ t[Len(s)] = s[Len(s)] /\ Last(s) = s[Len(s)]
  BY <1>1, <1>2 DEF Last
<1>4. Stacked(t)
  <2>1. ASSUME NEW i \in 1..Len(t)
        PROVE  /\ i = 1 => HeadFrame(t[i])
               /\ i > 1 => InnerFrame(t[i]) /\ t[1].f = "block"
               /\ t[i].f = "jsx" => i > 1 /\ t[i - 1].f = "element"
    <3>1. CASE i = Len(t)
      <4>1. i > 1 /\ i # 1 /\ i - 1 = Len(s)
        BY <1>1, <1>2, <3>1
      <4>2. QED
        BY <1>1, <1>3, <3>1, <4>1
    <3>2. CASE i # Len(t)
      <4>1. i \in 1..Len(s) /\ t[i] = s[i]
        BY <1>1, <3>2
      <4>2. i > 1 => i - 1 \in 1..Len(s) /\ t[i - 1] = s[i - 1]
        <5>1. i > 1 => i - 1 \in 1..Len(s)
          BY <4>1
        <5>2. QED
          BY <1>1, <5>1
      <4>3. /\ i = 1 => HeadFrame(s[i])
            /\ i > 1 => InnerFrame(s[i]) /\ s[1].f = "block"
            /\ s[i].f = "jsx" => i > 1 /\ s[i - 1].f = "element"
        BY <4>1 DEF Stacked
      <4>4. QED
        BY <1>3, <4>1, <4>2, <4>3
    <3>3. QED
      BY <3>1, <3>2
  <2>2. QED
    BY <1>1, <2>1 DEF Stacked
<1>5. ASSUME NEW n \in Nat, Weighs(s, n)
      PROVE  n + Weight(g) \in Nat /\ Weighs(t, n + Weight(g))
  <2>1. PICK w : /\ w[0] = 0 /\ w[Len(s)] = n
                 /\ \A i \in 1..Len(s) : w[i] = w[i - 1] + Weight(s[i])
                 /\ \A i \in 0..Len(s) : w[i] \in Nat
    BY <1>5 DEF Weighs
  <2>2. Weight(g) \in Nat
    BY WeightFacts
  <2>3. PICK v : v = [i \in 0..Len(t) |-> IF i = Len(t) THEN n + Weight(g) ELSE w[i]]
    OBVIOUS
  <2>4. v[Len(t)] = n + Weight(g) /\ v[0] = 0
    BY <1>1, <2>1, <2>3
  <2>5. \A i \in 0..Len(s) : v[i] = w[i]
    BY <1>1, <2>3
  <2>6. ASSUME NEW i \in 1..Len(t) PROVE v[i] = v[i - 1] + Weight(t[i])
    <3>1. CASE i = Len(t)
      <4>1. i - 1 = Len(s) /\ i - 1 \in 0..Len(s)
        BY <1>1, <3>1
      <4>2. v[i - 1] = n
        BY <2>1, <2>5, <4>1
      <4>3. QED
        BY <1>1, <2>4, <3>1, <4>2
    <3>2. CASE i # Len(t)
      <4>1. i \in 1..Len(s) /\ i \in 0..Len(s) /\ i - 1 \in 0..Len(s)
        BY <1>1, <3>2
      <4>2. v[i] = w[i] /\ v[i - 1] = w[i - 1] /\ t[i] = s[i]
        BY <1>1, <2>5, <4>1
      <4>3. QED
        BY <2>1, <4>1, <4>2
    <3>3. QED
      BY <3>1, <3>2
  <2>7. \A i \in 0..Len(t) : v[i] \in Nat
    <3>1. \A i \in 0..Len(t) : i = Len(t) \/ i \in 0..Len(s)
      BY <1>1
    <3>2. v[Len(t)] \in Nat
      BY <2>2, <2>4
    <3>3. \A i \in 0..Len(s) : v[i] \in Nat
      BY <2>1, <2>5
    <3>4. QED
      BY <3>1, <3>2, <3>3
  <2>8. QED
    BY <2>2, <2>4, <2>6, <2>7 DEF Weighs
<1>6. QED
  BY <1>1, <1>3, <1>4, <1>5

\* The innermost call goes on as frame g.
LEMMA Replaced ==
    ASSUME NEW s, Stacked(s), s # <<>>, NEW g,
           Len(s) = 1 => HeadFrame(g) /\ g.at = s[1].at,
           Len(s) # 1 => InnerFrame(g) /\ g.f = Last(s).f,
           NEW t, t = Append(Front(s), g)
    PROVE  /\ Stacked(t) /\ t # <<>> /\ t[1].at = s[1].at /\ (Len(s) # 1 => t[1] = s[1]) /\ Last(t) = g
           /\ Left(g) <= Left(Last(s)) => Tasks(t) \subseteq Tasks(s)
           /\ Left(g) < Left(Last(s)) => Cardinality(Tasks(t)) < Cardinality(Tasks(s))
           /\ \A n \in Nat : Weighs(s, n) => /\ n - Weight(Last(s)) \in Nat
                                             /\ n - Weight(Last(s)) + Weight(g) \in Nat
                                             /\ Weighs(t, n - Weight(Last(s)) + Weight(g))
<1>1. PICK b : b = Front(s)
  OBVIOUS
<1>2. /\ \E S : b \in Seq(S)
      /\ Len(s) \in Nat /\ Len(s) >= 1 /\ Len(b) \in Nat /\ Len(b) = Len(s) - 1
      /\ Last(s) = s[Len(s)] /\ \A i \in 1..Len(b) : b[i] = s[i]
      /\ DOMAIN s = 1..Len(s)
  BY <1>1, PopFacts DEF Stacked
<1>3. /\ \E S : t \in Seq(S)
      /\ Len(t) \in Nat /\ Len(t) = Len(b) + 1 /\ t # <<>>
      /\ t[Len(t)] = g /\ \A i \in 1..Len(b) : t[i] = b[i]
      /\ DOMAIN t = 1..Len(t)
  BY <1>1, <1>2, PushFacts
<1>4. Len(t) = Len(s) /\ \A i \in 1..Len(s) : i # Len(s) => t[i] = s[i]
  <2>1. \A i \in 1..Len(s) : i # Len(s) => i \in 1..Len(b)
    BY <1>2
  <2>2. QED
    BY <1>2, <1>3, <2>1
<1>5. t[1].at = s[1].at /\ (Len(s) # 1 => t[1] = s[1])
  <2>1. 1 \in 1..Len(s)
    BY <1>2
  <2>2. QED
    BY <1>3, <1>4, <2>1
<1>6. Last(t) = g
  BY <1>3 DEF Last
<1>7. Stacked(t)
  <2>1. ASSUME NEW i \in 1..Len(t)
        PROVE  /\ i = 1 => HeadFrame(t[i])
               /\ i > 1 => InnerFrame(t[i]) /\ t[1].f = "block"
               /\ t[i].f = "jsx" => i > 1 /\ t[i - 1].f = "element"
    <3>0. /\ i \in 1..Len(s)
          /\ i = 1 => HeadFrame(s[i])
          /\ i > 1 => InnerFrame(s[i]) /\ s[1].f = "block"
          /\ s[i].f = "jsx" => i > 1 /\ s[i - 1].f = "element"
      BY <1>4 DEF Stacked
    <3>1. i > 1 => i - 1 \in 1..Len(s) /\ i - 1 # Len(s) /\ Len(s) # 1
      BY <1>2, <3>0
    <3>2. i > 1 => t[i - 1] = s[i - 1] /\ t[1] = s[1]
      BY <1>4, <1>5, <3>1
    <3>3. CASE i = Len(s)
      <4>1. CASE Len(s) = 1
        <5>1. HeadFrame(g) /\ t[i] = g /\ i = 1
          BY <1>3, <1>4, <3>3, <4>1
        <5>2. g.f # "jsx"
          BY <5>1 DEF HeadFrame, Block
        <5>3. QED
          BY <5>1, <5>2
      <4>2. CASE Len(s) # 1
        BY <1>2, <1>3, <1>4, <3>0, <3>2, <3>3, <4>2
      <4>3. QED
        BY <4>1, <4>2
    <3>4. CASE i # Len(s)
      <4>1. t[i] = s[i]
        BY <1>4, <3>0, <3>4
      <4>2. QED
        BY <3>0, <3>2, <4>1
    <3>5. QED
      BY <3>3, <3>4
  <2>2. QED
    BY <1>3, <2>1 DEF Stacked
<1>8. ASSUME Left(g) <= Left(Last(s)) PROVE Tasks(t) \subseteq Tasks(s)
  <2>1. ASSUME NEW i \in DOMAIN t PROVE i \in DOMAIN s /\ 1..Left(t[i]) \subseteq 1..Left(s[i])
    <3>1. i \in 1..Len(s)
      BY <1>3, <1>4
    <3>2. CASE i = Len(s)
      <4>1. t[i] = g /\ s[i] = Last(s)
        BY <1>2, <1>3, <1>4, <3>2
      <4>2. Left(g) \in {1, 2, 3} /\ Left(Last(s)) \in {1, 2, 3}
        BY LeftFacts
      <4>3. QED
        BY <1>2, <1>8, <3>1, <4>1, <4>2
    <3>3. CASE i # Len(s)
      BY <1>2, <1>4, <3>1, <3>3
    <3>4. QED
      BY <3>2, <3>3
  <2>2. QED
    BY <2>1 DEF Tasks
<1>9. ASSUME Left(g) < Left(Last(s)) PROVE Cardinality(Tasks(t)) < Cardinality(Tasks(s))
  <2>0. Left(g) \in {1, 2, 3} /\ Left(Last(s)) \in {1, 2, 3}
    BY LeftFacts
  <2>1. Tasks(t) \subseteq Tasks(s)
    BY <1>8, <1>9, <2>0
  <2>2. Len(s) \in DOMAIN s /\ s[Len(s)] = Last(s) /\ t[Len(s)] = g
    BY <1>2, <1>3, <1>4
  <2>3. PICK p : p = <<Len(s), Left(Last(s))>>
    OBVIOUS
  <2>4. p \in Tasks(s)
    <3>1. Left(Last(s)) \in 1..Left(Last(s))
      BY <2>0
    <3>2. QED
      BY <2>2, <2>3, <3>1 DEF Tasks
  <2>5. p \notin Tasks(t)
    <3>1. Left(Last(s)) \notin 1..Left(g)
      BY <1>9, <2>0
    <3>2. QED
      BY <2>2, <2>3, <3>1 DEF Tasks
  <2>6. QED
    BY <2>1, <2>4, <2>5, FewerTasks DEF Stacked
<1>10. HeadFrame(g) \/ InnerFrame(g)
  OBVIOUS
<1>11. HeadFrame(Last(s)) \/ InnerFrame(Last(s))
  <2>1. Len(s) \in 1..Len(s) /\ (Len(s) = 1 \/ Len(s) > 1)
    BY <1>2
  <2>2. QED
    BY <1>2, <2>1 DEF Stacked
<1>12. Weight(g) \in Nat /\ Weight(Last(s)) \in Nat
  BY <1>10, <1>11, WeightFacts
<1>13. ASSUME NEW n \in Nat, Weighs(s, n)
       PROVE  /\ n - Weight(Last(s)) \in Nat
              /\ n - Weight(Last(s)) + Weight(g) \in Nat
              /\ Weighs(t, n - Weight(Last(s)) + Weight(g))
  <2>1. PICK w : /\ w[0] = 0 /\ w[Len(s)] = n
                 /\ \A i \in 1..Len(s) : w[i] = w[i - 1] + Weight(s[i])
                 /\ \A i \in 0..Len(s) : w[i] \in Nat
    BY <1>13 DEF Weighs
  <2>2. PICK m : m = n - Weight(Last(s)) + Weight(g)
    OBVIOUS
  <2>3. PICK v : v = [i \in 0..Len(s) |-> IF i = Len(s) THEN m ELSE w[i]]
    OBVIOUS
  <2>4. w[Len(s) - 1] = n - Weight(Last(s)) /\ n - Weight(Last(s)) \in Nat
    <3>1. Len(s) \in 1..Len(s) /\ Len(s) - 1 \in 0..Len(s)
      BY <1>2
    <3>2. w[Len(s)] = w[Len(s) - 1] + Weight(s[Len(s)]) /\ w[Len(s) - 1] \in Nat
      BY <2>1, <3>1
    <3>3. QED
      BY <1>2, <1>12, <2>1, <3>2
  <2>5. m \in Nat
    <3>1. PICK d, k : d = n - Weight(Last(s)) /\ k = Weight(g)
      OBVIOUS
    <3>2. d \in Nat /\ k \in Nat /\ m = d + k
      BY <1>12, <2>2, <2>4, <3>1
    <3>3. QED
      BY <3>2
  <2>6. v[Len(s)] = m /\ v[0] = 0 /\ \A i \in 0..Len(s) : i # Len(s) => v[i] = w[i]
    BY <1>2, <2>1, <2>3
  <2>7. ASSUME NEW i \in 1..Len(s) PROVE v[i] = v[i - 1] + Weight(t[i])
    <3>1. i \in 0..Len(s) /\ i - 1 \in 0..Len(s) /\ i - 1 # Len(s)
      BY <1>2
    <3>2. v[i - 1] = w[i - 1]
      BY <2>6, <3>1
    <3>3. CASE i = Len(s)
      BY <1>3, <1>4, <2>2, <2>4, <2>6, <3>2, <3>3
    <3>4. CASE i # Len(s)
      BY <1>4, <2>1, <2>6, <3>1, <3>2, <3>4
    <3>5. QED
      BY <3>3, <3>4
  <2>8. \A i \in 0..Len(s) : v[i] \in Nat
    BY <2>1, <2>5, <2>6
  <2>9. QED
    BY <1>4, <2>2, <2>4, <2>5, <2>6, <2>7, <2>8 DEF Weighs
<1>14. QED
  BY <1>3, <1>5, <1>6, <1>7, <1>8, <1>9, <1>13

\* A stack that is not empty has seen the brace of its block.
LEMMA Heavy ==
    ASSUME NEW s, Stacked(s), s # <<>>, NEW n \in Nat, Weighs(s, n)
    PROVE  n >= 1
<1>1. Len(s) \in Nat /\ Len(s) >= 1
  BY PopFacts DEF Stacked
<1>2. PICK w : /\ w[0] = 0 /\ w[Len(s)] = n
               /\ \A i \in 1..Len(s) : w[i] = w[i - 1] + Weight(s[i])
               /\ \A i \in 0..Len(s) : w[i] \in Nat
  BY DEF Weighs
<1>3. SUFFICES ASSUME n = 0 PROVE FALSE
  OBVIOUS
<1>4. PICK Z : Z = {i \in 1..Len(s) : w[i] = 0}
  OBVIOUS
<1>5. Z \in SUBSET Nat /\ Z # {}
  BY <1>1, <1>2, <1>3, <1>4
<1>6. PICK i \in Z : \A j \in Z : i <= j
  BY <1>5, LeastNumber
<1>7. i \in 1..Len(s) /\ w[i] = 0 /\ i - 1 \in 0..Len(s)
  BY <1>1, <1>4, <1>6
<1>8. w[i - 1] \in Nat /\ 0 = w[i - 1] + Weight(s[i])
  BY <1>2, <1>7
<1>9. CASE i = 1
  <2>1. HeadFrame(s[1])
    BY <1>7, <1>9 DEF Stacked
  <2>2. Weight(s[1]) \in Nat \ {0}
    BY <2>1 DEF HeadFrame, Block, Weight
  <2>3. QED
    BY <1>8, <1>9, <2>2
<1>10. CASE i # 1
  <2>1. InnerFrame(s[i])
    BY <1>7, <1>10 DEF Stacked
  <2>2. Weight(s[i]) \in Nat
    BY <2>1, WeightFacts
  <2>3. i - 1 \in 1..Len(s) /\ ~(i <= i - 1)
    BY <1>1, <1>7, <1>10
  <2>4. w[i - 1] # 0
    BY <1>4, <1>6, <2>3
  <2>5. QED
    BY <1>8, <2>2, <2>4
<1>11. QED
  BY <1>9, <1>10

\* The parser consumes a token, its calls having counted it.
LEMMA TrackedMoves ==
    ASSUME NEW s, NEW t, Stacked(t), t # <<>>, t[1].at = s[1].at,
           NEW c \in Nat, NEW d \in Nat, Tracked(s, c), Follows(c, d),
           \A n \in Nat : Weighs(s, n) => n + Turn(c) \in Nat /\ Weighs(t, n + Turn(c))
    PROVE  Tracked(t, d)
<1>1. PICK o, n \in Nat : OpensBlock(s[1].at, o) /\ Within(o, c, n) /\ Weighs(s, n)
  BY DEF Tracked
<1>2. PICK m : m = n + Turn(c)
  OBVIOUS
<1>3. m \in Nat /\ Weighs(t, m)
  BY <1>1, <1>2
<1>4. m >= 1
  BY <1>3, Heavy
<1>5. Within(o, d, m)
  BY <1>1, <1>2, <1>3, <1>4, WithinMoves
<1>6. QED
  BY <1>1, <1>3, <1>5 DEF Tracked

LEMMA TrackedStays ==
    ASSUME NEW s, NEW t, t[1].at = s[1].at, NEW c, Tracked(s, c),
           \A n \in Nat : Weighs(s, n) => Weighs(t, n)
    PROVE  Tracked(t, c)
BY DEF Tracked

\* The parser consumes a token that is no brace.
LEMMA Consumed ==
    ASSUME file \in Files, NEW r, Reading(r), Kind(r.cur) \notin {"open", "close", "eof"},
           NEW s, Stacked(s), s # <<>>, Tracked(s, r.cur), NEW a, a = Advance(r)
    PROVE  /\ Reading(a) /\ a.cur \in Nat /\ a.cur > r.cur /\ a.cur # 0 /\ a.look = 0
           /\ Kind(a.cur) # "note" /\ Tracked(s, a.cur)
<1>1. r.cur \in Nat /\ r.cur # Eof
  BY SourceFacts DEF Reading
<1>2. Reading(a) /\ a.look = 0 /\ Follows(r.cur, a.cur)
  BY <1>1, AdvanceFacts
<1>3. a.cur \in Nat /\ a.cur > r.cur /\ a.cur # 0 /\ Kind(a.cur) # "note"
  <2>1. a.cur \in Nat
    BY <1>2, SourceFacts DEF Reading
  <2>2. r.cur < a.cur /\ Kind(a.cur) # "note"
    BY <1>2 DEF Follows
  <2>3. QED
    BY <1>1, <2>1, <2>2
<1>4. Turn(r.cur) = 0
  BY DEF Turn
<1>5. \A n \in Nat : Weighs(s, n) => n + Turn(r.cur) \in Nat /\ Weighs(s, n + Turn(r.cur))
  <2>1. \A n \in Nat : n + Turn(r.cur) = n
    BY <1>4
  <2>2. QED
    BY <2>1
<1>6. Tracked(s, a.cur)
  BY <1>1, <1>2, <1>3, <1>5, TrackedMoves
<1>7. QED
  BY <1>2, <1>3, <1>6

-----------------------------------------------------------------------------
(* Calls that return.                                                      *)

LEMMA BlockGiven ==
    ASSUME NEW g, HeadFrame(g), g.f = "block", NEW node, NEW h, h = GiveElement(g, node)
    PROVE  /\ HeadFrame(h) /\ h.at = g.at
           /\ Weight(h) = 1 /\ Weight(g) = 1 /\ Left(h) = 2 /\ Left(g) = 3
<1>1. g = Block(g.at)
  BY DEF HeadFrame, Block
<1>2. h = [f |-> "closing", at |-> g.at, root |-> node]
  BY DEF GiveElement
<1>3. QED
  BY <1>1, <1>2 DEF HeadFrame, Block, Weight, Left

LEMMA InnerGiven ==
    ASSUME NEW g, InnerFrame(g), NEW node, NEW h, h = GiveElement(g, node)
    PROVE  InnerFrame(h) /\ h.f = g.f /\ Weight(h) = Weight(g) /\ Left(h) = Left(g)
<1>1. CASE g.f = "element"
  <2>1. /\ g = [f |-> "element", stage |-> g.stage, node |-> g.node, name |-> g.name, text |-> g.text]
        /\ g.stage \in {"tag", "props", "value", "children"}
    BY <1>1 DEF InnerFrame
  <2>2. PICK N : h = [g EXCEPT !.node = N]
    BY <1>1 DEF GiveElement
  <2>3. h = [f |-> "element", stage |-> g.stage, node |-> N, name |-> g.name, text |-> g.text]
    BY <2>1, <2>2
  <2>4. QED
    BY <1>1, <2>1, <2>3 DEF InnerFrame, Weight, Left
<1>2. CASE g.f # "element"
  <2>1. /\ g = [f |-> "jsx", at |-> g.at, depth |-> g.depth, segs |-> g.segs, text |-> g.text]
        /\ g.depth \in Nat \ {0} /\ g.f = "jsx"
    BY <1>2 DEF InnerFrame
  <2>2. PICK N : h = [g EXCEPT !.segs = N]
    BY <2>1 DEF GiveElement
  <2>3. h = [f |-> "jsx", at |-> g.at, depth |-> g.depth, segs |-> N, text |-> g.text]
    BY <2>1, <2>2
  <2>4. QED
    BY <2>1, <2>3 DEF InnerFrame, Weight, Left
<1>3. QED
  BY <1>1, <1>2

\* An element returns to its caller.
LEMMA Returned ==
    ASSUME NEW s, Stacked(s), s # <<>>, Last(s).f = "element", NEW node,
           NEW b, b = Front(s), NEW t, t = Append(Front(b), GiveElement(Last(b), node))
    PROVE  /\ Stacked(t) /\ t # <<>> /\ t[1].at = s[1].at
           /\ Cardinality(Tasks(t)) < Cardinality(Tasks(s))
           /\ \A n \in Nat : Weighs(s, n) => Weighs(t, n)
<1>1. Len(s) # 1
  <2>1. ASSUME Len(s) = 1 PROVE FALSE
    <3>1. HeadFrame(Last(s))
      BY <2>1, PopFacts DEF Stacked
    <3>2. QED
      BY <3>1 DEF HeadFrame, Block
  <2>2. QED
    BY <2>1
<1>2. /\ Stacked(b) /\ b # <<>> /\ b[1] = s[1] /\ s[1].f = "block"
      /\ InnerFrame(Last(s))
      /\ Tasks(b) \subseteq Tasks(s) /\ <<Len(s), 1>> \in Tasks(s) /\ <<Len(s), 1>> \notin Tasks(b)
      /\ \A n \in Nat : Weighs(s, n) => n - Weight(Last(s)) \in Nat /\ Weighs(b, n - Weight(Last(s)))
  BY <1>1, Popped
<1>3. PICK g, h : g = Last(b) /\ h = GiveElement(g, node)
  OBVIOUS
<1>4. /\ Len(b) = 1 => HeadFrame(h) /\ h.at = b[1].at
      /\ Len(b) # 1 => InnerFrame(h) /\ h.f = Last(b).f
      /\ Weight(h) = Weight(g) /\ Weight(g) \in Nat /\ Left(h) <= Left(g)
  <2>1. Len(b) \in Nat /\ Len(b) >= 1 /\ Len(b) \in 1..Len(b) /\ g = b[Len(b)]
    BY <1>2, <1>3, PopFacts DEF Stacked
  <2>2. CASE Len(b) = 1
    <3>1. HeadFrame(g) /\ g.f = "block" /\ g = b[1]
      BY <1>2, <2>1, <2>2 DEF Stacked
    <3>2. HeadFrame(h) /\ h.at = g.at /\ Weight(h) = 1 /\ Weight(g) = 1 /\ Left(h) = 2 /\ Left(g) = 3
      BY <1>3, <3>1, BlockGiven
    <3>3. QED
      BY <2>2, <3>1, <3>2
  <2>3. CASE Len(b) # 1
    <3>0. Len(b) > 1
      <4>1. PICK n : n = Len(b)
        OBVIOUS
      <4>2. n \in Nat /\ n >= 1 /\ n # 1
        BY <2>1, <2>3, <4>1
      <4>3. n > 1
        BY <4>2
      <4>4. QED
        BY <4>1, <4>3
    <3>1. InnerFrame(g)
      BY <1>2, <2>1, <3>0 DEF Stacked
    <3>2. InnerFrame(h) /\ h.f = g.f /\ Weight(h) = Weight(g) /\ Left(h) = Left(g)
      BY <1>3, <3>1, InnerGiven
    <3>3. Left(g) \in {1, 2, 3} /\ Weight(g) \in Nat
      BY <3>1, LeftFacts, WeightFacts
    <3>4. QED
      BY <1>3, <2>3, <3>2, <3>3
  <2>4. QED
    BY <2>2, <2>3
<1>5. /\ Stacked(t) /\ t # <<>> /\ t[1].at = b[1].at
      /\ Tasks(t) \subseteq Tasks(b)
      /\ \A n \in Nat : Weighs(b, n) => Weighs(t, n - Weight(g) + Weight(h))
  <2>1. t = Append(Front(b), h) /\ Left(h) <= Left(Last(b)) /\ g = Last(b)
    BY <1>3, <1>4
  <2>2. /\ Stacked(t) /\ t # <<>> /\ t[1].at = b[1].at
        /\ Left(h) <= Left(Last(b)) => Tasks(t) \subseteq Tasks(b)
        /\ \A n \in Nat : Weighs(b, n) => Weighs(t, n - Weight(Last(b)) + Weight(h))
    BY <1>2, <1>4, <2>1, Replaced
  <2>3. QED
    BY <2>1, <2>2
<1>6. Cardinality(Tasks(t)) < Cardinality(Tasks(s))
  BY <1>2, <1>5, FewerTasks DEF Stacked
<1>7. ASSUME NEW n \in Nat, Weighs(s, n) PROVE Weighs(t, n)
  <2>1. Weight(Last(s)) = 0
    BY DEF Weight
  <2>2. Weighs(b, n)
    <3>1. n - Weight(Last(s)) = n
      BY <2>1
    <3>2. QED
      BY <1>2, <1>7, <3>1
  <2>3. n - Weight(g) + Weight(h) = n
    BY <1>4
  <2>4. QED
    BY <1>5, <2>2, <2>3
<1>8. QED
  BY <1>2, <1>5, <1>6, <1>7

\* The brace that brings the nesting of a block down is the one that matches by counting.
LEMMA BlockBehind ==
    ASSUME file \in Files, NEW at \in Nat, NEW o \in Nat, NEW c \in Nat, NEW d \in Nat,
           OpensBlock(at, o), Within(o, c, 1), Kind(c) = "close", Follows(c, d)
    PROVE  BehindBlock(at) = d
<1>1. /\ at < o /\ o <= Eof /\ Kind(o) = "open" /\ \A x \in at..(o - 1) : Kind(x) # "open"
      /\ Eof \in Nat /\ o >= 1
  BY SourceFacts DEF OpensBlock
<1>2. o < c /\ (\A x \in o..(c - 1) : Level(o, x) >= 1) /\ Level(o, c - 1) = 1
  BY DEF Within
<1>3. c < d /\ d <= Eof /\ Kind(d) # "note" /\ \A x \in (c + 1)..(d - 1) : Kind(x) = "note"
  BY DEF Follows
<1>4. PICK b, S : /\ b = (CHOOSE i \in at..Eof : Kind(i) = "open" /\ \A x \in at..(i - 1) : Kind(x) # "open")
                  /\ S = {k \in b..Eof : Kind(k) = "eof" \/ Nesting(k) < Nesting(b)}
  OBVIOUS
<1>5. b = o
  <2>1. o \in at..Eof
    BY <1>1
  <2>2. /\ b \in at..Eof /\ Kind(b) = "open" /\ \A x \in at..(b - 1) : Kind(x) # "open"
    BY <1>1, <1>4, <2>1
  <2>3. ~(b < o)
    BY <1>1, <2>2
  <2>4. ~(o < b)
    BY <1>1, <2>2
  <2>5. QED
    BY <1>1, <2>2, <2>3, <2>4
<1>6. ASSUME NEW k \in o..Eof PROVE k \in Nat /\ (Nesting(k) < Nesting(o) <=> Level(o, k) < 1)
  <2>1. k \in Nat /\ o <= k /\ o - 1 \in Nat
    BY <1>1
  <2>2. PICK m : m = o - 1
    OBVIOUS
  <2>3. /\ Level(1, k) \in Int /\ Level(1, m) \in Int /\ Level(o, k) \in Int
        /\ Level(1, k) = Level(1, m) + Level(o, k)
    <3>1. m \in Nat /\ 1 <= m + 1 /\ m <= k /\ m + 1 = o
      BY <1>1, <2>1, <2>2
    <3>3. /\ Level(1, k) \in Int /\ Level(1, m) \in Int /\ Level(m + 1, k) \in Int
          /\ Level(1, k) = Level(1, m) + Level(m + 1, k)
      <4>1. k \in Nat /\ m \in Nat /\ 1 \in Nat /\ 1 <= m + 1 /\ m <= k
        BY <2>1, <3>1
      <4>2. QED
        BY ONLY <4>1, LevelSplit
    <3>4. QED
      BY <3>1, <3>3
  <2>4. Level(1, o) = Level(1, m) + Level(o, o)
    <3>1. m \in Nat /\ 1 <= m + 1 /\ m <= o /\ m + 1 = o
      BY <1>1, <2>1, <2>2
    <3>2. QED
      BY <3>1, LevelSplit
  <2>5. Level(o, o) = 1
    BY <1>1, LevelOne DEF Turn
  <2>6. Nesting(k) = Level(1, k) /\ Nesting(o) = Level(1, o)
    BY DEF Nesting, Level, Opens, Closes
  <2>7. QED
    BY <2>1, <2>3, <2>4, <2>5, <2>6
<1>7. c \in o..Eof /\ Level(o, c) = 0
  <2>1. PICK m : m = c - 1
    OBVIOUS
  <2>2. m \in Nat /\ o <= m + 1 /\ m <= c /\ m + 1 = c
    BY <1>2, <2>1
  <2>3. Level(o, c) = Level(o, m) + Level(c, c)
    BY <2>2, LevelSplit
  <2>4. Level(c, c) = -1
    BY LevelOne DEF Turn
  <2>5. Level(o, m) = 1
    BY <1>2, <2>1
  <2>6. Level(o, c) = 0
    BY <2>3, <2>4, <2>5
  <2>7. QED
    BY <1>2, <1>3, <1>1, <2>6
<1>8. c \in S /\ \A k \in S : c <= k
  <2>1. c \in S
    BY <1>4, <1>5, <1>6, <1>7
  <2>2. ASSUME NEW k \in S, k < c PROVE FALSE
    <3>1. k \in o..Eof /\ k \in o..(c - 1) /\ k < Eof /\ k # 0 /\ k \in 0..Eof
      BY <1>1, <1>3, <1>4, <1>5, <2>2
    <3>2. Kind(k) # "eof"
      <4>1. k # Eof
        BY <1>1, <3>1
      <4>2. QED
        BY <3>1, <4>1, SourceFacts
    <3>3. Nesting(k) < Nesting(o)
      BY <1>4, <1>5, <3>2
    <3>4. Level(o, k) < 1 /\ Level(o, k) >= 1
      BY <1>2, <1>6, <3>1, <3>3
    <3>5. Level(o, k) \in Int
      BY <3>1, LevelSplit, <1>1
    <3>6. QED
      BY <3>4, <3>5
  <2>3. ASSUME NEW k \in S PROVE c <= k
    <3>1. k \in Int /\ ~(k < c)
      BY <1>1, <1>4, <1>5, <2>2
    <3>2. QED
      BY <3>1
  <2>4. QED
    BY <2>1, <2>3
<1>9. PICK e : e = (CHOOSE k \in S : \A j \in S : k <= j)
  OBVIOUS
<1>10. e = c
  <2>1. e \in S /\ \A j \in S : e <= j
    BY <1>8, <1>9
  <2>2. e \in Int /\ e <= c /\ c <= e
    BY <1>1, <1>4, <1>5, <1>8, <2>1
  <2>3. QED
    BY <2>2
<1>11. PICK f : f = (CHOOSE i \in (e + 1)..(Eof + 1) : /\ Kind(i) # "note" \/ i > Eof
                                                       /\ \A x \in (e + 1)..(i - 1) : Kind(x) = "note")
  OBVIOUS
<1>12. f = d
  <2>1. d \in (e + 1)..(Eof + 1)
    BY <1>1, <1>3, <1>10
  <2>2. /\ f \in (e + 1)..(Eof + 1) /\ (Kind(f) # "note" \/ f > Eof)
        /\ \A x \in (e + 1)..(f - 1) : Kind(x) = "note"
    BY <1>3, <1>10, <1>11, <2>1
  <2>3. ~(f < d)
    BY <1>1, <1>3, <1>10, <2>2
  <2>4. ~(d < f)
    BY <1>1, <1>3, <1>10, <2>2
  <2>5. QED
    BY <1>1, <1>10, <2>2, <2>3, <2>4
<1>13. BehindBlock(at) = f
  BY <1>4, <1>9, <1>11 DEF BehindBlock
<1>14. QED
  BY <1>12, <1>13

-----------------------------------------------------------------------------
(* The steps.                                                              *)

\* What every step does to the reader and to the calls.
StepOK(r, t) ==
  /\ Reading(r) /\ Stacked(t)
  /\ t # <<>> => r.cur # 0 /\ (r.cur = Eof \/ Tracked(t, r.cur))
  /\ r.cur > cur \/ (r.cur = cur /\ Cardinality(Tasks(t)) < Cardinality(Tasks(stack)))
  /\ stack # <<>> /\ t = <<>> => r.cur = Eof \/ r.cur = BehindBlock(stack[1].at)

\* The calls of an element or a hatch are in a block.
LEMMA InnerTop ==
    ASSUME IInv, In("element") \/ In("jsx")
    PROVE  /\ file \in Files /\ Reading(reader) /\ Stacked(stack) /\ stack # <<>>
           /\ reader.cur \in Nat /\ reader.cur # 0 /\ (reader.cur = Eof \/ Tracked(stack, reader.cur))
           /\ Len(stack) # 1 /\ stack[1].f = "block"
           /\ InnerFrame(Last(stack)) /\ Last(stack).f \in {"element", "jsx"}
           /\ Last(stack).f = "element" => Weight(Last(stack)) = 0
<1>1. /\ file \in Files /\ Reading(reader) /\ Stacked(stack) /\ stack # <<>>
      /\ reader.cur # 0 /\ (reader.cur = Eof \/ Tracked(stack, reader.cur))
      /\ Last(stack).f \in {"element", "jsx"}
  BY DEF IInv, In, top, cur
<1>2. reader.cur \in Nat
  BY <1>1, SourceFacts DEF Reading
<1>3. Len(stack) # 1
  <2>1. ASSUME Len(stack) = 1 PROVE FALSE
    <3>1. HeadFrame(Last(stack))
      BY <1>1, <2>1, PopFacts DEF Stacked
    <3>2. QED
      BY <1>1, <3>1 DEF HeadFrame, Block
  <2>2. QED
    BY <2>1
<1>4. stack[1].f = "block" /\ InnerFrame(Last(stack))
  BY <1>1, <1>3, Popped
<1>5. QED
  BY <1>1, <1>2, <1>3, <1>4 DEF Weight

\* The calls of a block have nothing above them.
LEMMA HeadTop ==
    ASSUME IInv, In("block") \/ In("closing") \/ In("recover")
    PROVE  /\ file \in Files /\ Reading(reader) /\ Stacked(stack) /\ stack # <<>>
           /\ reader.cur \in Nat /\ reader.cur # 0 /\ (reader.cur = Eof \/ Tracked(stack, reader.cur))
           /\ Len(stack) = 1 /\ HeadFrame(stack[1]) /\ Last(stack) = stack[1]
           /\ \A g : Append(Front(stack), g) = <<g>>
           /\ \A n \in Nat : Weighs(stack, n) => n = Weight(stack[1])
<1>1. /\ file \in Files /\ Reading(reader) /\ Stacked(stack) /\ stack # <<>>
      /\ reader.cur # 0 /\ (reader.cur = Eof \/ Tracked(stack, reader.cur))
      /\ Last(stack).f \in {"block", "closing", "recover"}
  BY DEF IInv, In, top, cur
<1>2. reader.cur \in Nat
  BY <1>1, SourceFacts DEF Reading
<1>3. Len(stack) \in Nat /\ Len(stack) >= 1 /\ Last(stack) = stack[Len(stack)] /\ Len(stack) \in 1..Len(stack)
  BY <1>1, PopFacts DEF Stacked
<1>4. Len(stack) = 1
  <2>1. ASSUME Len(stack) # 1 PROVE FALSE
    <3>1. InnerFrame(Last(stack))
      BY <1>1, <2>1, Popped
    <3>2. QED
      BY <1>1, <3>1 DEF InnerFrame
  <2>2. QED
    BY <2>1
<1>5. HeadFrame(stack[1]) /\ Last(stack) = stack[1]
  BY <1>1, <1>3, <1>4 DEF Stacked
<1>6. ASSUME NEW g PROVE Append(Front(stack), g) = <<g>>
  <2>1. PICK b : b = Front(stack)
    OBVIOUS
  <2>2. (\E S : b \in Seq(S)) /\ Len(b) = 0
    BY <1>1, <1>4, <2>1, PopFacts DEF Stacked
  <2>3. b = <<>>
    BY <2>2, EmptySeq
  <2>4. QED
    BY <2>1, <2>3
<1>7. ASSUME NEW n \in Nat, Weighs(stack, n) PROVE n = Weight(stack[1])
  <2>1. PICK w : /\ w[0] = 0 /\ w[1] = n
                 /\ \A i \in 1..1 : w[i] = w[i - 1] + Weight(stack[i])
    BY <1>4, <1>7 DEF Weighs
  <2>2. w[1] = w[0] + Weight(stack[1])
    BY <2>1
  <2>3. Weight(stack[1]) \in Nat
    BY <1>5, WeightFacts
  <2>4. QED
    BY <2>1, <2>2, <2>3
<1>8. QED
  BY <1>1, <1>2, <1>4, <1>5, <1>6, <1>7

\* An element returns.
LEMMA ElementReturns ==
    ASSUME IInv, In("element"), NEW node, NEW t, t = Return(node), NEW r, Reading(r),
           r.cur = cur \/ (r.cur \in Nat /\ r.cur > cur), r.cur = Eof \/ Tracked(stack, r.cur)
    PROVE  StepOK(r, t)
<1>1. /\ Stacked(stack) /\ stack # <<>> /\ reader.cur \in Nat /\ reader.cur # 0
  BY InnerTop
<1>2. Last(stack).f = "element"
  BY DEF In, top
<1>3. PICK b : b = Front(stack) /\ t = Append(Front(b), GiveElement(Last(b), node))
  BY DEF Return, ReturnTo, below
<1>4. /\ Stacked(t) /\ t # <<>> /\ t[1].at = stack[1].at
      /\ Cardinality(Tasks(t)) < Cardinality(Tasks(stack))
      /\ \A n \in Nat : Weighs(stack, n) => Weighs(t, n)
  BY <1>1, <1>2, <1>3, Returned
<1>5. r.cur = Eof \/ Tracked(t, r.cur)
  BY <1>4, TrackedStays
<1>6. r.cur # 0
  BY <1>1 DEF cur
<1>7. QED
  BY <1>4, <1>5, <1>6 DEF StepOK

\* An element goes on.
LEMMA ElementGoesOn ==
    ASSUME IInv, In("element"), NEW g, InnerFrame(g), g.f = "element", NEW t, t = Become(g), NEW r, Reading(r),
           (r.cur = cur /\ Left(g) < Left(top)) \/ (r.cur \in Nat /\ r.cur > cur), r.cur = Eof \/ Tracked(stack, r.cur)
    PROVE  StepOK(r, t)
<1>1. /\ Stacked(stack) /\ stack # <<>> /\ reader.cur \in Nat /\ reader.cur # 0 /\ Len(stack) # 1
      /\ Last(stack).f = "element" /\ Weight(Last(stack)) = 0 /\ top = Last(stack)
  BY InnerTop DEF In, top
<1>2. t = Append(Front(stack), g)
  BY DEF Become, below
<1>3. /\ Stacked(t) /\ t # <<>> /\ t[1].at = stack[1].at
      /\ Left(g) < Left(Last(stack)) => Cardinality(Tasks(t)) < Cardinality(Tasks(stack))
      /\ \A n \in Nat : Weighs(stack, n) => Weighs(t, n - Weight(Last(stack)) + Weight(g))
  <2>1. /\ Len(stack) = 1 => HeadFrame(g) /\ g.at = stack[1].at
        /\ Len(stack) # 1 => InnerFrame(g) /\ g.f = Last(stack).f
    BY <1>1
  <2>2. Stacked(stack) /\ stack # <<>>
    BY <1>1
  <2>3. QED
    BY ONLY <1>2, <2>1, <2>2, Replaced
<1>4. \A n \in Nat : Weighs(stack, n) => Weighs(t, n)
  <2>1. Weight(g) = 0
    BY DEF Weight
  <2>2. \A n \in Nat : n - Weight(Last(stack)) + Weight(g) = n
    BY <1>1, <2>1
  <2>3. QED
    BY <1>3, <2>2
<1>5. r.cur = Eof \/ Tracked(t, r.cur)
  BY <1>3, <1>4, TrackedStays
<1>6. r.cur # 0
  BY <1>1 DEF cur
<1>7. QED
  BY <1>1, <1>3, <1>5, <1>6 DEF StepOK

\* A call goes on as h and calls g.
LEMMA Called ==
    ASSUME IInv, In("element") \/ In("jsx"), NEW h, InnerFrame(h), h.f = top.f, Weight(h) = Weight(top),
           NEW g, InnerFrame(g), g.f = "jsx" => top.f = "element", NEW t, t = Append(Become(h), g)
    PROVE  /\ Stacked(t) /\ t # <<>> /\ t[1].at = stack[1].at
           /\ \A n \in Nat : Weighs(stack, n) => n + Weight(g) \in Nat /\ Weighs(t, n + Weight(g))
<1>1. Stacked(stack) /\ stack # <<>> /\ Len(stack) # 1 /\ stack[1].f = "block" /\ InnerFrame(Last(stack))
  BY InnerTop
<1>2. PICK b : b = Append(Front(stack), h) /\ t = Append(b, g)
  BY DEF Become, below
<1>3. /\ Stacked(b) /\ b # <<>> /\ b[1] = stack[1] /\ Last(b) = h
      /\ \A n \in Nat : Weighs(stack, n) => Weighs(b, n - Weight(Last(stack)) + Weight(h))
  <2>1. /\ Len(stack) = 1 => HeadFrame(h) /\ h.at = stack[1].at
        /\ Len(stack) # 1 => InnerFrame(h) /\ h.f = Last(stack).f
    BY <1>1 DEF top
  <2>2. QED
    BY <1>1, <1>2, <2>1, Replaced
<1>4. \A n \in Nat : Weighs(stack, n) => Weighs(b, n)
  <2>1. Weight(h) = Weight(Last(stack)) /\ Weight(h) \in Nat
    BY WeightFacts DEF top
  <2>2. \A n \in Nat : n - Weight(Last(stack)) + Weight(h) = n
    BY <2>1
  <2>3. QED
    BY <1>3, <2>2
<1>5. /\ Stacked(t) /\ t # <<>> /\ t[1] = b[1]
      /\ \A n \in Nat : Weighs(b, n) => n + Weight(g) \in Nat /\ Weighs(t, n + Weight(g))
  BY <1>1, <1>2, <1>3, Pushed DEF top
<1>6. QED
  BY <1>3, <1>4, <1>5

-----------------------------------------------------------------------------
(* The frames that go on.                                                  *)

LEMMA ElementShape ==
    ASSUME NEW g, InnerFrame(g), g.f = "element"
    PROVE  /\ g = [f |-> "element", stage |-> g.stage, node |-> g.node, name |-> g.name, text |-> g.text]
           /\ g.stage \in {"tag", "props", "value", "children"}
BY DEF InnerFrame

LEMMA ElementChanged ==
    ASSUME NEW S \in {"tag", "props", "value", "children"}, NEW N, NEW a, NEW x,
           NEW h, h = [f |-> "element", stage |-> S, node |-> N, name |-> a, text |-> x]
    PROVE  InnerFrame(h) /\ h.f = "element" /\ h.stage = S /\ Weight(h) = 0
BY DEF InnerFrame, Weight

LEMMA ValueGiven ==
    ASSUME NEW g, InnerFrame(g), g.f = "element", NEW v, NEW h, h = GiveValue(g, v)
    PROVE  /\ InnerFrame(h) /\ h.f = "element" /\ h.stage = g.stage
           /\ h = [f |-> "element", stage |-> g.stage, node |-> h.node, name |-> g.name, text |-> g.text]
<1>1. /\ g = [f |-> "element", stage |-> g.stage, node |-> g.node, name |-> g.name, text |-> g.text]
      /\ g.stage \in {"tag", "props", "value", "children"}
  BY ElementShape
<1>2. PICK N : h = [g EXCEPT !.node = N]
  BY DEF GiveValue
<1>3. h = [f |-> "element", stage |-> g.stage, node |-> N, name |-> g.name, text |-> g.text]
  BY <1>1, <1>2
<1>4. QED
  BY <1>1, <1>3, ElementChanged

LEMMA StageSet ==
    ASSUME NEW g, InnerFrame(g), g.f = "element", NEW S \in {"tag", "props", "value", "children"},
           NEW h, h = [g EXCEPT !.stage = S]
    PROVE  InnerFrame(h) /\ h.f = "element" /\ h.stage = S
<1>1. g = [f |-> "element", stage |-> g.stage, node |-> g.node, name |-> g.name, text |-> g.text]
  BY ElementShape
<1>2. h = [f |-> "element", stage |-> S, node |-> g.node, name |-> g.name, text |-> g.text]
  BY <1>1
<1>3. QED
  BY ONLY <1>2, S \in {"tag", "props", "value", "children"}, ElementChanged

LEMMA FlushedShape ==
    ASSUME NEW g, InnerFrame(g), g.f = "element", NEW h, h = Flushed(g)
    PROVE  InnerFrame(h) /\ h.f = "element" /\ h.stage = g.stage
<1>1. /\ g = [f |-> "element", stage |-> g.stage, node |-> g.node, name |-> g.name, text |-> g.text]
      /\ g.stage \in {"tag", "props", "value", "children"}
  BY ElementShape
<1>2. PICK N : N = [g.node EXCEPT !.children = FlushChildren(g)]
  OBVIOUS
<1>3. h = [f |-> "element", stage |-> g.stage, node |-> N, name |-> g.name, text |-> <<>>]
  <2>1. h = [g EXCEPT !.node = N, !.text = <<>>]
    BY <1>1, <1>2 DEF Flushed
  <2>2. QED
    BY <1>1, <2>1
<1>4. QED
  BY <1>1, <1>3, ElementChanged

LEMMA TagSet ==
    ASSUME NEW g, InnerFrame(g), g.f = "element", NEW c, NEW h, h = [g EXCEPT !.node.tag = c, !.stage = "props"]
    PROVE  InnerFrame(h) /\ h.f = "element"
<1>1. g = [f |-> "element", stage |-> g.stage, node |-> g.node, name |-> g.name, text |-> g.text]
  BY ElementShape
<1>2. PICK N : N = [g.node EXCEPT !.tag = c]
  OBVIOUS
<1>3. h = [f |-> "element", stage |-> "props", node |-> N, name |-> g.name, text |-> g.text]
  <2>1. h = [g EXCEPT !.node = N, !.stage = "props"]
    BY <1>1, <1>2
  <2>2. QED
    BY <1>1, <2>1
<1>4. QED
  BY <1>3, ElementChanged

LEMMA NewFrames ==
    ASSUME NEW at
    PROVE  /\ InnerFrame(ElementFrame(at)) /\ ElementFrame(at).f = "element" /\ Weight(ElementFrame(at)) = 0
           /\ InnerFrame(JsxFrame(at)) /\ JsxFrame(at).f = "jsx" /\ Weight(JsxFrame(at)) = 1
           /\ HeadFrame(Block(at)) /\ Block(at).at = at /\ Block(at).f = "block" /\ Weight(Block(at)) = 1
           /\ HeadFrame(Recovery(at)) /\ Recovery(at).at = at /\ Weight(Recovery(at)) = 1 /\ Left(Recovery(at)) = 1
<1>1. InnerFrame(ElementFrame(at)) /\ ElementFrame(at).f = "element" /\ Weight(ElementFrame(at)) = 0
  BY DEF InnerFrame, ElementFrame, Weight
<1>2. InnerFrame(JsxFrame(at)) /\ JsxFrame(at).f = "jsx" /\ Weight(JsxFrame(at)) = 1
  BY DEF InnerFrame, JsxFrame, Weight
<1>3. HeadFrame(Block(at)) /\ Block(at).at = at /\ Block(at).f = "block" /\ Weight(Block(at)) = 1
  BY DEF HeadFrame, Block, Weight
<1>4. HeadFrame(Recovery(at)) /\ Recovery(at).at = at /\ Weight(Recovery(at)) = 1 /\ Left(Recovery(at)) = 1
  BY DEF HeadFrame, Recovery, Weight, Left
<1>5. QED
  BY <1>1, <1>2, <1>3, <1>4

\* A block alone.
LEMMA OneCall ==
    ASSUME NEW g, HeadFrame(g), NEW t, t = <<g>>
    PROVE  Stacked(t) /\ t # <<>> /\ t[1] = g /\ Weighs(t, Weight(g))
<1>1. t # <<>> /\ t[1] = g /\ Len(t) = 1 /\ t \in Seq({g})
  OBVIOUS
<1>2. Stacked(t)
  <2>1. g.f # "jsx"
    BY DEF HeadFrame, Block
  <2>2. ASSUME NEW i \in 1..Len(t) PROVE i = 1 /\ t[i] = g
    BY <1>1
  <2>3. QED
    <3>1. \A i \in 1..Len(t) : /\ i = 1 => HeadFrame(t[i])
                               /\ i > 1 => InnerFrame(t[i]) /\ t[1].f = "block"
                               /\ t[i].f = "jsx" => i > 1 /\ t[i - 1].f = "element"
      BY <2>1, <2>2
    <3>2. QED
      BY <1>1, <3>1 DEF Stacked
<1>3. PICK w : w = [i \in 0..1 |-> IF i = 0 THEN 0 ELSE Weight(g)]
  OBVIOUS
<1>4. w[0] = 0 /\ w[1] = Weight(g)
  BY <1>3
<1>5. Weight(g) \in Nat
  BY WeightFacts
<1>6. /\ \A i \in 1..Len(t) : w[i] = w[i - 1] + Weight(t[i])
      /\ \A i \in 0..Len(t) : w[i] \in Nat
  BY <1>1, <1>4, <1>5
<1>7. Weighs(t, Weight(g))
  BY <1>1, <1>4, <1>6 DEF Weighs
<1>8. QED
  BY <1>1, <1>2, <1>7

LEMMA NoCalls == Stacked(<<>>) /\ Tasks(<<>>) = {}
BY DEF Stacked, Tasks

-----------------------------------------------------------------------------
(* Steps of the blocks.                                                    *)

LEMMA PrimeStep ==
    ASSUME IInv, Prime
    PROVE  StepOK(reader', stack')
<1>1. /\ file \in Files /\ Reading(reader) /\ stack = <<>> /\ reader.cur = 0 /\ stack' = stack
      /\ reader' = Advance(reader)
  BY DEF IInv, Prime, cur
<1>2. Eof \in Nat /\ Eof >= 1
  BY <1>1, SourceFacts
<1>3. Reading(reader') /\ Follows(reader.cur, reader'.cur)
  <2>1. reader.cur # Eof
    BY <1>1, <1>2
  <2>2. QED
    BY <1>1, <2>1, AdvanceFacts
<1>4. reader'.cur > reader.cur
  <2>1. reader'.cur \in Nat
    BY <1>3, <1>2 DEF Reading
  <2>2. QED
    BY <1>1, <1>3, <2>1 DEF Follows
<1>5. QED
  BY <1>1, <1>3, <1>4, NoCalls DEF StepOK, cur

\* `render {` begins a block.
LEMMA BlockBegins ==
    ASSUME file \in Files, NEW at \in Nat, NEW o \in Nat, NEW d \in Nat, Kind(at) = "id", Kind(o) = "open",
           Follows(at, o), Follows(o, d), NEW t, t = <<Block(at)>>
    PROVE  Stacked(t) /\ Tracked(t, d)
<1>1. Stacked(t) /\ t[1].at = at /\ Weighs(t, 1)
  BY NewFrames, OneCall
<1>2. /\ at < o /\ o <= Eof /\ (\A x \in (at + 1)..(o - 1) : Kind(x) = "note")
      /\ o < d /\ (\A x \in (o + 1)..(d - 1) : Kind(x) = "note")
  BY DEF Follows
<1>3. OpensBlock(at, o)
  <2>1. ASSUME NEW x \in at..(o - 1) PROVE Kind(x) # "open"
    <3>1. CASE x = at
      BY <3>1
    <3>2. CASE x # at
      <4>1. x \in (at + 1)..(o - 1)
        BY <3>2
      <4>2. QED
        BY <1>2, <4>1
    <3>3. QED
      BY <3>1, <3>2
  <2>2. QED
    BY <1>2, <2>1 DEF OpensBlock
<1>4. ASSUME NEW x \in o..(d - 1) PROVE Level(o, x) = 1
  <2>1. x \in Nat /\ o <= x
    OBVIOUS
  <2>2. Level(o, o) = 1
    BY LevelOne DEF Turn
  <2>3. Level(o + 1, x) = 0
    <3>1. \A y \in (o + 1)..x : Kind(y) = "note"
      BY <1>2
    <3>2. o + 1 \in Nat /\ x \in Int
      BY <2>1
    <3>3. QED
      BY <3>1, <3>2, LevelNotes
  <2>4. Level(o, x) = Level(o, o) + Level(o + 1, x)
    <3>1. o \in Nat /\ x \in Nat /\ o <= o + 1 /\ o <= x
      BY <2>1
    <3>2. QED
      BY ONLY <3>1, LevelSplit
  <2>5. QED
    BY <2>2, <2>3, <2>4
<1>5. Within(o, d, 1)
  <2>1. d - 1 \in o..(d - 1)
    BY <1>2
  <2>2. QED
    BY <1>2, <1>4, <2>1 DEF Within
<1>6. Tracked(t, d)
  BY <1>1, <1>3, <1>5 DEF Tracked
<1>7. QED
  BY <1>1, <1>6

LEMMA ScanStep ==
    ASSUME IInv, Scan
    PROVE  StepOK(reader', stack')
<1>1. /\ file \in Files /\ Reading(reader) /\ stack = <<>> /\ reader.cur # 0 /\ reader.cur # Eof
  BY DEF IInv, Scan, Parsing, cur
<1>2. PICK next : next = Advance(reader)
  OBVIOUS
<1>3. Reading(next) /\ Follows(reader.cur, next.cur)
  BY <1>1, <1>2, AdvanceFacts
<1>4. reader.cur \in Nat /\ next.cur \in Nat /\ next.cur > reader.cur
  <2>1. reader.cur \in Nat /\ next.cur \in Nat
    BY <1>1, <1>3, SourceFacts DEF Reading
  <2>2. QED
    BY <1>3, <2>1 DEF Follows
<1>5. CASE Kind(reader.cur) = "id" /\ Text(reader.cur) = "render" /\ Kind(next.cur) = "open"
  <2>1. reader' = Advance(next) /\ stack' = <<Block(reader.cur)>>
    BY <1>2, <1>5 DEF Scan, cur
  <2>2. next.cur # Eof
    BY <1>1, <1>5, SourceFacts
  <2>3. Reading(reader') /\ Follows(next.cur, reader'.cur)
    BY <1>1, <1>3, <2>1, <2>2, AdvanceFacts
  <2>4. reader'.cur \in Nat /\ reader'.cur > next.cur
    <3>1. reader'.cur \in Nat
      BY <1>1, <2>3, SourceFacts DEF Reading
    <3>2. QED
      BY <2>3, <3>1 DEF Follows
  <2>5. Stacked(stack') /\ Tracked(stack', reader'.cur)
    BY <1>1, <1>3, <1>4, <1>5, <2>1, <2>3, <2>4, BlockBegins
  <2>6. reader'.cur > reader.cur /\ reader'.cur # 0
    BY <1>4, <2>4
  <2>7. QED
    BY <1>1, <2>3, <2>5, <2>6 DEF StepOK, cur
<1>6. CASE ~(Kind(reader.cur) = "id" /\ Text(reader.cur) = "render" /\ Kind(next.cur) = "open")
  <2>1. reader' = next /\ stack' = stack
    BY <1>2, <1>6 DEF Scan, cur
  <2>2. QED
    BY <1>1, <1>3, <1>4, <2>1, NoCalls DEF StepOK, cur
<1>7. QED
  BY <1>5, <1>6

\* A block that goes on at its token.
LEMMA BlockGoesOn ==
    ASSUME IInv, In("block") \/ In("closing"), NEW t, t = <<Recovery(top.at)>>, NEW r, r = reader
    PROVE  StepOK(r, t)
<1>1. /\ Stacked(stack) /\ stack # <<>> /\ Reading(reader) /\ reader.cur # 0
      /\ (reader.cur = Eof \/ Tracked(stack, reader.cur))
      /\ Len(stack) = 1 /\ Last(stack) = stack[1] /\ HeadFrame(stack[1])
      /\ \A g : Append(Front(stack), g) = <<g>>
  BY HeadTop
<1>2. PICK g : g = Recovery(top.at)
  OBVIOUS
<1>3. HeadFrame(g) /\ g.at = stack[1].at /\ Weight(g) = 1 /\ Left(g) = 1
  BY <1>1, <1>2, NewFrames DEF top
<1>4. Weight(Last(stack)) = 1 /\ Left(Last(stack)) \in {2, 3}
  <2>1. Last(stack).f \in {"block", "closing"}
    BY DEF In, top
  <2>2. QED
    BY <2>1 DEF Weight, Left
<1>5. t = Append(Front(stack), g)
  BY <1>1, <1>2
<1>6. /\ Stacked(t) /\ t # <<>> /\ t[1].at = stack[1].at
      /\ Left(g) < Left(Last(stack)) => Cardinality(Tasks(t)) < Cardinality(Tasks(stack))
      /\ \A n \in Nat : Weighs(stack, n) => Weighs(t, n - Weight(Last(stack)) + Weight(g))
  <2>1. /\ Len(stack) = 1 => HeadFrame(g) /\ g.at = stack[1].at
        /\ Len(stack) # 1 => InnerFrame(g) /\ g.f = Last(stack).f
    BY <1>1, <1>3
  <2>2. Stacked(stack) /\ stack # <<>>
    BY <1>1
  <2>3. QED
    BY ONLY <1>5, <2>1, <2>2, Replaced
<1>7. \A n \in Nat : Weighs(stack, n) => Weighs(t, n)
  <2>1. \A n \in Nat : n - Weight(Last(stack)) + Weight(g) = n
    BY <1>3, <1>4
  <2>2. QED
    BY <1>6, <2>1
<1>8. reader.cur = Eof \/ Tracked(t, reader.cur)
  BY <1>1, <1>6, <1>7, TrackedStays
<1>9. Cardinality(Tasks(t)) < Cardinality(Tasks(stack))
  BY <1>3, <1>4, <1>6
<1>10. QED
  BY <1>1, <1>6, <1>8, <1>9 DEF StepOK, cur

\* A block that has seen as many braces close as open ends behind the last of them.
LEMMA BlockEnds ==
    ASSUME IInv, In("closing") \/ In("recover"), Kind(cur) = "close", Weight(top) = 1,
           NEW r, r = Advance(reader)
    PROVE  StepOK(r, <<>>)
<1>1. /\ file \in Files /\ Reading(reader) /\ reader.cur \in Nat /\ reader.cur # 0 /\ stack # <<>>
      /\ (reader.cur = Eof \/ Tracked(stack, reader.cur))
      /\ \A n \in Nat : Weighs(stack, n) => n = Weight(stack[1])
      /\ Last(stack) = stack[1]
  BY HeadTop
<1>2. reader.cur # Eof /\ Kind(reader.cur) = "close"
  BY <1>1, SourceFacts DEF cur
<1>3. Reading(r) /\ Follows(reader.cur, r.cur)
  BY <1>1, <1>2, AdvanceFacts
<1>4. r.cur \in Nat /\ r.cur > reader.cur
  <2>1. r.cur \in Nat
    BY <1>1, <1>3, SourceFacts DEF Reading
  <2>2. QED
    BY <1>1, <1>3, <2>1 DEF Follows
<1>5. PICK o, n \in Nat : OpensBlock(stack[1].at, o) /\ Within(o, reader.cur, n) /\ Weighs(stack, n)
  BY <1>1, <1>2 DEF Tracked
<1>6. n = 1
  BY <1>1, <1>5 DEF top
<1>7. BehindBlock(stack[1].at) = r.cur
  <2>1. PICK at : at = stack[1].at
    OBVIOUS
  <2>2. at \in Nat /\ OpensBlock(at, o) /\ Within(o, reader.cur, 1)
    BY <1>5, <1>6, <2>1 DEF OpensBlock
  <2>3. BehindBlock(at) = r.cur
    BY <1>1, <1>2, <1>3, <1>4, <2>2, BlockBehind
  <2>4. QED
    BY <2>1, <2>3
<1>8. QED
  BY <1>1, <1>3, <1>4, <1>7, NoCalls DEF StepOK, cur

LEMMA EndBlockStep ==
    ASSUME IInv, EndBlock
    PROVE  StepOK(reader', stack')
<1>1. In("closing")
  BY DEF EndBlock
<1>2. CASE Kind(cur) = "close"
  <2>1. reader' = Advance(reader) /\ stack' = <<>>
    BY <1>2 DEF EndBlock
  <2>2. Weight(top) = 1
    BY <1>1 DEF In, Weight
  <2>3. StepOK(Advance(reader), <<>>)
    BY <1>1, <1>2, <2>2, BlockEnds
  <2>4. QED
    BY <2>1, <2>3
<1>3. CASE Kind(cur) # "close"
  <2>1. reader' = reader /\ stack' = <<Recovery(top.at)>>
    BY <1>3 DEF EndBlock
  <2>2. QED
    BY <1>1, <2>1, BlockGoesOn
<1>4. QED
  BY <1>2, <1>3

LEMMA StartRootStep ==
    ASSUME IInv, StartRoot
    PROVE  StepOK(reader', stack')
<1>1. In("block")
  BY DEF StartRoot
<1>2. /\ file \in Files /\ Reading(reader) /\ Stacked(stack) /\ stack # <<>> /\ reader.cur # 0
      /\ (reader.cur = Eof \/ Tracked(stack, reader.cur))
      /\ Last(stack) = stack[1]
  BY <1>1, HeadTop
<1>3. CASE Punct(cur, "<")
  <2>1. reader' = Advance(reader) /\ stack' = Append(stack, ElementFrame(cur))
    BY <1>3 DEF StartRoot
  <2>2. Kind(reader.cur) = "punct" /\ reader.cur # Eof
    BY <1>2, <1>3, SourceFacts DEF Punct, cur
  <2>3. /\ Reading(reader') /\ reader'.cur \in Nat /\ reader'.cur > reader.cur /\ reader'.cur # 0
        /\ Tracked(stack, reader'.cur)
    BY <1>2, <2>1, <2>2, Consumed
  <2>4. PICK g : g = ElementFrame(cur)
    OBVIOUS
  <2>5. InnerFrame(g) /\ g.f = "element" /\ Weight(g) = 0
    BY <2>4, NewFrames
  <2>6. stack[1].f = "block"
    BY <1>1, <1>2 DEF In, top
  <2>7. /\ Stacked(stack') /\ stack' # <<>> /\ stack'[1] = stack[1]
        /\ \A n \in Nat : Weighs(stack, n) => Weighs(stack', n + Weight(g))
    BY <1>2, <2>1, <2>4, <2>5, <2>6, Pushed
  <2>8. \A n \in Nat : Weighs(stack, n) => Weighs(stack', n)
    <3>1. \A n \in Nat : n + Weight(g) = n
      BY <2>5
    <3>2. QED
      BY <2>7, <3>1
  <2>9. Tracked(stack', reader'.cur)
    BY <2>3, <2>7, <2>8, TrackedStays
  <2>10. QED
    BY <1>2, <2>3, <2>7, <2>9 DEF StepOK, cur
<1>4. CASE ~Punct(cur, "<")
  <2>1. reader' = reader /\ stack' = <<Recovery(top.at)>>
    BY <1>4 DEF StartRoot
  <2>2. QED
    BY <1>1, <2>1, BlockGoesOn
<1>5. QED
  BY <1>3, <1>4

LEMMA RecoverStep ==
    ASSUME IInv, RecoverToBlockEnd
    PROVE  StepOK(reader', stack')
<1>1. In("recover")
  BY DEF RecoverToBlockEnd
<1>2. /\ file \in Files /\ Reading(reader) /\ Stacked(stack) /\ stack # <<>>
      /\ reader.cur \in Nat /\ reader.cur # 0 /\ (reader.cur = Eof \/ Tracked(stack, reader.cur))
      /\ Len(stack) = 1 /\ HeadFrame(stack[1]) /\ Last(stack) = stack[1]
      /\ \A g : Append(Front(stack), g) = <<g>>
  BY <1>1, HeadTop
<1>3. /\ top = [f |-> "recover", at |-> top.at, depth |-> top.depth] /\ top.depth \in Nat \ {0}
      /\ Weight(top) = top.depth /\ top = stack[1]
  <2>1. top = stack[1] /\ top.f = "recover"
    BY <1>1, <1>2 DEF top, In
  <2>2. top = [f |-> "recover", at |-> top.at, depth |-> top.depth] /\ top.depth \in Nat \ {0}
    BY <1>2, <2>1 DEF HeadFrame, Block
  <2>3. QED
    BY <2>1, <2>2 DEF Weight
<1>4. PICK d : d = top.depth + Turn(cur)
  OBVIOUS
<1>5. d \in Int /\ Turn(cur) \in {-1, 0, 1}
  BY <1>3, <1>4 DEF Turn
<1>6. /\ stack' = IF Kind(cur) = "eof" \/ d = 0 THEN <<>> ELSE <<[top EXCEPT !.depth = d]>>
      /\ reader' = IF Kind(cur) = "eof" THEN reader ELSE Advance(reader)
  <2>1. (CASE Kind(cur) = "open" -> top.depth + 1
           [] Kind(cur) = "close" -> top.depth - 1
           [] OTHER -> top.depth) = d
    BY <1>3, <1>4 DEF Turn
  <2>2. QED
    BY <2>1 DEF RecoverToBlockEnd
<1>7. CASE Kind(cur) = "eof"
  <2>1. reader' = reader /\ stack' = <<>>
    BY <1>6, <1>7
  <2>2. reader.cur = Eof
    <3>1. reader.cur \in 0..Eof
      BY <1>2 DEF Reading
    <3>2. QED
      BY <1>2, <1>7, <3>1, SourceFacts DEF cur
  <2>3. Cardinality(Tasks(<<>>)) < Cardinality(Tasks(stack))
    <3>1. <<1, 1>> \in Tasks(stack)
      <4>1. 1 \in DOMAIN stack
        BY <1>2, PopFacts DEF Stacked
      <4>2. 1 \in 1..Left(stack[1])
        BY LeftFacts
      <4>3. QED
        BY <4>1, <4>2 DEF Tasks
    <3>2. PICK p : p = <<1, 1>>
      OBVIOUS
    <3>3. p \in Tasks(stack) /\ p \notin Tasks(<<>>) /\ Tasks(<<>>) \subseteq Tasks(stack)
      BY <3>1, <3>2, NoCalls
    <3>4. QED
      BY <1>2, <3>3, FewerTasks DEF Stacked
  <2>4. QED
    BY <1>2, <2>1, <2>2, <2>3, NoCalls DEF StepOK, cur
<1>8. CASE Kind(cur) # "eof" /\ d = 0
  <2>1. reader' = Advance(reader) /\ stack' = <<>>
    BY <1>6, <1>8
  <2>2. Kind(cur) = "close" /\ Weight(top) = 1
    BY <1>3, <1>4, <1>8 DEF Turn
  <2>3. StepOK(Advance(reader), <<>>)
    BY <1>1, <2>2, BlockEnds
  <2>4. QED
    BY <2>1, <2>3
<1>9. CASE Kind(cur) # "eof" /\ d # 0
  <2>1. PICK g : g = [top EXCEPT !.depth = d]
    OBVIOUS
  <2>2. d \in Nat \ {0}
    BY <1>3, <1>4, <1>5, <1>9
  <2>3. g = [f |-> "recover", at |-> top.at, depth |-> d]
    BY <1>3, <2>1
  <2>4. HeadFrame(g) /\ g.at = stack[1].at /\ Weight(g) = d
    BY <1>3, <2>2, <2>3 DEF HeadFrame, Weight
  <2>5. reader' = Advance(reader) /\ stack' = Append(Front(stack), g)
    BY <1>2, <1>6, <1>9, <2>1
  <2>6. /\ Stacked(stack') /\ stack' # <<>> /\ stack'[1].at = stack[1].at
        /\ \A n \in Nat : Weighs(stack, n) => /\ n - Weight(Last(stack)) + Weight(g) \in Nat
                                              /\ Weighs(stack', n - Weight(Last(stack)) + Weight(g))
    <3>1. /\ Len(stack) = 1 => HeadFrame(g) /\ g.at = stack[1].at
          /\ Len(stack) # 1 => InnerFrame(g) /\ g.f = Last(stack).f
      BY <1>2, <2>4
    <3>2. Stacked(stack) /\ stack # <<>>
      BY <1>2
    <3>3. PICK t : t = stack'
      OBVIOUS
    <3>4. t = Append(Front(stack), g)
      BY <2>5, <3>3
    <3>5. /\ Stacked(t) /\ t # <<>> /\ t[1].at = stack[1].at
          /\ \A n \in Nat : Weighs(stack, n) => /\ n - Weight(Last(stack)) + Weight(g) \in Nat
                                                /\ Weighs(t, n - Weight(Last(stack)) + Weight(g))
      BY ONLY <3>1, <3>2, <3>4, Replaced
    <3>6. QED
      BY <3>3, <3>5
  <2>7. reader.cur # Eof
    BY <1>2, <1>9, SourceFacts DEF cur
  <2>8. Reading(reader') /\ Follows(reader.cur, reader'.cur)
    BY <1>2, <2>5, <2>7, AdvanceFacts
  <2>9. reader'.cur \in Nat /\ reader'.cur > reader.cur /\ reader'.cur # 0
    <3>1. reader'.cur \in Nat
      BY <1>2, <2>8, SourceFacts DEF Reading
    <3>2. reader'.cur > reader.cur
      BY <2>8 DEF Follows
    <3>3. QED
      BY <1>2, <3>1, <3>2
  <2>10. \A n \in Nat : Weighs(stack, n) => n + Turn(reader.cur) \in Nat /\ Weighs(stack', n + Turn(reader.cur))
    <3>1. Weight(Last(stack)) = top.depth /\ Turn(reader.cur) = Turn(cur)
      BY <1>2, <1>3 DEF cur
    <3>2. \A n \in Nat : n - Weight(Last(stack)) + Weight(g) = n + Turn(reader.cur)
      BY <1>3, <1>4, <1>5, <2>4, <3>1
    <3>3. QED
      BY <2>6, <3>2
  <2>11. Tracked(stack', reader'.cur)
    <3>1. Tracked(stack, reader.cur)
      BY <1>2, <2>7
    <3>2. PICK t, e : t = stack' /\ e = reader'.cur
      OBVIOUS
    <3>3. /\ Stacked(t) /\ t # <<>> /\ t[1].at = stack[1].at /\ e \in Nat /\ Follows(reader.cur, e)
          /\ \A n \in Nat : Weighs(stack, n) => n + Turn(reader.cur) \in Nat /\ Weighs(t, n + Turn(reader.cur))
      BY <2>6, <2>8, <2>9, <2>10, <3>2
    <3>4. Tracked(t, e)
      BY <1>2, <3>1, <3>3, TrackedMoves
    <3>5. QED
      BY <3>2, <3>4
  <2>12. QED
    BY <2>6, <2>8, <2>9, <2>11 DEF StepOK, cur
<1>10. QED
  BY <1>7, <1>8, <1>9

-----------------------------------------------------------------------------
(* Steps of an element.                                                    *)

\* A reader that has come this far without losing count of the braces.
Reached(r) == Reading(r) /\ r.cur \in Nat /\ r.cur # 0 /\ (r.cur = Eof \/ Tracked(stack, r.cur))

LEMMA Moves ==
    ASSUME IInv, stack # <<>>, NEW r, Reached(r), Kind(r.cur) \notin {"open", "close", "eof"}, NEW a, a = Advance(r)
    PROVE  Reached(a) /\ a.cur > r.cur
<1>1. file \in Files /\ Stacked(stack) /\ Reading(r)
  BY DEF IInv, Reached
<1>2. Tracked(stack, r.cur)
  BY <1>1, SourceFacts DEF Reached
<1>3. QED
  BY <1>1, <1>2, Consumed DEF Reached

LEMMA Peeks ==
    ASSUME IInv, NEW r, Reached(r), Kind(r.cur) = "punct", NEW p, p = PeekNext(r)
    PROVE  Reached(p) /\ p.cur = r.cur /\ p.look # 0 /\ Follows(r.cur, p.look)
<1>1. file \in Files /\ Reading(r)
  BY DEF IInv, Reached
<1>2. Reading(p) /\ p.cur = r.cur /\ p.look # 0 /\ Follows(r.cur, p.look)
  BY <1>1, PeekFacts
<1>3. QED
  BY <1>2 DEF Reached

LEMMA JsxPeeks ==
    ASSUME IInv, NEW r, Reached(r), NEW p, p = JsxPeek(r)
    PROVE  Reached(p) /\ p.cur = r.cur
<1>1. CASE Punct(r.cur, "!")
  <2>1. Kind(r.cur) = "punct" /\ p = PeekNext(r)
    BY <1>1 DEF Punct, JsxPeek
  <2>2. QED
    BY <2>1, Peeks
<1>2. CASE ~Punct(r.cur, "!")
  BY <1>2 DEF JsxPeek
<1>3. QED
  BY <1>1, <1>2

LEMMA HatchMoves ==
    ASSUME IInv, stack # <<>>, NEW r, Reached(r), Kind(r.cur) = "open", NEW a, a = AfterHatch(JsxPeek(r))
    PROVE  Reached(a) /\ a.cur > r.cur
<1>1. file \in Files /\ Stacked(stack) /\ Reading(r) /\ r.cur \in Nat
  BY DEF IInv, Reached
<1>2. JsxPeek(r) = r
  BY DEF JsxPeek, Punct
<1>3. /\ Reading(a) /\ r.cur < a.cur
      /\ \A o, n \in Nat : Within(o, r.cur, n) /\ n >= 1 => a.cur = Eof \/ Within(o, a.cur, n)
  BY <1>1, <1>2, HatchFacts
<1>4. a.cur \in Nat /\ a.cur > r.cur /\ a.cur # 0
  <2>1. a.cur \in Nat
    BY <1>1, <1>3, SourceFacts DEF Reading
  <2>2. QED
    BY <1>1, <1>3, <2>1
<1>5. Tracked(stack, r.cur)
  BY <1>1, SourceFacts DEF Reached
<1>6. PICK o, n \in Nat : OpensBlock(stack[1].at, o) /\ Within(o, r.cur, n) /\ Weighs(stack, n)
  BY <1>5 DEF Tracked
<1>7. n >= 1
  BY <1>1, <1>6, Heavy
<1>8. a.cur = Eof \/ Tracked(stack, a.cur)
  <2>1. a.cur = Eof \/ Within(o, a.cur, n)
    BY <1>3, <1>6, <1>7
  <2>2. QED
    BY <1>6, <2>1 DEF Tracked
<1>9. QED
  BY <1>3, <1>4, <1>8 DEF Reached

\* An element in progress, its frame, and where its call is reading.
LEMMA ElementTop ==
    ASSUME IInv, In("element")
    PROVE  /\ stack # <<>> /\ Reached(reader) /\ reader.cur = cur /\ cur \in Nat
           /\ InnerFrame(top) /\ top.f = "element"
           /\ top = [f |-> "element", stage |-> top.stage, node |-> top.node, name |-> top.name, text |-> top.text]
           /\ top.stage \in {"tag", "props", "value", "children"}
<1>1. /\ Reading(reader) /\ stack # <<>> /\ reader.cur \in Nat /\ reader.cur # 0
      /\ (reader.cur = Eof \/ Tracked(stack, reader.cur)) /\ InnerFrame(Last(stack))
  BY InnerTop
<1>2. InnerFrame(top) /\ top.f = "element"
  BY <1>1 DEF top, In
<1>3. QED
  BY <1>1, <1>2, ElementShape DEF Reached, cur

LEMMA Returns ==
    ASSUME IInv, In("element"), NEW node, NEW r, Reached(r), r.cur = cur \/ r.cur > cur
    PROVE  StepOK(r, Return(node))
<1>1. PICK t : t = Return(node)
  OBVIOUS
<1>2. Reading(r) /\ r.cur \in Nat /\ (r.cur = Eof \/ Tracked(stack, r.cur))
  BY DEF Reached
<1>3. StepOK(r, t)
  BY <1>1, <1>2, ElementReturns
<1>4. QED
  BY <1>1, <1>3

LEMMA GoesOn ==
    ASSUME IInv, In("element"), NEW g, InnerFrame(g), g.f = "element", NEW r, Reached(r),
           (r.cur = cur /\ Left(g) < Left(top)) \/ r.cur > cur
    PROVE  StepOK(r, Become(g))
<1>1. PICK t : t = Become(g)
  OBVIOUS
<1>2. Reading(r) /\ r.cur \in Nat /\ (r.cur = Eof \/ Tracked(stack, r.cur))
  BY DEF Reached
<1>3. StepOK(r, t)
  BY <1>1, <1>2, ElementGoesOn
<1>4. QED
  BY <1>1, <1>3

LEMMA AbandonStep ==
    ASSUME IInv, In("element"), Abandon
    PROVE  StepOK(reader', stack')
<1>1. reader' = reader /\ stack' = Return(top.node)
  BY DEF Abandon
<1>2. Reached(reader) /\ reader.cur = cur
  BY ElementTop
<1>3. StepOK(reader, Return(top.node))
  BY <1>2, Returns
<1>4. QED
  BY <1>1, <1>3

LEMMA TagNameStep ==
    ASSUME IInv, TagName
    PROVE  StepOK(reader', stack')
<1>1. In("element")
  BY DEF TagName, InElement
<1>2. /\ stack # <<>> /\ Reached(reader) /\ reader.cur = cur
      /\ InnerFrame(top) /\ top.f = "element"
  BY <1>1, ElementTop
<1>3. CASE Kind(cur) = "id"
  <2>1. PICK g : g = [top EXCEPT !.node.tag = cur, !.stage = "props"]
    BY Zenon
  <2>2. InnerFrame(g) /\ g.f = "element"
    BY <1>2, <2>1, Zenon, TagSet
  <2>3. reader' = Advance(reader) /\ stack' = Become(g)
    BY <1>3, <2>1, Zenon DEF TagName
  <2>5. PICK a : a = Advance(reader)
    OBVIOUS
  <2>6. Reached(a) /\ a.cur > cur
    BY <1>2, <1>3, <2>5, Moves
  <2>7. StepOK(a, Become(g))
    BY <1>1, <2>2, <2>6, GoesOn
  <2>8. QED
    BY <2>3, <2>5, <2>7
<1>4. CASE Kind(cur) # "id"
  <2>1. Abandon
    BY <1>4 DEF TagName
  <2>2. QED
    BY <1>1, <2>1, AbandonStep
<1>5. QED
  BY <1>3, <1>4

LEMMA SelfCloseStep ==
    ASSUME IInv, SelfClose
    PROVE  StepOK(reader', stack')
<1>1. In("element") /\ Kind(cur) = "punct" /\ stack' = Return(top.node)
  BY DEF SelfClose, InElement, Punct
<1>2. stack # <<>> /\ Reached(reader) /\ reader.cur = cur /\ cur \in Nat
  BY <1>1, ElementTop
<1>3. PICK next : next = Advance(reader)
  OBVIOUS
<1>4. Reached(next) /\ next.cur > cur
  BY <1>1, <1>2, <1>3, Moves
<1>5. PICK r : r = reader'
  OBVIOUS
<1>6. Reached(r) /\ r.cur > cur
  <2>1. CASE Punct(next.cur, ">")
    <3>1. r = Advance(next) /\ Kind(next.cur) = "punct"
      BY <1>3, <1>5, <2>1 DEF SelfClose, Punct
    <3>2. Reached(r) /\ r.cur > next.cur
      BY <1>2, <1>4, <3>1, Moves
    <3>3. r.cur \in Nat /\ next.cur \in Nat
      BY <1>4, <3>2 DEF Reached
    <3>4. QED
      BY <1>2, <1>4, <3>2, <3>3
  <2>2. CASE ~Punct(next.cur, ">")
    BY <1>3, <1>4, <1>5, <2>2 DEF SelfClose
  <2>3. QED
    BY <2>1, <2>2
<1>7. StepOK(r, Return(top.node))
  BY <1>1, <1>6, Returns
<1>8. QED
  BY <1>1, <1>5, <1>7

LEMMA EndOpeningTagStep ==
    ASSUME IInv, EndOpeningTag
    PROVE  StepOK(reader', stack')
<1>1. /\ In("element") /\ Kind(cur) = "punct"
      /\ reader' = Advance(reader) /\ stack' = Become([top EXCEPT !.stage = "children"])
  BY DEF EndOpeningTag, InElement, Punct
<1>2. stack # <<>> /\ Reached(reader) /\ reader.cur = cur /\ InnerFrame(top) /\ top.f = "element"
  BY <1>1, ElementTop
<1>3. PICK g, a : g = [top EXCEPT !.stage = "children"] /\ a = Advance(reader)
  OBVIOUS
<1>4. InnerFrame(g) /\ g.f = "element"
  BY <1>2, <1>3, StageSet
<1>5. Reached(a) /\ a.cur > cur
  BY <1>1, <1>2, <1>3, Moves
<1>6. StepOK(a, Become(g))
  BY <1>1, <1>4, <1>5, GoesOn
<1>7. QED
  BY <1>1, <1>3, <1>6

LEMMA NameSet ==
    ASSUME NEW g, InnerFrame(g), g.f = "element", NEW c, NEW h, h = [g EXCEPT !.name = c, !.stage = "value"]
    PROVE  InnerFrame(h) /\ h.f = "element"
<1>1. g = [f |-> "element", stage |-> g.stage, node |-> g.node, name |-> g.name, text |-> g.text]
  BY ElementShape
<1>2. h = [f |-> "element", stage |-> "value", node |-> g.node, name |-> c, text |-> g.text]
  BY <1>1
<1>3. QED
  BY <1>2, ElementChanged

LEMMA PropNameStep ==
    ASSUME IInv, PropName
    PROVE  StepOK(reader', stack')
<1>1. In("element")
  BY DEF PropName, InElement
<1>2. stack # <<>> /\ Reached(reader) /\ reader.cur = cur /\ cur \in Nat /\ InnerFrame(top) /\ top.f = "element"
  BY <1>1, ElementTop
<1>3. PICK next : next = Advance(reader)
  OBVIOUS
<1>4. CASE Kind(cur) # "id"
  <2>1. Abandon
    BY <1>4 DEF PropName
  <2>2. QED
    BY <1>1, <2>1, AbandonStep
<1>5. ASSUME Kind(cur) = "id" PROVE Reached(next) /\ next.cur > cur
  BY <1>2, <1>3, <1>5, Moves
<1>6. CASE Kind(cur) = "id" /\ Punct(next.cur, "=")
  <2>1. PICK g : g = [top EXCEPT !.name = cur, !.stage = "value"]
    BY Zenon
  <2>2. InnerFrame(g) /\ g.f = "element"
    BY <1>2, <2>1, Zenon, NameSet
  <2>3. PICK a : a = Advance(next)
    OBVIOUS
  <2>4. reader' = a /\ stack' = Become(g)
    BY <1>3, <1>6, <2>1, <2>3, Zenon DEF PropName
  <2>5. Reached(a) /\ a.cur > next.cur
    <3>1. Kind(next.cur) = "punct"
      BY <1>6 DEF Punct
    <3>2. QED
      BY <1>2, <1>5, <1>6, <2>3, <3>1, Moves
  <2>6. a.cur > cur
    <3>1. a.cur \in Nat /\ next.cur \in Nat /\ next.cur > cur
      BY <1>5, <1>6, <2>5 DEF Reached
    <3>2. QED
      BY <1>2, <2>5, <3>1
  <2>7. StepOK(a, Become(g))
    BY <1>1, <2>2, <2>5, <2>6, GoesOn
  <2>8. QED
    BY <2>4, <2>7
<1>7. CASE Kind(cur) = "id" /\ ~Punct(next.cur, "=")
  <2>1. reader' = next /\ stack' = Return(top.node)
    BY <1>3, <1>7 DEF PropName
  <2>2. StepOK(next, Return(top.node))
    BY <1>1, <1>5, <1>7, Returns
  <2>3. QED
    BY <2>1, <2>2
<1>8. QED
  BY <1>4, <1>6, <1>7

LEMMA ValueSet ==
    ASSUME NEW g, InnerFrame(g), g.f = "element", NEW v, NEW h, h = [GiveValue(g, v) EXCEPT !.stage = "props"]
    PROVE  InnerFrame(h) /\ h.f = "element" /\ Left(h) = 1
<1>1. PICK k : k = GiveValue(g, v)
  OBVIOUS
<1>2. InnerFrame(k) /\ k.f = "element"
  BY <1>1, ValueGiven
<1>3. h = [k EXCEPT !.stage = "props"]
  BY <1>1
<1>4. InnerFrame(h) /\ h.f = "element" /\ h.stage = "props"
  BY <1>2, <1>3, StageSet
<1>5. QED
  BY <1>4 DEF Left

LEMMA PropLiteralStep ==
    ASSUME IInv, PropLiteral
    PROVE  StepOK(reader', stack')
<1>1. In("element") /\ Kind(cur) = "str"
  BY DEF PropLiteral, InElement
<1>2. stack # <<>> /\ Reached(reader) /\ reader.cur = cur /\ InnerFrame(top) /\ top.f = "element"
  BY <1>1, ElementTop
<1>3. PICK g : g = [GiveValue(top, Literal(cur)) EXCEPT !.stage = "props"]
  BY Zenon
<1>4. InnerFrame(g) /\ g.f = "element"
  BY <1>2, <1>3, Zenon, ValueSet
<1>5. PICK a : a = Advance(reader)
  OBVIOUS
<1>6. reader' = a /\ stack' = Become(g)
  BY <1>3, <1>5, Zenon DEF PropLiteral
<1>7. Reached(a) /\ a.cur > cur
  BY <1>1, <1>2, <1>5, Moves
<1>8. StepOK(a, Become(g))
  BY <1>1, <1>4, <1>7, GoesOn
<1>9. QED
  BY <1>6, <1>8

LEMMA PropHatchStep ==
    ASSUME IInv, PropHatch
    PROVE  StepOK(reader', stack')
<1>1. In("element") /\ Kind(cur) = "open"
  BY DEF PropHatch, InElement
<1>2. stack # <<>> /\ Reached(reader) /\ reader.cur = cur /\ InnerFrame(top) /\ top.f = "element"
  BY <1>1, ElementTop
<1>3. PICK g : g = [GiveValue(top, EscapeHatch(JsxPeek(reader))) EXCEPT !.stage = "props"]
  BY Zenon
<1>4. InnerFrame(g) /\ g.f = "element"
  BY <1>2, <1>3, Zenon, ValueSet
<1>5. PICK a : a = AfterHatch(JsxPeek(reader))
  OBVIOUS
<1>6. reader' = a /\ stack' = Become(g)
  BY <1>3, <1>5, Zenon DEF PropHatch
<1>7. Reached(a) /\ a.cur > cur
  BY <1>1, <1>2, <1>5, HatchMoves
<1>8. StepOK(a, Become(g))
  BY <1>1, <1>4, <1>7, GoesOn
<1>9. QED
  BY <1>6, <1>8

LEMMA PropMissingStep ==
    ASSUME IInv, PropMissing
    PROVE  StepOK(reader', stack')
<1>1. In("element") /\ top.stage = "value"
  BY DEF PropMissing, InElement
<1>2. stack # <<>> /\ Reached(reader) /\ reader.cur = cur /\ InnerFrame(top) /\ top.f = "element"
  BY <1>1, ElementTop
<1>3. PICK g : g = [GiveValue(top, Hatch(cur, cur, cur - 1)) EXCEPT !.stage = "props"]
  BY Zenon
<1>4. InnerFrame(g) /\ g.f = "element" /\ Left(g) = 1
  BY <1>2, <1>3, Zenon, ValueSet
<1>5. PICK a : a = JsxPeek(reader)
  OBVIOUS
<1>6. reader' = a /\ stack' = Become(g)
  BY <1>3, <1>5, Zenon DEF PropMissing
<1>7. Reached(a) /\ a.cur = cur
  BY <1>2, <1>5, JsxPeeks
<1>8. Left(g) < Left(top)
  BY <1>1, <1>2, <1>4 DEF Left
<1>9. StepOK(a, Become(g))
  BY <1>1, <1>4, <1>7, <1>8, GoesOn
<1>10. QED
  BY <1>6, <1>9

LEMMA ChildHatchStep ==
    ASSUME IInv, ChildHatch
    PROVE  StepOK(reader', stack')
<1>1. In("element") /\ Kind(cur) = "open"
  BY DEF ChildHatch, InElement
<1>2. stack # <<>> /\ Reached(reader) /\ reader.cur = cur /\ InnerFrame(top) /\ top.f = "element"
  BY <1>1, ElementTop
<1>3. PICK h, g : h = Flushed(top) /\ g = GiveValue(h, EscapeHatch(JsxPeek(reader)))
  OBVIOUS
<1>4. InnerFrame(h) /\ h.f = "element"
  BY <1>2, <1>3, FlushedShape
<1>5. InnerFrame(g) /\ g.f = "element"
  BY <1>3, <1>4, ValueGiven
<1>6. PICK a : a = AfterHatch(JsxPeek(reader))
  OBVIOUS
<1>7. reader' = a /\ stack' = Become(g)
  BY <1>3, <1>6, Zenon DEF ChildHatch
<1>8. Reached(a) /\ a.cur > cur
  BY <1>1, <1>2, <1>6, HatchMoves
<1>9. StepOK(a, Become(g))
  BY <1>1, <1>5, <1>8, GoesOn
<1>10. QED
  BY <1>7, <1>9

LEMMA UnterminatedStep ==
    ASSUME IInv, Unterminated
    PROVE  StepOK(reader', stack')
<1>1. In("element") /\ reader' = reader /\ stack' = Return(Flushed(top).node)
  BY DEF Unterminated, InElement
<1>2. Reached(reader) /\ reader.cur = cur
  BY <1>1, ElementTop
<1>3. StepOK(reader, Return(Flushed(top).node))
  BY <1>1, <1>2, Returns
<1>4. QED
  BY <1>1, <1>3

LEMMA TextSet ==
    ASSUME NEW g, InnerFrame(g), g.f = "element", NEW c, NEW h, h = [g EXCEPT !.text = Append(@, c)]
    PROVE  InnerFrame(h) /\ h.f = "element"
<1>1. /\ g = [f |-> "element", stage |-> g.stage, node |-> g.node, name |-> g.name, text |-> g.text]
      /\ g.stage \in {"tag", "props", "value", "children"}
  BY ElementShape
<1>2. PICK x : x = Append(g.text, c)
  OBVIOUS
<1>3. h = [f |-> "element", stage |-> g.stage, node |-> g.node, name |-> g.name, text |-> x]
  BY <1>1, <1>2
<1>4. QED
  BY <1>1, <1>3, ElementChanged

LEMMA ChildTextStep ==
    ASSUME IInv, ChildText
    PROVE  StepOK(reader', stack')
<1>1. In("element") /\ Kind(cur) \notin {"open", "close", "eof"}
  BY DEF ChildText, InElement
<1>2. stack # <<>> /\ Reached(reader) /\ reader.cur = cur /\ InnerFrame(top) /\ top.f = "element"
  BY <1>1, ElementTop
<1>3. PICK g : g = [top EXCEPT !.text = Append(@, cur)]
  BY Zenon
<1>4. InnerFrame(g) /\ g.f = "element"
  BY <1>2, <1>3, Zenon, TextSet
<1>5. PICK p, a : p = JsxPeek(reader) /\ a = Advance(p)
  OBVIOUS
<1>6. reader' = a /\ stack' = Become(g)
  BY <1>3, <1>5, Zenon DEF ChildText
<1>7. Reached(p) /\ p.cur = cur
  BY <1>2, <1>5, JsxPeeks
<1>8. Reached(a) /\ a.cur > cur
  <2>1. Reached(a) /\ a.cur > p.cur
    BY <1>1, <1>2, <1>5, <1>7, Moves
  <2>2. QED
    BY <1>7, <2>1
<1>9. StepOK(a, Become(g))
  BY <1>1, <1>4, <1>8, GoesOn
<1>10. QED
  BY <1>6, <1>9

LEMMA ClosingTagStep ==
    ASSUME IInv, ClosingTag
    PROVE  StepOK(reader', stack')
<1>1. In("element") /\ Kind(cur) = "punct" /\ Kind(Advance(reader).cur) = "punct"
  BY DEF ClosingTag, InElement, Punct
<1>2. stack # <<>> /\ Reached(reader) /\ reader.cur = cur /\ cur \in Nat
  BY <1>1, ElementTop
<1>3. PICK slash, name : slash = Advance(reader) /\ name = Advance(slash)
  OBVIOUS
<1>4. Reached(slash) /\ slash.cur > cur
  BY <1>1, <1>2, <1>3, Moves
<1>5. Reached(name) /\ name.cur > slash.cur
  BY <1>1, <1>2, <1>3, <1>4, Moves
<1>6. PICK angle : angle = IF Kind(name.cur) = "id" THEN Advance(name) ELSE name
  OBVIOUS
<1>7. Reached(angle) /\ angle.cur >= name.cur
  <2>1. CASE Kind(name.cur) = "id"
    <3>1. Reached(angle) /\ angle.cur > name.cur
      BY <1>2, <1>5, <1>6, <2>1, Moves
    <3>2. angle.cur \in Nat /\ name.cur \in Nat
      BY <1>5, <3>1 DEF Reached
    <3>3. QED
      BY <3>1, <3>2
  <2>2. CASE Kind(name.cur) # "id"
    BY <1>5, <1>6, <2>2 DEF Reached
  <2>3. QED
    BY <2>1, <2>2
<1>8. PICK r : r = IF Punct(angle.cur, ">") THEN Advance(angle) ELSE angle
  OBVIOUS
<1>9. Reached(r) /\ r.cur >= angle.cur
  <2>1. CASE Punct(angle.cur, ">")
    <3>1. Kind(angle.cur) = "punct" /\ r = Advance(angle)
      BY <1>8, <2>1 DEF Punct
    <3>2. Reached(r) /\ r.cur > angle.cur
      BY <1>2, <1>7, <3>1, Moves
    <3>3. r.cur \in Nat /\ angle.cur \in Nat
      BY <1>7, <3>2 DEF Reached
    <3>4. QED
      BY <3>2, <3>3
  <2>2. CASE ~Punct(angle.cur, ">")
    BY <1>7, <1>8, <2>2 DEF Reached
  <2>3. QED
    BY <2>1, <2>2
<1>10. r.cur > cur
  <2>1. r.cur \in Nat /\ angle.cur \in Nat /\ name.cur \in Nat /\ slash.cur \in Nat
    BY <1>4, <1>5, <1>7, <1>9 DEF Reached
  <2>2. QED
    BY <1>2, <1>4, <1>5, <1>7, <1>9, <2>1
<1>11. reader' = r
  BY <1>3, <1>6, <1>8 DEF ClosingTag
<1>12. \E node : stack' = Return(node)
  BY DEF ClosingTag
<1>13. PICK node : stack' = Return(node)
  BY <1>12
<1>14. StepOK(r, Return(node))
  BY <1>1, <1>9, <1>10, Returns
<1>15. QED
  BY <1>11, <1>13, <1>14

-----------------------------------------------------------------------------
(* Calls of an element or a hatch.                                         *)

\* A call that consumes no brace: the caller goes on as h and calls an element.
LEMMA CallsElement ==
    ASSUME IInv, In("element") \/ In("jsx"), NEW h, InnerFrame(h), h.f = top.f, Weight(h) = Weight(top),
           NEW at, NEW r, Reached(r), r.cur > cur
    PROVE  StepOK(r, Append(Become(h), ElementFrame(at)))
<1>1. PICK g, t : g = ElementFrame(at) /\ t = Append(Become(h), g)
  OBVIOUS
<1>2. InnerFrame(g) /\ g.f = "element" /\ Weight(g) = 0
  BY <1>1, NewFrames
<1>3. /\ Stacked(t) /\ t # <<>> /\ t[1].at = stack[1].at
      /\ \A n \in Nat : Weighs(stack, n) => n + Weight(g) \in Nat /\ Weighs(t, n + Weight(g))
  BY <1>1, <1>2, Called
<1>4. \A n \in Nat : Weighs(stack, n) => Weighs(t, n)
  <2>1. \A n \in Nat : n + Weight(g) = n
    BY <1>2
  <2>2. QED
    BY <1>3, <2>1
<1>5. Reading(r) /\ r.cur \in Nat /\ r.cur # 0 /\ (r.cur = Eof \/ Tracked(t, r.cur))
  BY <1>3, <1>4, TrackedStays DEF Reached
<1>6. stack # <<>>
  BY InnerTop
<1>7. StepOK(r, t)
  BY <1>3, <1>5, <1>6 DEF StepOK
<1>8. QED
  BY <1>1, <1>7

LEMMA ChildElementStep ==
    ASSUME IInv, ChildElement
    PROVE  StepOK(reader', stack')
<1>1. In("element") /\ Kind(cur) = "punct"
  BY DEF ChildElement, InElement, Punct
<1>2. stack # <<>> /\ Reached(reader) /\ reader.cur = cur /\ InnerFrame(top) /\ top.f = "element"
  BY <1>1, ElementTop
<1>3. PICK r, h, at : r = Advance(reader) /\ h = Flushed(top) /\ at = cur
  OBVIOUS
<1>4. Reached(r) /\ r.cur > cur
  BY <1>1, <1>2, <1>3, Moves
<1>5. InnerFrame(h) /\ h.f = top.f /\ Weight(h) = Weight(top)
  <2>1. InnerFrame(h) /\ h.f = "element"
    BY <1>2, <1>3, FlushedShape
  <2>2. QED
    BY <1>2, <2>1 DEF Weight
<1>6. reader' = r /\ stack' = Append(Become(h), ElementFrame(at))
  BY <1>3 DEF ChildElement
<1>7. StepOK(r, Append(Become(h), ElementFrame(at)))
  BY <1>1, <1>4, <1>5, CallsElement
<1>8. QED
  BY <1>6, <1>7

LEMMA StartJsxStep ==
    ASSUME IInv, StartJsx
    PROVE  StepOK(reader', stack')
<1>1. In("element") /\ Kind(cur) = "punct" /\ Kind(PeekNext(reader).look) = "open"
  BY DEF StartJsx, JsxStart, Punct, cur
<1>2. /\ stack # <<>> /\ Reached(reader) /\ reader.cur = cur /\ cur \in Nat /\ InnerFrame(top) /\ top.f = "element"
      /\ file \in Files
  BY <1>1, ElementTop DEF IInv
<1>3. PICK p, o, r : p = PeekNext(reader) /\ o = Advance(p) /\ r = Advance(o)
  OBVIOUS
<1>4. Reached(p) /\ p.cur = cur /\ p.look # 0
  BY <1>1, <1>2, <1>3, Peeks
<1>5. Reached(o) /\ o.cur > cur
  BY <1>1, <1>2, <1>3, <1>4, Moves
<1>6. o.cur = p.look /\ Kind(o.cur) = "open"
  <2>1. Reading(p) /\ p.cur # Eof
    BY <1>1, <1>2, <1>4, SourceFacts DEF Reached
  <2>2. o.cur = p.look
    BY <1>2, <1>3, <1>4, <2>1, AdvanceFacts
  <2>3. QED
    BY <1>1, <1>3, <2>2
<1>7. Reading(o) /\ o.cur \in Nat /\ o.cur # Eof /\ Tracked(stack, o.cur)
  BY <1>2, <1>5, <1>6, SourceFacts DEF Reached
<1>8. Reading(r) /\ Follows(o.cur, r.cur)
  BY <1>2, <1>3, <1>7, AdvanceFacts
<1>9. r.cur \in Nat /\ r.cur > cur /\ r.cur # 0
  <2>1. r.cur \in Nat
    BY <1>2, <1>8, SourceFacts DEF Reading
  <2>2. r.cur > o.cur
    BY <1>8 DEF Follows
  <2>3. QED
    BY <1>2, <1>5, <1>7, <2>1, <2>2
<1>10. PICK h : h = IF top.stage = "children" THEN Flushed(top) ELSE top
  OBVIOUS
<1>11. InnerFrame(h) /\ h.f = top.f /\ Weight(h) = Weight(top)
  <2>1. InnerFrame(h) /\ h.f = "element"
    BY <1>2, <1>10, FlushedShape
  <2>2. QED
    BY <1>2, <2>1 DEF Weight
<1>12. PICK g, t : g = JsxFrame(cur) /\ t = Append(Become(h), g)
  OBVIOUS
<1>13. InnerFrame(g) /\ g.f = "jsx" /\ Weight(g) = 1
  BY <1>12, NewFrames
<1>14. /\ Stacked(t) /\ t # <<>> /\ t[1].at = stack[1].at
       /\ \A n \in Nat : Weighs(stack, n) => n + Weight(g) \in Nat /\ Weighs(t, n + Weight(g))
  BY <1>1, <1>2, <1>11, <1>12, <1>13, Called
<1>15. Tracked(t, r.cur)
  <2>1. Turn(o.cur) = Weight(g)
    BY <1>6, <1>13 DEF Turn
  <2>2. PICK c, d : c = o.cur /\ d = r.cur
    OBVIOUS
  <2>3. /\ c \in Nat /\ d \in Nat /\ Tracked(stack, c) /\ Follows(c, d)
        /\ \A n \in Nat : Weighs(stack, n) => n + Turn(c) \in Nat /\ Weighs(t, n + Turn(c))
    BY <1>7, <1>8, <1>9, <1>14, <2>1, <2>2
  <2>4. Tracked(t, d)
    BY <1>14, <2>3, TrackedMoves
  <2>5. QED
    BY <2>2, <2>4
<1>16. reader' = r /\ stack' = t
  BY <1>3, <1>10, <1>12 DEF StartJsx
<1>17. StepOK(r, t)
  BY <1>2, <1>8, <1>9, <1>14, <1>15 DEF StepOK
<1>18. QED
  BY <1>16, <1>17

\* A hatch in progress.
LEMMA JsxTop ==
    ASSUME IInv, In("jsx")
    PROVE  /\ file \in Files /\ Stacked(stack) /\ stack # <<>> /\ Len(stack) # 1
           /\ Reached(reader) /\ reader.cur = cur /\ cur \in Nat
           /\ top = Last(stack) /\ InnerFrame(top) /\ top.f = "jsx" /\ Weight(top) = top.depth
           /\ top = [f |-> "jsx", at |-> top.at, depth |-> top.depth, segs |-> top.segs, text |-> top.text]
           /\ top.depth \in Nat \ {0}
<1>1. /\ file \in Files /\ Reading(reader) /\ Stacked(stack) /\ stack # <<>> /\ Len(stack) # 1
      /\ reader.cur \in Nat /\ reader.cur # 0
      /\ (reader.cur = Eof \/ Tracked(stack, reader.cur)) /\ InnerFrame(Last(stack))
  BY InnerTop
<1>2. InnerFrame(top) /\ top.f = "jsx" /\ top = Last(stack)
  BY <1>1 DEF top, In
<1>3. /\ top = [f |-> "jsx", at |-> top.at, depth |-> top.depth, segs |-> top.segs, text |-> top.text]
      /\ top.depth \in Nat \ {0}
  BY <1>2 DEF InnerFrame
<1>4. QED
  BY <1>1, <1>2, <1>3 DEF Reached, cur, Weight

LEMMA JsxChanged ==
    ASSUME NEW d \in Nat \ {0}, NEW at, NEW q, NEW x,
           NEW h, h = [f |-> "jsx", at |-> at, depth |-> d, segs |-> q, text |-> x]
    PROVE  InnerFrame(h) /\ h.f = "jsx" /\ Weight(h) = d
BY DEF InnerFrame, Weight

LEMMA JsxShape ==
    ASSUME NEW g, InnerFrame(g), g.f = "jsx"
    PROVE  /\ g = [f |-> "jsx", at |-> g.at, depth |-> g.depth, segs |-> g.segs, text |-> g.text]
           /\ g.depth \in Nat \ {0}
BY DEF InnerFrame

LEMMA SegmentSet ==
    ASSUME NEW g, InnerFrame(g), g.f = "jsx",
           NEW s, NEW h, h = [g EXCEPT !.segs = Append(@, s), !.text = <<>>]
    PROVE  InnerFrame(h) /\ h.f = "jsx" /\ Weight(h) = g.depth
<1>1. /\ g = [f |-> "jsx", at |-> g.at, depth |-> g.depth, segs |-> g.segs, text |-> g.text]
      /\ g.depth \in Nat \ {0}
  BY JsxShape
<1>2. PICK q : q = Append(g.segs, s)
  OBVIOUS
<1>3. h = [f |-> "jsx", at |-> g.at, depth |-> g.depth, segs |-> q, text |-> <<>>]
  BY <1>1, <1>2
<1>4. PICK d, at : d = g.depth /\ at = g.at
  OBVIOUS
<1>5. d \in Nat \ {0} /\ h = [f |-> "jsx", at |-> at, depth |-> d, segs |-> q, text |-> <<>>]
  BY <1>1, <1>3, <1>4
<1>6. InnerFrame(h) /\ h.f = "jsx" /\ Weight(h) = d
  BY ONLY <1>5, JsxChanged
<1>7. QED
  BY <1>4, <1>6

LEMMA JsxElementStep ==
    ASSUME IInv, JsxElement
    PROVE  StepOK(reader', stack')
<1>1. In("jsx") /\ Kind(cur) = "punct"
  BY DEF JsxElement, JsxElementStart, Punct
<1>2. /\ stack # <<>> /\ Reached(reader) /\ reader.cur = cur /\ top.f = "jsx" /\ Weight(top) = top.depth
      /\ InnerFrame(top)
  BY <1>1, JsxTop
<1>3. PICK p, r, at : p = PeekNext(reader) /\ r = Advance(p) /\ at = cur
  OBVIOUS
<1>4. Reached(p) /\ p.cur = cur
  BY <1>1, <1>2, <1>3, Peeks
<1>5. Reached(r) /\ r.cur > cur
  <2>1. Reached(r) /\ r.cur > p.cur
    BY <1>1, <1>2, <1>3, <1>4, Moves
  <2>2. QED
    BY <1>4, <2>1
<1>6. PICK h : h = [top EXCEPT !.segs = Append(@, [kind |-> "text", words |-> top.text]), !.text = <<>>]
  BY Zenon
<1>7. InnerFrame(h) /\ h.f = "jsx" /\ Weight(h) = top.depth
  BY <1>2, <1>6, Zenon, SegmentSet
<1>8. reader' = r /\ stack' = Append(Become(h), ElementFrame(at))
  BY <1>3, <1>6, Zenon DEF JsxElement
<1>9. StepOK(r, Append(Become(h), ElementFrame(at)))
  BY <1>1, <1>2, <1>5, <1>7, CallsElement
<1>10. QED
  BY <1>8, <1>9

LEMMA JsxTextStep ==
    ASSUME IInv, JsxText
    PROVE  StepOK(reader', stack')
<1>1. In("jsx") /\ Kind(cur) # "eof" /\ ~(Kind(cur) = "close" /\ top.depth = 1)
  BY DEF JsxText
<1>2. /\ file \in Files /\ Stacked(stack) /\ stack # <<>> /\ Len(stack) # 1 /\ top = Last(stack)
      /\ Reached(reader) /\ reader.cur = cur /\ cur \in Nat /\ top.f = "jsx" /\ Weight(top) = top.depth
      /\ top.depth \in Nat \ {0} /\ InnerFrame(top)
  BY <1>1, JsxTop
<1>3. PICK c, d : c = cur /\ d = top.depth + Turn(cur)
  OBVIOUS
<1>4. d \in Nat \ {0} /\ Turn(cur) \in {-1, 0, 1}
  BY <1>1, <1>2, <1>3 DEF Turn
<1>5. PICK h : h = [top EXCEPT !.text = Append(@, c), !.depth = d]
  BY Zenon
<1>6. InnerFrame(h) /\ h.f = "jsx" /\ Weight(h) = d
  <2>1. InnerFrame(top) /\ top.f = "jsx"
    BY <1>2
  <2>2. d \in Nat \ {0}
    BY <1>4
  <2>3. PICK g : g = top
    OBVIOUS
  <2>4. h = [g EXCEPT !.text = Append(@, c), !.depth = d]
    BY <1>5, <2>3, Zenon
  <2>5. g = [f |-> "jsx", at |-> g.at, depth |-> g.depth, segs |-> g.segs, text |-> g.text]
    BY <2>1, <2>3, JsxShape
  <2>6. PICK x : x = Append(g.text, c)
    OBVIOUS
  <2>7. PICK at, q, e, y : g = [f |-> "jsx", at |-> at, depth |-> e, segs |-> q, text |-> y]
    BY <2>5
  <2>8. h = [f |-> "jsx", at |-> at, depth |-> d, segs |-> q, text |-> x]
    <3>1. h = [g EXCEPT !.text = x, !.depth = d]
      BY <2>4, <2>6
    <3>2. QED
      BY ONLY <2>7, <3>1
  <2>9. QED
    BY ONLY <2>2, <2>8, JsxChanged
<1>7. stack' = Become(h)
  <2>1. stack' = Become([top EXCEPT !.text = Append(@, cur),
                                    !.depth = CASE Kind(cur) = "open" -> @ + 1
                                                [] Kind(cur) = "close" -> @ - 1
                                                [] OTHER -> @])
    BY Zenon DEF JsxText
  <2>2. (CASE Kind(cur) = "open" -> top.depth + 1
           [] Kind(cur) = "close" -> top.depth - 1
           [] OTHER -> top.depth) = d
    BY <1>2, <1>3 DEF Turn
  <2>3. PICK e : e = (CASE Kind(cur) = "open" -> top.depth + 1
                        [] Kind(cur) = "close" -> top.depth - 1
                        [] OTHER -> top.depth)
    OBVIOUS
  <2>4. stack' = Become([top EXCEPT !.text = Append(@, cur), !.depth = e])
    BY <2>1, <2>3
  <2>5. QED
    BY <1>3, <1>5, <2>2, <2>3, <2>4, Zenon
<1>8. PICK p, r : p = (IF Punct(cur, "<") /\ CanStartJsx THEN PeekNext(reader) ELSE reader) /\ r = Advance(p)
  OBVIOUS
<1>9. Reached(p) /\ p.cur = c
  <2>1. CASE Punct(cur, "<") /\ CanStartJsx
    BY <1>2, <1>3, <1>8, <2>1, Peeks DEF Punct
  <2>2. CASE ~(Punct(cur, "<") /\ CanStartJsx)
    BY <1>2, <1>3, <1>8, <2>2
  <2>3. QED
    BY <2>1, <2>2
<1>10. Reading(p) /\ c # Eof /\ Tracked(stack, c) /\ c \in Nat
  BY <1>1, <1>2, <1>3, <1>9, SourceFacts DEF Reached
<1>11. Reading(r) /\ Follows(c, r.cur)
  BY <1>2, <1>8, <1>9, <1>10, AdvanceFacts
<1>12. r.cur \in Nat /\ r.cur > cur /\ r.cur # 0
  <2>1. r.cur \in Nat
    BY <1>2, <1>11, SourceFacts DEF Reading
  <2>2. r.cur > c
    BY <1>11 DEF Follows
  <2>3. QED
    BY <1>2, <1>3, <2>1, <2>2
<1>13. PICK t : t = Append(Front(stack), h)
  OBVIOUS
<1>14. /\ Stacked(t) /\ t # <<>> /\ t[1].at = stack[1].at
       /\ \A n \in Nat : Weighs(stack, n) => /\ n - Weight(Last(stack)) + Weight(h) \in Nat
                                             /\ Weighs(t, n - Weight(Last(stack)) + Weight(h))
  <2>1. /\ Len(stack) = 1 => HeadFrame(h) /\ h.at = stack[1].at
        /\ Len(stack) # 1 => InnerFrame(h) /\ h.f = Last(stack).f
    BY <1>2, <1>6
  <2>2. Stacked(stack) /\ stack # <<>>
    BY <1>2
  <2>3. QED
    BY ONLY <1>13, <2>1, <2>2, Replaced
<1>15. \A n \in Nat : Weighs(stack, n) => n + Turn(c) \in Nat /\ Weighs(t, n + Turn(c))
  <2>1. PICK a, b, k : a = Weight(Last(stack)) /\ b = Weight(h) /\ k = Turn(c)
    OBVIOUS
  <2>2. a \in Nat /\ b = a + k /\ k \in Int
    BY <1>2, <1>3, <1>4, <1>6, <2>1
  <2>3. \A n \in Nat : n - a + b = n + k
    BY <2>2
  <2>4. QED
    BY <1>14, <2>1, <2>3
<1>16. Tracked(t, r.cur)
  <2>1. PICK e : e = r.cur
    OBVIOUS
  <2>2. Tracked(t, e)
    BY <1>10, <1>11, <1>12, <1>14, <1>15, <2>1, TrackedMoves
  <2>3. QED
    BY <2>1, <2>2
<1>17. StepOK(r, t)
  BY <1>2, <1>11, <1>12, <1>14, <1>16 DEF StepOK
<1>18. reader' = r /\ stack' = t
  BY <1>7, <1>8, <1>13 DEF JsxText, Become, below
<1>19. QED
  BY <1>17, <1>18

\* A hatch returns to its element: the frame the element goes on with.
LEMMA HatchGiven ==
    ASSUME NEW g, InnerFrame(g), g.f = "element", NEW v,
           NEW k, k = GiveValue(g, v), NEW h, h = [k EXCEPT !.stage = IF @ = "value" THEN "props" ELSE @]
    PROVE  InnerFrame(h) /\ h.f = "element" /\ Weight(h) = 0 /\ Left(h) <= Left(g)
<1>1. InnerFrame(k) /\ k.f = "element" /\ k.stage = g.stage
  BY ValueGiven
<1>2. /\ k = [f |-> "element", stage |-> k.stage, node |-> k.node, name |-> k.name, text |-> k.text]
      /\ k.stage \in {"tag", "props", "value", "children"}
  BY <1>1, ElementShape
<1>3. PICK S : S = IF k.stage = "value" THEN "props" ELSE k.stage
  OBVIOUS
<1>4. h = [k EXCEPT !.stage = S] /\ S \in {"tag", "props", "value", "children"}
  BY <1>2, <1>3
<1>5. InnerFrame(h) /\ h.f = "element" /\ h.stage = S
  BY <1>1, <1>4, StageSet
<1>6. Left(h) <= Left(g)
  BY <1>1, <1>2, <1>3, <1>5 DEF Left
<1>7. QED
  BY <1>5, <1>6 DEF Weight

LEMMA EndJsxStep ==
    ASSUME IInv, EndJsx
    PROVE  StepOK(reader', stack')
<1>1. In("jsx") /\ (Kind(cur) = "eof" \/ (Kind(cur) = "close" /\ top.depth = 1))
  BY DEF EndJsx
<1>2. /\ file \in Files /\ Stacked(stack) /\ stack # <<>> /\ Len(stack) # 1 /\ top = Last(stack)
      /\ Reached(reader) /\ reader.cur = cur /\ cur \in Nat /\ top.f = "jsx" /\ Weight(top) = top.depth
      /\ top.depth \in Nat \ {0} /\ InnerFrame(top)
  BY <1>1, JsxTop
<1>3. PICK b : b = Front(stack)
  OBVIOUS
<1>4. /\ Stacked(b) /\ b # <<>> /\ b[1] = stack[1] /\ Last(b).f = "element"
      /\ Tasks(b) \subseteq Tasks(stack) /\ <<Len(stack), 1>> \in Tasks(stack) /\ <<Len(stack), 1>> \notin Tasks(b)
      /\ \A n \in Nat : Weighs(stack, n) => n - Weight(Last(stack)) \in Nat /\ Weighs(b, n - Weight(Last(stack)))
  BY <1>2, <1>3, Popped
<1>5. Len(b) # 1 /\ InnerFrame(Last(b))
  <2>1. ASSUME Len(b) = 1 PROVE FALSE
    <3>1. HeadFrame(Last(b))
      BY <1>4, <2>1, PopFacts DEF Stacked
    <3>2. QED
      BY <1>4, <3>1 DEF HeadFrame, Block
  <2>2. Len(b) # 1
    BY <2>1
  <2>3. QED
    BY <1>4, <2>2, Popped
<1>6. PICK g, v, k : g = Last(b) /\ v = Jsx(top.at, FlushSegs(top)) /\ k = GiveValue(g, v)
  OBVIOUS
<1>7. PICK h : h = [k EXCEPT !.stage = IF @ = "value" THEN "props" ELSE @]
  BY Zenon
<1>8. InnerFrame(g) /\ g.f = "element" /\ Weight(g) = 0
  BY <1>4, <1>5, <1>6 DEF Weight
<1>9. InnerFrame(h) /\ h.f = "element" /\ Weight(h) = 0 /\ Left(h) <= Left(g)
  <2>1. InnerFrame(g) /\ g.f = "element" /\ k = GiveValue(g, v)
    BY <1>6, <1>8
  <2>2. QED
    BY ONLY <1>7, <2>1, HatchGiven
<1>10. PICK t : t = Append(Front(b), h)
  OBVIOUS
<1>11. /\ Stacked(t) /\ t # <<>> /\ t[1].at = b[1].at
       /\ Left(h) <= Left(Last(b)) => Tasks(t) \subseteq Tasks(b)
       /\ \A n \in Nat : Weighs(b, n) => /\ n - Weight(Last(b)) + Weight(h) \in Nat
                                         /\ Weighs(t, n - Weight(Last(b)) + Weight(h))
  <2>1. /\ Len(b) = 1 => HeadFrame(h) /\ h.at = b[1].at
        /\ Len(b) # 1 => InnerFrame(h) /\ h.f = Last(b).f
    BY <1>4, <1>5, <1>9
  <2>2. Stacked(b) /\ b # <<>>
    BY <1>4
  <2>3. QED
    BY ONLY <1>10, <2>1, <2>2, Replaced
<1>12. Cardinality(Tasks(t)) < Cardinality(Tasks(stack))
  <2>1. PICK p : p = <<Len(stack), 1>>
    OBVIOUS
  <2>2. Tasks(t) \subseteq Tasks(b)
    BY <1>6, <1>9, <1>11
  <2>3. Tasks(t) \subseteq Tasks(stack) /\ p \in Tasks(stack) /\ p \notin Tasks(t)
    BY <1>4, <2>1, <2>2
  <2>4. QED
    BY <1>2, <2>3, FewerTasks DEF Stacked
<1>13. stack' = t
  <2>1. stack' = ReturnTo(below, [GiveValue(Last(below), Jsx(top.at, FlushSegs(top)))
                                    EXCEPT !.stage = IF @ = "value" THEN "props" ELSE @])
    BY Zenon DEF EndJsx
  <2>2. below = b
    BY <1>3 DEF below
  <2>3. QED
    BY <1>6, <1>7, <1>10, <2>1, <2>2, Zenon DEF ReturnTo
<1>14. CASE Kind(cur) = "eof"
  <2>1. reader' = reader
    BY <1>14 DEF EndJsx
  <2>2. reader.cur = Eof
    <3>1. reader.cur \in 0..Eof /\ reader.cur # 0
      BY <1>2 DEF Reached, Reading
    <3>2. QED
      BY <1>2, <1>14, <3>1, SourceFacts
  <2>3. Reading(reader) /\ reader.cur # 0
    BY <1>2 DEF Reached
  <2>4. StepOK(reader, t)
    BY <1>2, <1>11, <1>12, <2>2, <2>3 DEF StepOK
  <2>5. QED
    BY <1>13, <2>1, <2>4
<1>15. CASE Kind(cur) = "close" /\ top.depth = 1
  <2>1. PICK r, c : r = Advance(reader) /\ c = cur
    OBVIOUS
  <2>2. reader' = r
    BY <1>15, <2>1 DEF EndJsx
  <2>3. Reading(reader) /\ c \in Nat /\ reader.cur = c /\ c # Eof /\ Tracked(stack, c)
    BY <1>2, <1>15, <2>1, SourceFacts DEF Reached
  <2>4. Reading(r) /\ Follows(c, r.cur)
    BY <1>2, <2>1, <2>3, AdvanceFacts
  <2>5. r.cur \in Nat /\ r.cur > cur /\ r.cur # 0
    <3>1. r.cur \in Nat
      BY <1>2, <2>4, SourceFacts DEF Reading
    <3>2. r.cur > c
      BY <2>4 DEF Follows
    <3>3. QED
      BY <1>2, <2>1, <3>1, <3>2
  <2>6. ASSUME NEW n \in Nat, Weighs(stack, n) PROVE n + Turn(c) \in Nat /\ Weighs(t, n + Turn(c))
    <3>1. PICK m : m = n - Weight(Last(stack))
      OBVIOUS
    <3>2. m \in Nat /\ Weighs(b, m)
      BY <1>4, <2>6, <3>1
    <3>3. m = n + Turn(c)
      BY <1>2, <1>15, <2>1, <3>1 DEF Turn
    <3>4. m - Weight(Last(b)) + Weight(h) = m
      BY <1>6, <1>8, <1>9, <3>2
    <3>5. Weighs(t, m)
      BY <1>11, <3>2, <3>4
    <3>6. QED
      BY <3>2, <3>3, <3>5
  <2>7. Tracked(t, r.cur)
    <3>1. PICK e : e = r.cur
      OBVIOUS
    <3>2. t[1].at = stack[1].at
      BY <1>4, <1>11
    <3>3. Tracked(t, e)
      BY <1>11, <2>3, <2>4, <2>5, <2>6, <3>1, <3>2, TrackedMoves
    <3>4. QED
      BY <3>1, <3>3
  <2>8. StepOK(r, t)
    BY <1>2, <1>11, <2>4, <2>5, <2>7 DEF StepOK
  <2>9. QED
    BY <1>13, <2>2, <2>8
<1>16. QED
  BY <1>1, <1>14, <1>15

-----------------------------------------------------------------------------
(* The invariant.                                                          *)

LEMMA SameFile ==
    ASSUME file' = file
    PROVE  /\ Eof' = Eof
           /\ \A r : Reading(r)' <=> Reading(r)
           /\ \A s, c : Tracked(s, c)' <=> Tracked(s, c)
<1>1. Eof' = Eof
  BY DEF Eof, source
<1>2. \A i : Kind(i)' = Kind(i)
  BY DEF Kind, source
<1>3. \A i, j : Follows(i, j)' <=> Follows(i, j)
  BY <1>1, <1>2 DEF Follows
<1>4. ASSUME NEW r PROVE Reading(r)' <=> Reading(r)
  BY <1>1, <1>2, <1>3, Zenon DEF Reading, ReadTo
<1>5. ASSUME NEW a, NEW b PROVE Level(a, b)' = Level(a, b)
  BY <1>2, Zenon DEF Level, Opens, Closes
<1>6. ASSUME NEW s, NEW c PROVE Tracked(s, c)' <=> Tracked(s, c)
  BY <1>1, <1>2, <1>5, Zenon DEF Tracked, OpensBlock, Within, Weighs, Weight
<1>7. QED
  BY <1>1, <1>4, <1>6

LEMMA IInvStays ==
    ASSUME IInv, file' = file, StepOK(reader', stack')
    PROVE  IInv'
<1>1. PICK r, t : r = reader' /\ t = stack'
  OBVIOUS
<1>2. Reading(r) /\ Stacked(t) /\ (t # <<>> => r.cur # 0 /\ (r.cur = Eof \/ Tracked(t, r.cur)))
  BY <1>1 DEF StepOK
<1>3. Reading(r)' /\ Stacked(t)' /\ (t # <<>> => r.cur # 0 /\ (r.cur = Eof' \/ Tracked(t, r.cur)'))
  BY <1>2, SameFile
<1>4. Reading(reader)' /\ Stacked(stack)'
  BY <1>1, <1>3
<1>5. (stack # <<>>)' => (cur # 0)' /\ ((cur = Eof)' \/ Tracked(stack, cur)')
  BY <1>1, <1>3 DEF cur
<1>6. QED
  BY <1>4, <1>5 DEF IInv

LEMMA EveryStep ==
    ASSUME IInv, ParseStep
    PROVE  StepOK(reader', stack') /\ file' = file
<1>1. file' = file
  BY DEF ParseStep, Prime, Scan, StartRoot, EndBlock, RecoverToBlockEnd, TagName, SelfClose, EndOpeningTag,
         PropName, PropLiteral, PropHatch, PropMissing, StartJsx, EndJsx, JsxElement, JsxText, ChildElement,
         ClosingTag, ChildHatch, Unterminated, ChildText
<1>2. CASE Prime              BY <1>2, PrimeStep, <1>1
<1>3. CASE Scan               BY <1>3, ScanStep, <1>1
<1>4. CASE StartRoot          BY <1>4, StartRootStep, <1>1
<1>5. CASE EndBlock           BY <1>5, EndBlockStep, <1>1
<1>6. CASE RecoverToBlockEnd  BY <1>6, RecoverStep, <1>1
<1>7. CASE TagName            BY <1>7, TagNameStep, <1>1
<1>8. CASE SelfClose          BY <1>8, SelfCloseStep, <1>1
<1>9. CASE EndOpeningTag      BY <1>9, EndOpeningTagStep, <1>1
<1>10. CASE PropName          BY <1>10, PropNameStep, <1>1
<1>11. CASE PropLiteral       BY <1>11, PropLiteralStep, <1>1
<1>12. CASE PropHatch         BY <1>12, PropHatchStep, <1>1
<1>13. CASE PropMissing       BY <1>13, PropMissingStep, <1>1
<1>14. CASE StartJsx          BY <1>14, StartJsxStep, <1>1
<1>15. CASE EndJsx            BY <1>15, EndJsxStep, <1>1
<1>16. CASE JsxElement        BY <1>16, JsxElementStep, <1>1
<1>17. CASE JsxText           BY <1>17, JsxTextStep, <1>1
<1>18. CASE ChildElement      BY <1>18, ChildElementStep, <1>1
<1>19. CASE ClosingTag        BY <1>19, ClosingTagStep, <1>1
<1>20. CASE ChildHatch        BY <1>20, ChildHatchStep, <1>1
<1>21. CASE Unterminated      BY <1>21, UnterminatedStep, <1>1
<1>22. CASE ChildText         BY <1>22, ChildTextStep, <1>1
<1>23. QED
  BY <1>2, <1>3, <1>4, <1>5, <1>6, <1>7, <1>8, <1>9, <1>10, <1>11, <1>12, <1>13, <1>14, <1>15,
     <1>16, <1>17, <1>18, <1>19, <1>20, <1>21, <1>22 DEF ParseStep

LEMMA IInvInit ==
    ASSUME Init
    PROVE  IInv
<1>1. file \in Files /\ reader = [next |-> 1, pending |-> <<>>, look |-> 0, cur |-> 0] /\ stack = <<>>
  BY DEF Init
<1>2. Eof \in Nat /\ Eof >= 1
  BY <1>1, SourceFacts
<1>3. Reading(reader)
  <2>1. reader \in [next : 1..Eof, pending : Seq(Nat), look : 0..Eof, cur : 0..Eof]
    BY <1>1, <1>2
  <2>2. reader.next = 1 /\ reader.pending = <<>> /\ reader.look = 0 /\ reader.cur = 0 /\ Len(reader.pending) = 0
    BY <1>1
  <2>3. ReadTo(reader) = 0
    BY <2>2 DEF ReadTo
  <2>4. \A x \in 1..Len(reader.pending) : FALSE
    BY <2>2
  <2>5. reader.next = ReadTo(reader) + Len(reader.pending) + 1
    BY <2>2, <2>3
  <2>6. QED
    BY <2>1, <2>2, <2>4, <2>5 DEF Reading
<1>4. QED
  BY <1>1, <1>3, NoCalls DEF IInv

LEMMA IInvNext ==
    ASSUME IInv, [Next]_vars
    PROVE  IInv'
<1>1. CASE ParseStep
  BY <1>1, EveryStep, IInvStays
<1>2. CASE UNCHANGED vars
  <2>1. file' = file /\ reader' = reader /\ stack' = stack
    BY <1>2 DEF vars
  <2>2. PICK r, t : r = reader /\ t = stack
    OBVIOUS
  <2>3. Reading(r) /\ Stacked(t) /\ (t # <<>> => r.cur # 0 /\ (r.cur = Eof \/ Tracked(t, r.cur)))
    BY <2>2 DEF IInv, cur
  <2>4. Reading(r)' /\ Stacked(t)' /\ (t # <<>> => r.cur # 0 /\ (r.cur = Eof' \/ Tracked(t, r.cur)'))
    BY <2>1, <2>3, SameFile
  <2>5. r = reader' /\ t = stack'
    BY <2>1, <2>2
  <2>6. Reading(reader)' /\ Stacked(stack)'
    BY <2>4, <2>5
  <2>7. (stack # <<>>)' => (cur # 0)' /\ ((cur = Eof)' \/ Tracked(stack, cur)')
    BY <2>4, <2>5 DEF cur
  <2>8. QED
    BY <2>1, <2>6, <2>7 DEF IInv
<1>3. QED
  BY <1>1, <1>2 DEF Next

\* Nothing read ahead is lost, the calls in progress are calls the parser makes, and the
\* braces they have seen open are those the file has open where the parser is.
THEOREM Inductive == Spec => []IInv
<1>1. Init => IInv
  BY IInvInit
<1>2. IInv /\ [Next]_vars => IInv'
  BY IInvNext
<1>3. QED
  BY <1>1, <1>2, PTL DEF Spec

\* The parser ends on every file: each step consumes a token or leaves a call, a value or
\* a root behind.
THEOREM ParserAdvances == Spec => Advances
<1>1. IInv /\ [Next]_vars => [cur' > cur \/ (cur' = cur /\ ToLeave' < ToLeave)]_vars
  <2>1. SUFFICES ASSUME IInv, ParseStep
                 PROVE  cur' > cur \/ (cur' = cur /\ ToLeave' < ToLeave)
    BY DEF Next
  <2>2. StepOK(reader', stack')
    BY <2>1, EveryStep
  <2>3. \/ reader'.cur > cur
        \/ reader'.cur = cur /\ Cardinality(Tasks(stack')) < Cardinality(Tasks(stack))
    BY <2>2 DEF StepOK
  <2>4. QED
    BY <2>3 DEF cur, ToLeave
<1>2. QED
  BY <1>1, Inductive, PTL DEF Spec, Advances

\* A block's parse, whatever is wrong in the block, ends just behind the `}` that matches
\* its `{` by counting braces alone, or at the end of the file.
THEOREM BlocksEndAtTheirBrace == Spec => BlockEndsAtBrace
<1>1. IInv /\ [Next]_vars => [stack # <<>> /\ stack' = <<>> => cur' = Eof \/ cur' = BehindBlock(stack[1].at)]_vars
  <2>1. SUFFICES ASSUME IInv, ParseStep, stack # <<>>, stack' = <<>>
                 PROVE  cur' = Eof \/ cur' = BehindBlock(stack[1].at)
    BY DEF Next
  <2>2. StepOK(reader', stack')
    BY <2>1, EveryStep
  <2>3. reader'.cur = Eof \/ reader'.cur = BehindBlock(stack[1].at)
    BY <2>1, <2>2 DEF StepOK
  <2>4. QED
    BY <2>3 DEF cur
<1>2. QED
  BY <1>1, Inductive, PTL DEF Spec, BlockEndsAtBrace
=============================================================================
