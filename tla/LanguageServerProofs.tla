------------------------ MODULE LanguageServerProofs ------------------------
(***************************************************************************)
(* Proofs about LanguageServer, for every set of documents and any number  *)
(* of texts, requests and messages in the pipes.                           *)
(***************************************************************************)
EXTENDS LanguageServer, SequenceTheorems, TLAPS

-----------------------------------------------------------------------------
(* What clangd will hold of a document once it has taken part of its pipe.  *)

IsText(m, d) == m.type = "text" /\ m.doc = d

\* v is the text of d that clangd holds after the first i messages of q, when it
\* holds text[d] now.
Holds(text, q, i, d, v) ==
    \/ text[d] = v /\ \A j \in 1 .. i : ~IsText(q[j], d)
    \/ \E j \in 1 .. i : /\ IsText(q[j], d) /\ q[j].text = v
                         /\ \A k \in (j + 1) .. i : ~IsText(q[k], d)

\* A message at the end of the pipe changes nothing for those before it,
LEMMA HoldsBefore ==
    ASSUME NEW S, NEW q \in Seq(S), NEW m \in S, NEW i \in 0 .. Len(q),
           NEW text, NEW d, NEW v, Holds(text, q, i, d, v)
    PROVE  Holds(text, Append(q, m), i, d, v)
<1> DEFINE a == Append(q, m)
<1>1. \A j \in 1 .. i : a[j] = q[j]
  OBVIOUS
<1> HIDE DEF a
<1>2. Holds(text, a, i, d, v)
  BY <1>1 DEF Holds
<1>3. QED
  BY <1>2 DEF a

\* nor behind it, unless it is a text of d,
LEMMA HoldsBehind ==
    ASSUME NEW S, NEW q \in Seq(S), NEW m \in S, NEW text, NEW d, NEW v,
           ~IsText(m, d), Holds(text, q, Len(q), d, v)
    PROVE  Holds(text, Append(q, m), Len(q) + 1, d, v)
<1> DEFINE a == Append(q, m)
<1>1. Len(q) \in Nat /\ a[Len(q) + 1] = m /\ \A j \in 1 .. Len(q) : a[j] = q[j]
  OBVIOUS
<1> HIDE DEF a
<1>2. Holds(text, a, Len(q) + 1, d, v)
  <2>1. CASE text[d] = v /\ \A j \in 1 .. Len(q) : ~IsText(q[j], d)
    BY <1>1, <2>1 DEF Holds
  <2>2. CASE \E j \in 1 .. Len(q) : /\ IsText(q[j], d) /\ q[j].text = v
                                    /\ \A k \in (j + 1) .. Len(q) : ~IsText(q[k], d)
    <3>1. PICK j \in 1 .. Len(q) : /\ IsText(q[j], d) /\ q[j].text = v
                                   /\ \A k \in (j + 1) .. Len(q) : ~IsText(q[k], d)
      BY <2>2
    <3>2. IsText(a[j], d) /\ a[j].text = v /\ j \in 1 .. Len(q) + 1
      BY <1>1, <3>1
    <3>3. ASSUME NEW k \in (j + 1) .. Len(q) + 1 PROVE ~IsText(a[k], d)
      BY <1>1, <3>1
    <3>4. QED
      BY <3>2, <3>3 DEF Holds
  <2>3. QED
    BY <2>1, <2>2 DEF Holds
<1>3. QED
  BY <1>2 DEF a

\* which is then the one clangd will hold.
LEMMA HoldsAppended ==
    ASSUME NEW S, NEW q \in Seq(S), NEW m \in S, NEW text, NEW d, IsText(m, d)
    PROVE  Holds(text, Append(q, m), Len(q) + 1, d, m.text)
<1> DEFINE a == Append(q, m)
<1>1. Len(q) \in Nat /\ a[Len(q) + 1] = m
  OBVIOUS
<1> HIDE DEF a
<1>2. Holds(text, a, Len(q) + 1, d, m.text)
  BY <1>1 DEF Holds
<1>3. QED
  BY <1>2 DEF a

\* What clangd holds once it has taken message m.
Taken(text, m) == IF m.type = "text" THEN [text EXCEPT ![m.doc] = m.text] ELSE text

\* Taking the first message brings clangd one message closer.
LEMMA HoldsTaken ==
    ASSUME NEW S, NEW q \in Seq(S), q # <<>>, NEW i \in 1 .. Len(q),
           NEW text \in [Doc -> Nat], NEW d \in Doc, NEW v,
           Holds(text, q, i, d, v)
    PROVE  Holds(Taken(text, q[1]), Tail(q), i - 1, d, v)
<1> DEFINE t == Tail(q)
           h == Taken(text, q[1])
<1>1. \A j \in 1 .. i - 1 : t[j] = q[j + 1]
  OBVIOUS
<1> HIDE DEF t
<1>2. h[d] = IF IsText(q[1], d) THEN q[1].text ELSE text[d]
  BY DEF Taken, IsText
<1> HIDE DEF h
<1>3. Holds(h, t, i - 1, d, v)
  <2>1. CASE text[d] = v /\ \A j \in 1 .. i : ~IsText(q[j], d)
    <3>1. h[d] = v
      BY <1>2, <2>1
    <3>2. \A j \in 1 .. i - 1 : ~IsText(t[j], d)
      BY <1>1, <2>1
    <3>3. QED
      BY <3>1, <3>2 DEF Holds
  <2>2. CASE \E j \in 1 .. i : /\ IsText(q[j], d) /\ q[j].text = v
                               /\ \A k \in (j + 1) .. i : ~IsText(q[k], d)
    <3>1. PICK j \in 1 .. i : /\ IsText(q[j], d) /\ q[j].text = v
                              /\ \A k \in (j + 1) .. i : ~IsText(q[k], d)
      BY <2>2
    <3>2. ASSUME NEW k \in 1 .. i - 1, k > j - 1 PROVE ~IsText(t[k], d)
      BY <1>1, <3>1, <3>2
    <3>3. CASE j = 1
      BY <1>2, <3>1, <3>2, <3>3 DEF Holds
    <3>4. CASE j > 1
      <4>1. j - 1 \in 1 .. i - 1 /\ t[j - 1] = q[j]
        BY <1>1, <3>4
      <4>2. QED
        BY <3>1, <3>2, <4>1 DEF Holds
    <3>5. QED
      BY <3>3, <3>4
  <2>3. QED
    BY <2>1, <2>2 DEF Holds
<1>4. QED
  BY <1>3 DEF t, h

-----------------------------------------------------------------------------
(* Types. *)

ToClangd ==
    {Initialize, Initialized, ExitNote, Ack}
        \cup [type : {"question"}, id : Nat, doc : Doc, pos : Nat]
        \cup [type : {"text"}, doc : Doc, number : Nat, text : Nat]
Replies == [type : {"reply"}, id : Nat, answer : Answer]
Reports == [type : {"diagnostics"}, doc : Doc, text : Nat]
Merged == [type : {"merged"}, doc : Doc, own : Nat, clangd : Nat]
FromClangd == {Ask} \cup Replies \cup Reports

Ending == main.at \in {"bye", "stop", "closeout", "join"}
Exits == {"items", "declaration", "selector", "nothing"}
Places == {"idle", "rebuild", "create", "start", "greet", "greeted", "sync",
           "lookup", "ask", "wait", "translate", "bye", "stop", "closeout", "join", "gone"} \cup Exits
Methods == {"completion", "definition"}

Children ==
    [state : {"none", "up", "gone"}, text : [Doc -> Nat], due : SUBSET FromClangd, asked : Nat]
Proxies ==
    [started : BOOLEAN, stopping : BOOLEAN,
     stdin : {"none", "open", "closed"}, stdout : {"none", "open", "closed"},
     nextId : Nat, results : SUBSET [id : Nat, answer : Answer], versions : [Doc -> Nat]]
PipeTypes ==
    /\ child \in Children /\ proxy \in Proxies
    /\ toChild \in Seq(ToClangd) /\ fromChild \in Seq(FromClangd)
ReaderTypes ==
    /\ reader \in [at : {"none", "reading", "reply", "callback", "ack", "mapping", "publish", "done"},
                   msg : FromClangd \cup Merged \cup {NoMessage}]
    /\ reader.at = "reply" => reader.msg \in Replies
    /\ reader.at \in {"callback", "mapping"} => reader.msg \in Reports
    /\ reader.at = "publish" => reader.msg \in Merged
Mains == [at : Places, doc : Doc, pos : Nat, method : Methods \cup {"none"}, wants : Nat, replies : Nat,
          then : {"idle", "sync", "gone"}]
ServerTypes ==
    /\ docs \in [Doc -> [version : Nat, clean : BOOLEAN]]
    /\ edits \in Nat /\ proxyUp \in BOOLEAN /\ tried \in BOOLEAN
    /\ main \in Mains
TypeOK == PipeTypes /\ ReaderTypes /\ ServerTypes

\* A question is looked up, and is clangd's or leaves for one of the other exits;
\* there it is answered.
Lookup ==
    /\ At("lookup")
    /\ \/ /\ Generated(main.doc) /\ proxyUp
          /\ main' = [main EXCEPT !.at = "ask", !.pos = docs[main.doc].version]
       \/ \E exit \in Exits : Goto(exit)
    /\ UNCHANGED <<proxyVars, serverVars>>
ReplyOwn ==
    /\ main.at \in {"lookup"} \cup Exits /\ Answered
    /\ UNCHANGED <<proxyVars, serverVars>>

LEMMA MainCases ==
    MainStep <=> \/ Rebuilt \/ CreateProxy \/ Launch \/ Greet \/ Greeted \/ Sync
                 \/ LookupCompletion \/ LookupDefinition
                 \/ ReplyUnopened \/ ReplyItems \/ ReplyDeclaration \/ ReplySelector \/ ReplyNothing
                 \/ AskClangd \/ (\E a \in Answer : ReplyCame(a)) \/ Translate
                 \/ Bye \/ Stop \/ CloseOut \/ Destroyed
BY DEF MainStep

\* Seen from the pipes and the counts, the main thread's steps are these.
LEMMA MainSteps ==
    ASSUME MainStep
    PROVE  \/ Rebuilt \/ CreateProxy \/ Launch \/ Greet \/ Greeted \/ Sync \/ Lookup \/ ReplyOwn
           \/ AskClangd \/ (\E a \in Answer : ReplyCame(a)) \/ Translate
           \/ Bye \/ Stop \/ CloseOut \/ Destroyed
<1>1. LookupCompletion \/ LookupDefinition => Lookup
  BY DEF LookupCompletion, LookupDefinition, ToClangdsCode, Lookup, Exits
<1>2. ReplyUnopened \/ ReplyItems \/ ReplyDeclaration \/ ReplySelector \/ ReplyNothing => ReplyOwn
  BY DEF ReplyUnopened, ReplyItems, ReplyDeclaration, ReplySelector, ReplyNothing, ReplyOwn, At, Exits
<1>3. QED
  BY <1>1, <1>2, MainCases

\* A message is written if there is a clangd to read it.
LEMMA WriteType ==
    ASSUME TypeOK, NEW m \in ToClangd, WriteLocked(m)
    PROVE  /\ toChild' \in Seq(ToClangd)
           /\ child.state = "up" => toChild' = Append(toChild, m)
           /\ child.state # "up" => toChild' = toChild
<1>1. toChild \in Seq(ToClangd)
  BY DEF TypeOK, PipeTypes
<1>2. CASE child.state = "up"
  BY <1>1, <1>2 DEF WriteLocked
<1>3. CASE child.state # "up"
  BY <1>1, <1>3 DEF WriteLocked
<1>4. QED
  BY <1>2, <1>3

LEMMA MessageTypes ==
    /\ {Initialize, Initialized, ExitNote, Ack} \subseteq ToClangd
    /\ \A n, p \in Nat, d \in Doc : Question(n, d, p) \in ToClangd /\ Text(d, n, p) \in ToClangd
    /\ \A n \in Nat, a \in Answer : Reply(n, a) \in FromClangd /\ Greeting(a) \in FromClangd
    /\ \A n \in Nat, d \in Doc : Diagnostics(d, n) \in FromClangd
    /\ Ask \in FromClangd
BY DEF ToClangd, FromClangd, Replies, Reports, Question, Text, Reply, Greeting, Diagnostics

LEMMA InitType == Init => TypeOK
<1> SUFFICES ASSUME Init PROVE TypeOK
  OBVIOUS
<1>1. PipeTypes
  <2>1. child \in Children
    BY DEF Init, ProxyInit, Children
  <2>2. proxy \in Proxies
    BY DEF Init, ProxyInit, Proxies
  <2>3. QED
    BY <2>1, <2>2 DEF Init, ProxyInit, PipeTypes
<1>2. ReaderTypes
  BY DEF Init, ProxyInit, ReaderTypes
<1>3. ServerTypes
  <2>1. (CHOOSE d \in Doc : TRUE) \in Doc
    BY DocAssumption
  <2>2. QED
    BY <2>1 DEF Init, ServerTypes, NoDoc, Places, Mains, Methods
<1>4. QED
  BY <1>1, <1>2, <1>3 DEF TypeOK

\* What the main thread does to the pipes.
LEMMA MainPipeTypes == TypeOK /\ (Editor \/ MainStep) => PipeTypes'
<1> SUFFICES ASSUME TypeOK, Editor \/ MainStep PROVE PipeTypes'
  OBVIOUS
<1> DEFINE quiet == UNCHANGED <<child, toChild, fromChild, proxy>>
<1>1. CASE quiet
  BY <1>1 DEF TypeOK, PipeTypes
<1>2. ASSUME Fork PROVE PipeTypes'
  <2>1. child' \in Children /\ proxy' \in Proxies
    BY <1>2 DEF TypeOK, PipeTypes, Fork, Children, Proxies
  <2>2. QED
    BY <1>2, <2>1 DEF TypeOK, PipeTypes, Fork
<1>3. ASSUME NEW m \in ToClangd, SendRequest(m) PROVE PipeTypes'
  <2>1. toChild' \in Seq(ToClangd)
    BY <1>3, WriteType DEF SendRequest
  <2>2. proxy' \in Proxies
    <3>1. proxy \in Proxies /\ proxy' = [proxy EXCEPT !.nextId = proxy.nextId + 1]
      BY <1>3 DEF TypeOK, PipeTypes, SendRequest
    <3>2. proxy.nextId + 1 \in Nat
      BY <3>1 DEF Proxies
    <3>3. QED
      BY <3>1, <3>2, Zenon DEF Proxies
  <2>3. QED
    BY <1>3, <2>1, <2>2 DEF TypeOK, PipeTypes, SendRequest
<1>4. CASE Greet \/ AskClangd
  <2>1. proxy.nextId \in Nat /\ main.doc \in Doc /\ main.pos \in Nat
    BY DEF TypeOK, PipeTypes, ServerTypes, Proxies, Mains
  <2>2. QED
    BY <1>3, <1>4, <2>1, MessageTypes DEF Greet, AskClangd
<1>5. ASSUME NEW a, Returned(a) PROVE PipeTypes'
  <2>1. proxy' \in Proxies
    BY <1>5 DEF TypeOK, PipeTypes, Returned, Proxies
  <2>2. QED
    BY <1>5, <2>1 DEF TypeOK, PipeTypes, Returned
<1>6. ASSUME FinishStart PROVE PipeTypes'
  <2>1. toChild' \in Seq(ToClangd)
    BY <1>6, MessageTypes, WriteType DEF FinishStart
  <2>2. proxy' \in Proxies
    BY <1>6 DEF TypeOK, PipeTypes, FinishStart, Proxies
  <2>3. QED
    BY <1>6, <2>1, <2>2 DEF TypeOK, PipeTypes, FinishStart
<1>7. ASSUME SyncGeneratedDocument(main.doc, docs[main.doc].version) PROVE PipeTypes'
  <2> DEFINE n == proxy.versions[main.doc] + 1
  <2>1. n \in Nat /\ main.doc \in Doc /\ docs[main.doc].version \in Nat
    BY DEF TypeOK, PipeTypes, ServerTypes, Proxies, Mains
  <2>2. toChild' \in Seq(ToClangd)
    BY <1>7, <2>1, MessageTypes, WriteType DEF SyncGeneratedDocument
  <2>3. proxy' \in Proxies
    BY <1>7, <2>1 DEF TypeOK, PipeTypes, SyncGeneratedDocument, Proxies
  <2>4. QED
    BY <1>7, <2>2, <2>3 DEF TypeOK, PipeTypes, SyncGeneratedDocument
<1>8. CASE Bye
  <2>1. toChild' \in Seq(ToClangd)
    BY <1>8, MessageTypes, WriteType DEF Bye, SayExit, TypeOK, PipeTypes
  <2>2. QED
    BY <1>8, <2>1 DEF Bye, SayExit, TypeOK, PipeTypes
<1>9. CASE Stop \/ CloseOut
  <2>1. proxy' \in Proxies
    BY <1>9 DEF Stop, CloseOut, StopAndCloseStdin, CloseStdout, Close, TypeOK, PipeTypes, Proxies
  <2>2. QED
    BY <1>9, <2>1 DEF Stop, CloseOut, StopAndCloseStdin, CloseStdout, TypeOK, PipeTypes
<1>10. CASE Editor
  BY <1>1, <1>10 DEF Editor, Edit, CloseDoc, AnswerAtOnce, Query, Exit, proxyVars
<1>11. CASE MainStep
  BY <1>1, <1>2, <1>4, <1>5, <1>6, <1>7, <1>8, <1>9, <1>11, MainSteps
  DEF Rebuilt, CreateProxy, Launch, Greeted, Sync, Lookup, ReplyOwn, ReplyCame, Translate,
      Destroyed, proxyVars
<1>12. QED
  BY <1>10, <1>11

\* What the other two do to them, and to the reader.
LEMMA ReaderTypesKept == TypeOK /\ UNCHANGED reader => ReaderTypes'
BY DEF TypeOK, ReaderTypes

LEMMA OtherTypes == TypeOK /\ (Reader \/ ChildWorks \/ ChildOnItsOwn) => PipeTypes' /\ ReaderTypes'
<1> SUFFICES ASSUME TypeOK, Reader \/ ChildWorks \/ ChildOnItsOwn PROVE PipeTypes' /\ ReaderTypes'
  OBVIOUS
<1>0. PipeTypes /\ ReaderTypes /\ ServerTypes
  BY DEF TypeOK
<1>1. CASE ReadMessage
  <2>1. CASE fromChild # <<>> /\ UNCHANGED proxy
    <3>1. Head(fromChild) \in FromClangd /\ Tail(fromChild) \in Seq(FromClangd)
      BY <1>0, <2>1 DEF PipeTypes
    <3>2. PipeTypes'
      BY <1>0, <1>1, <2>1, <3>1 DEF ReadMessage, PipeTypes
    <3>3. ReaderTypes'
      BY <1>0, <1>1, <2>1, <3>1 DEF ReadMessage, ReaderTypes, FromClangd, Replies, Reports, Ask
    <3>4. QED
      BY <3>2, <3>3
  <2>2. CASE fromChild = <<>>
    <3>1. proxy' = [proxy EXCEPT !.stopping = TRUE] /\ reader' = [at |-> "done", msg |-> NoMessage]
          /\ UNCHANGED <<child, toChild, fromChild>>
      BY <1>1, <2>2 DEF ReadMessage
    <3>2. proxy' \in Proxies
      BY <1>0, <3>1 DEF PipeTypes, Proxies
    <3>3. QED
      BY <1>0, <3>1, <3>2 DEF PipeTypes, ReaderTypes
  <2>3. QED
    BY <1>1, <2>1, <2>2 DEF ReadMessage
<1>2. CASE ReadClosed
  <2>1. CASE reader' = [at |-> "done", msg |-> NoMessage] /\ proxy' = [proxy EXCEPT !.stopping = TRUE]
    <3>1. proxy' \in Proxies
      BY <1>0, <2>1 DEF PipeTypes, Proxies
    <3>2. ReaderTypes'
      BY <2>1 DEF ReaderTypes
    <3>3. QED
      BY <1>0, <1>2, <3>1, <3>2 DEF ReadClosed, PipeTypes
  <2>2. CASE UNCHANGED <<proxy, reader>>
    BY <1>0, <1>2, <2>2, ReaderTypesKept DEF ReadClosed, PipeTypes
  <2>3. QED
    BY <1>2, <2>1, <2>2 DEF ReadClosed
<1>3. CASE StoreResult
  <2>1. [id |-> reader.msg.id, answer |-> reader.msg.answer] \in [id : Nat, answer : Answer]
    BY <1>0, <1>3 DEF StoreResult, ReaderTypes, Replies
  <2>2. proxy' \in Proxies
    BY <1>0, <1>3, <2>1 DEF StoreResult, PipeTypes, Proxies
  <2>3. PipeTypes'
    BY <1>0, <1>3, <2>2 DEF StoreResult, PipeTypes
  <2>4. ReaderTypes'
    BY <1>3 DEF StoreResult, ReaderTypes
  <2>5. QED
    BY <2>3, <2>4
<1>4. CASE AckRequest
  <2>1. toChild' \in Seq(ToClangd)
    BY <1>0, <1>4, MessageTypes, WriteType DEF AckRequest, PipeTypes
  <2>2. PipeTypes'
    BY <1>0, <1>4, <2>1 DEF AckRequest, PipeTypes
  <2>3. ReaderTypes'
    BY <1>4 DEF AckRequest, ReaderTypes
  <2>4. QED
    BY <2>2, <2>3
<1>5. CASE Map \/ Mapped \/ Publish
  <2>1. PipeTypes'
    BY <1>0, <1>5 DEF Map, Mapped, Publish, PipeTypes
  <2>2. CASE Map \/ Publish
    <3>1. ReaderTypes'
      BY <1>0, <2>2 DEF Map, Publish, MoveTo, ReaderTypes
    <3>2. QED
      BY <2>1, <3>1
  <2>3. CASE Mapped
    <3>1. reader.msg.doc \in Doc /\ reader.msg.text \in Nat
      BY <1>0, <2>3 DEF Mapped, ReaderTypes, Reports
    <3>2. docs[reader.msg.doc].version \in Nat
      BY <1>0, <3>1 DEF ServerTypes
    <3>3. ReaderTypes'
      BY <2>3, <3>1, <3>2 DEF Mapped, ReaderTypes, Merged
    <3>4. QED
      BY <2>1, <3>3
  <2>4. QED
    BY <1>5, <2>2, <2>3
<1>6. CASE ChildRead
  <2> DEFINE m == Head(toChild)
  <2>1. m \in ToClangd /\ Tail(toChild) \in Seq(ToClangd)
    BY <1>0, <1>6 DEF ChildRead, PipeTypes
  <2>2. child' \in Children
    <3>1. CASE m.type \in {"initialize", "question"}
      <4>1. m.type = "question" => m.id \in Nat
        BY <2>1 DEF ToClangd, Initialize, Initialized, ExitNote, Ack
      <4>2. PICK r \in FromClangd : child' = [child EXCEPT !.due = @ \cup {r}]
        <5>1. CASE m.type = "question"
          <6>1. PICK a \in Answer : child' = [child EXCEPT !.due = @ \cup {Reply(m.id, a)}]
            BY <1>6, <5>1 DEF ChildRead, ChildTakes
          <6>2. QED
            BY <4>1, <5>1, <6>1, MessageTypes
        <5>2. CASE m.type = "initialize"
          <6>1. PICK a \in {"null", "here"} : child' = [child EXCEPT !.due = @ \cup {Greeting(a)}]
            BY <1>6, <5>2 DEF ChildRead, ChildTakes
          <6>2. a \in Answer
            BY DEF Answer
          <6>3. QED
            BY <6>1, <6>2, MessageTypes
        <5>3. QED
          BY <3>1, <5>1, <5>2
      <4>3. QED
        BY <1>0, <4>2 DEF PipeTypes, Children
    <3>2. CASE m.type = "text"
      <4>1. m.doc \in Doc /\ m.text \in Nat
        BY <2>1, <3>2 DEF ToClangd, Initialize, Initialized, ExitNote, Ack
      <4>2. PICK skipped : child' = [child EXCEPT !.text[m.doc] = m.text,
                                       !.due = (@ \ skipped) \cup {Diagnostics(m.doc, m.text)}]
        BY <1>6, <3>2 DEF ChildRead, ChildTakes
      <4>3. Diagnostics(m.doc, m.text) \in FromClangd
        BY <4>1, MessageTypes
      <4>4. QED
        BY <1>0, <4>1, <4>2, <4>3 DEF PipeTypes, Children
    <3>3. CASE m.type = "exit"
      BY <1>0, <1>6, <3>3 DEF ChildRead, ChildTakes, PipeTypes, Children
    <3>4. CASE m.type \notin {"initialize", "question", "text", "exit"}
      BY <1>0, <1>6, <3>4 DEF ChildRead, ChildTakes, PipeTypes
    <3>5. QED
      BY <3>1, <3>2, <3>3, <3>4
  <2>3. QED
    BY <1>0, <1>6, <2>1, <2>2, ReaderTypesKept DEF ChildRead, PipeTypes
<1>7. CASE ChildWrite
  <2>1. PICK m \in child.due : fromChild' = Append(fromChild, m) /\ child' = [child EXCEPT !.due = @ \ {m}]
    BY <1>7 DEF ChildWrite
  <2>2. m \in FromClangd
    BY <1>0 DEF PipeTypes, Children
  <2>3. child' \in Children
    BY <1>0, <2>1 DEF PipeTypes, Children
  <2>4. fromChild' \in Seq(FromClangd)
    BY <1>0, <2>1, <2>2 DEF PipeTypes
  <2>5. QED
    BY <1>0, <1>7, <2>3, <2>4, ReaderTypesKept DEF ChildWrite, PipeTypes
<1>8. CASE ChildAsks
  <2>1. child' \in Children
    <3>1. child \in Children /\ child' = [child EXCEPT !.asked = child.asked + 1]
      BY <1>0, <1>8 DEF ChildAsks, PipeTypes
    <3>2. child.asked + 1 \in Nat
      BY <3>1 DEF Children
    <3>3. QED
      BY <3>1, <3>2 DEF Children
  <2>2. fromChild' \in Seq(FromClangd)
    BY <1>0, <1>8, MessageTypes DEF ChildAsks, PipeTypes
  <2>3. QED
    BY <1>0, <1>8, <2>1, <2>2, ReaderTypesKept DEF ChildAsks, PipeTypes
<1>9. CASE ChildEnds \/ ChildCrashes
  <2>1. child' \in Children
    BY <1>0, <1>9 DEF ChildEnds, ChildCrashes, PipeTypes, Children
  <2>2. toChild' \in Seq(ToClangd)
    <3>1. toChild \in Seq(ToClangd) /\ << >> \in Seq(ToClangd)
      BY <1>0 DEF PipeTypes
    <3>2. toChild' = toChild \/ toChild' = << >>
      BY <1>9 DEF ChildEnds, ChildCrashes
    <3>3. QED
      BY <3>1, <3>2
  <2>3. QED
    BY <1>0, <1>9, <2>1, <2>2, ReaderTypesKept DEF ChildEnds, ChildCrashes, PipeTypes
<1>10. QED
  BY <1>1, <1>2, <1>3, <1>4, <1>5, <1>6, <1>7, <1>8, <1>9
  DEF Reader, ReaderInProxy, ReaderStep, ChildWorks, ChildOnItsOwn

LEMMA MainOtherTypes == TypeOK /\ (Editor \/ MainStep) => ReaderTypes'
<1> SUFFICES ASSUME TypeOK, Editor \/ MainStep PROVE ReaderTypes'
  OBVIOUS
<1>1. CASE Fork
  BY <1>1 DEF TypeOK, ReaderTypes, Fork
<1>2. CASE ~Fork
  <2>1. UNCHANGED reader
    BY <1>2, MainSteps DEF Editor, Edit, CloseDoc, AnswerAtOnce, Query, Exit, Rebuilt, CreateProxy,
      Launch, Greet, Greeted, Sync, Lookup, ReplyOwn, AskClangd, ReplyCame, Translate, Bye, Stop, CloseOut, Destroyed,
      SendRequest, FinishStart, Returned, SyncGeneratedDocument, SayExit, StopAndCloseStdin, CloseStdout, proxyVars
  <2>2. QED
    BY <2>1, ReaderTypesKept
<1>3. QED
  BY <1>1, <1>2

\* Where the main thread goes.
LEMMA MainMoves ==
    ASSUME TypeOK
    PROVE  /\ \A p \in Places : Goto(p) => main' \in Mains
           /\ Answered => main' \in Mains
           /\ \A p \in Places, t \in {"idle", "sync", "gone"} :
                  main' = [main EXCEPT !.at = p, !.then = t] => main' \in Mains
<1>1. main \in Mains /\ main.replies + 1 \in Nat
  BY DEF TypeOK, ServerTypes, Mains
<1>2. ASSUME NEW p \in Places, Goto(p) PROVE main' \in Mains
  BY <1>1, <1>2 DEF Goto, Mains
<1>3. ASSUME Answered PROVE main' \in Mains
  <2>1. /\ main' = [main EXCEPT !.at = "idle", !.pos = 0, !.method = "none", !.replies = main.replies + 1]
        /\ "idle" \in Places
    BY <1>3 DEF Answered, Places
  <2>2. QED
    BY <1>1, <2>1 DEF Mains
<1>4. ASSUME NEW p \in Places, NEW t \in {"idle", "sync", "gone"},
             main' = [main EXCEPT !.at = p, !.then = t]
      PROVE  main' \in Mains
  BY <1>1, <1>4 DEF Mains
<1>5. QED
  BY <1>2, <1>3, <1>4

LEMMA NextServerTypes == TypeOK /\ Next => ServerTypes'
<1> SUFFICES ASSUME TypeOK, Next PROVE ServerTypes'
  OBVIOUS
<1>0. ServerTypes /\ main \in Mains
  BY DEF TypeOK, ServerTypes
<1> DEFINE rest == UNCHANGED <<docs, edits, proxyUp, tried>>
<1>r. ASSUME rest, main' \in Mains PROVE ServerTypes'
  BY <1>0, <1>r DEF ServerTypes
<1>p. /\ {"rebuild", "lookup", "wait", "translate", "idle", "gone"} \subseteq Places
      /\ {"create", "start", "greet", "greeted", "sync"} \subseteq Places
      /\ {"bye", "stop", "closeout", "join", "ask"} \cup Exits \subseteq Places
      /\ {0, 1} \subseteq Nat
  BY DEF Places
<1>1. ASSUME NEW d \in Doc, NEW clean \in BOOLEAN, Edit(d, clean) PROVE ServerTypes'
  <2>1. edits + 1 \in Nat
    BY <1>0 DEF ServerTypes
  <2>2. main' \in Mains
    BY <1>0, <1>1, <1>p DEF Edit, Mains
  <2>3. docs' \in [Doc -> [version : Nat, clean : BOOLEAN]]
    BY <1>0, <1>1, <2>1 DEF Edit, ServerTypes
  <2>4. QED
    BY <1>0, <1>1, <2>1, <2>2, <2>3 DEF Edit, ServerTypes
<1>2. ASSUME NEW d \in Doc, CloseDoc(d) PROVE ServerTypes'
  <2>1. main' \in Mains
    BY <1>0, <1>2, <1>p DEF CloseDoc, Mains
  <2>2. docs' \in [Doc -> [version : Nat, clean : BOOLEAN]]
    BY <1>0, <1>2 DEF CloseDoc, ServerTypes, NoDoc
  <2>3. QED
    BY <1>0, <1>2, <2>1, <2>2 DEF CloseDoc, ServerTypes
<1>3. CASE AnswerAtOnce
  <2>1. main' \in Mains
    BY <1>0, <1>3, <1>p DEF AnswerAtOnce, Mains
  <2>2. QED
    BY <1>3, <1>r, <2>1 DEF AnswerAtOnce
<1>4. ASSUME NEW d \in Doc, NEW method \in Methods, Query(d, method) PROVE ServerTypes'
  <2>1. main' \in Mains
    BY <1>0, <1>4, <1>p DEF Query, Mains
  <2>2. QED
    BY <1>4, <1>r, <2>1 DEF Query
<1>5. CASE Exit
  BY <1>5, <1>p, <1>r, MainMoves DEF Exit, serverVars
<1>6. CASE Rebuilt
  BY <1>6, <1>p, <1>r, MainMoves DEF Rebuilt
<1>7. CASE CreateProxy
  <2>1. main' \in Mains
    BY <1>7, <1>p, MainMoves DEF CreateProxy
  <2>2. QED
    BY <1>0, <1>7, <2>1 DEF CreateProxy, ServerTypes
<1>8. CASE Launch
  BY <1>8, <1>p, <1>r, MainMoves DEF Launch, serverVars
<1>9. CASE Greet \/ Sync
  BY <1>9, <1>p, <1>r, MainMoves DEF Greet, Sync, serverVars
<1>10. CASE Greeted
  BY <1>10, <1>p, <1>r, MainMoves DEF Greeted, serverVars
<1>11. CASE Lookup
  <2>1. CASE \E exit \in Exits : Goto(exit)
    BY <1>11, <1>p, <1>r, <2>1, MainMoves DEF Lookup, serverVars
  <2>2. CASE main' = [main EXCEPT !.at = "ask", !.pos = docs[main.doc].version]
    <3>1. docs[main.doc].version \in Nat
      BY <1>0 DEF ServerTypes, Mains
    <3>2. main' \in Mains
      BY <1>0, <1>p, <2>2, <3>1 DEF Mains
    <3>3. QED
      BY <1>11, <1>r, <3>2 DEF Lookup, serverVars
  <2>3. QED
    BY <1>11, <2>1, <2>2 DEF Lookup
<1>12. CASE AskClangd \/ Translate \/ ReplyOwn
  BY <1>12, <1>p, <1>r, MainMoves DEF AskClangd, Translate, ReplyOwn, serverVars
<1>13. ASSUME NEW a \in Answer, ReplyCame(a) PROVE ServerTypes'
  BY <1>13, <1>p, <1>r, MainMoves DEF ReplyCame, serverVars
<1>14. CASE Bye \/ Stop \/ CloseOut
  BY <1>14, <1>p, <1>r, MainMoves DEF Bye, Stop, CloseOut, serverVars
<1>15. CASE Destroyed
  <2>1. main' \in Mains
    <3>1. main.then \in {"idle", "sync", "gone"}
      BY <1>0 DEF Mains
    <3>2. QED
      BY <1>15, <1>p, <3>1, MainMoves DEF Destroyed
  <2>2. QED
    BY <1>0, <1>15, <2>1 DEF Destroyed, ServerTypes
<1>16. CASE Reader \/ ChildWorks \/ ChildOnItsOwn
  <2>1. UNCHANGED <<docs, edits, proxyUp, tried, main>>
    BY <1>16 DEF Reader, ReaderInProxy, Map, Mapped, Publish, ChildWorks, ChildOnItsOwn, serverVars
  <2>2. QED
    BY <1>0, <2>1 DEF ServerTypes
<1>17. QED
  BY <1>1, <1>2, <1>3, <1>4, <1>5, <1>6, <1>7, <1>8, <1>9, <1>10, <1>11, <1>12, <1>13, <1>14, <1>15, <1>16,
     MainSteps
  DEF Next, Editor, Methods

LEMMA NextType == TypeOK /\ [Next]_vars => TypeOK'
<1>1. TypeOK /\ Next => TypeOK'
  BY MainPipeTypes, MainOtherTypes, OtherTypes, NextServerTypes DEF Next, TypeOK
<1>2. TypeOK /\ UNCHANGED vars => TypeOK'
  BY DEF vars, proxyVars, serverVars, TypeOK, PipeTypes, ReaderTypes, ServerTypes
<1>3. QED
  BY <1>1, <1>2

-----------------------------------------------------------------------------
(* The inductive invariant. *)

\* A text was taken from the editor and clangd has still to hear of it.
Handing ==
    \/ main.at \in {"rebuild", "create", "start", "greet", "greeted", "sync"}
    \/ Ending /\ main.then = "sync"
Asking == main.at \in {"lookup", "ask", "wait", "translate"} \cup Exits
Pending(d) == Handing /\ main.doc = d

ReplyInv ==
    /\ Handing => main.wants = 0 /\ main.replies = 0
    /\ Asking => main.wants = 1 /\ main.replies = 0
    /\ ~Handing /\ ~Asking => main.replies = main.wants

\* Until clangd is started no document is behind it.
StartInv ==
    /\ ~tried => ~proxyUp /\ main.at \in {"idle", "rebuild", "create", "lookup", "gone"} \cup Exits
    /\ main.at = "create" => ~tried
    /\ ~tried \/ main.at = "start" =>
           child.state = "none" /\ \A d \in Doc : docs[d].clean => Pending(d)
    /\ child.state = "none" => toChild = << >>

\* While a position is on its way to clangd the text it belongs to stays.
AskInv ==
    main.at = "ask" =>
        proxyUp /\ docs[main.doc].clean /\ main.pos = docs[main.doc].version

\* Every request in the pipe will be read against the text it was made for.
QuestionsFit ==
    child.state = "up" =>
        \A i \in 1 .. Len(toChild) :
            toChild[i].type = "question" =>
                Holds(child.text, toChild, i, toChild[i].doc, toChild[i].pos)

\* Once the pipe is read clangd holds the newest text of every document that compiles.
Synced ==
    child.state = "up" /\ proxyUp =>
        \A d \in Doc :
            docs[d].clean /\ ~Pending(d) =>
                Holds(child.text, toChild, Len(toChild), d, docs[d].version)

\* The texts in the pipe are older than the one in hand.
NumbersBelow ==
    /\ Handing => docs[main.doc].version = edits
    /\ \A i \in 1 .. Len(toChild) :
           toChild[i].type = "text" =>
               /\ toChild[i].number <= proxy.versions[toChild[i].doc]
               /\ toChild[i].text <= edits
               /\ Handing => toChild[i].text < edits

MainInv == ReplyInv /\ StartInv /\ AskInv
PipeInv == QuestionsFit /\ Synced /\ NumbersBelow /\ NumbersRise
IInv == TypeOK /\ MainInv /\ PipeInv

LEMMA InitInv == Init => IInv
<1> SUFFICES ASSUME Init PROVE IInv
  OBVIOUS
<1>1. /\ main.at = "idle" /\ main.then = "idle" /\ main.wants = 0 /\ main.replies = 0
      /\ child.state = "none" /\ toChild = << >> /\ ~proxyUp /\ ~tried
      /\ \A d \in Doc : ~docs[d].clean
  BY DEF Init, ProxyInit, NoDoc
<1>2. ~Handing /\ ~Asking
  BY <1>1 DEF Handing, Asking, Ending, Exits
<1>3. MainInv
  BY <1>1, <1>2 DEF MainInv, ReplyInv, StartInv, AskInv
<1>4. PipeInv
  BY <1>1, <1>2 DEF PipeInv, QuestionsFit, Synced, NumbersBelow, NumbersRise
<1>5. QED
  BY <1>3, <1>4, InitType DEF IInv

-----------------------------------------------------------------------------
(* How a step moves the pipe to clangd. *)

\* Nothing of what the invariant says of the proxy.
PipeStays ==
    /\ toChild' = toChild /\ child'.text = child.text /\ child'.state = child.state
    /\ proxy'.versions = proxy.versions
\* A message that is neither a text nor a request.
NoteSent ==
    /\ child.state = "up" /\ child' = child /\ proxy'.versions = proxy.versions
    /\ \E m \in {Initialize, Initialized, ExitNote, Ack} : toChild' = Append(toChild, m)
MessageTaken ==
    /\ child.state = "up" /\ toChild # << >> /\ toChild' = Tail(toChild)
    /\ child'.state \in {"up", "gone"} /\ child'.text = Taken(child.text, toChild[1])
    /\ UNCHANGED <<proxy, serverVars, main>>
ChildLost ==
    /\ child.state = "up" /\ child'.state = "gone" /\ toChild' \in {toChild, << >>}
    /\ UNCHANGED <<proxy, serverVars, main>>
Forked == Launch /\ Fork
Handed == Sync /\ proxyUp

LEMMA NoteWritten ==
    ASSUME TypeOK, NEW m \in {Initialize, Initialized, ExitNote, Ack}, WriteLocked(m),
           child' = child, proxy'.versions = proxy.versions
    PROVE  PipeStays \/ NoteSent
<1>1. CASE child.state = "up"
  BY <1>1 DEF WriteLocked, NoteSent
<1>2. CASE child.state # "up"
  BY <1>2 DEF WriteLocked, PipeStays
<1>3. QED
  BY <1>1, <1>2

LEMMA PipeMoves ==
    ASSUME TypeOK, Next
    PROVE  PipeStays \/ NoteSent \/ MessageTaken \/ ChildLost \/ Forked \/ Handed \/ AskClangd
<1>0. proxy \in Proxies /\ child \in Children /\ toChild \in Seq(ToClangd)
  BY DEF TypeOK, PipeTypes
<1>1. CASE UNCHANGED <<child, toChild, proxy>>
  BY <1>1 DEF PipeStays
<1>2. CASE Editor
  BY <1>1, <1>2 DEF Editor, Edit, CloseDoc, AnswerAtOnce, Query, Exit, proxyVars
<1>3. ASSUME NEW a, Returned(a) PROVE PipeStays
  BY <1>0, <1>3 DEF Returned, PipeStays, Proxies
<1>4. CASE Greet
  <2>1. WriteLocked(Initialize) /\ child' = child /\ proxy'.versions = proxy.versions
    BY <1>0, <1>4 DEF Greet, SendRequest, Proxies
  <2>2. QED
    BY <2>1, NoteWritten
<1>5. CASE FinishStart
  <2>1. WriteLocked(Initialized) /\ child' = child /\ proxy'.versions = proxy.versions
    BY <1>0, <1>5 DEF FinishStart, Proxies
  <2>2. QED
    BY <2>1, NoteWritten
<1>6. CASE Bye
  <2>1. CASE proxy.started
    BY <1>6, <2>1, NoteWritten DEF Bye, SayExit
  <2>2. CASE ~proxy.started
    BY <1>1, <1>6, <2>2 DEF Bye, SayExit
  <2>3. QED
    BY <2>1, <2>2
<1>7. CASE Stop \/ CloseOut
  BY <1>0, <1>7 DEF Stop, CloseOut, StopAndCloseStdin, CloseStdout, PipeStays, Proxies
<1>8. CASE MainStep
  BY <1>1, <1>3, <1>4, <1>5, <1>6, <1>7, <1>8, MainSteps
  DEF Rebuilt, CreateProxy, Launch, Forked, Greeted, Sync, Handed, Lookup, ReplyOwn, ReplyCame, Translate,
      Destroyed, proxyVars
<1>9. CASE ReadMessage \/ ReadClosed \/ StoreResult
  BY <1>0, <1>9 DEF ReadMessage, ReadClosed, StoreResult, PipeStays, Proxies
<1>10. CASE AckRequest
  BY <1>1, <1>10, NoteWritten DEF AckRequest
<1>11. CASE Map \/ Mapped \/ Publish
  BY <1>1, <1>11 DEF Map, Mapped, Publish
<1>12. CASE ChildRead /\ UNCHANGED <<serverVars, main>>
  <2> DEFINE m == Head(toChild)
  <2>1. toChild # << >> /\ child.state = "up" /\ ChildTakes(m) /\ toChild' = Tail(toChild)
        /\ UNCHANGED <<proxy, serverVars, main>> /\ m = toChild[1]
    BY <1>0, <1>12 DEF ChildRead
  <2>2. child'.state \in {"up", "gone"} /\ child'.text = Taken(child.text, m)
    <3>1. CASE m.type \in {"initialize", "question"}
      BY <1>0, <2>1, <3>1 DEF ChildTakes, Taken, Children
    <3>2. CASE m.type = "text"
      BY <1>0, <2>1, <3>2 DEF ChildTakes, Taken, Children
    <3>3. CASE m.type = "exit"
      BY <1>0, <2>1, <3>3 DEF ChildTakes, Taken, Children
    <3>4. CASE m.type \notin {"initialize", "question", "text", "exit"}
      <4>1. child' = child
        BY <2>1, <3>4 DEF ChildTakes
      <4>2. QED
        BY <2>1, <3>4, <4>1 DEF Taken
    <3>5. QED
      BY <3>1, <3>2, <3>3, <3>4
  <2>3. QED
    BY <2>1, <2>2 DEF MessageTaken
<1>13. CASE ChildWrite \/ ChildAsks
  BY <1>0, <1>13 DEF ChildWrite, ChildAsks, PipeStays, Children
<1>14. CASE (ChildEnds \/ ChildCrashes) /\ UNCHANGED <<serverVars, main>>
  BY <1>0, <1>14 DEF ChildEnds, ChildCrashes, ChildLost, Children
<1>15. QED
  BY <1>2, <1>8, <1>9, <1>10, <1>11, <1>12, <1>13, <1>14
  DEF Next, Reader, ReaderInProxy, ReaderStep, ChildWorks, ChildOnItsOwn

-----------------------------------------------------------------------------
(* The main thread. *)

LEMMA NextReply == TypeOK /\ ReplyInv /\ Next => ReplyInv'
<1> SUFFICES ASSUME TypeOK, ReplyInv, Next PROVE ReplyInv'
  OBVIOUS
<1>0. main \in Mains
  BY DEF TypeOK, ServerTypes
<1> USE DEF ReplyInv, Handing, Asking, Ending, Mains, At, Exits
<1>1. ASSUME NEW d \in Doc, NEW clean \in BOOLEAN, Edit(d, clean) PROVE ReplyInv'
  BY <1>0, <1>1 DEF Edit
<1>2. ASSUME NEW d \in Doc, CloseDoc(d) PROVE ReplyInv'
  BY <1>0, <1>2 DEF CloseDoc, Idle
<1>3. CASE AnswerAtOnce
  BY <1>0, <1>3 DEF AnswerAtOnce, Idle
<1>4. ASSUME NEW d \in Doc, NEW method \in Methods, Query(d, method) PROVE ReplyInv'
  BY <1>0, <1>4 DEF Query
<1>5. CASE Exit
  BY <1>0, <1>5 DEF Exit, Idle, Goto
<1>6. CASE Rebuilt \/ CreateProxy
  BY <1>0, <1>6 DEF Rebuilt, CreateProxy, Goto
<1>7. CASE Launch \/ Greet \/ Greeted \/ Sync
  BY <1>0, <1>7 DEF Launch, Greet, Greeted, Sync, Goto
<1>a. ASSUME Asking, Answered PROVE ReplyInv'
  <2>1. main' = [main EXCEPT !.at = "idle", !.pos = 0, !.method = "none", !.replies = main.replies + 1]
    BY <1>a DEF Answered
  <2>2. main'.at = "idle" /\ main'.replies = main.replies + 1 /\ main'.wants = main.wants
    BY <1>0, <2>1
  <2>3. QED
    BY <1>a, <2>2
<1>8. CASE Lookup
  <2>1. CASE \E exit \in Exits : Goto(exit)
    BY <1>0, <1>8, <2>1 DEF Lookup, Goto
  <2>2. CASE main' = [main EXCEPT !.at = "ask", !.pos = docs[main.doc].version]
    <3>1. main'.at = "ask" /\ main'.replies = main.replies /\ main'.wants = main.wants
      BY <1>0, <2>2
    <3>2. QED
      BY <1>8, <3>1 DEF Lookup
  <2>3. QED
    BY <1>8, <2>1, <2>2 DEF Lookup
<1>9. ASSUME Translate \/ ReplyOwn \/ AskClangd \/ \E a \in Answer : ReplyCame(a) PROVE ReplyInv'
  <2>1. Asking /\ (Answered \/ Goto("wait") \/ Goto("translate"))
    BY <1>9 DEF Translate, ReplyOwn, AskClangd, ReplyCame
  <2>2. CASE Goto("wait") \/ Goto("translate")
    BY <1>0, <2>1, <2>2 DEF Goto
  <2>3. QED
    BY <1>a, <2>1, <2>2
<1>10. CASE Bye \/ Stop \/ CloseOut
  BY <1>0, <1>10 DEF Bye, Stop, CloseOut, Goto
<1>11. CASE Destroyed
  BY <1>0, <1>11 DEF Destroyed, Goto
<1>12. CASE Reader \/ ChildWorks \/ ChildOnItsOwn
  BY <1>12 DEF Reader, ReaderInProxy, Map, Mapped, Publish, ChildWorks, ChildOnItsOwn
<1>13. QED
  BY <1>1, <1>2, <1>3, <1>4, <1>5, <1>6, <1>7, <1>8, <1>9, <1>10, <1>11, <1>12, MainSteps
  DEF Next, Editor, Methods

LEMMA NextAsk == TypeOK /\ AskInv /\ Next => AskInv'
<1> SUFFICES ASSUME TypeOK, AskInv, Next PROVE AskInv'
  OBVIOUS
<1>0. main \in Mains
  BY DEF TypeOK, ServerTypes
<1>1. CASE main'.at # "ask"
  BY <1>1 DEF AskInv
<1>2. CASE Lookup /\ main'.at = "ask"
  BY <1>0, <1>2 DEF Lookup, Goto, Exits, AskInv, Mains, Generated, serverVars
<1>3. CASE UNCHANGED <<docs, proxyUp, main>>
  BY <1>3 DEF AskInv
<1>4. CASE Editor
  BY <1>0, <1>1, <1>4 DEF Editor, Edit, CloseDoc, AnswerAtOnce, Query, Exit, Idle, Goto, Mains
<1>5. CASE MainStep /\ ~Lookup
  BY <1>0, <1>1, <1>5, MainSteps
  DEF Rebuilt, CreateProxy, Launch, Greet, Greeted, Sync, ReplyOwn, AskClangd, ReplyCame,
     Translate, Bye, Stop, CloseOut, Destroyed, Goto, Answered, Mains
<1>6. CASE Reader \/ ChildWorks \/ ChildOnItsOwn
  BY <1>3, <1>6 DEF Reader, ReaderInProxy, Map, Mapped, Publish, ChildWorks, ChildOnItsOwn, serverVars
<1>7. QED
  BY <1>1, <1>2, <1>4, <1>5, <1>6, MainSteps DEF Next

LEMMA NextStart == TypeOK /\ MainInv /\ Next => StartInv'
<1> SUFFICES ASSUME TypeOK, MainInv, Next PROVE StartInv'
  OBVIOUS
<1>0. main \in Mains /\ child \in Children /\ StartInv
      /\ docs \in [Doc -> [version : Nat, clean : BOOLEAN]]
  BY DEF TypeOK, ServerTypes, PipeTypes, MainInv
<1> DEFINE Tried == /\ ~tried => ~proxyUp /\ main.at \in {"idle", "rebuild", "create", "lookup", "gone"} \cup Exits
                    /\ main.at = "create" => ~tried
           Unstarted == ~tried \/ main.at = "start" =>
                            child.state = "none" /\ \A d \in Doc : docs[d].clean => Pending(d)
<1>1. child'.state = "none" => toChild' = << >>
  <2>1. CASE PipeStays
    BY <1>0, <2>1 DEF PipeStays, StartInv
  <2>2. CASE NoteSent \/ MessageTaken \/ ChildLost
    BY <2>2 DEF NoteSent, MessageTaken, ChildLost
  <2>3. CASE Forked
    BY <1>0, <2>3 DEF Forked, Fork, Children
  <2>4. CASE Handed \/ AskClangd
    BY <1>0, <2>4 DEF Handed, Sync, AskClangd, SyncGeneratedDocument, SendRequest, WriteLocked, StartInv
  <2>5. QED
    BY <2>1, <2>2, <2>3, <2>4, PipeMoves
<1>2. Tried' /\ Unstarted'
  <2>1. ASSUME NEW d \in Doc, NEW clean \in BOOLEAN, Edit(d, clean) PROVE Tried' /\ Unstarted'
    <3>1. /\ main.at = "idle" /\ main'.at = "rebuild" /\ main'.doc = d
          /\ UNCHANGED <<proxyUp, tried, child>> /\ \A e \in Doc \ {d} : docs'[e] = docs[e]
      BY <1>0, <2>1 DEF Edit, Idle, Mains, proxyVars
    <3>2. QED
      BY <1>0, <3>1 DEF StartInv, Pending, Handing, Ending
  <2>2. ASSUME NEW d \in Doc, CloseDoc(d) PROVE Tried' /\ Unstarted'
    <3>1. /\ main.at = "idle" /\ main'.at = "idle"
          /\ UNCHANGED <<proxyUp, tried, child>> /\ \A e \in Doc : docs'[e].clean => docs[e].clean
      BY <1>0, <2>2 DEF CloseDoc, Idle, Mains, NoDoc, proxyVars
    <3>2. QED
      BY <1>0, <3>1 DEF StartInv, Pending, Handing, Ending
  <2>3. CASE AnswerAtOnce \/ \E d \in Doc, method \in Methods : Query(d, method)
    <3>1. /\ main.at = "idle" /\ main'.at \in {"idle", "lookup"}
          /\ UNCHANGED <<proxyUp, tried, child, docs>>
      BY <1>0, <2>3 DEF AnswerAtOnce, Query, Idle, Mains, proxyVars
    <3>2. QED
      BY <1>0, <3>1 DEF StartInv, Pending, Handing, Ending
  <2>4. CASE Exit
    <3>1. /\ main.at = "idle" /\ main'.at = IF proxyUp THEN "bye" ELSE "gone"
          /\ UNCHANGED <<proxyUp, tried, child, docs>>
      BY <1>0, <2>4 DEF Exit, Idle, Goto, Mains, serverVars
    <3>2. QED
      BY <1>0, <3>1 DEF StartInv, Pending, Handing, Ending
  <2>5. CASE Rebuilt
    <3>1. /\ main.at = "rebuild" /\ main'.doc = main.doc
          /\ main'.at = IF ~docs[main.doc].clean THEN "idle" ELSE IF tried THEN "sync" ELSE "create"
          /\ UNCHANGED <<proxyUp, tried, child, docs>>
      BY <1>0, <2>5 DEF Rebuilt, At, Goto, Mains, proxyVars
    <3>2. QED
      BY <1>0, <3>1 DEF StartInv, Pending, Handing, Ending
  <2>6. CASE CreateProxy
    <3>1. /\ main.at = "create" /\ main'.doc = main.doc /\ tried' /\ main'.at \in {"sync", "start"}
          /\ UNCHANGED <<child, docs>>
      BY <1>0, <2>6 DEF CreateProxy, At, Goto, Mains, proxyVars
    <3>2. QED
      BY <1>0, <3>1 DEF StartInv, Pending, Handing, Ending
  <2>7. CASE Lookup \/ ReplyOwn
    <3>1. main.at \in {"lookup"} \cup Exits /\ UNCHANGED <<proxyUp, tried, child, docs>>
      BY <2>7 DEF Lookup, ReplyOwn, At, serverVars, proxyVars
    <3>2. main'.at \in {"idle"} \cup Exits \/ (main'.at = "ask" /\ proxyUp)
      BY <1>0, <2>7 DEF Lookup, ReplyOwn, Goto, Answered, Mains
    <3>3. QED
      BY <1>0, <3>1, <3>2 DEF StartInv, Pending, Handing, Ending, Exits
  <2>8. CASE /\ main.at \in {"start", "greet", "greeted", "sync", "ask", "wait", "translate",
                             "bye", "stop", "closeout", "join"}
             /\ MainStep
    <3>1. tried /\ tried' = tried /\ main'.at # "create" /\ main'.at # "start"
      BY <1>0, <2>8, MainSteps
      DEF StartInv, Rebuilt, CreateProxy, Launch, Greet, Greeted, Sync, Lookup, ReplyOwn, Exits, AskClangd,
         ReplyCame, Translate, Bye, Stop, CloseOut, Destroyed, At, Goto, Answered, Mains, serverVars
    <3>2. QED
      BY <3>1
  <2>9. CASE Reader \/ ChildWorks \/ ChildOnItsOwn
    <3>1. UNCHANGED <<docs, proxyUp, tried, main>>
      BY <2>9 DEF Reader, ReaderInProxy, Map, Mapped, Publish, ChildWorks, ChildOnItsOwn, serverVars
    <3>2. child.state = "none" => child'.state = "none"
      BY <2>9 DEF Reader, ReaderInProxy, ReaderStep, ReadMessage, ReadClosed, StoreResult, AckRequest, Map, Mapped,
         Publish, ChildWorks, ChildOnItsOwn, ChildRead, ChildWrite, ChildEnds, ChildAsks, ChildCrashes
    <3>3. QED
      BY <1>0, <3>1, <3>2 DEF StartInv, Pending, Handing, Ending
  <2>10. QED
    BY <2>1, <2>2, <2>3, <2>4, <2>5, <2>6, <2>7, <2>8, <2>9, MainSteps, MainCases
    DEF Next, Editor, Methods, Launch, Greet, Greeted, Sync, AskClangd, ReplyCame, Translate, Bye, Stop, CloseOut,
        Destroyed, At
<1>3. QED
  BY <1>1, <1>2 DEF StartInv

LEMMA NextMain == TypeOK /\ MainInv /\ Next => MainInv'
BY NextReply, NextStart, NextAsk DEF MainInv

-----------------------------------------------------------------------------
(* The pipe. *)

\* Only an edit takes a text in hand, or makes a new one.
LEMMA Hands ==
    ASSUME TypeOK, Next, ~(\E d \in Doc, clean \in BOOLEAN : Edit(d, clean))
    PROVE  edits' = edits /\ (Handing' => Handing /\ main'.doc = main.doc /\ docs' = docs)
<1>0. main \in Mains
  BY DEF TypeOK, ServerTypes
<1>1. CASE Reader \/ ChildWorks \/ ChildOnItsOwn
  <2>1. UNCHANGED <<docs, edits, main>>
    BY <1>1 DEF Reader, ReaderInProxy, Map, Mapped, Publish, ChildWorks, ChildOnItsOwn, serverVars
  <2>2. QED
    BY <2>1 DEF Handing, Ending
<1>2. CASE Editor
  <2>1. edits' = edits /\ main'.at \in {"idle", "lookup", "gone", "bye"} /\ (main'.at = "bye" => main'.then = "gone")
    BY <1>0, <1>2 DEF Editor, CloseDoc, AnswerAtOnce, Query, Exit, Idle, Goto, Mains, serverVars
  <2>2. QED
    BY <2>1 DEF Handing, Ending
<1>3. CASE MainStep
  <2>1. edits' = edits /\ docs' = docs /\ main'.doc = main.doc
    BY <1>0, <1>3, MainSteps
    DEF Rebuilt, CreateProxy, Launch, Greet, Greeted, Sync, Lookup, ReplyOwn, AskClangd, ReplyCame,
      Translate, Bye, Stop, CloseOut, Destroyed, Goto, Answered, Mains, serverVars
  <2>2. CASE Rebuilt \/ CreateProxy \/ Greet \/ Sync
    BY <1>0, <2>1, <2>2 DEF Rebuilt, CreateProxy, Greet, Sync, Goto, Mains, Handing, Ending, At
  <2>3. CASE Launch \/ Greeted
    BY <1>0, <2>1, <2>3 DEF Launch, Greeted, Handing, At
  <2>4. CASE Lookup \/ ReplyOwn \/ AskClangd \/ (\E a \in Answer : ReplyCame(a)) \/ Translate
    <3>1. main'.at \in {"idle", "ask", "wait", "translate"} \cup Exits
      BY <1>0, <2>4 DEF Lookup, ReplyOwn, AskClangd, ReplyCame, Translate, Goto, Answered, Mains
    <3>2. QED
      BY <2>1, <3>1 DEF Handing, Ending, Exits
  <2>5. CASE Bye \/ Stop \/ CloseOut
    BY <1>0, <2>1, <2>5 DEF Bye, Stop, CloseOut, Goto, Mains, Handing, Ending, At
  <2>6. CASE Destroyed
    BY <1>0, <2>1, <2>6 DEF Destroyed, Goto, Mains, Handing, Ending, At
  <2>7. QED
    BY <1>3, <2>2, <2>3, <2>4, <2>5, <2>6, MainSteps
<1>4. QED
  BY <1>1, <1>2, <1>3 DEF Next

\* A document that clangd should hold the newest text of was one before, or was handed over just now.
LEMMA Settled ==
    ASSUME TypeOK, MainInv, Next, ~Sync, child'.state = "up", proxyUp',
           NEW d \in Doc, docs'[d].clean, ~Pending(d)'
    PROVE  child.state = "up" /\ proxyUp /\ docs'[d] = docs[d] /\ ~Pending(d)
<1>0. main \in Mains /\ StartInv /\ docs \in [Doc -> [version : Nat, clean : BOOLEAN]]
  BY DEF TypeOK, ServerTypes, MainInv
<1>1. CASE Reader \/ ChildWorks \/ ChildOnItsOwn
  <2>1. UNCHANGED <<docs, proxyUp, main>>
    BY <1>1 DEF Reader, ReaderInProxy, Map, Mapped, Publish, ChildWorks, ChildOnItsOwn, serverVars
  <2>2. child.state = "up"
    BY <1>1 DEF Reader, ReaderInProxy, ReaderStep, ReadMessage, ReadClosed, StoreResult, AckRequest, Map, Mapped,
       Publish, ChildWorks, ChildOnItsOwn, ChildRead, ChildWrite, ChildEnds, ChildAsks, ChildCrashes
  <2>3. QED
    BY <2>1, <2>2 DEF Pending, Handing, Ending
<1>2. CASE Editor
  <2>1. main.at = "idle" /\ UNCHANGED <<child, proxyUp>>
    BY <1>2 DEF Editor, Edit, CloseDoc, AnswerAtOnce, Query, Exit, Idle, proxyVars, serverVars
  <2>2. ~Handing
    BY <2>1 DEF Handing, Ending
  <2>3. docs'[d] = docs[d]
    <3>1. ASSUME NEW e \in Doc, NEW clean \in BOOLEAN, Edit(e, clean) PROVE docs'[d] = docs[d]
      <4>1. main'.at = "rebuild" /\ main'.doc = e
        BY <1>0, <3>1 DEF Edit, Mains
      <4>2. d # e
        BY <4>1 DEF Pending, Handing
      <4>3. QED
        BY <1>0, <3>1, <4>2 DEF Edit
    <3>2. ASSUME NEW e \in Doc, CloseDoc(e) PROVE docs'[d] = docs[d]
      BY <1>0, <3>2 DEF CloseDoc, NoDoc
    <3>3. QED
      BY <1>2, <3>1, <3>2 DEF Editor, AnswerAtOnce, Query, Exit, serverVars
  <2>4. QED
    BY <2>1, <2>2, <2>3 DEF Pending
<1>3. CASE MainStep
  <2>1. docs' = docs /\ main'.doc = main.doc
    BY <1>0, <1>3, MainSteps
    DEF Rebuilt, CreateProxy, Launch, Greet, Greeted, Sync, Lookup, ReplyOwn, AskClangd, ReplyCame,
      Translate, Bye, Stop, CloseOut, Destroyed, Goto, Answered, Mains, serverVars
  <2>2. CASE Rebuilt
    <3>1. UNCHANGED <<child, proxyUp>> /\ main.at = "rebuild"
          /\ main'.at = IF ~docs[main.doc].clean THEN "idle" ELSE IF tried THEN "sync" ELSE "create"
      BY <1>0, <2>2 DEF Rebuilt, At, Goto, Mains, proxyVars
    <3>2. QED
      BY <2>1, <3>1 DEF Pending, Handing, Ending
  <2>3. CASE CreateProxy
    BY <1>0, <2>3 DEF CreateProxy, At, StartInv, proxyVars
  <2>4. CASE Launch
    <3>1. docs[d].clean => Pending(d)
      BY <1>0, <2>4 DEF Launch, At, StartInv
    <3>2. Handing'
      BY <1>0, <2>4 DEF Launch, Handing, Ending, Goto, Mains
    <3>3. QED
      BY <2>1, <3>1, <3>2 DEF Pending
  <2>5. CASE Greet \/ Greeted
    <3>1. Handing' /\ UNCHANGED <<child, proxyUp>>
      BY <1>0, <2>5 DEF Greet, Greeted, SendRequest, FinishStart, Returned, Handing, Ending, Goto, Mains, serverVars
    <3>2. QED
      BY <2>1, <3>1 DEF Pending
  <2>6. CASE Lookup \/ ReplyOwn \/ AskClangd \/ (\E a \in Answer : ReplyCame(a)) \/ Translate
    <3>1. UNCHANGED <<child, proxyUp>> /\ main.at \in {"lookup", "ask", "wait", "translate"} \cup Exits
      BY <2>6 DEF Lookup, ReplyOwn, AskClangd, ReplyCame, Translate, SendRequest, Returned, At, serverVars, proxyVars
    <3>2. QED
      BY <2>1, <3>1 DEF Pending, Handing, Ending, Exits
  <2>7. CASE Bye \/ Stop \/ CloseOut
    <3>1. UNCHANGED <<child, proxyUp>>
      BY <2>7 DEF Bye, Stop, CloseOut, SayExit, StopAndCloseStdin, CloseStdout, serverVars
    <3>2. Ending /\ Ending' /\ main'.then = main.then
      BY <1>0, <2>7 DEF Bye, Stop, CloseOut, At, Goto, Mains, Ending
    <3>3. QED
      BY <2>1, <3>1, <3>2 DEF Pending, Handing, Ending
  <2>8. CASE Destroyed
    BY <2>8 DEF Destroyed
  <2>9. QED
    BY <1>3, <2>2, <2>3, <2>4, <2>5, <2>6, <2>7, <2>8, MainSteps
<1>4. QED
  BY <1>1, <1>2, <1>3 DEF Next

\* The two steps that send a text or a request, when clangd is there to read it.
LEMMA SyncWrites ==
    ASSUME TypeOK, Handed
    PROVE  LET m == Text(main.doc, proxy.versions[main.doc] + 1, docs[main.doc].version) IN
           /\ m \in ToClangd /\ child' = child
           /\ IF child.state = "up" THEN toChild' = Append(toChild, m) ELSE toChild' = toChild
           /\ proxy'.versions = [proxy.versions EXCEPT ![main.doc] = proxy.versions[main.doc] + 1]
           /\ main.at = "sync" /\ main'.at = "idle" /\ docs' = docs /\ edits' = edits
<1> DEFINE n == proxy.versions[main.doc] + 1
           v == docs[main.doc].version
<1>1. n \in Nat /\ v \in Nat /\ main.doc \in Doc
  BY DEF TypeOK, PipeTypes, ServerTypes, Proxies, Mains
<1>2. Text(main.doc, n, v) \in ToClangd
  BY <1>1, MessageTypes
<1>3. SyncGeneratedDocument(main.doc, v) /\ docs' = docs /\ edits' = edits /\ main.at = "sync"
  BY DEF Handed, Sync, At, serverVars
<1>4. proxy' = [proxy EXCEPT !.versions[main.doc] = n] /\ WriteLocked(Text(main.doc, n, v)) /\ child' = child
  BY <1>3 DEF SyncGeneratedDocument
<1>5. proxy'.versions = [proxy.versions EXCEPT ![main.doc] = n]
  BY <1>4 DEF TypeOK, PipeTypes, Proxies
<1>6. main'.at = "idle"
  BY DEF Handed, Sync, Goto, TypeOK, ServerTypes, Mains
<1>7. IF child.state = "up" THEN toChild' = Append(toChild, Text(main.doc, n, v)) ELSE toChild' = toChild
  BY <1>4 DEF WriteLocked
<1>8. QED
  BY <1>2, <1>3, <1>4, <1>5, <1>6, <1>7

LEMMA AskWrites ==
    ASSUME TypeOK, AskClangd
    PROVE  LET m == Question(proxy.nextId, main.doc, main.pos) IN
           /\ m \in ToClangd /\ child' = child /\ main.doc \in Doc
           /\ IF child.state = "up" THEN toChild' = Append(toChild, m) ELSE toChild' = toChild
           /\ proxy'.versions = proxy.versions
           /\ main.at = "ask" /\ main'.at = "wait" /\ docs' = docs /\ edits' = edits /\ proxyUp' = proxyUp
<1> DEFINE m == Question(proxy.nextId, main.doc, main.pos)
<1>1. proxy.nextId \in Nat /\ main.pos \in Nat /\ main.doc \in Doc
  BY DEF TypeOK, PipeTypes, ServerTypes, Proxies, Mains
<1>2. m \in ToClangd
  BY <1>1, MessageTypes
<1>3. SendRequest(m) /\ docs' = docs /\ edits' = edits /\ proxyUp' = proxyUp /\ main.at = "ask"
  BY DEF AskClangd, At, serverVars
<1>4. proxy' = [proxy EXCEPT !.nextId = proxy.nextId + 1] /\ WriteLocked(m) /\ child' = child
  BY <1>3 DEF SendRequest
<1>5. proxy'.versions = proxy.versions
  BY <1>4 DEF TypeOK, PipeTypes, Proxies
<1>6. main'.at = "wait"
  BY DEF AskClangd, Goto, TypeOK, ServerTypes, Mains
<1>7. IF child.state = "up" THEN toChild' = Append(toChild, m) ELSE toChild' = toChild
  BY <1>4 DEF WriteLocked
<1>8. QED
  BY <1>1, <1>2, <1>3, <1>4, <1>5, <1>6, <1>7

\* A message that is not a text leaves a synchronised document so.
LEMMA NoTextSent ==
    ASSUME TypeOK, NEW m \in ToClangd, m.type # "text", toChild' = Append(toChild, m), child' = child,
           NEW d, NEW v, Holds(child.text, toChild, Len(toChild), d, v)
    PROVE  Holds(child.text, toChild, Len(toChild), d, v)'
<1>1. toChild \in Seq(ToClangd)
  BY DEF TypeOK, PipeTypes
<1>2. ~IsText(m, d)
  BY DEF IsText
<1>3. Holds(child.text, Append(toChild, m), Len(toChild) + 1, d, v)
  BY <1>1, <1>2, HoldsBehind
<1>4. Len(Append(toChild, m)) = Len(toChild) + 1
  BY <1>1
<1>5. QED
  BY <1>3, <1>4 DEF Holds

LEMMA NoteTypes ==
    \A m \in {Initialize, Initialized, ExitNote, Ack} :
        m \in ToClangd /\ m.type # "text" /\ m.type # "question"
BY MessageTypes DEF Initialize, Initialized, ExitNote, Ack

LEMMA NextSynced == TypeOK /\ MainInv /\ Synced /\ Next => Synced'
<1> SUFFICES ASSUME TypeOK, MainInv, Synced, Next, child'.state = "up", proxyUp',
                    NEW d \in Doc, docs'[d].clean, ~Pending(d)'
             PROVE  Holds(child'.text, toChild', Len(toChild'), d, docs'[d].version)
  BY DEF Synced
<1>0. toChild \in Seq(ToClangd) /\ child \in Children /\ StartInv
      /\ docs \in [Doc -> [version : Nat, clean : BOOLEAN]]
  BY DEF TypeOK, PipeTypes, ServerTypes, MainInv
<1>1. CASE Sync
  <2> DEFINE m == Text(main.doc, proxy.versions[main.doc] + 1, docs[main.doc].version)
  <2>1. Handed /\ proxyUp
    BY <1>1 DEF Sync, Handed, serverVars
  <2>2. m \in ToClangd /\ child' = child /\ toChild' = Append(toChild, m) /\ docs' = docs /\ main.at = "sync"
    BY <2>1, SyncWrites
  <2>3. Len(toChild') = Len(toChild) + 1
    BY <1>0, <2>2
  <2>4. m.type = "text" /\ m.doc = main.doc /\ m.text = docs[main.doc].version
    BY DEF Text
  <2> HIDE DEF m
  <2>5. CASE d = main.doc
    <3>1. IsText(m, d)
      BY <2>4, <2>5 DEF IsText
    <3>2. Holds(child.text, Append(toChild, m), Len(toChild) + 1, d, m.text)
      BY <1>0, <2>2, <3>1, HoldsAppended
    <3>3. QED
      BY <2>2, <2>3, <2>4, <2>5, <3>2
  <2>6. CASE d # main.doc
    <3>1. Holds(child.text, toChild, Len(toChild), d, docs[d].version)
      BY <2>1, <2>2, <2>6 DEF Synced, Pending
    <3>2. ~IsText(m, d)
      BY <2>4, <2>6 DEF IsText
    <3>3. Holds(child.text, Append(toChild, m), Len(toChild) + 1, d, docs[d].version)
      BY <1>0, <2>2, <3>1, <3>2, HoldsBehind
    <3>4. QED
      BY <2>2, <2>3, <3>3
  <2>7. QED
    BY <2>5, <2>6
<1>2. CASE ~Sync
  <2>1. child.state = "up" /\ proxyUp /\ docs'[d] = docs[d] /\ ~Pending(d)
    BY <1>2, Settled
  <2>2. Holds(child.text, toChild, Len(toChild), d, docs'[d].version)
    BY <2>1 DEF Synced
  <2>3. CASE PipeStays
    BY <2>2, <2>3 DEF PipeStays
  <2>4. CASE NoteSent
    <3>1. PICK m \in {Initialize, Initialized, ExitNote, Ack} : toChild' = Append(toChild, m)
      BY <2>4 DEF NoteSent
    <3>2. Holds(child.text, toChild, Len(toChild), d, docs[d].version)'
      <4> DEFINE v == docs'[d].version
      <4>1. m \in ToClangd /\ m.type # "text" /\ child' = child
        BY <2>4, <3>1, NoteTypes DEF NoteSent
      <4> HIDE DEF v
      <4>2. Holds(child.text, toChild, Len(toChild), d, v)
        BY <2>2 DEF v
      <4>3. Holds(child'.text, toChild', Len(toChild'), d, v)
        BY <3>1, <4>1, <4>2, NoTextSent
      <4>4. QED
        BY <4>3 DEF v
    <3>3. QED
      BY <3>2
  <2>5. CASE AskClangd
    <3> DEFINE m == Question(proxy.nextId, main.doc, main.pos)
               v == docs'[d].version
    <3>1. m \in ToClangd /\ m.type # "text" /\ child' = child /\ toChild' = Append(toChild, m)
      BY <2>1, <2>5, AskWrites DEF Question
    <3>2. Holds(child.text, toChild, Len(toChild), d, v)
      BY <2>2
    <3> HIDE DEF m, v
    <3>3. Holds(child'.text, toChild', Len(toChild'), d, v)
      BY <3>1, <3>2, NoTextSent
    <3>4. QED
      BY <3>3 DEF v
  <2>6. CASE MessageTaken
    <3> DEFINE v == docs'[d].version
    <3>1. toChild # << >> /\ Len(toChild) \in 1 .. Len(toChild) /\ Len(Tail(toChild)) = Len(toChild) - 1
      BY <1>0, <2>6 DEF MessageTaken
    <3>2. child.text \in [Doc -> Nat]
      BY <1>0 DEF Children
    <3> HIDE DEF v
    <3>3. Holds(child.text, toChild, Len(toChild), d, v)
      BY <2>2 DEF v
    <3>4. Holds(Taken(child.text, toChild[1]), Tail(toChild), Len(toChild) - 1, d, v)
      BY <1>0, <3>1, <3>2, <3>3, HoldsTaken
    <3>5. QED
      BY <2>6, <3>1, <3>4 DEF MessageTaken, v
  <2>7. CASE ChildLost
    BY <2>7 DEF ChildLost
  <2>8. CASE Forked
    BY <2>1, <2>8 DEF Forked, Launch, At, StartInv, MainInv
  <2>9. QED
    BY <1>2, <2>3, <2>4, <2>5, <2>6, <2>7, <2>8, PipeMoves DEF Handed
<1>3. QED
  BY <1>1, <1>2

LEMMA NextQuestions == TypeOK /\ MainInv /\ Synced /\ QuestionsFit /\ Next => QuestionsFit'
<1> SUFFICES ASSUME TypeOK, MainInv, Synced, QuestionsFit, Next, child'.state = "up",
                    NEW i \in 1 .. Len(toChild'), toChild'[i].type = "question"
             PROVE  Holds(child'.text, toChild', i, toChild'[i].doc, toChild'[i].pos)
  BY DEF QuestionsFit
<1>0. toChild \in Seq(ToClangd) /\ child \in Children /\ StartInv /\ AskInv
  BY DEF TypeOK, PipeTypes, MainInv
<1>1. ASSUME NEW m \in ToClangd, child.state = "up", child' = child, toChild' = Append(toChild, m),
             m.type # "question" \/ i \in 1 .. Len(toChild)
      PROVE  Holds(child'.text, toChild', i, toChild'[i].doc, toChild'[i].pos)
  <2>1. i \in 1 .. Len(toChild) /\ toChild'[i] = toChild[i]
    BY <1>0, <1>1
  <2>2. Holds(child.text, toChild, i, toChild[i].doc, toChild[i].pos)
    BY <1>1, <2>1 DEF QuestionsFit
  <2>3. Holds(child.text, Append(toChild, m), i, toChild[i].doc, toChild[i].pos)
    BY <1>0, <2>1, <2>2, HoldsBefore
  <2>4. QED
    BY <1>1, <2>1, <2>3
<1>2. CASE PipeStays
  BY <1>2 DEF PipeStays, QuestionsFit
<1>3. CASE NoteSent
  BY <1>1, <1>3, NoteTypes DEF NoteSent
<1>4. CASE Handed
  <2> DEFINE m == Text(main.doc, proxy.versions[main.doc] + 1, docs[main.doc].version)
  <2>1. m \in ToClangd /\ child' = child /\ toChild' = Append(toChild, m) /\ child.state = "up"
    BY <1>4, SyncWrites
  <2>2. m.type # "question"
    BY DEF Text
  <2>3. QED
    BY <1>1, <2>1, <2>2
<1>5. CASE AskClangd
  <2> DEFINE m == Question(proxy.nextId, main.doc, main.pos)
  <2>1. /\ m \in ToClangd /\ child' = child /\ toChild' = Append(toChild, m) /\ child.state = "up"
        /\ main.at = "ask" /\ main.doc \in Doc
    BY <1>5, AskWrites
  <2>2. CASE i \in 1 .. Len(toChild)
    BY <1>1, <2>1, <2>2
  <2>3. CASE i = Len(toChild) + 1
    <3>1. proxyUp /\ docs[main.doc].clean /\ docs[main.doc].version = main.pos
      BY <1>0, <2>1 DEF AskInv
    <3>2. ~Pending(main.doc)
      BY <2>1 DEF Pending, Handing, Ending
    <3>3. Holds(child.text, toChild, Len(toChild), main.doc, main.pos)
      BY <2>1, <3>1, <3>2 DEF Synced
    <3>4. ~IsText(m, main.doc) /\ m.doc = main.doc /\ m.pos = main.pos
      BY DEF IsText, Question
    <3>5. toChild'[i] = m
      BY <1>0, <2>1, <2>3
    <3> HIDE DEF m
    <3>6. Holds(child.text, Append(toChild, m), Len(toChild) + 1, main.doc, main.pos)
      BY <1>0, <2>1, <3>3, <3>4, HoldsBehind
    <3>7. QED
      BY <2>1, <2>3, <3>4, <3>5, <3>6
  <2>4. QED
    BY <1>0, <2>1, <2>2, <2>3
<1>6. CASE MessageTaken
  <2>1. /\ toChild # << >> /\ toChild' = Tail(toChild) /\ child'.text = Taken(child.text, toChild[1])
        /\ child.state = "up"
    BY <1>6 DEF MessageTaken
  <2>2. i + 1 \in 1 .. Len(toChild) /\ toChild'[i] = toChild[i + 1] /\ (i + 1) - 1 = i
    BY <1>0, <2>1
  <2>3. toChild[i + 1] \in ToClangd
    BY <1>0, <2>2
  <2>4. toChild[i + 1].doc \in Doc
    BY <2>2, <2>3 DEF ToClangd, Initialize, Initialized, ExitNote, Ack
  <2>5. Holds(child.text, toChild, i + 1, toChild[i + 1].doc, toChild[i + 1].pos)
    BY <2>1, <2>2 DEF QuestionsFit
  <2>6. child.text \in [Doc -> Nat]
    BY <1>0 DEF Children
  <2>7. Holds(Taken(child.text, toChild[1]), Tail(toChild), (i + 1) - 1, toChild[i + 1].doc, toChild[i + 1].pos)
    BY <1>0, <2>1, <2>2, <2>4, <2>5, <2>6, HoldsTaken
  <2>8. QED
    BY <2>1, <2>2, <2>7
<1>7. CASE ChildLost
  BY <1>7 DEF ChildLost
<1>8. CASE Forked
  <2>1. child.state = "none" /\ toChild' = toChild
    BY <1>0, <1>8 DEF Forked, Launch, Fork, At, StartInv
  <2>2. toChild' = << >>
    BY <1>0, <2>1 DEF StartInv
  <2>3. QED
    BY <2>2
<1>9. QED
  BY <1>2, <1>3, <1>4, <1>5, <1>6, <1>7, <1>8, PipeMoves

LEMMA NextBelow == TypeOK /\ MainInv /\ NumbersBelow /\ Next => NumbersBelow'
<1> SUFFICES ASSUME TypeOK, MainInv, NumbersBelow, Next PROVE NumbersBelow'
  OBVIOUS
<1>0. toChild \in Seq(ToClangd) /\ child \in Children /\ main \in Mains /\ edits \in Nat
      /\ docs \in [Doc -> [version : Nat, clean : BOOLEAN]] /\ proxy.versions \in [Doc -> Nat]
  BY DEF TypeOK, PipeTypes, ServerTypes, Proxies
<1> DEFINE edited == \E d \in Doc, clean \in BOOLEAN : Edit(d, clean)
<1>t. ASSUME NEW i \in 1 .. Len(toChild), toChild[i].type = "text"
      PROVE  toChild[i].number \in Nat /\ toChild[i].text \in Nat /\ toChild[i].doc \in Doc
  <2>1. toChild[i] \in ToClangd
    BY <1>0
  <2>2. QED
    BY <1>t, <2>1 DEF ToClangd, Initialize, Initialized, ExitNote, Ack
<1>1. Handing' => docs'[main'.doc].version = edits'
  <2>1. CASE edited
    BY <1>0, <2>1 DEF Edit, Mains
  <2>2. CASE ~edited
    BY <2>2, Hands DEF NumbersBelow
  <2>3. QED
    BY <2>1, <2>2
<1>2. edits' >= edits /\ (Handing' => Handing \/ edits' > edits)
  <2>1. CASE edited
    BY <1>0, <2>1 DEF Edit
  <2>2. CASE ~edited
    BY <1>0, <2>2, Hands
  <2>3. QED
    BY <2>1, <2>2
<1>e. edits' \in Nat
  BY NextType DEF TypeOK, ServerTypes
<1>3. ASSUME NEW i \in 1 .. Len(toChild), toChild[i].type = "text"
      PROVE  /\ toChild[i].number <= proxy.versions[toChild[i].doc]
             /\ toChild[i].text <= edits'
             /\ Handing' => toChild[i].text < edits'
  BY <1>0, <1>2, <1>3, <1>e, <1>t DEF NumbersBelow
<1>4. CASE /\ proxy'.versions = proxy.versions
           /\ \A i \in 1 .. Len(toChild') :
                 toChild'[i].type = "text" => \E j \in 1 .. Len(toChild) : toChild'[i] = toChild[j]
  <2>1. ASSUME NEW i \in 1 .. Len(toChild'), toChild'[i].type = "text"
        PROVE  /\ toChild'[i].number <= proxy'.versions[toChild'[i].doc]
               /\ toChild'[i].text <= edits'
               /\ Handing' => toChild'[i].text < edits'
    <3>1. PICK j \in 1 .. Len(toChild) : toChild'[i] = toChild[j]
      BY <1>4, <2>1
    <3>2. QED
      BY <1>3, <1>4, <2>1, <3>1
  <2>2. QED
    BY <1>1, <2>1 DEF NumbersBelow
<1>5. ASSUME NEW m \in ToClangd, m.type # "text", proxy'.versions = proxy.versions, toChild' = Append(toChild, m)
      PROVE  NumbersBelow'
  <2>1. ASSUME NEW i \in 1 .. Len(toChild'), toChild'[i].type = "text"
        PROVE  i \in 1 .. Len(toChild) /\ toChild'[i] = toChild[i]
    BY <1>0, <1>5, <2>1
  <2>2. QED
    BY <1>4, <1>5, <2>1
<1>6. CASE PipeStays
  BY <1>4, <1>6 DEF PipeStays
<1>7. CASE NoteSent
  BY <1>5, <1>7, NoteTypes DEF NoteSent
<1>8. CASE AskClangd
  <2> DEFINE m == Question(proxy.nextId, main.doc, main.pos)
  <2>1. m \in ToClangd /\ proxy'.versions = proxy.versions /\ m.type # "text"
    BY <1>8, AskWrites DEF Question
  <2>2. CASE child.state = "up"
    BY <1>5, <1>8, <2>1, <2>2, AskWrites
  <2>3. CASE child.state # "up"
    BY <1>4, <1>8, <2>1, <2>3, AskWrites
  <2>4. QED
    BY <2>2, <2>3
<1>9. CASE MessageTaken
  <2>1. proxy'.versions = proxy.versions /\ toChild # << >> /\ toChild' = Tail(toChild)
    BY <1>9 DEF MessageTaken
  <2>2. ASSUME NEW i \in 1 .. Len(toChild') PROVE i + 1 \in 1 .. Len(toChild) /\ toChild'[i] = toChild[i + 1]
    BY <1>0, <2>1
  <2>3. QED
    BY <1>4, <2>1, <2>2
<1>10. CASE ChildLost
  <2>1. proxy'.versions = proxy.versions /\ (toChild' = toChild \/ toChild' = << >>)
    BY <1>10 DEF ChildLost
  <2>2. QED
    BY <1>4, <2>1
<1>11. CASE Forked
  <2>1. toChild' = toChild /\ proxy' = [proxy EXCEPT !.stdin = "open", !.stdout = "open"] /\ proxy \in Proxies
    BY <1>11 DEF Forked, Fork, TypeOK, PipeTypes
  <2>2. proxy'.versions = proxy.versions
    BY <2>1 DEF Proxies
  <2>3. QED
    BY <1>4, <2>1, <2>2
<1>12. CASE Handed
  <2> DEFINE e == main.doc
             n == proxy.versions[e] + 1
             m == Text(e, n, docs[e].version)
  <2>1. /\ m \in ToClangd /\ main.at = "sync" /\ main'.at = "idle" /\ docs' = docs /\ edits' = edits
        /\ IF child.state = "up" THEN toChild' = Append(toChild, m) ELSE toChild' = toChild
        /\ proxy'.versions = [proxy.versions EXCEPT ![e] = n]
    BY <1>12, SyncWrites
  <2>2. ~Handing' /\ Handing
    BY <2>1 DEF Handing, Ending
  <2>3. m.number = n /\ m.text = edits /\ m.doc = e /\ e \in Doc /\ n \in Nat
    BY <1>0, <2>2 DEF Text, NumbersBelow, Mains
  <2>4. \A d \in Doc : proxy'.versions[d] >= proxy.versions[d]
    BY <1>0, <2>1, <2>3
  <2> HIDE DEF m, n, e
  <2>5. ASSUME NEW i \in 1 .. Len(toChild), toChild[i].type = "text"
        PROVE  toChild[i].number <= proxy'.versions[toChild[i].doc]
    <3>1. proxy'.versions[toChild[i].doc] \in Nat /\ proxy.versions[toChild[i].doc] \in Nat
      BY <1>0, <1>t, <2>1, <2>3, <2>5
    <3>2. QED
      BY <1>3, <1>t, <2>4, <2>5, <3>1
  <2>6. m.number <= proxy'.versions[m.doc] /\ m.text <= edits'
    BY <1>0, <2>1, <2>3
  <2>7. ASSUME NEW i \in 1 .. Len(toChild')
        PROVE  toChild'[i] = m \/ (i \in 1 .. Len(toChild) /\ toChild'[i] = toChild[i])
    <3>1. CASE toChild' = toChild
      BY <2>7, <3>1
    <3>2. CASE toChild' = Append(toChild, m)
      BY <1>0, <2>1, <2>7, <3>2
    <3>3. QED
      BY <2>1, <3>1, <3>2
  <2>8. ASSUME NEW i \in 1 .. Len(toChild'), toChild'[i].type = "text"
        PROVE  toChild'[i].number <= proxy'.versions[toChild'[i].doc] /\ toChild'[i].text <= edits'
    BY <1>3, <2>5, <2>6, <2>7, <2>8
  <2>9. QED
    BY <1>1, <2>2, <2>8 DEF NumbersBelow
<1>13. QED
  BY <1>6, <1>7, <1>8, <1>9, <1>10, <1>11, <1>12, PipeMoves

LEMMA NextRise == TypeOK /\ MainInv /\ NumbersBelow /\ NumbersRise /\ Next => NumbersRise'
<1> SUFFICES ASSUME TypeOK, MainInv, NumbersBelow, NumbersRise, Next,
                    NEW i \in DOMAIN toChild', NEW j \in DOMAIN toChild', i < j,
                    toChild'[i].type = "text", toChild'[j].type = "text", toChild'[i].doc = toChild'[j].doc
             PROVE  toChild'[i].number < toChild'[j].number /\ toChild'[i].text < toChild'[j].text
  BY DEF NumbersRise
<1>0. /\ toChild \in Seq(ToClangd) /\ toChild' \in Seq(ToClangd)
      /\ i \in 1 .. Len(toChild') /\ j \in 1 .. Len(toChild')
  BY NextType DEF TypeOK, PipeTypes
<1>1. ASSUME NEW m \in ToClangd, toChild' = Append(toChild, m),
             m.type = "text" => \A k \in 1 .. Len(toChild) :
                 (toChild[k].type = "text" /\ toChild[k].doc = m.doc)
                     => toChild[k].number < m.number /\ toChild[k].text < m.text
      PROVE  toChild'[i].number < toChild'[j].number /\ toChild'[i].text < toChild'[j].text
  <2>1. i \in 1 .. Len(toChild) /\ toChild'[i] = toChild[i]
    BY <1>0, <1>1
  <2>2. CASE j \in 1 .. Len(toChild)
    <3>1. toChild'[j] = toChild[j] /\ i \in DOMAIN toChild /\ j \in DOMAIN toChild
      BY <1>0, <1>1, <2>1, <2>2
    <3>2. QED
      BY <2>1, <3>1 DEF NumbersRise
  <2>3. CASE j = Len(toChild) + 1
    <3>1. toChild'[j] = m
      BY <1>0, <1>1, <2>3
    <3>2. QED
      BY <1>1, <2>1, <3>1
  <2>4. QED
    BY <1>0, <1>1, <2>2, <2>3
<1>2. CASE toChild' = toChild
  BY <1>2 DEF NumbersRise
<1>3. CASE NoteSent
  BY <1>1, <1>3, NoteTypes DEF NoteSent
<1>4. CASE MessageTaken
  <2>1. toChild' = Tail(toChild) /\ toChild # << >>
    BY <1>4 DEF MessageTaken
  <2>2. /\ i + 1 \in DOMAIN toChild /\ j + 1 \in DOMAIN toChild /\ i + 1 < j + 1
        /\ toChild'[i] = toChild[i + 1] /\ toChild'[j] = toChild[j + 1]
    BY <1>0, <2>1
  <2>3. QED
    BY <2>2 DEF NumbersRise
<1>5. CASE ChildLost
  <2>1. toChild' = toChild \/ toChild' = << >>
    BY <1>5 DEF ChildLost
  <2>2. QED
    BY <1>0, <1>2, <2>1
<1>6. CASE AskClangd
  <2> DEFINE m == Question(proxy.nextId, main.doc, main.pos)
  <2>1. m \in ToClangd /\ m.type # "text" /\ (toChild' = Append(toChild, m) \/ toChild' = toChild)
    BY <1>6, AskWrites DEF Question
  <2>2. QED
    BY <1>1, <1>2, <2>1
<1>7. CASE Handed
  <2> DEFINE e == main.doc
             n == proxy.versions[e] + 1
             m == Text(e, n, docs[e].version)
  <2>1. m \in ToClangd /\ main.at = "sync" /\ (toChild' = Append(toChild, m) \/ toChild' = toChild)
    BY <1>7, SyncWrites
  <2>2. docs[e].version = edits /\ Handing
    BY <2>1 DEF Handing, NumbersBelow
  <2>3. m.number = n /\ m.text = edits /\ m.doc = e
    BY <2>2 DEF Text
  <2>4. proxy.versions[e] \in Nat
    BY DEF TypeOK, PipeTypes, ServerTypes, Proxies, Mains
  <2>5. ASSUME NEW k \in 1 .. Len(toChild), toChild[k].type = "text", toChild[k].doc = m.doc
        PROVE  toChild[k].number < m.number /\ toChild[k].text < m.text
    <3>1. toChild[k] \in ToClangd
      BY <1>0
    <3>2. toChild[k].number \in Nat
      BY <2>5, <3>1 DEF ToClangd, Initialize, Initialized, ExitNote, Ack
    <3>3. toChild[k].number <= proxy.versions[e] /\ toChild[k].text < edits
      BY <2>2, <2>3, <2>5 DEF NumbersBelow
    <3>4. QED
      BY <2>3, <2>4, <3>2, <3>3
  <2> HIDE DEF m
  <2>6. QED
    BY <1>1, <1>2, <2>1, <2>5
<1>8. CASE PipeStays \/ Forked
  BY <1>2, <1>8 DEF PipeStays, Forked, Fork
<1>9. QED
  BY <1>3, <1>4, <1>5, <1>6, <1>7, <1>8, PipeMoves

-----------------------------------------------------------------------------
(* The theorems. *)

LEMMA NextInv == IInv /\ [Next]_vars => IInv'
<1>1. IInv /\ Next => IInv'
  BY NextType, NextMain, NextSynced, NextQuestions, NextBelow, NextRise DEF IInv, PipeInv
<1>2. IInv /\ UNCHANGED vars => IInv'
  <2> SUFFICES ASSUME IInv, UNCHANGED vars PROVE IInv'
    OBVIOUS
  <2>1. UNCHANGED <<child, toChild, proxy, docs, edits, proxyUp, tried, main>>
    BY DEF vars, proxyVars, serverVars
  <2>2. UNCHANGED <<Handing, Asking>> /\ \A d \in Doc : Pending(d)' = Pending(d)
    BY <2>1 DEF Handing, Asking, Ending, Pending
  <2>3. MainInv'
    BY <2>1, <2>2 DEF IInv, MainInv, ReplyInv, StartInv, AskInv
  <2>4. PipeInv'
    BY <2>1, <2>2 DEF IInv, PipeInv, QuestionsFit, Synced, NumbersBelow, NumbersRise
  <2>5. QED
    BY <2>3, <2>4, NextType DEF IInv
<1>3. QED
  BY <1>1, <1>2

LEMMA Inductive == Spec => []IInv
BY InitInv, NextInv, PTL DEF Spec

(* Every request of the editor has had one reply, and a notification none,
   whenever the main thread is back for the next message: Run and the handlers
   of Server.cpp, for any number of documents, texts and requests. *)
THEOREM EveryRequestAnswered == Spec => []OneReply
<1>1. IInv => OneReply
  BY DEF IInv, MainInv, ReplyInv, OneReply, Handing, Asking, Ending, Exits
<1>2. QED
  BY Inductive, <1>1, PTL

(* clangd reads every request of HandleCompletion and HandleDefinition while it
   holds the text whose line map the position was computed with, however many
   texts and requests of other documents are in the pipe before it. *)
THEOREM PositionsFit == Spec => []PositionsMatchText
<1>1. IInv => PositionsMatchText
  <2> SUFFICES ASSUME IInv, child.state = "up", toChild # << >>, Head(toChild).type = "question"
               PROVE  child.text[Head(toChild).doc] = Head(toChild).pos
    BY DEF PositionsMatchText
  <2>1. toChild \in Seq(ToClangd)
    BY DEF IInv, TypeOK, PipeTypes
  <2>2. Head(toChild) = toChild[1] /\ 1 \in 1 .. Len(toChild)
    BY <2>1
  <2>3. Holds(child.text, toChild, 1, toChild[1].doc, toChild[1].pos)
    BY <2>2 DEF IInv, PipeInv, QuestionsFit
  <2>4. ~IsText(toChild[1], toChild[1].doc)
    BY <2>2 DEF IsText
  <2>5. QED
    BY <2>2, <2>3, <2>4 DEF Holds
<1>2. QED
  BY Inductive, <1>1, PTL

(* The numbers and the texts that SyncGeneratedDocument sends of one document
   rise along the pipe, also over a close and a new open. *)
THEOREM NumbersOnlyRise == Spec => []NumbersRise
<1>1. IInv => NumbersRise
  BY DEF IInv, PipeInv
<1>2. QED
  BY Inductive, <1>1, PTL
=============================================================================
