--------------------------- MODULE LanguageServer ---------------------------
(***************************************************************************)
(* tools/iris-lsp/Server.cpp: the main thread, which reads one message of   *)
(* the editor at a time and answers it, and HandleClangdDiagnostics, which  *)
(* the reader thread of ClangdProxy runs.  Both use Documents_ under        *)
(* DocumentsMutex_ and write to the editor under OutMutex_.                 *)
(*                                                                         *)
(* The text of a document is the number of the edit that set it, and        *)
(* whether it compiles.  What the editor shows of a document is the last    *)
(* set of diagnostics published for it: the version whose own diagnostics   *)
(* it holds, and the version that clangd's part of it is about.             *)
(***************************************************************************)
EXTENDS ClangdProxy

CONSTANTS
    IrisxDoc,   \* the documents whose extension is .irisx
    MaxEdits,   \* bound: texts the editor sends
    MaxQueries  \* bound: requests the editor sends

ASSUME DocAssumption == Doc # {} /\ IrisxDoc \subseteq Doc
ASSUME BoundAssumption == MaxAsked \in Nat /\ MaxEdits \in Nat /\ MaxQueries \in Nat

VARIABLES
    docs,       \* Documents_ (and GeneratedPathToUri_, kept in step with it)
    shown,      \* the diagnostics the editor shows
    edits, queries,
    proxyUp,    \* Proxy_ is not null
    tried,      \* ProxyStarted_
    main        \* where the main thread is, the document and position it works on,
                \* which question about code it answers, whether its message wants a
                \* reply, how many it sent, and where the destructor of the proxy
                \* returns to

serverVars == <<docs, shown, edits, queries, proxyUp, tried>>
vars == <<proxyVars, serverVars, main>>

NoDoc == [version |-> 0, clean |-> FALSE]
IsOpen(d) == docs[d].version > 0

\* A mistake: DocumentsMutex_ is held while clangd is asked.
MainHoldsInCall == main.at \in {"rebuild", "lookup", "ask", "wait", "translate"}

\* Where the main thread holds DocumentsMutex_; the reader holds it at "mapping".
MainHolds == main.at \in {"rebuild", "lookup", "translate"}
DocumentsFree == ~MainHolds /\ reader.at # "mapping"

Init ==
    /\ ProxyInit
    /\ docs = [d \in Doc |-> NoDoc]
    /\ shown = [d \in Doc |-> [own |-> 0, clangd |-> 0]]
    /\ edits = 0 /\ queries = 0
    /\ proxyUp = FALSE /\ tried = FALSE
    /\ main = [at |-> "idle", doc |-> CHOOSE d \in Doc : TRUE, pos |-> 0,
               method |-> "none", wants |-> 0, replies |-> 0, then |-> "idle"]

Goto(where) == main' = [main EXCEPT !.at = where]
Answered == main' = [main EXCEPT !.at = "idle", !.pos = 0, !.method = "none", !.replies = @ + 1]

Idle == process = "up" /\ main.at = "idle"
At(where) == process = "up" /\ main.at = where

-----------------------------------------------------------------------------
(* Documents.  Each Receive takes the message and the lock it needs first. *)

\* didOpen, didChange: RebuildDocument's first half under the lock.
Edit(d, clean) ==
    /\ Idle /\ DocumentsFree /\ edits < MaxEdits
    /\ edits' = edits + 1
    /\ docs' = [docs EXCEPT ![d] = [version |-> edits + 1, clean |-> clean]]
    /\ main' = [main EXCEPT !.at = "rebuild", !.doc = d, !.wants = 0, !.replies = 0]
    /\ UNCHANGED <<proxyVars, shown, queries, proxyUp, tried>>

\* A document's own diagnostics, replacing whatever is shown.
PublishDiagnostics(d) == [own |-> docs[d].version, clangd |-> 0]

\* A mistake: only the first clean text is given to clangd.
RebuiltOnce ==
    /\ At("rebuild")
    /\ shown' = [shown EXCEPT ![main.doc] = PublishDiagnostics(main.doc)]
    /\ Goto(IF ~docs[main.doc].clean \/ tried THEN "idle" ELSE "create")
    /\ UNCHANGED <<proxyVars, docs, edits, queries, proxyUp, tried>>

\* Its second half: publish, decide whether clangd has to hear of it, unlock.
Rebuilt ==
    /\ At("rebuild")
    /\ shown' = [shown EXCEPT ![main.doc] = PublishDiagnostics(main.doc)]
    /\ Goto(IF ~docs[main.doc].clean THEN "idle" ELSE IF tried THEN "sync" ELSE "create")
    /\ UNCHANGED <<proxyVars, docs, edits, queries, proxyUp, tried>>

CloseDoc(d) ==
    /\ Idle /\ DocumentsFree /\ IsOpen(d)
    /\ docs' = [docs EXCEPT ![d] = NoDoc]
    /\ main' = [main EXCEPT !.wants = 0, !.replies = 0]
    /\ UNCHANGED <<proxyVars, shown, edits, queries, proxyUp, tried>>

\* CreateHostLanguageServerProxy: by the extension of the first clean document.
CreateProxy ==
    /\ At("create")
    /\ tried' = TRUE
    /\ proxyUp' = (main.doc \notin IrisxDoc)
    /\ Goto(IF main.doc \in IrisxDoc THEN "sync" ELSE "start")
    /\ UNCHANGED <<proxyVars, docs, shown, edits, queries>>

Launch ==
    /\ At("start")
    /\ \/ Fork /\ Goto("greet")
       \/ main' = [main EXCEPT !.at = "bye", !.then = "sync"] /\ UNCHANGED proxyVars
    /\ UNCHANGED serverVars

Greet ==
    /\ At("greet")
    /\ SendRequest(Initialize)
    /\ Goto("greeted")
    /\ UNCHANGED serverVars

Greeted ==
    /\ At("greeted")
    /\ \/ FinishStart /\ Goto("sync")
       \/ Returned("null") /\ main' = [main EXCEPT !.at = "bye", !.then = "sync"]
    /\ UNCHANGED serverVars

Sync ==
    /\ At("sync")
    /\ IF proxyUp
       THEN SyncGeneratedDocument(main.doc, docs[main.doc].version)
       ELSE UNCHANGED proxyVars
    /\ Goto("idle")
    /\ UNCHANGED serverVars

-----------------------------------------------------------------------------
(* Requests. *)

\* initialize, shutdown, semanticTokens, or a method nobody handles.
AnswerAtOnce ==
    /\ Idle /\ queries < MaxQueries
    /\ queries' = queries + 1
    /\ main' = [main EXCEPT !.wants = 1, !.replies = 1]
    /\ UNCHANGED <<proxyVars, docs, shown, edits, proxyUp, tried>>

\* completion or definition, at any position.
Query(d, method) ==
    /\ Idle /\ DocumentsFree /\ queries < MaxQueries
    /\ queries' = queries + 1
    /\ main' = [main EXCEPT !.at = "lookup", !.doc = d, !.method = method, !.wants = 1, !.replies = 0]
    /\ UNCHANGED <<proxyVars, docs, shown, edits, proxyUp, tried>>

\* A mistake: a position although the newest text was withheld from clangd.
GeneratedFromAny(d) == docs[d].version > 0 /\ d \notin IrisxDoc

\* The position in the generated text, which only a clean .iris document has.
Generated(d) == docs[d].clean /\ d \notin IrisxDoc

\* Both handlers look the position up under the lock and leave it with what they need.
\* Code outside the render blocks and imports is clangd's.
ToClangdsCode ==
    /\ IsOpen(main.doc) /\ Generated(main.doc) /\ proxyUp
    /\ main' = [main EXCEPT !.at = "ask", !.pos = docs[main.doc].version]

\* HandleCompletion: else it has items of its own, or none.
LookupCompletion ==
    /\ At("lookup") /\ main.method = "completion"
    /\ ToClangdsCode \/ Goto("items")
    /\ UNCHANGED <<proxyVars, serverVars>>

\* HandleDefinition: an import or the tag of a component, the value of `class`, or a
\* place of which there is nothing to say.
LookupDefinition ==
    /\ At("lookup") /\ main.method = "definition" /\ IsOpen(main.doc)
    /\ ToClangdsCode \/ Goto("declaration") \/ Goto("selector") \/ Goto("nothing")
    /\ UNCHANGED <<proxyVars, serverVars>>

\* Of a document that is not open: the one reply HandleDefinition sends under the lock.
ReplyUnopened ==
    /\ At("lookup") /\ main.method = "definition" /\ ~IsOpen(main.doc)
    /\ Answered
    /\ UNCHANGED <<proxyVars, serverVars>>

ReplyItems == At("items") /\ Answered /\ UNCHANGED <<proxyVars, serverVars>>
ReplyDeclaration == At("declaration") /\ Answered /\ UNCHANGED <<proxyVars, serverVars>>

\* A mistake: no reply when no stylesheet has the selector.
ReplySelectorFound ==
    /\ At("selector")
    /\ Answered \/ Goto("idle")
    /\ UNCHANGED <<proxyVars, serverVars>>

ReplySelector == At("selector") /\ Answered /\ UNCHANGED <<proxyVars, serverVars>>
ReplyNothing == At("nothing") /\ Answered /\ UNCHANGED <<proxyVars, serverVars>>

AskClangd ==
    /\ At("ask")
    /\ SendRequest(Question(proxy.nextId, main.doc, main.pos))
    /\ Goto("wait")
    /\ UNCHANGED serverVars

\* A definition in the generated document itself has to be mapped back.
ReplyCame(a) ==
    /\ At("wait")
    /\ IF main.method = "definition" /\ a = "here"
       THEN DocumentsFree /\ Goto("translate")
       ELSE Answered
    /\ Returned(a)
    /\ UNCHANGED serverVars

Translate ==
    /\ At("translate")
    /\ Answered
    /\ UNCHANGED <<proxyVars, serverVars>>

-----------------------------------------------------------------------------
(* "exit", or the end of the editor's stream: Run returns and Proxy_ is destroyed. *)

Exit ==
    /\ Idle
    /\ IF proxyUp
       THEN main' = [main EXCEPT !.at = "bye", !.then = "gone"] /\ UNCHANGED process
       ELSE Goto("gone") /\ process' = "exited"
    /\ UNCHANGED <<sigpipe, child, toChild, fromChild, proxy, reader, serverVars>>

Bye == At("bye") /\ SayExit /\ Goto("stop") /\ UNCHANGED serverVars
Stop == At("stop") /\ StopAndCloseStdin /\ Goto("closeout") /\ UNCHANGED serverVars
CloseOut == At("closeout") /\ CloseStdout /\ Goto("join") /\ UNCHANGED serverVars

\* join and waitpid, then on to what the destructor was called from.
Destroyed ==
    /\ At("join") /\ Joined /\ Reaped
    /\ proxyUp' = FALSE
    /\ Goto(main.then)
    /\ process' = IF main.then = "gone" THEN "exited" ELSE process
    /\ UNCHANGED <<sigpipe, child, toChild, fromChild, proxy, reader,
                   docs, shown, edits, queries, tried>>

-----------------------------------------------------------------------------
(* The reader thread in HandleClangdDiagnostics. *)

\* Under the lock: the document is looked up and clangd's positions are mapped
\* through its newest line map, which a document that does not compile lacks.
Map ==
    /\ process = "up" /\ reader.at = "callback" /\ DocumentsFree
    /\ MoveTo("mapping")
    /\ UNCHANGED <<process, sigpipe, child, toChild, fromChild, proxy, serverVars, main>>

Mapped ==
    /\ process = "up" /\ reader.at = "mapping"
    /\ LET d == reader.msg.doc IN
       IF IsOpen(d)
       THEN reader' = [at |-> "publish",
                       msg |-> [type |-> "merged", doc |-> d, own |-> docs[d].version,
                                clangd |-> IF Generated(d) THEN reader.msg.text ELSE 0]]
       ELSE reader' = [at |-> "reading", msg |-> NoMessage]
    /\ UNCHANGED <<process, sigpipe, child, toChild, fromChild, proxy, serverVars, main>>

\* After the unlock.
Publish ==
    /\ process = "up" /\ reader.at = "publish"
    /\ shown' = [shown EXCEPT ![reader.msg.doc] =
                    [own |-> reader.msg.own, clangd |-> reader.msg.clangd]]
    /\ reader' = [at |-> "reading", msg |-> NoMessage]
    /\ UNCHANGED <<process, sigpipe, child, toChild, fromChild, proxy,
                   docs, edits, queries, proxyUp, tried, main>>

-----------------------------------------------------------------------------
Editor ==
    \/ \E d \in Doc, clean \in BOOLEAN : Edit(d, clean)
    \/ \E d \in Doc : CloseDoc(d)
    \/ AnswerAtOnce
    \/ \E d \in Doc, method \in {"completion", "definition"} : Query(d, method)
    \/ Exit

MainStep ==
    \/ Rebuilt \/ CreateProxy \/ Launch \/ Greet \/ Greeted \/ Sync
    \/ LookupCompletion \/ ReplyItems
    \/ LookupDefinition \/ ReplyUnopened \/ ReplyDeclaration \/ ReplySelector \/ ReplyNothing
    \/ AskClangd \/ (\E a \in Answer : ReplyCame(a)) \/ Translate
    \/ Bye \/ Stop \/ CloseOut \/ Destroyed

ReaderInProxy == ReaderStep /\ UNCHANGED <<serverVars, main>>
Reader == ReaderInProxy \/ Map \/ Mapped \/ Publish

ChildWorks == (ChildRead \/ ChildWrite \/ ChildEnds) /\ UNCHANGED <<serverVars, main>>
ChildOnItsOwn == (ChildAsks \/ ChildCrashes) /\ UNCHANGED <<serverVars, main>>

Next == Editor \/ MainStep \/ Reader \/ ChildWorks \/ ChildOnItsOwn

\* The threads are scheduled, and clangd reads, answers, and ends when it has to.
Fairness ==
    /\ WF_vars(MainStep)
    /\ WF_vars(Reader)
    /\ WF_vars(ChildRead /\ UNCHANGED <<serverVars, main>>)
    /\ WF_vars(ChildWrite /\ UNCHANGED <<serverVars, main>>)
    /\ WF_vars(ChildEnds /\ UNCHANGED <<serverVars, main>>)

Spec == Init /\ [][Next]_vars
FairSpec == Spec /\ Fairness

-----------------------------------------------------------------------------
(* Properties. *)

(* Every request of the editor is answered exactly once, on whichever of the
   handler's exits it leaves, and no notification is answered. *)
OneReply == main.at \in {"idle", "gone"} => main.replies = main.wants

(* When clangd takes a request, the text it holds of that document is the one
   whose line map the position was computed with: the position is never read
   against an older or a newer text, although texts that do not compile are
   withheld from clangd and the document may have been closed and opened again. *)
PositionsMatchText ==
    (child.state = "up" /\ toChild # <<>> /\ Head(toChild).type = "question")
        => child.text[Head(toChild).doc] = Head(toChild).pos

(* clangd sees the numbers of a document's texts rise, also over a close. *)
NumbersRise ==
    \A i, j \in DOMAIN toChild :
        (i < j /\ toChild[i].type = "text" /\ toChild[j].type = "text" /\ toChild[i].doc = toChild[j].doc)
            => toChild[i].number < toChild[j].number /\ toChild[i].text < toChild[j].text

(* The main thread comes back for the next message, whatever clangd, the
   reader and the locks do, unless SIGPIPE ends the process. *)
EveryMessageHandled == (process = "up" /\ main.at # "idle") ~> (main.at = "idle" \/ process # "up")

(* What the editor shows of a document that compiles settles on clangd's
   diagnostics of its newest text, mapped through that text's own line map,
   when clangd lives on and the document stays open. *)
CleanSettles ==
    \A d \in Doc :
        <>[](child.state = "up" /\ proxyUp /\ proxy.started /\ process = "up" /\ IsOpen(d) /\ Generated(d)
              /\ main.at = "idle")
            => <>[](shown[d] = [own |-> docs[d].version, clangd |-> docs[d].version])

(* The merged set that is published holds the document's own diagnostics as
   they are ("merges with that document's own Iris-level diagnostics"). *)
OwnDiagnosticsShown ==
    \A d \in Doc : IsOpen(d) /\ ~(At("rebuild") /\ main.doc = d) => shown[d].own = docs[d].version
=============================================================================
