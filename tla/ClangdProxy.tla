----------------------------- MODULE ClangdProxy -----------------------------
(***************************************************************************)
(* tools/iris-lsp/ClangdProxy.cpp: clangd as a child process, the two pipes *)
(* to it, the reader thread that owns the read end, and the calls that the  *)
(* main thread makes on the proxy.  The calls are action formulas over the  *)
(* proxy's variables; LanguageServer says when the main thread makes them.  *)
(*                                                                         *)
(* A generated text is the version of the document it was generated from.  *)
(* A position is the version whose line map it was computed with.          *)
(***************************************************************************)
EXTENDS Naturals, Sequences, FiniteSets

CONSTANTS
    Doc,        \* the documents, each with one generated path
    MaxAsked    \* bound: requests clangd sends of its own accord

VARIABLES
    process,    \* "up", "exited", or "killed" by a signal
    sigpipe,    \* the disposition inherited from the editor: "default" or "ignored"
    child,      \* clangd: its state, the text it holds of each document, what it has to write
    toChild, fromChild,     \* the pipes, in order
    proxy,      \* the fields of the ClangdProxy object
    reader      \* where ReaderLoop is, and the message it holds

proxyVars == <<process, sigpipe, child, toChild, fromChild, proxy, reader>>

\* What clangd may answer: an error or null, a location in the generated
\* document, or one elsewhere.  A list of completions is any of the latter.
Answer == {"null", "here", "elsewhere"}

Ids == Nat \ {0}

Initialize == [type |-> "initialize"]
Initialized == [type |-> "initialized"]
ExitNote   == [type |-> "exit"]
Ack        == [type |-> "ack"]
Question(id, d, v) == [type |-> "question", id |-> id, doc |-> d, pos |-> v]
Text(d, n, v) == [type |-> "text", doc |-> d, number |-> n, text |-> v]

Greeting(a)  == [type |-> "reply", id |-> 1, answer |-> a]
Reply(id, a) == [type |-> "reply", id |-> id, answer |-> a]
Diagnostics(d, v) == [type |-> "diagnostics", doc |-> d, text |-> v]
Ask == [type |-> "ask"]

NoMessage == [type |-> "none"]

ProxyInit ==
    /\ process = "up"
    /\ sigpipe \in {"default", "ignored"}
    /\ child = [state |-> "none", text |-> [d \in Doc |-> 0], due |-> {}, asked |-> 0]
    /\ toChild = <<>>
    /\ fromChild = <<>>
    /\ proxy = [started |-> FALSE, stopping |-> FALSE, stdin |-> "none", stdout |-> "none",
                nextId |-> 1, results |-> {}, versions |-> [d \in Doc |-> 0]]
    /\ reader = [at |-> "none", msg |-> NoMessage]

-----------------------------------------------------------------------------
(* Writing.  WriteMutex_ is held for one message, so a write is one step.  A *)
(* write to a child that is gone raises SIGPIPE, which no code here handles. *)

WriteLocked(m) ==
    IF child.state = "up"
    THEN toChild' = Append(toChild, m) /\ UNCHANGED process
    ELSE /\ process' = IF sigpipe = "default" THEN "killed" ELSE process
         /\ UNCHANGED toChild

(* The calls of the main thread. *)

\* Start up to the launch of the reader; execlp may fail, which is a child that exits.
Fork ==
    /\ child' = [child EXCEPT !.state = "up"]
    /\ proxy' = [proxy EXCEPT !.stdin = "open", !.stdout = "open"]
    /\ reader' = [reader EXCEPT !.at = "reading"]
    /\ UNCHANGED <<process, sigpipe, toChild, fromChild>>

SendRequest(m) ==
    /\ WriteLocked(m)
    /\ proxy' = [proxy EXCEPT !.nextId = @ + 1]
    /\ UNCHANGED <<sigpipe, child, fromChild, reader>>

Asked == proxy.nextId - 1

Results == {r \in proxy.results : r.id = Asked}

\* PendingCv_.wait returns: with the answer, or with null because the child is gone.
Returned(a) ==
    /\ \/ \E r \in Results : a = r.answer
       \/ Results = {} /\ proxy.stopping /\ a = "null"
    /\ proxy' = [proxy EXCEPT !.results = @ \ Results]
    /\ UNCHANGED <<process, sigpipe, child, toChild, fromChild, reader>>

\* The rest of Start after a usable answer.
FinishStart ==
    /\ \E r \in Results : r.answer # "null"
    /\ WriteLocked(Initialized)
    /\ proxy' = [proxy EXCEPT !.results = @ \ Results, !.started = TRUE]
    /\ UNCHANGED <<sigpipe, child, fromChild, reader>>

\* Mutant: a document is opened anew each time.
SyncOpenedAnew(d, v) ==
    /\ WriteLocked(Text(d, 1, v))
    /\ proxy' = [proxy EXCEPT !.versions[d] = @ + 1]
    /\ UNCHANGED <<sigpipe, child, fromChild, reader>>

\* didOpen the first time a path is seen, didChange with the next number after that.
SyncGeneratedDocument(d, v) ==
    LET n == proxy.versions[d] + 1 IN
    /\ WriteLocked(Text(d, n, v))
    /\ proxy' = [proxy EXCEPT !.versions[d] = n]
    /\ UNCHANGED <<sigpipe, child, fromChild, reader>>

(* The destructor, a step for each thing that another thread can see. *)

SayExit ==
    /\ IF proxy.started THEN WriteLocked(ExitNote) ELSE UNCHANGED <<process, toChild>>
    /\ UNCHANGED <<sigpipe, child, fromChild, proxy, reader>>

Close(f) == IF f = "open" THEN "closed" ELSE f

StopAndCloseStdin ==
    /\ proxy' = [proxy EXCEPT !.stopping = TRUE, !.stdin = Close(@)]
    /\ UNCHANGED <<process, sigpipe, child, toChild, fromChild, reader>>

\* fclose waits for the lock that a thread inside fread holds on the stream.
StdoutFree == reader.at # "reading"

CloseStdout ==
    /\ StdoutFree
    /\ proxy' = [proxy EXCEPT !.stdout = Close(@)]
    /\ UNCHANGED <<process, sigpipe, child, toChild, fromChild, reader>>

Joined == reader.at \in {"none", "done"}
Reaped == child.state \in {"none", "gone"}

-----------------------------------------------------------------------------
(* The reader thread. *)

MoveTo(where) == reader' = [reader EXCEPT !.at = where]

\* A message is there, or end of file: the loop ends and wakes whoever waits.
ReadMessage ==
    /\ reader.at = "reading"
    /\ proxy.stdout = "open"
    /\ \/ /\ fromChild # <<>>
          /\ fromChild' = Tail(fromChild)
          /\ reader' = [at |-> CASE Head(fromChild).type = "reply" -> "reply"
                                 [] Head(fromChild).type = "diagnostics" -> "callback"
                                 [] Head(fromChild).type = "ask" -> "ack",
                        msg |-> Head(fromChild)]
          /\ UNCHANGED proxy
       \/ /\ fromChild = <<>> /\ child.state = "gone"
          /\ proxy' = [proxy EXCEPT !.stopping = TRUE]
          /\ reader' = [at |-> "done", msg |-> NoMessage]
          /\ UNCHANGED fromChild
    /\ UNCHANGED <<process, sigpipe, child, toChild>>

\* Undefined: the stream was closed.  It looks like end of file, or it crashes.
ReadClosed ==
    /\ reader.at = "reading"
    /\ proxy.stdout = "closed"
    /\ \/ /\ proxy' = [proxy EXCEPT !.stopping = TRUE]
          /\ reader' = [at |-> "done", msg |-> NoMessage]
          /\ UNCHANGED process
       \/ process' = "killed" /\ UNCHANGED <<proxy, reader>>
    /\ UNCHANGED <<sigpipe, child, toChild, fromChild>>

\* PendingResults_[Id] = result, under PendingMutex_, and notify.
StoreResult ==
    /\ reader.at = "reply"
    /\ proxy' = [proxy EXCEPT !.results = {r \in @ : r.id # reader.msg.id} \cup
                    {[id |-> reader.msg.id, answer |-> reader.msg.answer]}]
    /\ reader' = [at |-> "reading", msg |-> NoMessage]
    /\ UNCHANGED <<process, sigpipe, child, toChild, fromChild>>

\* A request of clangd's own is answered at once, with nothing.
AckRequest ==
    /\ reader.at = "ack"
    /\ IF proxy.stdin = "closed"
       THEN UNCHANGED <<process, toChild>>      \* undefined as well; here the write is lost
       ELSE WriteLocked(Ack)
    /\ reader' = [at |-> "reading", msg |-> NoMessage]
    /\ UNCHANGED <<sigpipe, child, fromChild, proxy>>

ReaderStep == process = "up" /\ (ReadMessage \/ ReadClosed \/ StoreResult \/ AckRequest)

-----------------------------------------------------------------------------
(* clangd itself, as far as the proxy relies on it: it keeps reading, takes *)
(* texts in order, answers every request unless it exits, sends diagnostics *)
(* for the newest text of a document, sometimes for older ones, never for   *)
(* an older one after a newer, and ends at "exit" or at the end of stdin.   *)

ChildTakes(m) ==
    CASE m.type \in {"initialize", "question"} ->
            \E a \in IF m.type = "question" THEN Answer ELSE {"null", "here"} :
                child' = [child EXCEPT !.due = @ \cup
                            {IF m.type = "initialize" THEN Greeting(a) ELSE Reply(m.id, a)}]
      [] m.type = "text" ->
            \E skipped \in SUBSET {x \in child.due : x.type = "diagnostics" /\ x.doc = m.doc} :
                child' = [child EXCEPT !.text[m.doc] = m.text,
                                       !.due = (@ \ skipped) \cup {Diagnostics(m.doc, m.text)}]
      [] m.type = "exit" -> child' = [child EXCEPT !.state = "gone", !.due = {}]
      [] OTHER -> UNCHANGED child

ChildRead ==
    /\ child.state = "up"
    /\ toChild # <<>>
    /\ ChildTakes(Head(toChild))
    /\ toChild' = Tail(toChild)
    /\ UNCHANGED <<process, sigpipe, fromChild, proxy, reader>>

ChildWrite ==
    /\ child.state = "up"
    /\ \E m \in child.due :
        /\ m.type = "diagnostics" =>
               \A x \in child.due : x.type = "diagnostics" /\ x.doc = m.doc => m.text <= x.text
        /\ fromChild' = Append(fromChild, m)
        /\ child' = [child EXCEPT !.due = @ \ {m}]
    /\ UNCHANGED <<process, sigpipe, toChild, proxy, reader>>

ChildAsks ==
    /\ child.state = "up"
    /\ child.asked < MaxAsked
    /\ child' = [child EXCEPT !.asked = @ + 1]
    /\ fromChild' = Append(fromChild, Ask)
    /\ UNCHANGED <<process, sigpipe, toChild, proxy, reader>>

\* It exits because its input ended.
ChildEnds ==
    /\ child.state = "up"
    /\ toChild = <<>>
    /\ proxy.stdin = "closed" \/ process # "up"
    /\ child' = [child EXCEPT !.state = "gone", !.due = {}]
    /\ UNCHANGED <<process, sigpipe, toChild, fromChild, proxy, reader>>

\* It crashes, or was never on the PATH.
ChildCrashes ==
    /\ child.state = "up"
    /\ child' = [child EXCEPT !.state = "gone", !.due = {}]
    /\ toChild' = <<>>
    /\ UNCHANGED <<process, sigpipe, fromChild, proxy, reader>>
=============================================================================
