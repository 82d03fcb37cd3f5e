# Iris, modelled in TLA+

Iris compiles component files (`.iris` with C++, `.irisx` with Nyx) to trees of
`Component` values, and a small runtime keeps the widgets built from those
trees up to date as signals change. This directory holds TLA+ models of that
program, the TLC configurations that check them, and proofs checked by TLAPS.

Run `tlc -config X.cfg M` for a run of `PROJECT.json` and `tlapm M.tla` for a
module with theorems.

## The system

| Component | State it keeps | Operations | Talks to |
|---|---|---|---|
| Reactive slot runtime (`SlotRuntime`, `Signal.h`) | subscriptions per signal, dirty queue, active-slot stack, batch depth, per slot: dirty flag, nested slots, last output | `Signal::get/set`, `Reconcile`, `~SlotState`, `BeginBatch/EndBatch`, `Tick` | component code (calls it, is called back), reconciler, slot resolution |
| Slot resolution, sibling groups (`SlotResolution`, `SlotSiblingGroup`) | per parent widget: static prefix counts and the slots in order | `ResolveSlots`, `AbsoluteIndexOf`, `MarkDestroyed` | slots, widgets |
| Reconciler (`Reconciler.cpp`) | none between calls | `MatchLists`, `ComputeKeepInPlace`, `ReconcileChildrenAt`, `ReconcileWidget` | widgets, the backend's `Mount` |
| Portals (`Portal.h`, `PreparePortalSubtreeForUnmount`) | open portals in the backend | prepare before unmount, apply properties | reconciler |
| Component instances (`ComponentInstance.h`) | signals in declaration order, replay cursor, lifecycle hooks, the instance stack | allocate, replay on reload, adopt | runtime, Nyx driver |
| Reload target (`ReloadTarget.cpp`) | last whole tree and its widget | `Reconcile(NewTree)` | reconciler |
| Nyx driver (`IrisNyxDriver.cpp`) | caches of documents and file scopes, previous output per mount | load, invalidate, invoke, mount root, reload root | IR, evaluator, instances |
| Nyx evaluator, IR (`IrisNyxEvaluator`, `IrisIr*`) | none | evaluate a render tree, encode and decode documents | Nyx interpreter (external) |
| Compile pipeline (`Driver`, `RenderBlockParser`, tokenizers, `ImportResolver`, `SemanticValidator`, `Codegen`) | none | source text to generated text and diagnostics | `irisc`, language server |
| Language server (`Server.cpp`, `VirtualDocument`) | open documents under a mutex | `didOpen/Change/Close`, completion, definition, diagnostics | editor, clangd proxy |
| Clangd proxy (`ClangdProxy.cpp`) | pending replies under a mutex, child process, versions of synced documents | requests, reader thread | clangd, server |

What is hard about each, and what correctness means:

* **Runtime.** Not concurrent, but re-entrant: `Reconcile` calls component code
  that reads and writes signals, and it destroys and creates slots while a pass
  over slots runs. Correct when no freed slot is touched, no write is lost, no
  callable runs without cause, and everything that is behind catches up.
* **Slot resolution.** Positions are recomputed from live counts of siblings,
  some destroyed, some half updated. Correct when every splice hits exactly the
  slot's own widgets.
* **Reconciler.** Index arithmetic on a list that shifts. Correct when the
  children end in the new order, matched widgets survive, and the fewest are moved.
* **Instances, reload, Nyx driver.** State must survive a reload; caches and raw
  pointers must not outlive what they name; one failing component must not cost
  the others their place.
* **Compile pipeline.** A recursive descent over a token reader with two kinds of
  lookahead, and two backends for one language. Correct when no input makes it
  loop, errors stay inside their block, nothing the user wrote is lost, and both
  backends build the same components.
* **Server and proxy.** Two threads, two mutexes, a process that may die.
  Correct when nothing deadlocks, every request ends, and the diagnostics shown
  last belong to the newest text.

`PROJECT.json` lists the hazards with their lines.

## The modules

| Module | Models | Composes |
|---|---|---|
| `SlotRuntime` | signals, slots, batches, the pass | implements `ReactiveView` |
| `ReactiveView` | what the runtime promises to component code | |
| `Reconciler` | matching, the longest increasing subsequence, the splices | |
| `SlotTree` | slot resolution and sibling groups | the destruction rule of the runtime, the result of the reconciler |
| `NyxDriver` | mounting and hot reload of interpreted components | instances, caches, the IR's invocations |
| `ClangdProxy`, `LanguageServer` | clangd's proxy, and the server above it | `LanguageServer` EXTENDS `ClangdProxy` and says when its calls are made |
| `RenderBlockParser`, `Backends`, `Compile` | the parser; validation, code generation and the IR; the driver and the maps from lines to lines | a chain of EXTENDS |
| `SlotRuntimeProofs` | theorems about `SlotRuntime`, and that it implements `ReactiveView` | |
| `ReconcilerProofs`, `MatchingProofs` | theorems about `Reconciler`: the loops that move widgets, the algorithms that choose them | |
| `NyxDriverProofs`, `NyxPlacesProofs` | theorems about `NyxDriver`: each instance by itself, the trees of instances | the second EXTENDS the first |
| `SlotTreeProofs` | theorems about `SlotTree` | |
| `LanguageServerProofs` | theorems about `LanguageServer` | |
| `RenderBlockParserProofs` | theorems about `RenderBlockParser` | |
| `MC...` | instances for TLC | |

## The runs

| Run | Module | Shows |
|---|---|---|
| `slot_nested` | `MCSlotRuntime` | nothing dangles, the registry is exact, no write is lost, no `<Slot>` is live twice, and the runtime implements `ReactiveView` |
| `slot_nested_live` | `MCSlotRuntime` | `EventuallyRendered`, also while a batch stays open |
| `slot_discard` | `MCSlotRuntime` | **violated** |
| `reconcile` | `MCReconciler` | in all four forms: what matches, new order, widgets alive, fewest moved, who is unmounted, what the widgets show over repeated calls |
| `reconcile_none` | `MCReconciler` | **violated** |
| `slot_tree` | `MCSlotTree` | children in order, widgets found, no slot outlives its widget |
| `nyx_reload` | `MCNyxDriver` | instances, values, hooks and signals over reloads with edits in between |
| `nyx_stale` | `MCNyxDriver` | **violated** |
| `nyx_leftover` | `MCNyxDriver` | **violated**: a slot's run reads a freed component |
| `lsp` | `MCLanguageServer` | one reply per request, positions fit clangd's text, everything is answered, diagnostics settle |
| `lsp_stale` | `MCLanguageServer` | **violated** |
| `compile` | `MCCompile` | the parser ends and recovers, loses nothing; backends agree; lines and highlights fit |

## SlotRuntime

The module keeps the runtime's own data structures and makes the main thread's
control stack explicit, since everything interesting happens between two calls
of that stack:

| Variable | Code |
|---|---|
| `site`, `owner` | which `SlotState` lives at an address, and whose `NestedSlots_` owns it |
| `dirty` | `Dirty_` |
| `subs` | `SignalRegistry::Subscribers_` |
| `queue`, `active`, `batch` | `DirtySlots_`, `ActiveSlotStack_`, `BatchDepth_` |
| `rest` | the rest of `Notify`'s loop |
| `dying` | the recursion of `~SlotState` |
| `chain` | the `Reconcile` calls in progress: clearing nested slots, inside the callable, or discovering nested slots |
| `snapshot` | the rest of the loop over `Snapshot` |
| `fault` | the pass called `Reconcile` on freed memory; the model stops there |
| `reads`, `behind` | history: what the last run read, what was written since |

Slots are named by address, and a freed address may be allocated again, since
raw pointers are what the queue, the registry and the pass hold. Actions follow
the handlers: `HostMount`, `HostSet`, `HostGet`, `HostReconcile`, `HostUnmount`,
`BeginBatch`, `EndBatch` and `Tick` enter the runtime when it is idle;
`MarkDirty` is one iteration of `Notify`; `VisitDirty`, `VisitClean` and
`VisitFreed` one iteration of the pass; `DestroyNested` and `Destroy` the
destructor; `ClearNested`, `Invoke`, `CallableGet`, `CallableSet`,
`CallableReturn`, `DiscoverNested` and `Return` are `Reconcile` from top to
bottom. A callable may read any signals, write up to `MaxWrites`, and return an
output with any of the slots its site allows.

Left out: widgets and their positions (see `SlotTree`), component trees, signal
values, the stack of component instances (see `NyxDriver`), exceptions, and
threads other than the main one.
A repeated entry of the registry is left out, because neither `Notify` nor
`ClearSlot` can tell it from one. Sibling slots are mounted in any order, where
the code goes left to right.

### Runs

`slot_nested`: two roots, one at the head of a chain of three sites, two
signals, three addresses. `slot_nested_live` and `slot_discard`: an outer slot
with a nested one and a plain slot.

The bounds. Two signals let a slot read one, both or none and let writes to one
and to the other interleave. The chain of three makes the destructor recurse.
There are fewer addresses than sites in `slot_nested`, so freed memory is used
again, by the same site and by others; mounting waits for a free one. One write
per run reaches every order of a write against the reads, the dirty flag and the
pass, because runs repeat. `MaxDepth` 2 nests batches. Addresses are
interchangeable in `slot_nested` and `slot_discard`, so symmetry is sound there
(`ImplementsView` is a safety property); the run with a liveness property uses
none. `CHECK_DEADLOCK FALSE`: after `fault` the model stops on purpose.

Fairness. A runtime call that was entered runs on and a callable returns
(weak fairness of `RuntimeStep`), and the host's frame loop calls `Tick`
unconditionally every frame (`SlotRuntime.h:281-285`), whatever events it
dispatches in between (strong fairness of `Tick`, which is enabled only between
calls). The host is not assumed to close a batch, to set signals or to unmount.

### Finding

`slot_discard`: set a signal that an outer slot and its nested slot both read,
then `Tick`. The pass runs the outer slot first, whose `NestedSlots_.clear()`
frees the nested `SlotState` that the pass's local `Snapshot` still holds, and
then reconciles the freed object (`SlotRuntime.cpp:257-261`).
`UnregisterSlot` reaches `DirtySlots_` and `ActiveSlotStack_` only, while the
comments at 153-157 and 254-256 call the discard and the snapshot safe.
The other properties hold up to that point, and `EventuallyRendered` is stated
for behaviours without it.

## Reconciler

One step of the module is one iteration of a loop of `Reconciler.cpp`; positions
count from 1 and 0 stands for the code's -1.

| `pc` | Loop | Actions |
|---|---|---|
| `keys`, `order` | the two passes of `MatchLists` | `MatchByKey`; `MatchByOrder`, `SkipKeyed` |
| `tails`, `walk` | `ComputeKeepInPlace`: patience sorting and the walk over `Predecessor` | `PlaceTail`, `SkipUnmatched`; `WalkBack` |
| `remove`, `insert` | the two loops of `ReconcileChildrenAt` | `Stay`, `TakeOut`, `Drop`; `UpdateInPlace`, `PutBack`, `InsertFresh` |
| `rebuild` | `ReconcileList` | `Reuse`, `AppendFresh`, `ReturnResult` |
| `idle` | between calls | `Begin`, `ReconcileWidget` (in one step: it has no loop), then `Retain` |

`newToOld`, `tails`, `pred`, `keep`, `children`, `moved` and `result` are the
code's locals; `OldMatched` and `KeptOldIndex` are derived (`Matched`,
`KeptOld`), as the code derives them. `tails` holds positions of the new list
where `TailAt` holds indices into `MatchedPositions`; the two are the same up to
that table, and `TailValues` is `newToOld` of them. `shows` is what each widget
displays, `start` (history) the children when the call began. After a call the
caller retains the new list and may call again with any other, so errors of one
call are met by the next.

`Form` says who calls: `slot` (a `<Slot>` below a parent, between other children
`Before` and `After`), `children` (a matched widget's children, at 0), `list`
and `single` (a `<Slot>` without a parent, a whole tree). The recursion of
`ReconcileMatchedInPlace` is `children` on another parent: widgets own their
children, so calls on different parents share nothing and are checked one at a
time.

Left out: props but for one that is compared, the event props that are always
set again, portals but for who is prepared for unmount, exceptions of `Mount`.

### Runs

`reconcile` takes each form with lists of its own. `slot`: all orders of four
keyed rows and three shorter lists, one other child on either side. `list`: up to
three entries with a repeated key, unkeyed rows and tiles. `children`: up to two
texts. `single`: any component to any other, with a key that never compares
equal. `MCSpec` gives the widgets of `children` their names at the start, since
which names they have makes no difference.

The bounds. Four rows are the fewest whose orders need more than one pile to be
replaced in the patience sorting and for which the kept set is not a run of
neighbours; three entries give repeated keys and both tags among unkeyed
entries, so that the one cursor of pass 2 stops early; two calls in a row are
enough for a stale diff, and the runs allow any number. There are as many
widgets as a call can hold at once, old and new.

`MatchIsCanonical` says what the two passes compute. Among the entries with one
tag and key the first new takes the first old, and so on. The unkeyed old
entries that match are the longest prefix of all unkeyed old ones that occurs,
tag by tag and in order, among the unkeyed new ones. That second half is also a
fact about users: an unkeyed entry removed from the front, with no later entry
of its tag, costs all those behind it their widgets.

### Finding

`reconcile_none`: `FilterOrdinary` (`Reconciler.cpp:222-230`) removes `<Slot>`
children from the lists of a matched widget, but not `None` ones, although
neither has a widget (`SlotResolution.h:28-29`). The call at line 246 then
breaks its precondition (`Reconciler.h:63-65`): every position behind the `None`
child is one too high. The slot's own output is filtered
(`SlotRuntime.cpp:212-214`).

## SlotTree

Where the widgets of a `<Slot>`'s output are. A parent's children are those of
its tree with the outputs of its slots spliced in, and no slot stores its
position: `AbsoluteIndexOf` adds up the static children before it and what the
slots before it in the group rendered last. The recursion (`Resolve` of a node,
`Run` of a slot, `Destroy` of a slot) is an explicit `stack`, so a slot may be
looked at while another one, up or down the tree, is half done.

| Variable | Code |
|---|---|
| `alive`, `children` | the widgets and `IWidget`'s children |
| `parent`, `group`, `place`, `count` | `AttachedParent_`, the `SlotSiblingGroup` and its `Entries_`, `AttachedGroupIndex_`, `AttachedCount_` |
| `previous`, `nested` | `PreviousSingle_`/`PreviousList_`, `NestedSlots_` |
| `slots` | the `SlotState` objects that exist |

The instance has six slots on three levels: three among the root's children
around a `None` and a panel with a slot of its own, and two below an entry that
the first one returns in changing places. They re-run and are dropped in every
order. `ChildrenInOrder` compares the widgets with the tree between calls,
`FindsOwn` says the range a slot is about to replace or detach holds its own
widgets, `LockStep` that discovery meets the right widget at each step,
`ParentAlive` that no slot is attached to a widget that is gone, and
`BareWhenDiffed` that a diff never runs over widgets that still hold a nested
slot's children.

Assumed, because the code does not guard against it: a callable does not throw
and does not end a batch (either leaves a count that is not what the slot has
spliced in), and the host destroys the slots of a tree before it reconciles the
tree as a whole: `ReloadTarget` diffs trees that do not list what live slots
have added. The ordinary children of a node never change in the model.

The module's assumptions say what a tree of components is: nodes, slots and
`None` are different things (`TreeAssumption`); components are values, so a node
has one place in one parent, and outputs of different slots share no node
(`PlaceAssumption`); and a tree is finite, which `Height` measures
(`HeightAssumption`). A callable may return the same node in many outputs, at
another place each time.

## NyxDriver

One `.irisx` component per file. `InvokeComponent`, the conversion of its render
block and `InvokeChildComponent` call each other; the frames of that recursion
are the `stack`, and `Edit` may write a file between any two of its steps.

| Variable | Code |
|---|---|
| `disk` | the files |
| `documents` | `Documents_`, by the text each was compiled from |
| `scopes` | the file scopes and their interpreters, by the text they hold |
| `inst` | `ComponentInstance` with its `NyxDriverState`: body, render block, hooks, signals, output |
| `root` | the component the host holds |
| `ambient` | `IrisRuntime`'s stack of component instances |
| `fault` | a slot's run read a freed `Component`; the model stops there |

`Load` is the head of `InvokeComponent`; `MountBody`, `ReloadFunction` and
`ReloadClass` its first run, its re-run and `PatchClass`; `ImportChild` and
`ConvertChild` the child invoker, with `Matched` pairing a child with the
previous invocation at the cursor; `Return` and `Fail` its exits. The host calls
`MountRoot` and `ReloadRoot`; slots and lifecycle callbacks run in between
(`RunSlot`, `InvokeInstanceCallable`). What `shared_ptr` keeps alive is computed
from the host's root (`Release`).

A reload hands its render, and the slots of that render, a cursor over raw
pointers to the invocations of the tree before (lines 411-438). What the cursor
has not passed is `left`. The tree before owns those `Component`s, and the
instances in them, until `ReloadTarget::Reconcile` ends by moving the new tree
over it. `DropPrevious` is that moment: it may come at any time after the reload
(a slot that the host's reconcile mounts runs before it, a later one behind it),
turns what is in `left` into dangling pointers (`NoNode`) and releases what
nothing else holds. A slot's run takes an invocation from `left` while it is
there (`RunSlot`); `RunSlotOnFreed` is the run that finds a dangling pointer.

The instance: an entry, a function component with a hook and a class component,
with texts that drop or add a child, a signal, an import or the render block,
that throw or do not compile, saved up to three times. `MaxInstances` 8 is more
than any state needs, so no run waits for one (`MountBody` takes a free one).
`nyx_leftover` has an entry of two texts, without and with a slot, and two
components that do not change.

External: the Nyx interpreter, modelled by what the driver relies on
(`ReInvokeComponent` carries a value whose name and kind stay). Left out: the
registry of native components and its checks, arguments and props, exceptions of
`Instantiate` and `PatchClass`, a file that turns from function to class. Assumed: the host keeps the
tree before alive while `ReloadRoot` runs, and drops the slots of what was
rendered anew; it may keep the old root if a reload fails. A slot of the render
before is taken to end when the new render returns, although its closures live
until the host has reconciled: a run of it in between is not modelled. `RendersEnd`: no component invokes
itself outside a slot, through whatever texts of the others, as its render would
not end. The driver does not look for such a circle, and since a cached document
may be older than its file, the assumption is about all texts a file ever has.

What the code does and the model shows, without a run of its own:

* When the reload of a nested component fails, its parent's output has a
  component without instance in its place: the state is lost and the next reload
  mounts it afresh, although the comment at 522-528 speaks of leaving the last
  known good one. `PositionsKept` allows `NoInst` for this.
* A fresh mount after a repaired compile error pairs the new render block with
  the old file scope: hence `file \notin failed` in `SameText`.
* A file's scope is cached with the text of its first use even if that text does
  not declare the component (`declares`): a mount fails then, also when the file
  has been corrected, until a reload of a mounted instance patches the scope.
* A component mounted newly by a reload uses the cached document of its file.
* Before the host has replaced its tree, the cursor gives an invocation that is
  left to the slot, whose component is then reloaded in place of being mounted.
  `IrisNyxDriver.h:207-208` says that an invocation reached only through a slot
  always mounts fresh, as the collector does not see a slot's output. That is so
  of the tree before; the output of the slot that runs now is matched with the
  static invocations of the tree before. `OneHolder` holds all the same: the cursor
  gives out an invocation only once, and no static child has it any more.
* A function component's reload registers all its signals again; the
  instance's `NyxSignals_` only grows.

### Findings

`nyx_stale`: `InvokeComponent` (line 370) forgets the cached document of the
entry only if the previous instance carries driver state. After a first run that
threw, it carries none, so `ReloadRoot` renders the text that threw, however
often the file is corrected. `IrisNyxDriver.h:183` says the reload re-reads it
from disk.

`nyx_leftover`: a reload whose text invokes fewer components outside its slot
than the text before leaves invocations under the cursor. The slot runs, the host
replaces its tree, a signal is set and the slot runs again: if an invocation was
still left, the run compares the tag of a freed `Component` and may take its
instance over (line 430). The instances are shared, the `Component`s are not:
`AdoptResultInstance` (`ComponentInstance.h:294-297`) keeps only those of the
output itself. `IrisNyxDriver.h:275-278` says that what a slot's closures captured is
still valid when `Tick` runs them. It shows when the slot's first run picked
nothing, or when more than one invocation is left, since each run that picks
something passes one.

`OneHolder` holds up to the fault and says nothing of what a run on a freed
`Component` does: `Next` ends there.

## ClangdProxy and LanguageServer

Three actors: the main thread, which takes one message of the editor at a time;
the proxy's reader thread, which stores replies and publishes diagnostics; and
clangd, behind two pipes. A handler is cut where another actor can see a
difference: where it takes or drops `DocumentsMutex_`, writes to a pipe, waits.
`main.at` and `reader.at` say where the two threads are, `main.method` which
request is served. `HandleDefinition` has an action for each way to a reply
(`ReplyUnopened` under the lock, `ReplyDeclaration`, `ReplySelector`,
`ReplyNothing`, `ReplyCame`, `Translate`), `HandleCompletion` its one reply at the
end (`ReplyItems`, `ReplyCame`). A text is the number of
the edit that set it, a position is the number of the text whose line map it was
computed with, and a set of diagnostics names both texts it was merged from.

| Variable | Code |
|---|---|
| `docs`, `shown` | `Documents_`; what the editor was last sent |
| `proxyUp`, `tried` | `Proxy_`, `ProxyStarted_` |
| `proxy` | the fields of `ClangdProxy`: streams, `NextRequestId_`, `PendingResults_`, `OpenedDocuments_`, `ReaderStopping_` |
| `toChild`, `fromChild`, `child` | the pipes; what clangd holds and owes |
| `process`, `sigpipe` | whether `iris-lsp` lives, and the SIGPIPE disposition it inherited |

clangd may crash at any moment, or never have started; it may answer null, send
a request of its own, and skip diagnostics of a text that was replaced, but
never sends older ones after newer ones. Closing a stream that the other thread
is about to read is undefined: the model takes end of file or a crash.

`lsp`: one document of each extension, so the proxy's one-time start meets both;
two edits, so there is an older and a newer text, clean or not; one query and
one request of clangd's. The three invariants are also
proved for any number of them. Left out: a full pipe that blocks a writer, a failing
`fdopen`, what a completion inside a render block offers.

Fairness, weak, of the main thread's steps, of the reader's, and of clangd
reading, answering and ending when its input ends: the threads are scheduled and
clangd is a working program until it crashes. Neither the editor nor crashes are
fair. `CleanSettles` is stated for behaviours in which clangd survives and the
document in the end stays open and compiles.
`CHECK_DEADLOCK FALSE`: the server stops at `exit` and on a signal.

What the code does and the model shows, without a run of its own:

* SIGPIPE is left at its default: a write to a clangd that died, also the very
  first (`ClangdProxy.cpp:248`), ends `iris-lsp`, though `Server.cpp:293` has a
  path for a failing start. Hence `process # "up"` in `EveryMessageHandled`.
* A `.irisx` document that compiles after a `.iris` one is sent to clangd as C++
  (`Server.cpp:299` tests only that there is a proxy).
* The destructor closes the output stream while the reader may read it once
  more (`ClangdProxy.cpp:53-60`).

### Finding

`lsp_stale`: `HandleClangdDiagnostics` publishes after it has unlocked
(`Server.cpp:365`). A text that arrives in between has its own diagnostics
published first and then replaced by the older set. If it does not compile,
clangd is not told and nothing corrects the editor.

## RenderBlockParser, Backends and Compile

`RenderBlockParser` is the recursive descent as a machine: a frame of `stack` is
a call of `ParseRenderBlock`, `ParseElementAfterLAngle` or `ParseJsxEscapeHatch`,
a step an iteration of one of their loops or an error return; `reader` is the
token reader below it with its one token of lookahead, the queue of punctuation
split from one raw token, and the raw position at which an escape hatch goes on.
`Backends` has, as functions of the parser's tree, the validation, the component
that generated code constructs (`Emit`), and the way over the IR document
(`SerializeElement`, `ParseElementNode`, `Convert`). `Compile` has the rest of
`CompileFile` and the language server's line maps and highlights.

A file is a sequence of tokens with their lines and whether whitespace precedes
them. Positions are token indexes; a token is as wide as its text, and a column counts
those before it. Unterminated strings, a comment between `import` and its name,
the C++ spelling of the output and the JSON text are abstracted. Code generation
joins the pieces of a text with a bare ` + ` (`Codegen.cpp:215-221`), while the
run-time conversion turns each piece into a string and then concatenates; the model compares the
pieces, so a hatch whose operators bind weaker than `+`, or two numbers that are added
before anything is a string, are differences it does not see. Nyx expressions
are external.

`compile` reads two files (nested braces, keys, comments, hatches in hatches,
elements in props, several blocks on a line) with every token dropped, replaced
or preceded by one of ten words, as C++ and as Nyx, and every element of eleven
tags, ten attribute lists and 43 lists of children. There are imports before and
behind the blocks, so that edits have to be sorted, and a file with the word
`import` in the text of an element. One edit is enough to leave
each loop at each of its exits, and the passing run takes every action.

* `Advances`: every step goes on in the file or leaves a frame: the parser ends.
* `BlockEndsAtBrace`: whatever is wrong in a block, the parser is behind the
  brace that closes it when the block is done.
* `AcceptedIsWritten`: the tree of an accepted block, written out, is the block.
* `BackendsAgree`: both backends accept the same blocks and build the same
  components. `Comparable` lists what they treat differently: a prop given
  twice (the first counts in C++, the last in Nyx), `text` on `<Text>`, a string
  for a prop of another type, more than a builder in `<Native>`, elements in
  hatches outside a slot.
* `HostKept`, `LinesKept`: host code and its lines survive, in C++ files without
  an `import` in a block (`ImportsOutside`; see below) and in all Nyx files.
  `LinesKept` also assumes
  that `import` and its name share a line (the include is written on one), and
  excepts, in the direction to clangd, tokens before a block that ends on their
  line: the comment "exact down to the column" in `VirtualDocument.h` is not
  true of those.
* `HighlightsFit`: decoded as the editor does, the highlights cover tokens of
  their kind and do not overlap, with two exceptions. `SemanticTokens.cpp:36-38`
  assumes no space between `<` and a tag, which the parser allows
  (`TagsFollow`). And a closing tag is highlighted with the width of the opening
  one, so one of another name is covered in part or with what follows it
  (`MisnamedClosings`), as the comment at 72-77 admits.

What the code does with an `import` in a block, which is in the inputs of the run:
`ScanImports` reads the whole file and takes `import` followed by a word in the
text of an element for an import. Its edit lies within the block's, which
`Driver.cpp:74-77` excludes ("Edits never overlap"). When the name resolves, the
file compiles without an error, and the loop at 195-199 computes a length below
zero, which wraps: the rest of the file is copied, with the block in its source
form, and then again from within the block. `HostKept` fails without its exception.

Other things the code does, found while modelling: the comment at `IrisIr.cpp:310` says
imports are cut from `body`, but their text stays in the source nodes; of two
`key` or `ref` attributes the first is dropped silently; a hatch whose body ends
in a `//` comment swallows the rest of the generated line. The inputs of the
run have none of these.

## Proofs

`SlotRuntimeProofs` proves, for every set of signals, sites, addresses and bounds that satisfies the three assumptions of
`SlotRuntime` (a slot is nested deeper than its owner; an occurrence of `<Slot>`
is in the output of one callable only; the names differ):

| Theorem | States |
|---|---|
| `TypeCorrect` | the types, and that the queue and the pass hold no slot twice |
| `Inductive` | the inductive invariant `IInv` |
| `NothingDangles`, `RegistryFaithful`, `NoWriteLost` | `NoDangling`, `SubscriptionsExact`, `NoLostUpdate` |
| `EverySlotOnce` | `OneSlotPerSite` |
| `Implements` | every behaviour of the runtime is one of `ReactiveView` |

None of the invariants is inductive alone. That nothing dangles after `Destroy`
needs that no live slot is owned by the destroyed one, that no frame and no
other destructor names it, and that the active stack is empty; so `IInv` adds
`ControlOK` (only the innermost frame runs component code, the stack of active
slots is that frame or empty, destructors run only while a frame clears),
`OwnershipOK` (nested slots are deeper than their owners, so the destructor
stack is strictly ordered by depth, and a slot that was just found has nothing
to clear) and `OutputOK`. That no write is lost needs `SubscriptionsExact`: the
subscribers `Notify` walks are exactly those whose history says they read. The
refinement adds `Justified`: what is dirty, about to be marked or re-entered is
behind, so a run of a callable is always one the view allows. `OneSlotPerSite`
needs `SitesOK` besides: the runs under way go down the tree of sites, a run that
is inside its callable owns no slot any more, and no slot of a site still to be
found exists. Only this theorem uses that an occurrence is in one output.

The steps are one lemma per conjunct (`NextTypeInv`, `NextOwnership`,
`NextOutput`, `NextNoDangling`, `NextSubscriptions`, `NextNoLostUpdate`), each
by cases over the actions; lemmas about the pointer lists and the frame stack
come first.

`ReconcilerProofs` proves, for lists of any length, any keys, any widgets and
any other children around a slot (`SlotBefore`, `SlotAfter`; the other forms have none):

| Theorem | States |
|---|---|
| `Inductive` | the inductive invariant `IInv` |
| `ListsShown` | `NewListShown`: the children end as the new list, the others stay put |
| `MatchedSurvive` | `WidgetsSurvive` |
| `KeptAreInPlace` | `KeptInPlace`, the "by induction" of the comment at lines 363-368 |
| `UnmountedGo`, `TypesHold` | `UnmountedIsGone`, `TypeOK` |

From the two assumptions of the module and `NoneFree`: no list has a `None`
entry. `ListAssumption` grants that for all forms but `children`, where the
finding shows that it can fail, so the theorems say that this is the only thing
that goes wrong.

The argument: `MatchOK` makes the match injective between entries of one
identity. `KeepOK` says a predecessor comes earlier in both lists, so the walk
collects an increasing set, of whatever length. `Removed` counts: in the remove
loop the old entries up to `n` are untouched, and the kept entry `o` behind them
sits at `Base + n` plus the number of kept entries in `n+1..o`; so nothing is
addressed after it shifted. `Inserted` is the same for the insert loop by new
positions, and because the kept set is increasing, the two counts agree where
one loop hands over to the other (`KeptAsStay`). At `n` that number is 1, which
is `KeptInPlace`. `BuiltOK` collects the finished prefix. Every action has its
lemma (`BeginStep` to `RetainStep`); `RemoveSplice` and `InsertSplice` are what
they share.

`MatchingProofs` proves what the two algorithms of the reconciler compute, for
all lists, with `None` entries or without:

| Theorem | States |
|---|---|
| `KeepsLongest` | `KeepIsLongest`: no larger set of matched entries keeps its order |
| `MatchesCanonically` | `MatchIsCanonical`: which old entry every new one takes |

`KeepsLongest` gives every position of the new list the pile it was put on. Two
positions of an increasing set are never on one pile, so no such set is larger
than the number of piles; and the walk back takes one position from each. That
needs that the recorded predecessor is on the pile before and smaller, which is
true when it is recorded and stays so because a pile's top only comes down.

`MatchesCanonically` is two arguments. For pass 1: when the loop comes to entry
`n`, the old entries of its class that are taken are those of a lower rank, so
the search finds the one of `n`'s rank. For pass 2: whatever embeds a prefix of
the unkeyed old entries sends those behind the cursor to new entries still
ahead, so the greedy cursor reaches as far as any embedding.

`NyxDriverProofs` and `NyxPlacesProofs` prove, for any files, texts, component
kinds, number of instances and edits:

| Theorem | States |
|---|---|
| `SignalsAreOwn` | `OwnSignals` |
| `HooksStayCurrent` | `HooksAreCurrent` |
| `ValuesAreKept`, `UnchangedIsTrue` | `ValuesSurvive`, `UnchangedKeepsState` (of every step) |
| `DocumentsStay`, `TextsAgree` | `DocumentStays`, `SameText` |
| `PlacesAreKept` | `PositionsKept` |
| `PlacesAreDistinct` | `OneHolder` |

From the module's assumptions: `DriverAssumption` (the types of the constants)
and `RendersEnd`. All of them hold with `DropPrevious` at any moment, and up to the
first run that reads a freed component; what such a run does is undefined, and
that it can occur is the finding `nyx_leftover`.

The argument. `Sound` has the types, the shape of the stack and `OwnSignals`.
Its heart is the shape: only the innermost frame acts, the frames below wait in
`convert`, the ambient stack holds exactly the instances whose body runs, and an
instance made by a first run is not mounted before that run returns. The rest is
two descriptions of what a step may do. `EachInstance` says it of one instance:
nothing, or be released, or be changed in one of the ways the frame that renders
it may. `EachFrame` says it of one frame. `ValuesSurvive`,
`UnchangedKeepsState` and `HooksAreCurrent` follow from the first by cases.
`DocumentStays` needs `FilesOnce`: no file is on the stack twice, or the inner
load would invalidate the document the outer one is converting. This is where
`RendersEnd` is used, and the code has no other reason for it.

`PositionsKept` speaks of two renders of one instance with other renders between
them. `Refs` says that a node's instance is of the node's component and is
mounted or left by a first run that failed; it rests on what `Release` destroys
being unreachable from all that remains. `Reach` is built in as many rounds as there
are instances; that this closes it is a count, for a round that is not the last
adds an instance. `Positions` then says for every frame: the part of the last
render that the cursor has not come to is still what that render left
(`Following`), and what it has passed was answered with the same instance if the
tag was the same and the instance is still there (`Answered`). A component below
cannot disturb this, since it is another instance: by `FilesOnce`, no two
renders on the stack are of one.

`OneHolder` relates all trees of instances at once. `HeldOnce` says that there is
a map `own` from every instance to the one place that may hold it: the list of
children of a component, the entry left by a render that failed, a slot's output,
the instance inside a bare invocation, or the top. Places differ, so an instance
that two lists hold would have two values of `own`. The components that a chain of
bare invocations makes share one list, which is why `own` names the head of such a
class (`cls`, `OneHead`), and chains end (`ChainsEnd`). The instances whose lists
claim only what is theirs (`Claims`) form two disjoint forests: `V`, which the host
keeps, and `W`, the tree that a reload or a slot is giving up while it renders
anew. This is what makes a half-done reload describable: it takes one class at a
time out of `W` (`Relabelled`, `ForestTaken`), a run of a slot splits what its
instance holds from the rest (`SplitClosed`), and a release destroys nothing that
the forest it is not in reaches (`RootedRelease`).

`SlotTreeProofs` proves, for trees of components of any size and depth, any
callables, and every order in which the host runs slots and drops them:

| Theorem | States |
|---|---|
| `TreeInvariant` | the inductive invariant `Inv` |
| `ChildrenStayInOrder` | `ChildrenInOrder` |
| `ParentsStayAlive` | `ParentAlive` |
| `OutputIsFound` | `FindsOwn` |
| `WalkIsInStep` | `LockStep` |
| `OutputIsBare` | `BareWhenDiffed` |

From the module's three assumptions, named above.

The argument. A slot's last output is not always what its parent shows: from the
splice to the end of its `Reconcile` the new output is there, while `previous`
and `count` are still of the old one. So `Inv` says that there is an assignment
`sh` of what every slot shows, and `Good(sh)` says what follows from it:

* `ShownOK`, `SettledOK`: `sh` is in the callable's outputs, empty for a slot
  that does not exist, and the last output of a slot that no call has spliced.
* `TreeOK`: the widgets alive are those that the host's tree and the outputs
  reach, and the children of each are its component with every `<Slot>` replaced
  by what `sh` says (`Spread`).
* `GroupsOK`: the entry of the `j`-th `<Slot>` of a node is the `j`-th of its
  group, its static prefix the number of ordinary children before it, and it is
  live as long as the slot is. `Position` concludes that `AbsoluteIndexOf` is the
  length of what is spread before the slot: an addition over a group and a
  concatenation over a component are the same count.
* `OwnersOK`: every slot is in one list of one owner, or a call has just taken
  it out or has yet to put it in.
* `FramesOK`: where each call is. The two counters of a walk are the widgets and
  the ordinary children before it; of what it has not come to, no slot exists.
* `CallsOK`, `Nested`: each call is the one its caller waits for, and calls go
  down the tree by `Height`. So no two calls are about one slot, and a slot
  below cannot disturb the group that a call above is building.

`Rebuilds` is the centre: to replace one slot's range in one widget makes the
tree of the new assignment, and changes nothing for any other widget
(`AreasApart`: the nodes below different slots are different). It needs that
nothing below the old output holds a slot, or a widget that goes would leave a
slot behind: `AreaBare` derives that from the nested list being empty, which is
why `NestedSlots_.clear()` must come first. Each action has its lemma
(`FlushGood` to `RemoveOwnGood`); `AroundClearing`, `AroundSplice` and
`AroundDestroy` say which calls can be under way around it.

The induction is always over numbers, as the search for a least counterexample:
over the stack, over the entries of a group, over the children of a component.
What a node reaches (`Static`, `Below`) is shown to be the least set closed under
its children (`ReachLeast`), since the recursive functions say only that they
are a solution.

`LanguageServerProofs` proves, for any documents, any number of texts, requests
and messages in the pipes, and any moment at which clangd crashes:

| Theorem | States |
|---|---|
| `Inductive` | the inductive invariant `IInv` |
| `EveryRequestAnswered` | `OneReply` |
| `PositionsFit` | `PositionsMatchText` |
| `NumbersOnlyRise` | `NumbersRise` |

From the module's two assumptions: there is a document, and the bounds are
numbers.

The argument: `Holds(text, q, i, d, v)` says that clangd holds text `v` of `d`
once it has read `i` messages of the pipe `q`; four lemmas say how it fares when
a message is added at the end or taken from the front. `QuestionsFit` asks it of
every request in the pipe, which becomes `PositionsMatchText` when the request
is the first. A new request keeps it because of `Synced`: at the end of the pipe
clangd holds the newest text of every document that compiles, except for the
one the main thread has in hand (`Pending`). That in turn needs `StartInv`
(before clangd is forked no other document compiles, or it would have been
started for that one) and `AskInv` (no text arrives between the lookup and the
request, as only the main thread takes texts). `NumbersBelow` puts the texts in
the pipe below the one in hand. `PipeMoves` says in which seven ways a step
moves the pipe, `Hands` and `Settled` what it may do to the text in hand; the
invariants of the pipe follow by cases over those.

`RenderBlockParserProofs` proves, for source files of any tokens and any length:

| Theorem | States |
|---|---|
| `Inductive` | the inductive invariant `IInv` |
| `ParserAdvances` | `Advances`: the parser ends |
| `BlocksEndAtTheirBrace` | `BlockEndsAtBrace` |

From the one assumption of the module: a file is a finite sequence of tokens of
the six kinds.

The argument. `Reading` says that the token reader loses nothing: after the
lookahead, or after the current token when there is none, come the queue of
punctuation and then the raw position, without a gap, and the queue is part of one
run of punctuation. So a token consumed is a token further on, whichever of the
three it came from (`AdvanceFacts`); and a hatch, which skips to the raw position,
skips nothing else, for the queue is empty when the current token is a brace
(`HatchFacts`). `Stacked` says which calls can be in progress: a block, then
elements and hatches, and a hatch is in an element.
`Tracked` is what `BlockEndsAtBrace` needs: the braces that are open in the file
from the block's own to the current token (`Level`, `Within`) are as many as the
calls in progress have counted, each by itself, in its own loop (`Weight`,
`Weighs`). Every brace the parser consumes is consumed by one that counts it
(`TrackedMoves`), and an error return that leaves the cursor leaves the sum
(`TrackedStays`). No stack weighs nothing (`Heavy`), so the count never reaches 0
inside the block; when the block's own frame is left with one open brace and a `}`
is next, that is the brace that matches (`BlockBehind`).
For the end of the parse, `Tasks` is the set of what is left to leave, and a step
that consumes nothing makes it smaller (`FewerTasks`, `Returned`, `Replaced`).
Every action has its lemma (`PrimeStep` to `EndJsxStep`), all with the conclusion
`StepOK`.

Only model-checked:

* `EventuallyRendered`, `EveryMessageHandled` and `CleanSettles`: liveness under
  fairness is out of the prover's reach.
* `AcceptedIsWritten`, `BackendsAgree`, `HostKept`, `LinesKept` and
  `HighlightsFit` of the compile pipeline. They compare whole trees, and their
  modules follow the code's recursion over trees with recursive operators, which
  the prover cannot use. Where a proof above needs induction over numbers, it takes
  the least counterexample instead (`LeastNumber`); that does not help with an
  operator the prover cannot expand. `RenderBlockParser` itself has none: the
  recursive descent is a stack there.
* `ReloadReadsDisk` and the other properties of runs that end in a violation are
  not theorems: they are false.

## Not modelled

* Concurrent writes to signals (`SlotRuntime.h:216` lets a background thread set
  one): the containers have no lock, so this is a data race from its first step.
* Exceptions of slot callables, of `Mount` and of `Instantiate`: nothing in the
  repository catches them (`InvokeInstanceCallable` catches those of Nyx's
  lifecycle callbacks). The models say where they assume that none is thrown.
* `PreparePortalSubtreeForUnmount`, `Portal.h`: a plain walk that ends in the
  widget library. `UnmountedIsGone` says which widgets it is called for.
* `ReloadTarget`: one call of `ReconcileWidget`, which `Reconciler` models.
* The replay of compiled signals in `ComponentInstance.h`: nothing outside the
  unit tests calls it. `NyxDriver` models the interpreted components' reload.
* The root and reload registries: two lists filled before `main`.
* `IrisConfig`, the JSON text of the IR, the command line of `irisc`, the framing
  of JSON-RPC messages: reading and writing without state.
* `RenderTextHeuristics` (what a completion inside a render block offers) and the
  spelling of tokens: no property depends on them.
* The build scripts, the editor plugins and the skill: no program logic.
