# go-augeas in TLA+

go-augeas is a Go library that reads configuration files into a labelled tree,
lets a program edit the tree through path expressions, and writes the files
back. It has its own interpreter for the lens language, with the lens corpus of
upstream Augeas embedded. This directory holds a model of it: TLA+ modules, TLC
configurations, and theorems checked by TLAPS. Line numbers are those of the
modelled commit.

## 1. Inventory

| Component | Source | State | Operations |
|---|---|---|---|
| Node structs | `node.go` | label, value, parent, children slice | `newNode`, `appendChild`, `removeChild`, `child`, `firstChild`, `index`, `segment` |
| Path expressions | `path.go` | none | `parseSteps`, `eval`, `buildPath` and their helpers |
| Editing handle | `augeas.go` | root, variables, last error | `Get`, `Exists`, `Match`, `Label`, `Set`, `SetMultiple`, `Insert`, `Remove`, `Move`, `DefineVariable`, `DefineNode` |
| Text store | `lens.go` | registry of named lenses (a global map) | `TextStore`, `TextRetrieve`, `Register`, `LensByName` |
| Load and save | `fs.go` | the disk, `/augeas/files/.../error` nodes | `Load`, `Save`, `recordError` |
| Corpus lens | `corpus.go` | one skeleton text per lens, behind a mutex; the Engine of a handle | `Parse`, `Build`, `Lens`, `fileLens`, `LoadFile` |
| Lens get and put | `internal/interp/get.go`, `put.go` | register array and index, key, value, sequence counters; on put also the skeleton, the dictionary and the split of the forest | `LnsGet`, `lnsParse`, `LnsPut` |
| Recursive get | `get.go`, `rec.go` | memo and busy marks per (lens, position) | `recState.parse` |
| Module loading | `eval.go`, `thunk.go`, `rec.go`, `value.go`, `builtins.go`, `api.go` | module cache, thunks (forcing, done, value, error) | `LoadModule`, `Lookup`, `force`, `eval`, `apply`, the native functions, `Autoload` |
| Lazy regexps | `regex.go` | built, compiled, number of groups | `build`, `match` |
| Automata | `automata.go`, `dfa.go`, `minus*.go` | none (values) | `determinize`, `complement`, `intersect`, `toRegexp`, `faMinus` |
| Lens construction | `lens.go` (interp), `square.go`, `rec.go` | none (values) | types of composed lenses, the enumeration of a square's delimiters |
| Tree commands | `treecmd.go`, `tree.go` | a test's tree | `set`, `clear`, `rm`, `insa`, `insb` |
| Front end | `lexer.go`, `parser.go`, `ast.go`, `escape.go`, `regex_translate.go` | none | text to syntax tree, POSIX to RE2 |

### How they interact

A handle owns one tree. Its methods evaluate a path (`path.go`) against the
tree and the variables, then edit node structs (`node.go`). `TextStore`, `Load`
and `LoadFile` call a lens' `Parse` and hang the nodes it returns below a
destination; `Save` calls the lens' `Build` on a node and writes the result. A
corpus lens (`interpLens`) calls `interp.Get` and `interp.Put`; it remembers the
text it parsed last, and `Put` takes from that text everything the tree does not
hold. A lens obtained once can be given to several handles, each used by a
goroutine of its own: the lens, its skeleton and its compiled regexps are what
goroutines share, besides the file system.

### What is hard, and what makes each component correct

*Node structs.* Parent and Children are two records of one relation, rewritten
by hand in six places. Children is a slice: two headers may share an array.
Correct: the links agree, no array is shared, positions lead back to the node.

*Editing handle.* Variables hold nodes that later calls take out of the tree.
Methods fail half-way and undo nothing. Correct: every call changes the visible
tree by one step of the abstract tree, does what it reports, and a failure takes
nothing away.

*Load, save and the corpus lens.* The skeleton belongs to the lens, not to the
file: it is overwritten by every Parse. Several goroutines and other programs
change the files. Correct: what is written reads back as the tree, unchanged
lines keep their layout, and no file is passed over in silence.

*Lens construction, get and put.* The expression of a lens decides how its
groups are numbered; get, parse and put count along those groups by hand. A
recursive lens is parsed with a memo filled while a cycle is cut, with one result
per end, and with sequence counters that attempts in vain advance. Put chooses
branches by the tree, takes layout from skeletons that may not be of that branch,
and hands them out by label. Correct: get returns the one meaning of a text; what
put writes means the tree; what the tree did not change keeps its text.

*Module loading.* A binding is evaluated on first use, its value or its error is
kept for all later calls, and modules refer to each other; nothing takes a lock.
Correct: an answer is the meaning of the binding, whatever was asked or failed
before; cycles end in an error, and only cycles do; LoadFile takes the first lens
that claims the file.

*Automata.* Subtraction complements and multiplies automata over intervals of
bytes. Correct: the result matches the words of the first operand that the second
does not.

*Tree commands and parser.* Correct: a command changes the nodes its path
addresses and no others; a module means what was written, with the operators
binding as intended, and no token is passed over.

## 2. Modules

```
NodeHeap <- PathExpr <- PathText <- Augeas <- AugeasProperties <- MCAugeas
                           ^                     |          ^
                           |                     | INSTANCE +--- AugeasProofs <- RefinementProofs
                           |                     v (refinement)       |
                           |                  ConfigTree <- MCConfigTree
                           |                     ^                    |
                           |                  ConfigTreeProofs        |
                  HeapAndTextProofs <---------------------------------+

KeyedLens <- FileSync <- MCFileSync
                 ^    <- FileSyncProofs

CaptureRegexp <- Lens <- LensWalk <- RecParse <- LensPut <- LensSession
                                                <- LensLaws <- MCLens

LazyBindings <- LazyBindingsProofs
    ^        <- MCLazyBindings
    | INSTANCE (refinement)
Interp <- Engine <- EngineLaws <- MCEngine
             ^   <- EngineProofs

Automata <- RegexpLaws  <- MCRegexp
TreeCmd  <- TreeCmdLaws <- MCTreeCmd
Parser   <- SyntaxLaws  <- MCSyntax
MCRegexp, MCTreeCmd, MCSyntax <- MCAlgorithms
```

An arrow points from a module to one that extends it. `HeapAndTextProofs`,
`AugeasProofs` and `RefinementProofs` take an INSTANCE of `Loops` for each loop.

**NodeHeap** (`node.go`, and Go's slices and collector). A heap is a record of
functions over node identities: `label`, `value`, `parent`, and a slice header
`arr`, `len` onto `array[arr]`. The length of an array is its capacity. `Append1`
is Go's `append`: it writes in place when there is room and moves to an array of
twice the size when there is none. That is exact for the capacities the runs
reach (1, 2, 4, 8). Headers rather than sequences, because `Move` copies a header
and the aliasing that follows is behaviour of the program. `Collected` is the
garbage collector: it frees identities nothing reaches and clears slots beyond
every header, so that the states stay finite and comparable. `Lost` is one more
identity, for a call that needs more than there are; `Return` of Augeas has the
guard that it was not used, which is how `NodeBound` and `Spare` bound a call.

**PathExpr** (`path.go`, `createPath` and `createFrom` of `augeas.go`). A path is
a sequence of alternatives `[lead, segs]`, cut at its top-level slashes. The
evaluation follows the code operator by operator, with sequences where the code
has slices, since the order of results matters to predicates and to the caller.
`CreateFrom` returns the heap with the nodes it made before it failed. The two
readers of a path differ in the code (blanks, `..`, `|`, `//`, predicates) and
differ here. A name is one word, but for those `Spelling` lists: these have marks in
them (`Mark`), the characters that a path gives a meaning, and `Has` asks for one, as
`strings.ContainsAny` does.

**PathText** (`path.go`, `segment` of `node.go`). A path as text, a sequence of words,
marks and numbers of positions. `BuildPath` writes the labels from the root down as
they are, with slashes between them and `[i]` behind those that siblings share.
`Read` is what eval does to a text before it evaluates: it trims, cuts at bars and
slashes outside brackets and quotes (`SplitTop`), takes names and brackets apart
(`ReadSeg`), and reads what is in the brackets (`Predicate`). What a caller passes is
given as PathExpr has it; a text is read where the code made it.

**Augeas** (`augeas.go`, `TextStore` of `lens.go`). One action per exported
method, each ending in `Return`: the heap it leaves, the bindings, whether it
recorded an error, and its result. `call` records the last call for the
properties; no action reads it. The alternatives of an action are the code's
returns. `Insert` has a third, the panic of its slice expression.

**ConfigTree** is the abstract specification: nodes, a parent function, a
sibling order, labels and values; five actions. It knows nothing of slices,
variables or paths. **AugeasProperties** states the refinement (`Tree`,
`EditsTheTree`) and the other properties of the handle.

**KeyedLens** (`internal/interp/get.go`, `put.go`): `Get` and `Put` of the lens
`[ key . del gap . store ]*`, the shape of most of the corpus. A line is
`[key, gap, value]`. It is small enough for the interleavings of FileSync; the
modules from Lens on have every shape, for one goroutine. `Line` is
`putSubtree` with the dictionary, which hands out skeletons per label in order.
It is written without recursion, for the proofs: `Entries` are the lines the loop
of get reaches, `Covered` the nodes the loop of put does, and the skeleton of the
i-th node of a label is the i-th of that label (`Skeletons`).

**FileSync** (`fs.go`, `interpLens` of `corpus.go`). Goroutines, each with a
handle, share one lens and one disk. A call is split where it touches what is
shared: glob, read, parse; build, write. `Outside` is another program writing or
deleting a file, `Edit` the caller changing a tree. Reads and writes may fail for
any reason; a failing write leaves the old text or an empty file, since
`os.WriteFile` truncates first.

**CaptureRegexp** (`regex.go`). Regular expressions with groups, as the code
composes them, and Go's leftmost-longest match as the external part: `Ways` lists
the ways to match in the order a backtracking matcher tries them, and `Match`
takes the first of the longest. Texts are sequences of tokens, a token standing
for a word or a separator no lens looks into.

**Lens** (`interp/lens.go`, `square.go`, `rec.go`). Lens values as records, one
operator per constructor, with the types the code computes: ctype with the groups
get counts along, atype with those put splits by, ktype and vtype. `Placeholder`
ties the knot of a recursive lens: its body is built twice, as `recomputeAtype`
does. `Words` enumerates a square's delimiters up to `SquareLimit`.

**LensWalk** (`getLens` of `get.go`, `parseLens` of `put.go`). The two take the
same steps over the same registers, so one walk returns the forest, the skeleton
and the dictionary. They differ in what they report for a text that get refuses,
and put never parses such a text.

**RecParse** (`recState` of `get.go`). Memo, busy marks and counters are a record
passed from call to call. The memo is by lens value where the code has a pointer.

**LensPut** (`LnsGet`, `LnsPut`). `putLens` and `createLens` are one operator: a
state without a skeleton creates. The forest is encoded and split as in the code;
the dictionary and the override of a square are threaded from part to part.

**LensSession** (`interpLens` of `corpus.go`): `ParseText`, `Edit`, `BuildText`
over one lens. **LensLaws** gives a lens its meaning without registers, matches,
memo or first results (`Readings`: every split, every branch, every repetition)
and states the laws against that.

**LazyBindings** (`thunk.go`). The protocol of `force` for any set of bindings
and any number of goroutines, without values: each goroutine has the stack of the
bindings it is in the middle of forcing. The check of `forcing` (`Check`) and its
assignment (`Enter`) are two actions, and so are the two assignments behind the
evaluation (`Store`, `Finish`): no lock is taken. It is the abstract specification
of the evaluator.

**Interp** (`eval.go`, `thunk.go`, `rec.go`, `value.go`, `builtins.go`). The
evaluator as a machine: `ctl` is the call or return that comes next, `frames` what
waits for a return. A step is one Go function up to its next call. `eval`'s
recursion is the stack, so that the module needs no recursive operator, an
evaluation can be observed in the middle, and a cycle is a property of states.
Strings, regexps and lenses are symbolic: what they compute is in Lens, LensWalk
and Automata. `Made` is what a constructor does once its operands are there;
`Unwind` is every `return nil, err`.

**Engine** (`api.go`, `corpus.go`). A call is `Engine.Lens` with a `Parse` of the
lens (`AskLens`, the machine, `GetLens`), or `LoadFile`, which tries the autoload
of one module after the other (`Autoload`, `PassOver`, `StoreFile`, `NoLens`). The
module cache and the thunks stay from call to call. The texts a Caddyfile or
Nftables lens refuses are a set; the glob matcher is a relation; that `createFrom`
fails because of what else is in the tree is an input (`clash`). **EngineLaws**
gives bindings a meaning without caches and thunks, `Value`, either lazily or in
the order of the text as upstream does, and states the promises against it and
the refinement to LazyBindings.

**Automata** (`automata.go`, `dfa.go`, `minus_fa.go`). Alphabet, Thompson's
construction, subset construction, completion, complement, product and state
elimination, on parsed patterns. Bytes go up to `MaxByte`. The nodes a state is
eliminated in are taken in any one order. **RegexpLaws** compares with a matcher
that works on patterns directly.

**TreeCmd** (`treecmd.go`). Forests as values, nodes known by location. `rm` in
the code removes the nodes it found one by one and looks each up by identity;
from the last location to the first is the same. **TreeCmdLaws** applies commands
one after another and says which nodes a path addresses one location at a time.

**Parser** (`parser.go`, `ast.go`), over tokens. For every function, `Symbols`
lists the tokens and functions it calls for, given the next tokens, and `Meaning`
what it makes of them. **SyntaxLaws** writes terms with the fewest brackets and
reads them back. **MCAlgorithms** checks these three pairs of modules in one run:
a behaviour is about one of them.

## 3. Runs

| Run | Configuration | States | Shows |
|---|---|---|---|
| `config_tree` | `MCConfigTree.cfg` | 590 | The abstract tree is ordered, rooted and stable on four identities. |
| `augeas_tree` | `MCAugeasTree.cfg` | 4442 | The handle, with paths from the root. |
| `augeas_vars` | `MCAugeasVars.cfg` | 3232 | The handle, with a variable whose nodes come and go. |
| `file_sync` | `MCFileSync.cfg` | 710 824 | Two goroutines, three files, one of them under a name the tree refuses, one lens. |
| `lens_laws` | `MCLens.cfg` | 5721 | Seven lenses that use every constructor: get and put against their meaning. |
| `lazy_bindings` | `MCLazyBindings.cfg` | 563 000 | Two goroutines, four bindings, two of them on a cycle. |
| `lens_language` | `MCEngine.cfg` | 46 900 | Two calls of one engine over ten modules. |
| `algorithms` | `MCAlgorithms.cfg` | 78 800 | Subtraction, tree commands and parser against their laws. |
| `move_inside`, `stale_insert`, `dropped_nodes`, `wide_runes` | one each | to the violation | Findings 1, 2, 6 and 8. |

Three more configurations, `MCSharedSlice.cfg`, `MCNumbered.cfg` and `MCOddLabel.cfg`,
show findings 3, 7 and 9. They are not among the runs above, and are there to be run by
hand.

### Properties

`config_tree`: `SiblingsInLine`, the children of a node stand in one
strict total order; `Rooted`, every node hangs under the root; `OrderStable`, two
siblings that stay siblings never change places.

`augeas_tree`: `TypeOK`; `LinksAgree`, Parent and Children agree in the tree and
no array is shared; `PathRoundTrip`, the text reported for a node, cut, parsed and
evaluated again, yields that node alone, if the labels on the way to it are words;
`EditsTheTree`, every call is a step of ConfigTree or leaves the tree alone;
`FailureOnlyAdds`, a failed call leaves at most new, valueless nodes;
`SetMultipleCovers`, a SetMultiple without error has set, below every base, all that
was at the sub path, and something is there now; `SetMultipleCounts`, the number
returned is that of the nodes set, and a SetMultiple that fails at a base has set the
ones before it and changed no other value; `RemoveIsExact`, the matching subtrees go
and no more, and the count is right, for nested matches too; `MoveKeepsSubtree`;
`WritesKeepNodes`, no write removes or rehangs a node.

`augeas_vars`: `ForestAgrees`, detached subtrees are trees as well, and every node is
among the children of its Parent, which is where Insert looks for it (so that, as the
proof of `ForestCorrect` shows, it does not panic); `EditsTheTree`;
`DetachedEditsStayOut`, calls on variables whose nodes have all left the tree do not
touch the tree. `stale_insert` checks `NeverPanics`.

`DiscardedIsGarbage`, that no variable holds a struct Move or TextStore discards, is
not a property of the code and no run checks it: it is the premise under which the
theorems of section 5 speak of handles with variables. The calls of `augeas_vars` keep
to it by construction (it has no TextStore, and the only destination of its Moves is
what the variable itself is bound to), those of `stale_insert` and `MCSharedSlice` do
not.

`file_sync`: `TypeOK`; `SkeletonParses`, the lens never remembers a text it
cannot parse; `OwnLayoutKept`, Build writes the lines the tree did not change as
they were when the skeleton is this file's text; `BuildReproducesTree`, what
Build returns parses to the tree it was given, whichever file or goroutine the
skeleton came from; `EveryFileAccountedFor`, every file the glob found ends up in
the tree or gets an error node, unless createFrom refuses its base name, and whatever
becomes of the files before it, those included. The comment of Load makes no such
exception: finding 10.

`lens_laws`: `GetIsRight`, Parse returns the only meaning of the text, or fails
when it has none; `BuildReadsBack`, a text Build returns means the tree it was
given; `BuildAccepts`, Build refuses no tree that some text means, whatever
parses failed in between; `LayoutKept`, an unchanged tree is written as the text
it came from; `UntouchedKept`, a node that is as it was keeps its text, wherever
it moved and whatever became of the nodes around it.

`lazy_bindings`: `FalseReportNeedsOther`, whoever is told that a binding depends
on itself is told the truth unless another goroutine is evaluating that binding.
So one engine used by one goroutine at a time never refuses a lens wrongly, and
the wrong refusals of several are those of simultaneous evaluation.

`lens_language`: `ForcingIsOwn`, a binding marked as being evaluated is being
evaluated by the call that is under way, so that a call that fails leaves no mark;
`MemoIsFinal`, what a thunk has stored no later call changes; `AnswersAreMeanings`, a call for a lens returns the
meaning of the binding, whatever other calls left in the cache and the thunks,
errors included; `ChoiceIsRight`, LoadFile takes the lens of the first module
whose transform includes the path, however many modules before it fail;
`AgreesWithUpstream`, a binding that has a value when evaluated in the order of
the text has it here too (`eval.go:62-66`); `ImplementsBindings`, the evaluator
takes the steps of LazyBindings; `EveryCallReturns`, also on cycles.

`algorithms`: `MinusIsDifference`; `RmIsExact`, rm takes away the nodes its path
addresses and what is below them; `SetIsExact`, set and clear change the nodes
addressed, or add one line of nodes, and a command that fails has changed nothing;
`InsIsAdjacent`, insa and insb put a leaf next to the one node addressed;
`ReadsBack`, a module written with the fewest brackets is read as what it was;
`NothingIsLost`, what the parser returns for any tokens says all of them, in order.

### Bounds

* `NodeBound`: four nodes in a state (root included), five or six for the
  findings; a call may use `Spare` = 3 more before the collector runs. Four nodes
  allow two same-named siblings with a child, nested matches, a full and a
  half-full array, a detached subtree of two nodes.
* Labels `a`, `b`, `..` (a segment `createPath` accepts as a label) and `x|y` (which
  Insert accepts, with a mark of paths in it), one value besides none. Two labels give
  same-named and different siblings; the methods compare values only for equality.
* The inputs (`TreeSet`, `TreeMove`, ...) are chosen so that every alternative
  of every action occurs: malformed, relative, union, predicate, wildcard and
  parent paths, matches of none, one and several nodes, and calls the code
  refuses. `augeas_tree` gives Move only destinations that keep its documented
  rule (or that the code refuses): what happens outside it is finding 1.
  `augeas_vars` has no TextStore: with it, Insert panics, finding 2. It has no
  append below a node that has been moved away and no Match of a removed node,
  findings 3 and 4.
* `VIEW Shape` renames identities in the order of a walk from the root and the
  bindings. It is sound here: identities are compared only for equality, no
  action reads `lastError` or `call`, and every property over steps is decided by
  the shape of the tree before and the call. Two states of one shape have the
  same behaviours up to renaming.
* `FileSync`: two files of one or two lines and one with a refused name, two
  goroutines of which one loads all files; `ChangeBound` = 2 edits, saves and changes
  by others in all, which is enough to change a file between two loads, or to edit and
  save with a change in between. `MCDroppedNodes` needs one goroutine.
* `MCLens`: the lenses `settings` (optional values, comments), `lists` (numbered
  items, a counter), `quoted` (a square with an enumerable delimiter), `elements`
  (a square with too many), `switches` (value, plus), `blocks` (recursion),
  `markup` (recursion through a square). Their texts are those of no, one or two
  pieces, with every separator and its alternative, and some that do not parse;
  the trees are those of all these texts. Every pair of a skeleton and a tree
  occurs, which is a deletion, insertion, exchange or change of any node of two.
  `SquareLimit` is 2 for the code's 10: the delimiters of `quoted` have two words,
  those of `elements` three. The lenses keep the rules of upstream's type checker,
  which the interpreter leaves out: branches of a union differ in their texts and
  in their trees.

* `MCLazyBindings`: four bindings, one used by two others and two that use each
  other, and two goroutines: each may be before, on or behind the cycle.
* `MCEngine`: `MaxCalls` = 2, since a call can only be affected by what an earlier
  one left. The modules have every kind of term, values of every kind where they
  do not belong, functions that take functions, a name bound again in an inner
  scope, a cycle in one module and across two, a `let rec`, modules that are
  missing, misnamed or do not parse, and files that are excluded, claimed twice,
  refused, unreadable or claimed by none. Functions that call themselves by name
  are left out (section 6). No module binds a name twice, as none of the corpus
  does (finding 11).
* `MCAlgorithms`: words of up to three of four bytes; 289 pairs of patterns with
  every operator; forests of up to `MaxNodes` = 4 nodes reached by any commands
  from three, with every kind of predicate; some four thousand modules of one or
  two declarations with terms two operators deep, and all continuations of three
  beginnings by up to `MaxTyped` = 4 of twelve tokens. `MCWideRunes` adds a rune
  above `MaxByte`, spelled in two bytes.

### Fairness

`Engine` assumes `WF_vars(InCall)`: a synchronous Go call that has begun goes on.
Nobody has to make a call. `LazyBindings`, `Augeas`, `LensSession` and `ConfigTree` have none: methods are synchronous, nobody has to call
one, and all their properties are safety. `FileSync` assumes `WF_sync(Step(g))`
for every goroutine: the Go scheduler runs a goroutine that can run, and file
operations return. Nothing is assumed of the caller (`LoadGlob`, `SaveBuild`,
`Edit`) or of other programs.

## 4. Findings

1. **`Move` below its own source loses the subtree** (`augeas.go:223`,
   `move_inside`). The check that the destination is not inside the source runs
   only when the destination exists. Otherwise `createPath` makes it inside the
   source, which is then cut out of the tree. `Move` returns nil.
2. **`Insert` can panic** (`augeas.go:169`, `stale_insert`). `TextStore`, `Load`
   and `LoadFile` set `Children = nil` and leave the Parent of the old children.
   Through a variable bound to one of them, `Insert` after it slices out of range.
3. **A moved slice stays shared** (`augeas.go:230`, `MCSharedSlice.cfg`). `Move` copies
   the slice header and leaves it in the source. Through a variable bound to the
   source, `SetMultiple` appends into the array of the destination and overwrites
   a child there.
4. **`Match` reports `/` for a removed node** (`path.go:380`, without a run): a
   variable keeps the nodes it was bound to, and the path of a node without a
   Parent is the root's.
5. **One skeleton per lens** (`corpus.go:194`, without a run). The comment of `Build`
   promises that the layout of unchanged parts survives; after a second file was
   parsed with the same lens, the first is written with the second's layout.
   `OwnLayoutKept` of FileSync has the condition `skeleton = loaded[g][f]` for this
   reason, and is violated without it.
6. **Nodes a lens cannot express are dropped without an error**
   (`put.go:417`, `dropped_nodes`), with every node behind them.
7. **Numbered entries of a recursive lens lose their layout** (`get.go:491`,
   `MCNumbered.cfg`). The skeleton of each terminal is made by a second walk with
   counters of its own, so that the dictionary files every numbered entry under
   "1", while the tree has 1, 2, ... An unchanged tree is not written as the text
   it was parsed from: `k{ u s v t }` becomes `k{ u s v s }`.
8. **Runes above 255 are lost in a subtraction** (`automata.go:62`, `wide_runes`).
   A range is cut off at 255, and a dot stands for the runes up to 255, while a
   literal rune above 255 is spelled in its UTF-8 bytes. The comment of `faMinus`
   promises L(r1) ∩ ¬L(r2); a class that reaches further no longer matches there
   what it matches elsewhere.
9. **A reported path need not lead back** (`path.go:378`, without a run). `Match`
   returns "the absolute paths of all nodes matching path" (`augeas.go:247-248`), as
   texts into which the labels go as they are. `Insert` refuses the empty label and
   those with `/`, `[`, `]` or `*` (`augeas.go:141`); one with a bar, a quote or a
   blank at its end it accepts. A node labelled `x|y` is reported as `/x|y`, which eval
   reads as `/x` or `/y`. The keys of a lens are not looked at by anyone: they may hold
   slashes and brackets too, and `createFrom` takes quotes, blanks and dots.
   `EveryPathLeadsBack` is `PathRoundTrip` for any label; `MCOddLabel.cfg` finds it
   violated after two calls.
10. **A failure that cannot be recorded is lost** (`fs.go:100`, without a run). Load
   says that a failure to read or parse a file "is recorded under
   /augeas/files/<basename>/error" (`fs.go:36-39`). createFrom refuses segments with
   `[`, `]`, `*` or `|`, and recordError then returns. Such a file, which Unix allows,
   is never in the tree, not even when it parses (`fs.go:65-68`), and nothing says so;
   the other files are not affected. `EveryFileAccountedFor`, stated of all files
   instead of `File \ Refused`, is violated by it. `root_cover_test.go:121-158` goes
   through both branches; its comment has the "error recorded under the sanitised
   base", but what it asserts, that the tree is not empty, the nodes `augeas` and
   `files` satisfy. (A quote in the name does no such harm, but `splitTop` takes the
   rest for quoted: the message is at one node labelled `it's/error`, below
   /augeas/files.)

Findings 3, 7 and 9 have no run among those of section 3; their configurations
are `MCSharedSlice.cfg`, `MCNumbered.cfg` and `MCOddLabel.cfg`, for the modules
`MCAugeas`, `MCLens` and `MCAugeas`.

11. Found while writing EngineLaws, without a run: **a name bound twice is not what
   it is upstream.** `eval.go:62-66` says that lazy evaluation "preserves
   behavioural compatibility for every binding that is used". All bindings of a
   module share one environment, in which the last binding of a name counts: in
   `let a = x  let b = a  let a = y`, b is y and not x, and `let a = a . b` behind
   an earlier a is an error, "depends on itself". The same holds of a binding with
   the name of a native function, such as `let key = key /x/`. No module of the
   corpus binds a name twice.
12. Without a run: **the checks of Caddyfile and Nftables texts go by the name
   asked for.** `corpus.go:109-117` compares with "Caddyfile" and "Nftables", while
   `LoadModule` finds modules in any case (`eval.go:48`, `57`):
   `Lens("caddyfile", "lns")` parses the texts that `corpus.go:86-98` says are
   refused for "both Engine.Lens(...).Parse and LoadFile". Engine has it so:
   `ParsedBy` looks up the name asked for.
13. Without a run: **`createFrom` takes `..` for a label** (`augeas.go:338-351`),
   which no step can name. With /a in the tree and no /b, `Set("/a/../b", v)` makes
   `/a/".."/b` and returns nil, and `Get` of the same path finds nothing;
   `SetMultiple("/a", "../b", v)` likewise, though its comment (`augeas.go:108-109`)
   has it create "the sub node where absent". This came up when `SetMultipleCovers`
   was to be proved; the property now says what holds with and without `..`.
14. Without a run: the error of a cycle names the binding only if it is a `let rec`
   (`thunk.go:32`, `eval.go:71`): otherwise it is "binding  depends on itself".

Three more things `MCLens` shows when its catalogue is extended, for which no run
is kept. A terminal tried in vain leaves the counters advanced (`get.go:485`): two
numbered alternatives with a common beginning number their items 2, 3, ... An
optional lens that yields no tree, `(del ..)?`, is written although the text did
not have it (`put.go:654-663`). When the trees of two branches do not differ, the
first is taken, and quotes, say, are lost (`put.go:580-592`).

Differences between comments and code that have no run, since nothing in the
model depends on them: `corpus.go:70-71` and `README.md` say Build is not
supported, and it is; `corpus.go:207-208` says a Build without a Parse writes the
canonical form, and for a lens that does not match the empty text it fails
(`switches`, and the precondition of `BuildAccepts`); `README.md:173-175` says that
lenses "normalise whitespace to a documented canonical form and drop blank lines",
which was so before there was a skeleton: `LayoutKept` and `UntouchedKept` show the
text of what was not edited kept as it is, blank lines and gaps included; results of unions and of `//` are not always in document order
(`augeas.go:247`).

## 5. Proofs

### The abstract tree

`ConfigTreeProofs` proves, for every set of identities (natural numbers, the
root among them: `NodeAssumption`), every set of labels and of values:

| Theorem | Statement |
|---|---|
| `TypeCorrect` | `Spec => []TypeOK` |
| `LineCorrect` | `Spec => []SiblingsInLine` |
| `RootedCorrect` | `Spec => []Rooted` |
| `Acyclic` | no set of nodes hangs from itself |
| `OrderCorrect` | `Spec => OrderStable` |

Identities are numbers because nodes made by one call line up behind each other
in the order they are made; nothing else is assumed of them.

The inductive invariant is `Structure /\ Contents`, where `Structure` is
`Links /\ SiblingsInLine /\ Rooted` and `Links /\ Contents` is `TypeOK` by
another cut. Its parts need each other: that the tree left by a removal still
hangs under the root uses `Rooted` of the tree before; that the sibling order
stays total when children change parents in `Move` uses both `Links` and
`SiblingsInLine`. The argument:

* `RegrownLinks`, `RegrownInLine`, `RegrownRooted`: what `Write`, `Prune` and
  `Store` have in common. A part of the tree that is closed under parent is kept,
  and new nodes are added behind their siblings. `AppendedInLine` is the fact on
  orders behind it and behind `Move`.
* `InsertStructure`, `MoveStructure`: the two actions that are different. `Move`
  takes the children of one node to another.
* `WriteStep` ... `MoveStep`: one lemma per action; `NextTree` joins them, and the
  theorems follow from `TreeInvariant`.

`Rooted` is stated over sets (a set of nodes that holds the root and every node
whose parent it holds is the whole tree) rather than by a path of parents: the
proofs need no induction, and a cycle or an orphan violates it.

### The force protocol

`LazyBindingsProofs` proves, for every set of bindings, every relation of uses and
every set of goroutines:

| Theorem | Statement |
|---|---|
| `IInvHolds` | `Spec => []IInv` |
| `ReportsAreTrueOrForeign` | `Spec => FalseReportNeedsOther` |
| `CycleErrorsTrueAlone` | with one goroutine, `Spec => []CycleErrorsAreTrue` |

`IInv` is `TypeOK /\ InForce /\ StackReaches /\ ForcingOnStack`. `StackReaches`
says that on every stack a binding uses, directly or not, those above it, and
`ForcingOnStack` that a binding marked as being evaluated is on somebody's stack:
with them, a goroutine that calls force on a marked binding either has it on its
own stack, so that it reaches itself, or another goroutine has it. `InForce` ties
the program counter to the stack, so that `Enter` and `Store` mark and unmark the
binding on top. For the last theorem the invariant is strengthened by
`FailingIsDoomed`, that a cycle error on its way has a reason below it.
Reachability is said with sets (b is in every set that holds what a uses and is
closed under use), so that no induction is needed. That the evaluator takes the
steps of LazyBindings is model-checked (`ImplementsBindings`); with the theorem it
says that a lens is refused as cyclic only if it is.

### The handle

`HeapAndTextProofs` and `AugeasProofs` prove, for every set of labels, values, paths
and variables, every bound on the nodes and every sequence of calls. They assume
`HeapAssumption` (the bounds are numbers) and `InputAssumption`: paths have at
least one alternative of at least one segment, and the labels and values given are
of `Label` and `Value`, which is what `parseSteps` and the lenses deliver; and
`SpellingAssumption`: two names are not spelled alike.

| Theorem | Statement |
|---|---|
| `TypeCorrect` | `Spec => []TypeOK` |
| `ForestCorrect` | `Spec /\ DiscardedIsGarbage => [](ForestAgrees /\ LinksAgree /\ NeverPanics)` |
| `LinksCorrect` | for a handle that binds no variable, `Spec => [](LinksAgree /\ ForestAgrees /\ NeverPanics)` |
| `EvalIs` | any path, in any heap whose references are sound, evaluates to allocated nodes |
| `ChildInsertedLinks` | placing a child at any index, in place or in a new array, keeps the links |
| `RemoveChildLinks` | `removeChild` keeps the links of all other nodes, and nobody lists the node |
| `TreeOnlyIsKept` | if no variable holds a node, what the collector keeps is the tree, each node listed by its Parent |

`LinksCorrect` is the case of `augeas_tree`, Move and TextStore included;
`ForestCorrect` that of `augeas_vars`, whose inputs keep to `DiscardedIsGarbage`.
Without that hypothesis the conclusion is false: finding 2 is the counterexample.
So the two theorems say where the links can break: at the structs Move and
TextStore discard with a stale Parent or a shared slice, and only when a variable
still holds one.

The invariant for the types is `Typed`: the heap is a record of functions, every
reference leads to an allocated node, every header fits its array and every
variable is a sequence of allocated nodes. The one for the links is
`Typed /\ Linked(heap) /\ ~panicked`, where `Linked` is said of all allocated nodes
and not only of the tree, since a later call can reach a detached subtree through a
variable and hang it in again. It does not hold in the middle of a call. Each
handler is therefore shown to have an `Outcome(g)`: a heap g before collection that
is typed and is `Left(g, X, Discarded)`: the links agree for all nodes but a set X
of structs nobody lists any more and, in the direction from Parent to child, but
those whose Parent no longer lists them. The collector then either frees these
(`GarbageKeepsLinks`) or keeps the tree only (`TreeKeepsLinks`). The argument
runs upwards:

* `HeapAndTextProofs`: each function of `node.go` on any heap, its type and its links
  (`Append1Is`, `AppendChildIs`, `InsertChildIs`, `RemoveChildIs`,
  `DropChildrenIs`, `TakeOverIs`), and the collector (`OffspringIs` ... `KeptLinks`).
* The path evaluation, one lemma per loop of `path.go` (`NamedIs` ...
  `EvalStepsIs`), then `createFrom`, and the loops of the methods over what they
  matched (`SetAllIs`, `SetEachIs`, `RemoveEachIs`, `GraftIs`).
* `SetKeeps` ... `TextStoreKeeps`: one lemma per method; `NextKeeps` joins them.
  `PanicNeedsStaleLinks` is `Insert`: the index it computes is one of the Parent's
  children as long as the links agree.

`Loops` has what the loops need. The library states induction for an operator
`P(_)`, which cannot be instantiated here; but it also states that the natural
numbers are well-founded, and from this follows, for sets instead of operators,
that a set which holds 0 and every successor is `Nat`. `FoldStays` and
`IterationStays` derive from it that a fold over a sequence, and a function defined
by recursion on a number, exist and stay in a set that every round keeps to.
This is put in terms of a round, `Body`, so that a lemma about a loop only
has to look at one round: what every round keeps (`LoopKeeps`), what holds after k
rounds (`LoopReaches`), the states in between (`LoopTrace`), and what is settled
when no round adds anything (`RoundsSettle`).

### What the calls do to the tree

`RefinementProofs` goes on from there, under the same assumptions. `G` stands for
`DiscardedIsGarbage`, the premise of `ForestCorrect`, and `W` for
`[][MovesWithin]_state`: what a successful Move moves is in the tree.

| Theorem | Statement |
|---|---|
| `Refinement` | `Spec /\ G /\ W => EditsTheTree`: Augeas implements ConfigTree |
| `WritesKeep` | `Spec /\ G => WritesKeepNodes` |
| `FailuresAdd` | `Spec /\ G => FailureOnlyAdds` |
| `PathsName` | `Spec /\ G => []PathRoundTrip`, whatever labels there are |
| `NothingHeld` | for a handle that binds no variable, `Spec => G /\ W` |
| `BareRefinement`, `BarePathsName` | for such a handle, the above without `G` and `W` |
| `RemoveCorrect` | for such a handle, `Spec => RemoveIsExact` |
| `SetMultipleCorrect` | `Spec /\ G => SetMultipleCovers` |
| `MoveCorrect` | `Spec /\ G /\ [][MovesWithin /\ FindsWithin /\ CreatesOutside]_state => MoveKeepsSubtree` |
| `BareSetMultiple`, `BareMove` | for such a handle, the same without a premise, and with `CreatesOutside` only |
| `DetachedCorrect` | `Spec /\ G => DetachedEditsStayOut` |

`G` is needed: run `MCSharedSlice.cfg` violates `WritesKeepNodes` where it does not
hold. `W` excludes the one call that is two steps of the abstract tree: a Move of a
detached node into the tree drops what the destination had and hangs in what was not
there. `FindsWithin` says the same of the destination. `CreatesOutside`, that the
destination createPath makes is not below the source, is all that a handle without
variables leaves open: it is what Move fails to look at (finding `move_inside` violates
`MoveKeepsSubtree` there). With `Acyclic`, `RootedCorrect` and the other theorems of
ConfigTree, `Refinement` says of the pointers that they form an ordered rooted tree
after any sequence of calls.

`AugeasProofs` has the lemmas about heaps that these theorems need, what a change of the
links does to a tree and what an evaluation finds; `RefinementProofs` has the steps,
method by method. The invariant is `Tidy`: `Agreeing` of the theorems above, `live` is
the least set that holds the root and the children of its members (`IsTree`), and
identities that no struct uses have no value. A handler's effect is described on the
heap g before collection (`Shows(g)`), by what it does to the links and the positions of
the children, and never by how it came about:

* `Sprouts`, for createFrom, Set, SetMultiple, DefineNode and Graft: the old nodes keep
  parent, label and place, the new ones hang behind them (`GrownTree`, `GrownOrder`).
* `Opened`, for Insert: one place is made among the children of one node, in either of
  the two ways Go's append has (`OpenedTree`, `OpenedLine`).
* `ThinnedTree`, for Remove; `DroppedTree`, for TextStore's `Children = nil`;
  `Transferred`, for Move (`LostTree`, `MovedTree`).

`SproutStep` ... `MoveStep` make a step of ConfigTree of each; that the two orders agree
is the larger part, since ConfigTree orders siblings by a relation and the slices by
positions. `NextSound` joins the methods.

`PathsName` says that what `buildPath` writes, `eval` reads back, where the labels from
the root down to the node are words. Other labels may be anywhere else in the tree, for
any label that createPath, Insert or a lens accepts; on the way itself nothing of the
kind holds (finding 9). The proof has two halves. The first is about texts
(`HeapAndTextProofs`): words and positions in brackets have no mark that splitTop cuts
at (`SegmentScanned`), so that the text of a path falls apart into the segments it was
joined from, and each is read as its name and its position (`PieceRead`, `ReadsBack`).
The second is about evaluation, by induction on the depth (`BuildLeads`): the path
built for a node's parent leads to the parent, and the step appended for the node leads
from there to it alone. For that step, the node's position as counted by `index`
(`CountedIs`) is its position among the candidates that `NameMatch` lets through, which
is where `PredHolds` looks for it (`PickedOut`).

`SetMultipleCorrect` compares three evaluations: of the sub path before the call, of the
sub path below each base during the loop, and of it in the heap the call leaves.
Predicates apart, a path finds in a heap that has grown what it found before and perhaps
more (`Holds`, `SproutHolds`), and below a base nothing but what is below the base
(`Enclosed`, `EvalWithin`). For a base where nothing was found, createFrom leaves a
`Trail`, nodes whose labels are the names of the path, and `CreateFound` says that an
evaluation finds where it ends. `MoveCorrect` follows from `Transferred`: a link below
the source is either left alone, or is one from the source to the node that took its
place. `RemoveCorrect` goes over the loop with its count, in whatever order matches
come.

`DetachedCorrect` needs no look at the path, only that no link crosses between the tree
and the other nodes, which `Tidy` says. `Apart(h, T, g)`, that g has the links and
values of h on T, survives one write to a node outside T (`ApartValue`, `ApartAdded`,
`ApartRemoved`), and each loop writes to what it finds or made outside T.

### Load and save

`FileSyncProofs` proves, for any number of handles and files, texts of any length
and any number of changes (`FilesAssumption`, `LensAssumption`: texts and inserted
nodes are of their types, the default of a del lens matches its own expression,
and the globs find finitely many files):

| Theorem | Statement |
|---|---|
| `TypeCorrect` | `Spec => []TypeOK` |
| `SkeletonCorrect` | `Spec => []SkeletonParses` |
| `BuildCorrect` | if callers insert only nodes the lens can write, `Spec => BuildReproducesTree` |
| `LayoutCorrect` | under the same condition, `Spec => OwnLayoutKept` |
| `LeavesOutOnlyMisfits` | without it: what Build returns parses, and leaves out exactly the nodes from the first misfit on |
| `UneditedKept` | a file parsed last and not edited is built as it was read, also when labels repeat |
| `PutGet`, `GetPut` | the two laws of the lens, for texts, forests and skeletons of any length |
| `LayoutFollowsRank`, `UntouchedLineKept` | which skeleton a node gets |

The condition, `CallersFit`, is that of run `file_sync`; without it finding 6 is
the counterexample to `BuildReproducesTree`, and `LeavesOutOnlyMisfits` says
exactly what is lost. `BuildCorrect` holds for whatever skeleton is there, so that
goroutines that overwrite each other's (finding 5) cost layout and never content.
The proof of the laws goes over prefixes: get reads a prefix of the lines
(`EntriesArePrefix`), put writes a prefix of the nodes, and there is one line of a
given key and rank or none (`RanksDiffer`).

### The interpreter

`EngineProofs` proves, for every corpus of modules, every sequence of requests and
any number of calls (`EngineAssumption`: requests have the shape of one):

| Theorem | Statement |
|---|---|
| `TypeCorrect` | `Spec => []TypeOK` |
| `ForcingCorrect` | `Spec => []ForcingIsOwn` |
| `NoneForcedAtRest` | between calls no binding is marked as being evaluated |
| `ReportsAreTrue` | a binding reported to depend on itself is under evaluation in this call |
| `MemoCorrect` | `Spec => MemoIsFinal` |

`IInv` adds to the types that force has its frame on top between its check and its
return (`PhasesOfForce`), that a binding has one force frame at most and none when
it is done (`OneForceEach`), and that the loop of LoadFile goes on from an empty
machine (`TryIsBottom`). Most steps of the evaluator push or pop a frame that is
not of force and leave the thunks alone: `Calm` and `CalmKeep` ... `CalmReplace`
treat them together, which leaves `Check`, `Enter`, `Store`, `Finish` and the calls.

### What stays with TLC

* That Engine implements LazyBindings (`ImplementsBindings`): it is stated with
  recursive operators (`Uses`).
* `SetMultipleCounts`, the count of SetMultiple and the state it leaves when it fails
  half-way. Of the other properties of the handle that passing runs check each has a
  theorem, under the premises given there; that the calls of a program keep to
  `DiscardedIsGarbage` is for the program to see to.
* The laws of get and put of any lens (LensLaws), of the engine's answers
  (`AnswersAreMeanings`, `ChoiceIsRight`, `AgreesWithUpstream`), of subtraction, tree
  commands and parser: lenses, matches, terms and automata are recursive, and
  recursive operators are out of the prover's reach. KeyedLens, with its two
  theorems, is the shape of lens that needs none.
* `EveryFileAccountedFor` and `EveryCallReturns`: liveness under fairness is out of
  the prover's reach, as is ENABLED.

TLC checks the refinement and the other properties proved above as well, on small
trees: it found what had to be changed in them before they could be proved.

## 6. Not modelled, and why

* The lexer, escapes and the translation of regexps: sequential, text to tokens,
  no state beyond the call. A model would repeat the code.
* The text of patterns that a subtraction writes, and `syntax.Simplify`.
* `Regexp.build` (`regex.go:264-288`), which sets `built` before `compiled`
  without a lock: two goroutines that use a lens for the first time race. Go
  defines no outcome for the reader of such a race.
* Functions that call themselves by name. Their evaluation does not end: the Go
  stack overflows, and the machine would push frames for ever. Cycles of values
  do end, and are in the model.
* `let rec a = b`, where b is another binding: `evalRec` sets the recursive flag
  of b's lens (`rec.go:45`), which changes how b is read from then on. Lenses are
  symbolic in Interp. No module of the corpus has such a binding.
* Tree values shared by two names in a module's tests: the commands change them in
  place (`treecmd.go:369`). Running the tests of a module is not part of the
  library (`harness_test.go` does it).
* Case-insensitive regexps in Interp; in Automata they are.
* Path texts character by character. A text of PathText is one of words and marks,
  and only what `buildPath` wrote is read from its text; what a caller passes enters
  the model cut into segments, and what the two readers of such a text disagree about
  is kept as data. No label is spelled with `$`, `=`, `=~` or `last()`: those would
  have to be read as variables, comparisons and positions in a reported path.
* The lens corpus: vendored data.
* Load's mount argument: the handle's tree is one node per file in FileSync, so
  two files of one base name, and mounts `createFrom` refuses, do not occur. Base
  names it refuses do (`Refused`); the nodes `createFrom` has made by then, for the
  mount and for /augeas/files, are left out.
* In the lens modules: case-insensitive expressions (and the comparison of squares
  under them), expressions made by automata, the values `restrict` excludes.
* Entries below entries in `TextStore`: the tree a lens returns is flat.
* `Span` (always an error), `SetFileSystem`, the lens registry, `TextRetrieve`.

## 7. Plan

In the order in which they are to be written:

1. That Interp implements LazyBindings: `IInv` of EngineProofs has the invariant,
   and only `Reuse` ... `Finish` touch what the protocol sees; `Uses` has to be said
   without recursion.
2. KeyedLens as an instance of Lens: on the lens `[ key . del gap . store ]*`, its
   `Get` and `Put` are `LnsGet` and `LnsPut`.
3. Engine composed with the handle: LoadFile's `createFrom` on a tree that other
   calls edit, in place of the input `clash`.
