# JPStream in TLA+

JPStream evaluates a JSONPath query over a JSON text in one pass, without
building the text's tree. It does so serially, or in parallel over chunks of
the text that are cut without knowing where in the tree they begin. This
directory holds TLA+ modules of that program, TLC configurations that check
them on small instances, and proofs about them that TLAPS checks. Paths and
line numbers refer to the repository.

## 1. Inventory

| part | source | state it keeps | operations |
|---|---|---|---|
| JSONPath parser | `JSONPathParser/parser_j.y`, `scanner_j.l`, `jsonpath_model.h`, `jsonpath_evaluator.h` | the parser's stack, the syntax tree | `analysisJSONPath`, `evaluatorModifyReference` |
| regex library | `DFABuilder/src/Lexer/*` | plain and compressed tables | `CreateDFA`, `Combine`, `addEdge`, `nextState` |
| query automaton builder | `DFABuilder/src/dfa_builder.cpp`, `.../Lexer/*` | the mixer's automata, `last_id_generated`, the context (stop states of filters) | `construct_dfa`, `construct_filter`, `create_dfa`, `buildJSONQueryDFA` |
| query automaton | `DFABuilder/include/dfa.h` | transition table, accept type and slice of every state | `dfaNextStateByStr`, `getDFAAcceptType`, `getDFAArrayIndex` |
| lexer | `JSONQuery/lexing.c` | the next character, a content buffer | `nextToken` |
| serial engine | `streaming_automaton.c`, `stack.h` | syntax stack, query stack, current element `qs_elt`, tuple list | `executeAutomaton` |
| constraint table | `constraint.h` | rows of labels with the states they were read in | `addConstraintInfo`, `updateStateInfo` |
| worker automaton | `worker_automaton.c`, `multi_stack.h`, `unit.h` | one query stack per possible start state, folded into a tree; units; unmatched symbols; a tuple list per root | `executeWorkerAutomaton` |
| parallel execution | `parallel_automata_execution.h` | a worker per thread | `executeParallelAutomata`, `main_thread`, `combine` |
| loader, partitioner | `path_processor.h`, `utility.c` | bytes loaded, bytes given to chunks, the chunk being cut | `loadBoundedInputStream`, `partitionInputStream` |
| file partitioner | `file_partition.c` | the file's position, the quote read too far | `partitionFile` |
| path processor | `path_processor.h` | `StreamingContext`, the engines over the pieces of a file | `serialRun`, `parallelRun`, `parallelRunOpt` |
| predicate filter | `predicate.c`, `predicate.h` | a stack of tuple lists, values of conditions | `generateFinalOutput`, `evaluateExpression` |
| tuple list | `tuple_list.h` | lists of 2-tuples (state, text) | `addTuple`, ... |

How they interact. The parser's tree is compiled to a query automaton, which no
engine writes. A partitioner cuts the stream in front of a quote that follows
`,`, `{` or `[`. `executeParallelAutomata` starts a thread per chunk; the threads
share the automaton and the learned constraint table and write only their own
worker. After joining all threads `combine` walks the chunks in order: it replays
the closing symbols a worker could not match on worker 0's stacks, takes the
tuples of the root that turns out to be right, reprocesses a unit whose right
root was pruned, and splices the worker's open stacks onto worker 0's. The
tuple list goes to the predicate filter.

What is hard about it:

- **Two stacks that must not drift.** What `}` and `]` pop is decided by looking
  one element below the top. One wrong pop, and every later key is read in the
  wrong state.
- **Saved match starts.** The offset where an answer begins is saved with the
  element on the query stack, restored by value, cleared in copies.
- **Speculation.** A worker runs from every state at once, merges runs that meet,
  guesses what encloses its chunk by peeking at two tokens, may drop the right
  run on the word of a learned table, and does not know how many elements of an
  array came before it.
- **Splicing.** `combine` undoes all of this from recorded symbols and offsets;
  offsets are in units of the chunk they were noted in.
- **Bounds and unset memory.** Pushes on full stacks are dropped silently; the
  state and start of a unit and the roots of copied nodes are not initialised.
- **Pieces.** A file larger than memory comes in pieces; the engines keep their
  stacks over them, the filter keeps candidates and conditions, and each flag
  and offset must be of the right piece.
- **Search loops without an end condition** in the loader and partitioner.
- **A table squeezed into gaps**, rows of which share cells, and a constraint
  table searched by a name one of its rows never got.
- **A grammar with undecided conflicts**, and a tree rewritten in place.

What makes each part correct: the serial engine outputs exactly the values whose
path the expression describes, in order; the parallel engine has the serial
engine's stacks and tuples at every cut, for every cut and every interleaving,
and ends; the constraint table contains every state a label was read in; the
chunks of a file make the file; a filter keeps a tuple exactly when its
element satisfies the predicate; the automaton accepts exactly the paths of the
expression.

All hazards of the code with their lines, and the properties that would catch
them, are under `hazards` in `PROJECT.json`.

## 2. Modules

| module | models | uses |
|---|---|---|
| `PathReading` | abstract: the tree the text of a path expression stands for | |
| `PathParser` | the parser, shift by shift, and the variables of a filter | `PathReading` |
| `QueryDFA` | the automaton's table and its operations, the slice test | |
| `QueryTables` | the tables of the runs, as `buildJSONQueryDFA` prints them | `QueryDFA` |
| `PathSteps` | abstract: the locations the steps of a path expression select | `QueryDFA` |
| `QueryMeaning` | abstract: when a table means the steps of a path expression, at every depth | `PathSteps` |
| `DfaBuilder` | the path expression made into a query automaton | `QueryMeaning` |
| `DFASimple` | abstract: the table of an automaton, one row per state | |
| `DFACompressed` | the compressed table; its refinement of `DFASimple` | `DFASimple` |
| `JsonStream` | the token streams of well-formed texts (outside the sources) | `QueryDFA` |
| `Lexer` | `nextToken` over the characters of a text | `JsonStream` |
| `PathQuery` | abstract: the answers of a path expression, with no automaton or stack | `JsonStream`, `PathSteps` |
| `StreamingAutomaton` | the serial engine; its refinement of `PathQuery` | `JsonStream`, `PathQuery` |
| `ConstraintTable` | the rows of the constraint table | `QueryDFA` |
| `MultiStack` | a worker's folded query stacks, as pure operators | `QueryDFA` |
| `WorkerAutomaton` | a thread's run over its chunk | `MultiStack` |
| `ParallelExecution` | threads, join, combine and the next piece, beside the serial engine over the same text | `WorkerAutomaton`, `StreamingAutomaton` |
| `TokenBoundary` | where a piece or a chunk may end | |
| `StreamPartition` | how a file is loaded in pieces and cut into chunks | `TokenBoundary` |
| `FilePartition` | how a file is cut while it is read | `TokenBoundary` |
| `Partitioners` | both, on the same file | `StreamPartition`, `FilePartition` |
| `PredicateFilter` | the filter over the tuples of piece after piece, with its evaluator | `QueryDFA` |
| `PathProcessor` | `serialRun`: the serial engine, the pieces and the filter together | `StreamingAutomaton`, `PathSteps`, `PredicateFilter` |
| `StreamingAutomatonProofs` | the theorems about the serial engine (section 5) | `DataInduction`, `QueryMeaning` |
| `PredicateFilterProofs` | those about the predicate filter | `PredicateFilter`, `DataInduction` |
| `WorkerAutomatonProofs` | what a thread's handlers keep of its tree and its syntax stack | `ParallelExecution`, `DataInduction` |
| `ParallelExecutionProofs` | the theorems about the threads and `combine`, on top of it | `WorkerAutomatonProofs`, `StreamingAutomatonProofs` |
| `DFACompressedProofs`, `ConstraintTableProofs`, `PartitionersProofs` | those about the compressed table, the constraint table, both partitioners | |
| `DataInduction` | induction and recursion over the numbers up to a bound, and facts about sequences, as lemmas | |
| `MCPathParser`, `MCDfaBuilder`, `MCLexer`, `MCStreamingAutomaton`, `MCParallelExecution`, `MCStreamPartition`, `MCPredicateFilter`, `MCPathProcessor` | values for TLC | |

Operators marked `\* fault` are not part of a specification. Each is a
plausible slip in the definition after it, kept to show that a property of
the runs can notice it.

**From code to model.** Definitions keep the names of the code; `map` in
`PROJECT.json` gives the lines of each.

- *Tokens.* A token is a type (`LCB RCB LB RB COM KY PRI`), for a key its label,
  and a place: the number of tokens up to it. Offsets in bytes become such
  places, differences of pointers differences of places. The text of a tuple is
  the interval of tokens it spans. A primitive is quoted or bare, since
  the lexer does not deliver a bare one at the end of its stream.
- *Serial engine.* `ss`, `qs`, `cur` are `syntax_stack`, `query_stack`, `*qs_elt`.
  One action is one iteration of the loop of `executeAutomaton`, with all of its
  pushes, pops, tuples and constraints. A push on a full stack is dropped as in
  `stack.h`, and the history variable `lost` remembers it. A pop of an empty
  query stack yields state `INVALID`, where the code goes on to index its tables
  with -1: the run is followed up to there.
- *Worker.* `levels` is the tree of `QueryStacks`, level by level; a node's
  `roots` are what its root ranges cover. `out[r]` is the tuple list of root `r`
  (one list for worker 0). A unit has the unset start position `INVALID`; what
  `initUnit` leaves unset is a choice (`UnitStates`), and so are the roots that
  `combineQueryStacks` leaves unset (`UnsetRoots`).
- *Combine.* `i`, `j`, `k` are its loop variables; an action is one unmatched
  symbol (`Replay`), one unit (`TakeUnit`, or `Reprocess` to `Reprocessed`) or one
  chunk (`MergeStacks`).
- *History.* `ParallelExecution` runs the serial engine while the text arrives
  and notes its state in `cuts` at every place a chunk begins.
- *Builder.* `ctx` is the `StackContext`: the path so far, the paths that have a
  regex (`check`) and the list of regexes. A step of `construct_dfa` is an action.
  The regexes are lists of items; the state of a regex's automaton is a set of
  items (`followpos`, `GetNextSet`), a mixed state is one such set per regex. The
  mixer is followed edge by edge, state by state, so that the states get the
  numbers the program gives them. `edges` is the plain table; that the packed
  one reads back the same is the subject of `DFACompressed`.
- *Parser.* A rule of the grammar is a record; what Bison's automaton knows of
  the context of a symbol is said by `Context` and `Follow`, a conflict by
  `RuleFirst`. One action is one shift, one reduction with the node it makes, or
  one node `evaluatorModifyReference` comes to. Nodes are numbers in the order
  in which they were allocated. `PathReading` says the same from outside to
  inside, by splitting an expression at its weakest operator. `construct_filter`
  cuts the names of variables at their dots again, so the filter steps of
  `DfaBuilder` have them as sequences.
- *Compressed table.* `m_default`, `m_base`, `m_next`, `m_check`, `Top` and `Bottom`
  are the members of `DFACompressed`; one action is `addEdge` of one state with
  all of the search for a gap. Its limits are the constants `SmallRow` and
  `MaxDifferences`.
- *Constraint rows.* `unset` is what the name of the row of `[` holds, a choice.
- *Lexer.* A text is written from tokens and blanks (`Write`); characters are the
  classes `nextToken` tells apart. One action is one call of `nextToken`.
- *Predicate filter.* One action is a tuple of the engine, or the end of a piece
  with all of `generateFinalOutput`. Which tuples can follow each other is read
  off the automaton. The text of a condition is reduced to what `stringToValue`
  tells apart, and `number` is the order in which the comparisons see the bits
  of a value. `finish_flag`, which nothing sets, is a choice. Every tuple of
  `log` (history) carries the elements around it; the properties are about these.
- *Path processor.* `PathProcessor` runs the engine token by token; a tuple also
  notes which piece its text is taken from and at which offset (`TextOf`), and the
  end of a piece hands the tuples to the filter. `FeedsPredicateFilter` shows that
  what the engine feeds the filter is a behaviour of `PredicateFilter`, which
  is so checked over more tuples than a text of that length has.
- *Pieces in parallel.* In `ParallelExecution` a cut may begin a piece. Worker 0 goes on
  with its stacks (`Continued`), the other chunks of the piece get new workers.
- *Partitioners.* Characters are the classes the loops tell apart. One action
  is one character of a search loop or one step between the loops. `partitionFile`
  runs after the other partitioner on the same file.

## 3. Runs

| run | question | bounds |
|---|---|---|
| `PathParser` | is the tree the one the text stands for (`TreeReadsAsText`), does every member of a filtered element become one variable, do the nodes stay a tree? | all texts of up to 8 tokens; filters with up to 4 operands and an operator of every level, or members of members in parentheses |
| `DfaBuilder` | does the automaton of an expression output exactly the locations its steps select, does its table mean the steps at every depth (`TableMeansSteps`), does the filter know its elements and their conditions, are the tables of the other runs the ones built? | the 10 steps of `MCDfaBuilder`, up to 4 of them, the engine tables, locations of up to 4 labels |
| `CompressedTable` | is the compressed table the plain one at every step (`ImplementsPlainTable`)? | 3 rows of 3 columns, limits scaled down so that rows are linked, squeezed into gaps and left without a cell |
| `LexerTexts` | does `nextToken` deliver the tokens the text was written for? | 8 tokens, strings with quotes and backslashes, a decimal literal, blanks and newlines |
| `SerialAnswers` | do nine path expressions (`..`, wildcards, slices, slices of slices, a predicate) get exactly their answers in order until a push is dropped (`ImplementsPathQuery`), and is that only ever caused by depth? Do both stacks follow the text, does a pending answer keep its start, do the marks of a predicate balance, does the constraint table cover the run? | 3 keys, texts of up to 12 tokens, `MAX_STACK` 6, collecting constraints |
| `ConstraintRows` | does the table keep every state it was told, and no other? | 2 keys, 3 states, every order of calls |
| `ParallelThree` | for every text, every cut and every interleaving: does combine have the serial engine's stacks, pending matches and tuples in front of every chunk? Does a worker's tree hold one run per root? | 3 chunks in one piece or two, 11 tokens, `$.a[*].b` and `$.a[?(@.b)].c` |
| `ParallelLearned` | the same with constraint tables that are right or wrong for the text and with either content of the unset unit state, over two pieces; does everything end? | up to 2 pieces of 2 chunks, 8 tokens |
| `StreamPartition` | do the chunks of all pieces make the file, is none empty, does `partitionFile` cut where the other does, do the loops end? | files of up to 19 characters, pieces of 7, 1 to 3 cores |
| `Filter` | does the filter output exactly the answers whose elements satisfy their predicates, however tuples come and pieces are cut? Is nothing left behind? | a comparison, and two nested predicates with `&&` and `!`; up to 7 tuples |
| `SerialPieces` | is the output of `serialRun` over several pieces the texts of the answers of the whole file? Is what the engine feeds the filter what `Filter` assumes? | 14 tokens, 4 pieces, `$..c` and two queries with filters |
| `DfaBuilderIndex` | disagreement: an index step, which `README.md` lists among the operators | `$.a[1].b` |

*Why the bounds are enough.* Every decision of the serial engine depends on the
two topmost elements of a stack and on one counter. Eleven or twelve tokens reach an
array of two members, an object within an object within an array, a sibling
after a nested value, a slice entered, met and left, and a stack of six elements
that overflows, loses symbols and closes containers on what is left. In
`ParallelThree` a chunk may lie inside an array, inside a member, or close two
containers it never saw opened; a middle chunk may leave both more open and more
closed than it found, and worker 0 may reach its second piece with a match
pending in its elements. `ThreeChunks` bounds the chunks of both pieces together.
Pieces of 7 characters split a file of up to 19 into several pieces, each again
into several chunks. Texts only begin when they can end
within the bound (`Owed`), so that no run of `ParallelExecution` stops in an
incomplete text; the serial runs check every prefix. Seven tuples hold two
nested elements with three texts in and around the inner one, or three elements
one after another. Four steps put a filter or a
slice below two other steps and one step below it; locations as long as the
expression tell a step that looks deep from one that does not. Four operands
have three operators, so that a middle one is weaker or stronger than both of
its neighbours; that is all a decision of the parser looks at. Three rows of the
compressed table are one that is placed, one linked to it or put into its gaps, and
one behind both; for larger tables there is the proof.

`CHECK_DEADLOCK FALSE` is set throughout: the engines stop at the end of the
text, the partitioner at the end of the file, parser and builder with their result, and a
text or a list of tuples may reach its bound.

*What the pass runs are restricted to, and why.* The parallel engine agrees with
the serial one for the queries of `ParallelThree` and `ParallelLearned`: answers
that are members of objects, or lie in an object that is an array's element.
`Filter` has predicates that do not contain themselves. `DfaBuilder` takes the
expressions in which every location has one role, since a state has one accept
type: no slice below a step that looks deep, answers that are not variables of the
filter before them, no filter as last step, and below a step that looks deep one
step behind a filter, because `acc_id2state` knows only the first state of a
condition. `LexerTexts` has a blank in front of a literal and only spaces between a
key and its colon. In `SerialPieces` and `ParallelThree` no piece ends within an
answer. `finish_flag`, which nothing sets, holds `INPROGRESS`. Outside these
restrictions the program disagrees with what it is meant to do:

| disagreement, seen in the model and with the program | to see it |
|---|---|
| `[0:0]` selects every element: the pair 0, 0 stands for no slice (`streaming_automaton.c:25`) | `DfaBuilder` with `Queries <- EmptySlice` |
| `$..a[1:2]` gives up everything below an element outside the slice (`streaming_automaton.c:115`) | `Queries <- DeepSlice` |
| an answer over three chunks is copied from the wrong one (`parallel_automata_execution.h:179`) | `ParallelThree` with `MemberQuery`, 9 tokens |
| a primitive below a slice is not counted in a cut array (`:326`) | `SliceQuery` |
| an answer that is a direct element of a cut array loses its start (`multi_stack.h:426`), a primitive its text to the tokens peeked at (`worker_automaton.c:540`) | `ElementQuery` |
| a mispredicted unit that begins with a primitive ends the program (`:286`) | the phase `undefined` of `ParallelLearned` |
| with other content in `finish_flag` (both engines) the answers of a piece are output again for every later one | `FinishFlags = {0, 1}` |
| an element of `$..a[?(@.b)]` inside another one clears the outer one's conditions (`predicate.c:73`) | `Filter` with `OnlySelfNested` |
| an answer that crosses a piece is copied out of the later piece (`path_processor.h:208`) | `SerialPieces` with `SpanningAnswers = TRUE` |
| a literal directly behind the colon of its key takes the bracket behind it along: `{"k":5}` gives `5}` (`lexing.c:175`) | `LexerTexts` with `Layout <- Dense` |
| a minus sign is skipped like a blank (`lexing.c:91`) | `Literals <- Negative` |
| the key `""` shares the row of arrays in a table whose memory was zero (`constraint.h:93`) | `NoStrangeState` excepts it |
| a cut inside a string that ends in `,`, `{` or `[` (`path_processor.h:126`) | `["",","]` on two cores |
| chunks of a file that begins with a space are shifted (`utility.c:31`) | `ChunksMakeFile` excepts it |
| with no boundary left the search reads on behind the text | the phase `overrun`, `[1,2,3,4,5,6,7]` on two cores |
| `partitionFile` counts a last chunk it never stored (`file_partition.c:92`) | `NULL` in `stream` of `FilePartition` |

In the grammar `%` has no precedence, and `||` and `&&` have the same: `@.a % 2 == 0`
is `@.a % (2 == 0)`, and `@.a || @.b && @.c` is `(@.a || @.b) && @.c`. No document
says otherwise, so `PathReading` reads them that way. `@.*` in a filter reads
a string that was never set; the model stops there in the phase `undefined`.

## 4. Fairness

`ParallelExecution` assumes weak fairness of every thread's next step (the
operating system runs all created threads), of `CreateThreads` and `JoinThreads`
(a call of the main thread that can proceed does) and of `Combine` (the same
main thread), also of the step to the next piece (`parallelPartialRun`, the loop of
`parallelRun`). It assumes none of `Arrive`: `CombineEnds` speaks of what happens
once the threads exist. The partitioners are one thread that is not stopped, so
the next step of `Partitioners` is weakly fair (`BothSpec`). The serial engine's specification has no fairness
and none of its properties needs it: it is a loop over a finite text. The same
holds for the other modules, which have no liveness property.

## 5. Proofs

### The serial engine

For texts of every length and depth, every set of keys, every `MAX_STACK` and
every set of query automata with the shape the builder gives them
(`QueriesAssumption`; `IsQueryDFA` in `QueryDFA`):

| theorem | states |
|---|---|
| `TypeCorrect` | `Spec => []TypeOK`; the stacks never grow beyond `MAX_STACK` |
| `SyntaxCorrect` | `Spec => []SyntaxMirrorsNesting`: the syntax stack is the nesting of the text |
| `RunCorrect` | `Spec => []RunFollowsPath`: the query stack is the run along the path |
| `LossCorrect` | `Spec => LossNeedsDepth`: a push is only dropped with `MAX_STACK` containers and keys open |
| `StartsCorrect` | `Spec => []MatchKeepsStart`: an open answer keeps the start of its own value |
| `ConstraintsCorrect` | `Spec => []ConstraintsCoverRun`: the constraint table covers the run |
| `MarksCorrect` | `Spec => []PredicateMarksBalance`: the marks of a predicate nest like its elements |
| `EngineImplementsQuery` | `QueriesMean /\ Spec => ImplementsPathQuery`: the engine adds the answers of the path expression, each when it is complete, with its start, in order |

The assumptions are those named in `QueryDFA`, `JsonStream` and
`StreamingAutomaton`; every run of the serial engine evaluates them on its values.
One of them, `PredicatesAreElements` (only an edge of `[` leads to a predicate
state), is what `MarksCorrect` needs of the builder: `AcceptType` gives
`PREDICATE` only to a state that an array's edge leads to, and a state of the
mixer is entered by edges of one kind as long as each location has one role.
`TablesAreBuilt` checks `IsQueryDFA` for every table of the run `DfaBuilder`.

*The two stacks.* None of the first three invariants is inductive alone: how much
a `}` pops depends on the syntax stack, what is restored depends on the query
stack, and what the text may do next on the nesting. The inductive invariant is
`IInv == StreamInv /\ TypeOK /\ Sync`. `StreamInv` says that the text is a
prefix of a well-formed one: a key only in an object, one label of the path per
open key and array. `Sync` says that until a push is dropped the syntax stack is
the sequence of open symbols (`Mirror`) and the query stack the run of the
automaton along the path (`RunOfPath`). The first lemmas (`OpenedShape`, `ClosedShape`, ...) describe what each
token does to the text in one form (a symbol is opened, or a value ends and
closes `m` symbols and `l` labels); the lemmas `SyncRCB`, `SyncRB`, `SyncPRI`,
... show that the engine pops the same number. `LossCorrect` needs one
invariant more, `DepthBound`: an entry's path is shorter than its nesting, so
that the query stack is never the first to overflow.

*Starts, constraints and marks*. All three invariants are about the run on
the query stack, so each rests on `IInv` and on `RunKept`: a step leaves the part
of the run that both nestings share as it was. `MatchKeepsStart` is inductive
beside `IInv`: the start is set where the container's own element is on top, and
every other step copies an element of the run (`StartsKeptAtEnd`,
`StartsKeptAtBegin`). For `ConstraintsCoverRun` the label just read is
new and its state is what `addConstraintInfo` was given; all others were covered before.
`PredicateMarksBalance` compares two counts: the "{" less the "}" tuples of a state, and the open objects
that stand in that state. The step lemmas (`ObjectEntered`, `ObjectLeft`, ...)
show that both change by the same number; that an object in a predicate state is
an element of an array, so that `}` looks at the element that `{` marked,
is where `PredicatesAreElements` and `LabelsFit` (the label before an element is that of
its array) are needed.

*The engine answers the query*. `QueryMeaning` reads a table beside the
steps: a position says which steps may have been read up to the last label and which
deep steps may still end below it. `MeansSteps` is true of a table when the pairs
of state and position that labels lead to agree: output states are those where the
last step may have been read, and a state's slice is the one its steps have in
common. That is a condition on the finite table alone. `EngineImplementsQuery` has
it as its hypothesis `QueriesMean`, and it is not an empty one: TLC evaluates it for
the tables of the serial runs (`MeaningAssumption` in `MCStreamingAutomaton`), and the
run `DfaBuilder` checks it for every table the builder makes there (`TableMeansSteps`).
It is false of what the builder does wrong (section 3): index steps, `[0:0]`, a slice
below a step that looks deep. From it:

1. `ReachesEntries` and `SliceIsSteps` say what `PathSteps` computes row by row, and
   `NextPosition` that a position follows these rows over one label.
2. `RunMeansSteps`, by induction along the path: the state the run of the automaton ends in has the
   position of that path, slices included, or is dead where nothing can be selected any more.
3. With `RunFollowsPath` this gives `MatchedIsSelected`: the engine matches exactly the selected
   paths; with `MatchKeepsStart` the tuple it writes begins where the value begins.
4. The answers are those tuples of the list that belong to output states, in order (`AnswersIn`);
   `AnswersOfMore` says what one more tuple adds, so a mark or a condition adds nothing
   (`MarksAddNothing`) and a completed value its answer (`CompletedAdds`).
5. `EngineAnswers`: every action of the engine is then one of `PathQuery` on the same
   token, until a push is dropped.

### Tables

`DFACompressedProofs` proves, for every number of columns and states and any
values of the limits that decide which rows are linked:

| theorem | states |
|---|---|
| `TableIsOK` | `Spec => []TableOK`: the arrays keep their shape, a row is linked only to an earlier one without a link |
| `CompressedImplementsPlain` | `Spec => ImplementsPlainTable`: the compressed table is a plain table under the mapping that reads every row back |
| `SearchMissesNoHole` | `Spec => []NoHoleBelowTop`: the search for gaps begins below every free cell |

The invariant behind all three is `TableOK`. A step adds one row, and must not change
what another row reads: the lemmas on `Place` say that a new area takes only
free cells (`PlacedApart`), that a row placed before reads what it read
(`AreaKeepsRows`), and that the new row reads what it was given (`RowAdded`), whether by cells of its own
or as the difference to the row it is linked to.

`ConstraintTableProofs` proves, for all keys, states and contents of the unset name
and every order of calls, that the table has every state a label was read in
(`TableKeepsEveryState`) and no other, except where the unset name is a key of the
text (`TableHasNoStrangeState`). A call may add to the wrong row, but the
search that reads finds the same row.

### The partitioners

`PartitionersProofs` proves, for every set of files, number of cores and footprint:

| theorem | states |
|---|---|
| `ChunksAlwaysMakeFile` | `Spec => []ChunksMakeFile`: for files that begin with text, the chunks are the file as far as it was loaded |
| `ChunksAlwaysHaveText` | `Spec => []EveryChunkHasText`: for such files no chunk is empty |
| `ChunksAreAlwaysFile` | `BothSpec => []ChunksAreFile`: the chunks `partitionFile` stores are the file, no more than `num_core` |
| `AlwaysCutAlike` | `BothSpec => []BothCutAlike`: it cuts a file of one piece where `partitionInputStream` does |

The invariant `PartInv` relates the offsets the loops carry to the file: how many chunks
there may be at which place of the loops (`Bounded`), and that what was given, the chunk
being cut and the rest are the piece, which is a text of the file (`Placed`).
`substring` and `ltrim` are what lets a file that begins with a space escape; there the
properties fail (section 3). `partitionFile` carries its offsets otherwise: it has read the
quote that ends a chunk, and notes it in `ch`. Its invariant `OnDisk` says that this quote
or the chunk being filled is what lies between the chunks so far and the position.

That both cut alike is no step-by-step relation, as one is through before the other
begins. Both invariants therefore say that their chunks belong to a cutting of the text
that is defined without either loop (`IsCutting`, `CutWhole`: behind a chunk of `chunk_size`
characters the next boundary is searched for, as long as `Searches`), and `OneCutting` shows
by induction on the chunks that there is only one. A search of
`partitionFile` may find the end of the file instead, where `partitionInputStream` runs over it;
`NoBoundaryLeft` shows that the latter does not come to its end then.

### The predicate filter

For files of any length, cut into pieces in any way:

| theorem | states |
|---|---|
| `NothingEverLeft` | `FinishFlags = {INPROGRESS} /\ Spec => []NothingLeftBehind`: between outermost elements the filter is empty |
| `AlwaysSatisfying` | `FinishFlags = {INPROGRESS} /\ QueriesSuit /\ Spec => []KeepsSatisfyingElements`: the output is the answers whose elements ended with their conditions satisfied, in order and each once |

Both suppose that the list of tuples is taken away after each piece. The code decides this
by `finish_flag`, which nothing initialises (`streaming_automaton.h:51`); with the other value the filter
reads tuples twice. `QueriesSuit` is a condition on the finite tables: `TellsTextsApart`,
what is found inside an element is a candidate or a condition of its predicate by its
state, and `NestsInOrder`, no element of a predicate is inside another one of the same state.
The second is what `predicate.c:73` needs, since conditions are kept by state (`OnlySelfNested` in
section 3 has a query that breaks it). The run `Filter` evaluates both for its queries (`SuitsAssumption`).

*Where the filter stands* (`PredicateFilterProofs`). The engine runs ahead of the filter by the
tuples of a piece, so no relation between their present states is inductive. `FilterInv` relates the filter to
the elements that were open behind the tuples it had: `Nests` says that every tuple fits the elements `A[n-1]` and
`A[n]` open before and behind it, and `Stands` that the filter is in step with `A[handed]`. To be in step
(`Shaped`) is that the stack has an entry for each of these elements, that the entries point
into the buffer in ascending order from 0, and that only predicates of these elements have conditions.
`Nesting` is what nesting means in the log: an element that is open was so, in the same
place, behind every tuple since it began. The recursion of `generateFinalOutput` is shown to
have a solution (`FiltersExist`), `ShapedStep` is its step, and `EngineGrows` shows that what the
engine adds meanwhile changes nothing of this.

*What the filter decides*. `RightInv` says where each candidate is as long
as its fate is open. `Right` is about the first `k` tuples: the buffer holds the candidates inside
the outermost open element of which no element that ended has failed (`Pending`); the output
those whose elements all ended and held (`Answer`), all in front of the elements still open;
an entry of the stack separates the candidates before its element from those inside; and the conditions
of a predicate are the last values its open element had so far. Each part needs the others: the end of
an element removes the candidates behind its pointer, which are the ones inside only by the third, and is
decided by the fourth. `BeginsRight`, `TextRight` and `EndsRight` are the three cases of a
tuple; `EndDecides` says which candidates the end of an element decides, and `EndedKeepsTable` that
an element that ended keeps its values.

### The parallel engine

`ParallelExecutionProofs` proves, for every set of queries and learned tables, every text,
however it is cut into pieces and chunks, every number of threads and every
interleaving:

| theorem | states |
|---|---|
| `RunPerRoot` | `Spec => []OneRunPerRoot`: the levels of every worker's tree give each of its roots one run of the query automaton |
| `StacksSpliced` | `TRUE \notin Literals => (Spec => [](~lost => SplicesSyntaxStack))`: in front of every chunk and every piece the syntax stack `combine` has put together is the serial engine's, and in the end it is empty |

*One run per root* (the first part of `WorkerAutomatonProofs`). The property is about neighbouring levels, but no step can be followed with that alone: a `]` under
a key pops two levels, a first label drops roots, an unmatched symbol replaces the tree.
`Along(Q, levels, d)` says what a tree is as a whole: the labels `d` lead from each
level to the next, every root stands behind exactly one node of each level, that node is in
the state its predecessor's label leads to, and only nodes of the first level are their own roots.
`AlongPush`, `AlongPop` and `AlongRoots` follow it over what the stacks do; `NextLevelFacts`, on the
merging of nodes that reach the same state, and `PrunedFacts`, on dropping the roots a
table excludes, are where a root could get lost or end up behind two
nodes. `AlongAlike` says that counters and starts below the top do not matter. Each
handler then has one of five forms (`ReadOn`, `PopsOn`, `DescendsOn`, `Unmatched`, `Pruned`), and
`StepGrows` takes any of them to a tree along some labels again. The invariant
is `EngineInv`; its parts other than `TreesGrown` type the text, the query and the cuts.
The main thread never writes the automaton of another thread, so that `combine`, which
works on worker 0, leaves all these trees alone.

*The syntax stacks are spliced.* `StacksSpliced` supposes that no literal is bare: the lexer does
not deliver one at the end of a chunk (section 2), so that a thread misses a value. Both
parallel runs have texts without bare literals too (`Literals = {FALSE}`); what they and the theorem
leave out is a stack of the serial engine that has overflowed (`lost`), for then there is nothing to agree with.
Learned tables, right or wrong, the unset `unit_state` and the unset roots are all covered.

What a thread has on its stack says little by itself. It starts with an empty one, wherever in the text
that is, and meets closing symbols of containers it never saw open. With some
of them it learns what encloses it (`shadow_ss`); others it writes down in its unit. To say what is right
there must be something to compare with, at every place of the text and not only at the cuts. The invariant
`SpliceInv` supplies it as a function `g`, from places to stacks:

1. *The text* (`Stacked`, `TextOn`). `g` begins with the empty stack and follows the tokens; every stack nests as
   JSON does (`WellNested`), and at the cuts, where no key is open, it is what the serial engine had. The
   latter comes from the serial proofs: `SP` instantiates `StreamingAutomatonProofs` with the text and the
   serial stacks of `ParallelExecution`, and `SP!IInv` is part of the invariant.
2. *A thread* (`Runs`, in `WorkerAutomatonProofs`). Its stack lies on top of something (`Atop`): `g` at its place is an
   outer stack `o` with the thread's own one above, where `o` is `g` at the place the current unit has come to.
   `Inner` is this relation; it also says that a thread never infers a key above itself, as
   no chunk begins behind one (`CutsOn`). The unit's symbols take containers off `g` one by one (`UnitOn`, `LeftAt`), and a closed unit begins where
   the one before it ends (`ClosedOn`, `EnteredAt`).
3. *Worker 0* (`Splicing`). It has nothing around it, so in every phase its stack is `g` of some place: its
   own while it runs, the end of a chunk when the next is joined, and between the symbols and units of a chunk
   the place that `LeftAt` and `EnteredAt` name for `j` and `k` (`Splices`). A unit that is processed
   again starts there, which is where it started in its thread.

`ControlLCB` to `ControlFinish` give what each handler does to stack, shadow and unit (its `Turned` lemmas drop the
tree and the tuples); `RunsInside`, `RunsUnmatched` and `RunsOut` take `Runs` over it.
`ReplayedRCB` and `ReplayedRB` show that a replayed symbol takes from worker 0 what `g` loses at that place.
One lemma per action (`SplicesRun`, `SplicesReplay`, `SplicesTakeUnit`, ...) then keeps `Splicing`.

### What is not proved

*Induction.* The library's induction theorems take an operator, which no installed prover can
instantiate. `DataInduction` states induction and definition by recursion over sets
and functions instead (`BoundedInduction`, `RecursionExists`, `RecursionUnique`), proved
from the existence of a least number. That carries over recursive functions (`Reaches`, the
run along a path, `AnswersIn`), not over RECURSIVE operators.

*Model-checked only.* `TableMeansSteps` and the other properties of the builder; the
query stacks and the tuples after `combine` (`SplicesQueryStacks`, `MatchesSurviveCuts`, `TuplesAreSerial`):
an invariant has to say for every node of every worker's tree which serial run it stands for,
and the unset state of units and nodes breaks it outside the runs' queries; `OutputIsAnswers` and `FeedsPredicateFilter` of the engine and the filter together;
`DeliversTokens` of the lexer; the parser, since `PathReading` has RECURSIVE operators.
Liveness (`CombineEnds`, `BothEnd`) and `ENABLED` are beyond the prover.

## 6. Not modelled

- **Regular expressions to automata**: alternatives, non-greedy items and
  equivalence classes of the library, which the builder does not use, and its
  parser of regular expressions.
- **Scanner**: the characters of a path expression's tokens. `parser.y` and
  `scanner.l` belong to no target of the build.
- **Evaluator**: arithmetic in expressions.
- **Constructing threads**: a `pthread_create` that fails, behind which nothing is
  defined.
- **Bounds of arrays** other than `MAX_STACK` (`MAX_NODE`, `MAX_UNIT`,
  `MAX_UNMATCHED_SYMBOL`, `MAX_TUPLE_LIST`, `MAX_TEXT`, `MAX_CONSTRAINT`,
  `MAX_OUTPUT`): going beyond them is undefined and never handled.
- **`loadInputStream`**, which reads a file whole.
- **Memory management** other than that of the syntax tree, logging, demo and tests.

## 7. Plan

Built, in this order: `QueryDFA`, `JsonStream`, `PathQuery`, `StreamingAutomaton`
(the core of everything), its proofs, `MultiStack`, `WorkerAutomaton`,
`ParallelExecution`, `StreamPartition`, `PredicateFilter`, `PathSteps` (taken out of
`PathQuery`), `DfaBuilder`; then `DFASimple` and `DFACompressed` with their proofs,
`ConstraintTable` with its proof, pieces in `ParallelExecution`, `PathProcessor`,
`Lexer`, `FilePartition` and `Partitioners`, `PathReading` and `PathParser`.

Next, to prove, in the modules there are:

1. `FeedsPredicateFilter`, from `MarksCorrect` and the run of the automaton: what the serial engine
   feeds the filter is a behaviour of it, which joins the theorems about both.
2. `SplicesQueryStacks` for queries without slices: with `RunPerRoot` each root of a worker has the
   run that the serial engine would have from that state, and with `StacksSpliced` the levels that `combine`
   pops are the right ones; what is left is which root it takes.
3. That no table is in an output state twice for one location: the part of
   `TableMeansSteps` that follows from `followpos` and the subset construction.
