# zacklang in TLA+

zacklang is a small statically typed language with braces and semicolons. Its
compiler has a C front end (lexer, parser, semantic analysis, compile-time
evaluation) and a C++ middle end, ZIR: functions made of basic blocks that link
to each other, and passes that rewrite them. The two halves are not connected
yet: ZIR is built and rewritten by clients of its C++ classes and of its C API.
This directory holds a specification of the parts where state and its invariants
are at stake, checked with TLC and, where it matters most, proved with TLAPS.

Everything in the repository is single-threaded (`next_id` counters are atomic
but no thread is ever started) and nothing is persisted. What is hard here is
not interleaving but *sequences of legal calls*: link sets stored at both ends,
ownership stored on a list and in a pointer, passes that work off lists made
before their own changes, checks meant for states an earlier call left, and, in
the front end, recursions that share counters, tables and buffers and can be left
in their middle.

## Inventory

| Component | State | Operations | What makes it correct |
|---|---|---|---|
| Basic block (`zir_basic_block.hpp/.cpp`) | name, parent pointer, instructions, predecessor and successor sets | construct, set name and parent, add and remove instructions, add and remove links, merge, thread jumps, split critical edges | the two link sets mirror each other; a pass changes the paths of the graph only as it is meant to; branches name the blocks they lead to |
| Function (`zir_function.hpp/.cpp`) | ordered block list, entry first | add and remove blocks, find and remove dead blocks | exactly the unreachable blocks go; what the entry reaches stays as it was |
| Graph traversals (`isInCycle`, `detectCycle`, `canReach`, `getReachableBlocks`, `isReachableFrom`) | visited sets, a work list or the call stack | queries | they end; they visit the least closed set |
| Dominators, post-dominators, frontier | sets per block, iterated to a fixpoint | queries | the iteration ends; dominance is what it is on paths |
| Value numbering, local and global | tables of numbers, names and expressions | queries | two results get one number only when they are equal |
| Instructions, types, values, builder | opcode, result, target label, operands | constructors, accessors | operand kinds fit |
| C API (`zir_c_api.h/.cpp`) | handles, each a heap-allocated `shared_ptr` | one wrapper per method | a handle keeps its object alive; a parent pointer does not dangle |
| Lexer | offset, line and column, token array | `tokenize`, which calls itself for the expressions in an f-string | every character is in one token or is space, comment or quote; positions are true; it ends |
| Parser, AST | position in the tokens, error flag, allocated nodes | four entry points over some twenty recursive functions | the tree is the one the grammar gives; what fails frees what it built and reports |
| Symbol table, semantic analysis | chained tables, current return type, loop depth, two static buffers | a recursive visit of the tree | counters and tables follow the nesting; what is accepted agrees with its types |
| Static types | none | pure functions on types and literals | operator types are what evaluation gives |
| Comptime evaluator | tables, a static recursion counter, allocated literals | a recursive evaluation | counter, tables and literals are given back on every path; the value is that of the program; it ends |

Interactions: blocks call each other (the far side of a link), functions call
blocks, the C API forwards to both through handles; the parser reads what the
lexer has finished; the semantic analysis and the comptime evaluator both use the
symbol table and do not call each other; the evaluator uses the static types, the
semantic analysis has types of its own, which are strings. There are no
callbacks, messages or timeouts. Failure is an early return (null, false), in the
semantic analysis the end of the process, or, for null arguments of the C++
methods, an exception before anything was changed.

`PROJECT.json` lists under `hazards` what is hard to test in this code, each at
its line, with the properties aimed at it.

## Modules

| Module | Models | Uses |
|---|---|---|
| `ZIRGraph` | pure operators on adjacency functions: reachability as the least closed set, critical edges | |
| `FlowGraph` | abstract specification: one directed graph, changed by clients edge by edge and by passes as far as paths allow | `ZIRGraph` |
| `ZIRBasicBlock` | `ZIRBasicBlockImpl`: blocks, links, merging, jump threading, critical edge splitting | `ZIRGraph`, instance of `FlowGraph` |
| `ZIRFunction` | `ZIRFunctionImpl`: block lists and dead block elimination, composed with all operations on blocks | `ZIRBasicBlock` |
| `ZIRReachableBlocks` | `getReachableBlocks`, step by step | `ZIRGraph` |
| `ZIRDepthFirst` | `canReach`, `isReachableFrom`, `isInCycle`, `detectCycle`, call by call | `ZIRGraph` |
| `ZIRDominators` | `computeDominators`, `dominates`, `postDominates`, `getDominanceFrontier` | `ZIRGraph` |
| `ZIRValueNumbering` | `performLocalValueNumbering`, `performGlobalValueNumbering` and the two searches for redundant computations | |
| `Lexer` | `tokenize` | |
| `Parser` | the functions of `parser.c` that its entry points reach | |
| `ParserGrammar` | what trees must be: the grammar as a function from tokens to trees | `Parser` |
| `FrontEnd` | lexer, then parser, and a client that calls its entry points | `ParserGrammar`, instance of `Lexer` |
| `Semantic` | `semantic_visit`, `get_expression_type` and the symbol table | |
| `StaticTypes` | result types of operators | |
| `Comptime` | the evaluator of `comptime.c` | `StaticTypes` |
| `ComptimeMeaning` | what an expression means: a reference for the evaluator | `Comptime` |
| `MCGraphQueries` | a client that calls any of the methods of the three modules above | `ZIRDepthFirst`, instances of the others |
| `MCBasicBlock`, `MCFunction`, `MCValueNumbering`, `MCSemantic`, `MCComptime`, `MCFrontEnd` | instances for TLC | |
| `ZIRBasicBlock_proofs` | types and mirrored links; what merging, threading and splitting promise; dead block elimination; blocks and functions implement `FlowGraph` | `ZIRFunction` |
| `ZIRReachableBlocks_proofs`, `ZIRDepthFirst_proofs`, `ZIRDominators_proofs` | what the traversals and the dominator computation return | their module |
| `ZIRValueNumbering_proofs` | what numbers and pairs mean | `ZIRValueNumbering` |
| `Parser_proofs` | nodes are freed, failures are reported, loops end | `Parser` |
| `Semantic_proofs` | the context follows the nesting; names are unambiguous | `Semantic` |
| `Comptime_proofs` | counter, tables and literals of the evaluator; types of its results | `Comptime` |

### ZIRBasicBlock

An element of `Block` is the identity of a block object; `live` holds the ones
that have been constructed. Fields of the class are functions on blocks (`name`,
`parent`, `instrs`, `succ`, `pred`). Instructions are objects with an identity
as well, because merging puts one object into two blocks; `label[i]` is the
target label of instruction `i`, and opcode and variables of an instruction are
constants of the run because no code ever changes them. Sets of `shared_ptr`
iterate in address order; every loop over them in the modelled code has a result
that does not depend on the order, so the loops are written as set expressions.
Each action is one public method, run to its end. The methods that answer "not
safe" and return null or false change nothing and are no step at all.

`crashed` stands for undefined behaviour: the copy loop of `mergeWith` on an
empty block. Destruction is not modelled: blocks that link to each other own
each other, so they live on while they are linked.

A reader who compares the two should know three places where the order of
statements matters and is kept: `MergeWith` (predecessors are linked before the
successors of the second block are read), `PerformJumpThreading` (the label is
rewritten even when the links turn out to have changed), and
`SplitAllCriticalEdges` (the list of edges is made first).

### ZIRFunction

`blocks[f]` is the list of function `f`. Lists and parent pointers drift apart
in legal use, and the model lets them: a block can be on two lists, or twice on
one, or have a parent that does not list it. `RemoveDeadBlocks` is the whole
method; which links it cuts is stated directly: those between a dead block and
any other block of the list.

Two functions of the C API do more than call the method they are named after and
are actions here: `ApiRemoveBlock` clears the parent of the block after the
removal, whoever it is, and `DestroyFunction` drops the list and leaves the
parents. The other wrappers test their arguments for NULL and call one method.
Global value numbering, the one other large method of the class, does not touch
blocks or links and is in `ZIRValueNumbering`.

### FlowGraph

A pass is characterised by its effect on paths, not by its steps: `Expand`
(splitting, merging) keeps the paths among the vertices that were there, `Bypass`
(jump threading) adds no path and loses at most the two links of the way it
shortens, `Prune` (dead block elimination) cuts only what the entry cannot reach.
`ImplementsFlowGraph` says that the blocks do this and nothing else.

### ZIRReachableBlocks, ZIRDepthFirst, ZIRDominators

The passes above use `Reachable`, the least closed set around a block, for what
the code gets from a traversal. These three modules are the traversals
themselves, and their properties say that the use is right. The graph is any
graph and does not change while a method runs. Sets of links iterate in address
order; the loops over them here do depend on the order, so the next successor is
any of those not yet looked at (`todo`).

`ZIRReachableBlocks`: `Take` is one turn of the outer loop, `Push` and `Skip` are
one turn of the inner one, on a block not visited and on one visited.

`ZIRDepthFirst`: a frame of the call stack is a block and what is left of its
loop over successors. The methods differ in one step each: `canReachHelper` looks
a successor up before calling itself, `isReachableFromHelper` compares and looks
up in the callee, `detectCycleHelper` also asks whether the block is still on the
stack. `Return` is a call that returns false. A call that returns true makes all
its callers return true without doing anything but, in `detectCycle`, adding the
block they had called to the list; `Succeed` is that whole return, and
`CycleThrough` the list after it was reversed and completed. `recursionStack` is
`OnStack`, because a block is put on it when a call starts and taken off when it
returns false. `isInCycle` is the same search as `detectCycle`, with the list
dropped (`Listed`).

What the comments say of the two holds in part. `CycleMembersAreFound`: no block
on a cycle is missed. `CyclesAreListed`: there is a list exactly when the block
reaches a cycle, and a whole cycle is in it. What does not hold is
`OnlyCycleMembersAnswer`: blocks that lead into a cycle answer as well.

`ZIRDominators`: `VisitBlock` is one turn of the loop over the blocks, with the
intersection over all predecessors as one set expression (its order does not
matter); `EndSweep` is the test at the end of the `do` loop. `dom[b]` is empty
where the map has no entry, because looking one up creates an empty one. `order`
is any order of discovery, which is what `ReturnsDiscoveryOrder` says of the list
the code uses; that is more than breadth first would give. `postDominates` first
copies what its argument reaches, with links turned round; `Analyses` states that
graph (`next`) and its predecessors (`prev`), and when this block is not in the
copy the method returns false without computing anything. The frontier is a set
here, and a list with repetitions in the code.

The sets start as small as they can be and grow, so the sweeps stop at the least
fixpoint: this block is found to dominate `b` when every walk backwards from `b`
comes to it in finitely many steps. A loop is such a walk that need not come to
it, and so is a way back to a block without predecessors. The second is why the
answer is never wrong when it is yes (`DominanceIsSound`). The first is where the
answer is smaller than dominance: `DominatesIsComplete` is about graphs where no
block is on a loop.

`MCGraphQueries` puts the three together: a client calls one of the eight methods
on any graph, and the properties of each module are checked of its own methods,
under their own names (`WorkListRunsOut` is the `TraversalReturns` of the work
list).

### ZIRValueNumbering

The passes read instructions only, and look at the blocks of a function in list
order, so the code of a function is one sequence. A step is one instruction: the
local pass numbers it, the first global pass notes it as the latest definition of
its result, the searches look it up; a step of the second global pass numbers one
of the results, in any order, because the code iterates a hash table. Operands are
literals, and all the code asks of them is their text (`Text`), which two literals
of different types may share. Strings of operand texts are sets where the code
sorts them, and pairs where it does not.

`SameNumberSameValue` compares with any meaning of the operations under which
sums and products commute. It speaks of what the keys can tell: literals with one
text count as one, and division, remainder and power share an opcode.

### Lexer, Parser, FrontEnd

`Lexer` works on characters. Each branch of `tokenize` is an operator from the
state it begins in to the one it leaves, a step is one round of the main loop, and
the nested call for an interpolation runs to its end within the step, as in the
code. `Parser` is written the same way: each `parse_` function is an operator from
a record (position, error flag, count of allocated nodes, result) to a record, and
a step is one call of an entry point: an expression, a variable declaration, a
block or a function declaration. A node carries its `size`, the number of nodes
`free_ast` frees with it. A loop is written as the function of its rounds
(`Round`, `NextStatement`, `NextParameter`) and the mutual recursion as the descent
of each depth (`Descent`), both as far as there are tokens, since every round and
every nested call reads one. `ParserSpec` is the parser with any client, over any
tokens that end with the end of the file; `FrontEnd` creates one only when the lexer
has added that token. The order of the tests
inside the functions is kept, including tokens that are consumed before they are
compared. `FrontEnd` puts the two together: a text is lexed, a parser is created
on the tokens, and a client calls entry points, also after an error.

References: `PositionsAreTrue`, `TokensAreLongest` and `NothingIsLost` compare the
lexer with the text itself; `ParserGrammar` reads `docs/grammar.ebnf.md` as a
function that splits the tokens at the loosest operator, without position and
without descent. Where the parser reads more than the grammar has, the reference
follows the code and says so: digits may be missing (`1.`, `1e`), `&`, `|` after
a complete expression and a keyword after `let` are passed over, any keyword may
stand for a type, and `true` and `false` are literals. A chain of unary operators,
of which `grammar.ebnf.md:88` allows one, is read as well (`- - b`, `not - b`):
`ExpressionsFollowGrammar` says nothing of the tree of a chain (`HasChain`).

The parser reads less, too: no calls of functions, no f-strings, and an assignment
to a name only, where the grammar has them. Most of that is an error; an expression
before an argument list ends at the name. What is compared is the tree of the tokens
that were read, so none of this is found by a run.

The columns of tokens in f-strings are made up by the code; an escaped newline in
one is not counted as a line. `PositionsAreTrue` and `TokensAreLongest` are about
texts without f-strings, `NothingIsLost` is about all but two cases its comment
names. The parser's copies of strings are not counted, only nodes.

### Semantic

The tree is not given in advance: a step visits a statement that may be any of
`Statement`, so that every tree up to the bounds is visited, and each construct
stays on `frames` until its body is over. `scopes` is the chain of symbol tables,
`loop_depth` and `current_function_return_type` are the two static variables.
`semantic_error` ends the process (`Exit`); both outcomes of every check are
there. `get_expression_type` returns pointers, for arrays and elements into one of
two static buffers; `TypeWith` carries what the buffers hold from one call to the
next and `Deref` reads a pointer when the code does, so that a comparison of two
types sees the first one overwritten where it is. A type is the sequence of its
words; indexing takes off two characters whatever they are, which `Cut` does to a
word that is not `[]` (`WithoutTwo`), and gives `unknown` for texts of at most two.

`TypesForgetBuffers` says that what the buffers held before an expression never
shows in its type. What they hold in the middle of a statement does show:
`AssignmentsAgree`, that an accepted assignment has sides of one type, is violated,
because the comparison reads two element types from one buffer.

Left out: annotations that are missing on parameters (the code dereferences a null
pointer), and array literals of more than two elements or with calls in them.
`ContextMatchesNesting` follows the code in that loops outside a nested function
count: a `break` in a function declared in a loop is accepted.

### StaticTypes, Comptime, ComptimeMeaning

`Comptime` is the evaluator as a stack of activations, one step for what an
activation does between two calls. `Programs` are symbols and expressions, `Nodes`
and `Statements` all their parts, which are the trees the parser made; one
expression after another is evaluated, with the tables, the counter and the
allocated literals the last one left. An argument is printed into a literal and
read again (`Reread`), which is not the identity. A float is printed with `%g`: six
significant digits are kept (`SixDigits`; 1/3.0 becomes 0.333333), without a
fraction it is read as an integer, and from 10^6 on it has an exponent, which makes
it a float again. A string loses its quotes, and what is left may be read as
something else (`ReadAs`: `true`, or a text with an `e` in it). What is not finite
and a value of type error cannot be read.

Numbers are fractions, so that doubles are exact and integers have no width; the
infinite ones and the one that is no number have the denominator 0. Three things
the code leaves to C are constants: `Strcmp`, which string comparison uses;
`DoubleOp`, which is `pow` and any operation on a number that is not finite; and
`CastOfNonFinite`, what such a number is as an integer, which is undefined in C.
The instance gives powers of whole exponents and a square root. `Exponents` bounds
the powers of ten of the numbers that are printed.

`ComptimeMeaning` is the usual meaning of the same programs, without a stack and
without tables: lexical binding, arguments passed as values, failure that
propagates. A context says what the parameters are bound to, which names callers
have bound and how many calls are open. The rules are applied up to `MaxRules`
times, one leading to the next, so that they are an ordinary recursive function;
what needs more applications is `Unknown`. They also leave open what the evaluator
is known to do in its own way: arguments changed by `Reread`, what is made of a
number that is not finite, a name that a caller
further out has bound (the evaluator looks a constant's names up in the tables of
the caller, `Captured`), and a return that fails inside an `if` with statements
behind it, which then run (`Failing`). What an operation means is written
independently of the evaluator (`OperationMeans`): it computes in doubles and cuts
the result off, and orders by differences; the reference divides integers as
integers, adds, multiplies and inverts fractions, and takes the wider of two types.
The meaning of every expression of
`PlainPrograms` is known (`PlainAssumption`), and where it is known the evaluator
finds it.

## Runs

| Run | Checks | Bounds | States |
|---|---|---|---|
| `block_links` | `LinkSymmetry`, `ImplementsFlowGraph`, `SplitLeavesNoCriticalEdge` | 4 blocks, 1 branch instruction, at most 1 instruction in a block | 49,574 |
| `block_merge` | `MergeKeepsTerminatorsLast`, `MergeKeepsSingleDefinitions`, `MergeRunsBothBodies` | 3 blocks, a branch and a computation, at most 2 in a block | 31,685 |
| `block_thread` | `ThreadingKeepsBranchesInStep`, `ThreadingKeepsPaths` | 3 blocks, 2 names, 2 branches with labels | 47,622 |
| `function_dce` | `ImplementsFlowGraph`, `EliminationIsExact` | 3 blocks, 1 function, lists of at most 3 entries | 34,389 |
| `graph_queries` | `ReturnsDiscoveryOrder`, `SearchIsExact`, `CycleMembersAreFound`, `CyclesAreListed`, `DominanceIsSound`, `DominatesIsComplete`, `FrontierBoundsDominance`, `WorkListRunsOut`, `TraversalReturns`, `ComputationReturns` | all graphs of 3 blocks, all eight methods, all arguments | 187,596 |
| `value_numbering` | `SameNumberSameValue`, `SameOperationSameNumber`, `PairsStartAtFirst` | all code of at most 3 instructions (`MaxCode`), 2 results, 4 literals of which 2 share a text | 239,676 |
| `semantic` | `ContextMatchesNesting`, `NamesAreUnambiguous`, `TypesForgetBuffers` | all trees with at most 3 constructs open (`MaxNesting`) and 3 symbols visible (`MaxSymbols`) | 65,910 |
| `comptime` | `CallsBalance`, `LiteralsAreOwned`, `ResultIsMeaning`, `TypesPredictResults`, `EvaluationEnds` | 32 programs, their expressions in any order; recursion limit 3, `MaxRules` 40 | 4,435 |
| `front_end` | `PositionsAreTrue`, `TokensAreLongest`, `NothingIsLost`, `EveryStepReads`, `NoNodeIsLost`, `FailureIsReported`, `ExpressionsFollowGrammar`, `DeclarationsKeepTheirParts` | texts of at most 4 characters (`MaxLength`), f-strings of at most 4 (`MaxFString`), operator chains of at most 3, programs with one token changed | 159,407 |
| `api_clears_parent` | `RemovalKeepsOtherParents`, violated | 2 blocks, 2 functions | |
| `cycle_members` | `OnlyCycleMembersAnswer`, violated | 2 blocks | |
| `assignment_types` | `AssignmentsAgree`, violated | those of `semantic` | |

A run that is violated checks what a comment or an error message says of the
code; see below.

**Blocks and graphs.** Four blocks are what a critical edge needs with the block
that splits it, and a threaded chain with a second predecessor. Three are enough
for a function with a dead loop, for merging two blocks into a third, and for
threading from one block past another to a third. `MaxInstrs` and `MaxBlocks`
bound the lengths of sequences in the guards of `AddInstruction`, `MergeWith` and
`AddBlock`. Blocks, names, and instructions of one kind are interchangeable, so
they are symmetry sets. On three blocks a traversal meets loops of one, two and
three blocks, a dead end two paths lead to, and, in a sweep, predecessors that are
not reached; the proofs cover larger graphs.

**Value numbering.** Three instructions hold a result that is given twice, a number
used for two results, and a pair together with a third occurrence. Lengths beyond
that are covered by the proofs.

**Semantic analysis.** Three open constructs are a function in a loop in a block, or
a function in a function in the global block, which is where counters and saved
types could be mixed up; three symbols are a struct, a variable of its type and
one that hides a name. The statements of the instance hold every case of the
visitor and, for each check, one that passes and one that does not. `Leftovers` are
contents of the buffers before an expression, longer and shorter than what is
written.

**Comptime.** Programs with recursion that ends and that does not, shadowed names,
failing arguments, conditions and returns, values of each type passed to functions,
every operator on operands of each sign and type, floats that `%g` rounds or prints
with an exponent, numbers that are not finite, and constants that refer to
themselves. The limit is 1000 in the code; nothing depends on the number, and three
is passed by one of the factorials and by the endless recursion.

**Front end.** Four characters reach every branch of the main loop and every pair of
branches; numbers and f-strings, which need more, have prefixes of their own.
Every chain of three operators relates each two levels of precedence on both
sides. One changed token at every place of a program takes every error path of the
parser.

Deadlock is checked for `comptime` and `front_end`, which can go on forever; the
others end or may stop: a client may stop calling at any time, `crashed` is an end,
and a traversal, a numbering or a visit that has returned does nothing more.

**Fairness.** The block and function modules assume none, because nothing in them
must happen without a client asking for it. The three modules of traversals are
each one call that has been made, in a sequential program, and so is
`MCGraphQueries`; weak fairness of `Next` (`CallNext`) says that it keeps running
until no step is left. Nothing is assumed about the order
in which it takes successors, and nothing stronger is needed. `Comptime` has
`WF_vars(Step)` for the same reason: an evaluation that was called runs until it
returns, and whether there is another is up to the client. `EvaluationEnds` is about
programs in which no constant has to be evaluated for its own initializer
(`SelfReferring`). The others are in the run as well, and their evaluation goes
on for ever, in the code until its stack is used up. That the lexer ends is
stated as a safety property, `EveryStepReads`: every round of its loop comes
closer to the end of the text. The other modules state no liveness.

Every property of a passing run has a mutant of the code, an operator marked
`Mutant` next to the definition it replaces, that makes the run fail.

## What the code does that its comments do not say

Three have a run that finds the counterexample; `PROJECT.json` quotes the lines.

1. `zir_function_remove_block` clears the parent of the block after the removal,
   also when another function owns it by then (`api_clears_parent`), while
   `removeBlock` says that it clears the parent only if it is the parent.
2. `isInCycle` is true of a block that leads into a loop it is not on
   (`cycle_members`). Likewise `detectCycle` returns the way into the loop, and ends
   its list with the block it was called on, to which the one before need not link
   and which is on the list already when it is on the loop.
3. Two calls of `get_expression_type` may return one static buffer: `a[0] = b[0]`
   is accepted for arrays of different types (`assignment_types`).

Others can be read off the definitions, and off what the properties that do hold
have to leave out:

4. `dominates` is false of a block around a loop, also when every path from the
   entry passes this block: the sets of dominators start too small
   (`DominatesIsComplete` speaks of graphs without loops). Its comment, "Check if
   this block dominates another block" (`zir_basic_block.cpp:190`), has no such
   exception.
5. `getDominanceFrontier` leaves out a loop back to the block itself, because it
   tests dominance where its comment (`zir_basic_block.cpp:273`) says strict
   dominance (`Frontier`).
6. The recursion limit of the evaluator is for calls: `const a = b` with
   `const b = a`, or `const a = a`, is evaluated without an end
   (`EvaluationEnds` leaves these out).
7. The parser reads `- - b` and `not - b`, where the grammar
   (`grammar.ebnf.md:88`) has at most one unary operator
   (`ExpressionsFollowGrammar` leaves these out).
8. `mergeWith` drops the last instruction of the first block, terminator or not,
   and reads past the end of a vector when there is none (`MergeRunsBothBodies`
   speaks of blocks that end in a terminator).
9. `performJumpThreading` for one predecessor cuts the block off from its
   target, and with it the other predecessors (`ThreadingKeepsPaths` speaks of a
   block with one).
10. `splitCriticalEdge` does not put the new block on the list of the function, and
    leaves the branch of the source block naming the old target.
11. `isJumpThreadingSafe` accepts a target far down the graph; the blocks on the
    way need not be empty (`IsJumpThreadingSafe`).
12. Value numbering compares operands by text and operations by opcode: division,
    remainder and power of the same texts are taken for one computation
    (`SameNumberSameValue`).
13. The loop depth is not reset in a nested function, so `break` is accepted in a
    function that is declared in a loop (`ContextMatchesNesting`).
14. The evaluator passes a float without a fraction as an integer, another one with
    six digits, and a string without its quotes; it evaluates constants in the
    tables of the caller, goes on behind a failed return in an `if`, and makes a
    value of type error of `and` on numbers (`PlainPrograms` leaves these out). An
    `elif` is ignored.
15. The type checker knows operations the evaluator refuses: a text joined with
    something else, truth values that are ordered or xored, a plus in front of a
    number (`MayRefuse`).
16. The parser passes over `&` and `|` after a complete expression and a keyword
    after `let`, and takes any keyword for a type; a missing `)` yields the inner
    node and an error. The grammar document has calls, f-strings and statements the
    parser does not know, and `language_reference.md` (lines 34 and 111) lists an
    operator `xor` that neither grammar nor parser has.
17. The lexer makes up the columns of tokens in f-strings, does not count an
    escaped newline there, gives a string the line of its closing quote and the
    column of its opening one, and adds the part before an interpolation that is
    not closed twice.

## Proofs

The theorems hold for any sets of blocks, names, functions and instructions, any
code, literals and meanings, any statements and nesting, any programs, any tokens and
any recursion limit, from the named assumptions the modules make on their constants.
Those say what the objects and trees of a program are (parts of a node are nodes,
parameters are a list, an instruction has one of the opcodes), that a placeholder
for a missing name or function is not one, or that a bound is a natural number.
TLC evaluates each of them in a run.

| Theorem | Statement |
|---|---|
| `BlockTypeCorrect`, `LinksMirrored` | `BlockSpec => []BlockTypeOK`, `BlockSpec => []LinkSymmetry` |
| `BlocksImplementFlowGraph` | `BlockSpec => ImplementsFlowGraph` |
| `SplittingExhaustive` | `BlockSpec => SplitLeavesNoCriticalEdge` |
| `MergingKeepsTerminators`, `MergingKeepsDefinitions`, `MergingRunsBothBodies` | `BlockSpec =>` the three merge properties |
| `ThreadingInStep`, `ThreadingPaths` | `BlockSpec => ThreadingKeepsBranchesInStep`, `BlockSpec => ThreadingKeepsPaths` |
| `TypeCorrect`, `FunctionLinksMirrored` | `Spec => []TypeOK`, `Spec => []LinkSymmetry` |
| `PassesAmongFunctions` | `Spec =>` the three merge properties, the two threading properties and `SplitLeavesNoCriticalEdge` |
| `EliminationCorrect` | `Spec => EliminationIsExact` |
| `FunctionsImplementFlowGraph` | `Spec => ImplementsFlowGraph` |
| `TraversalCorrect` | `Spec => []ReturnsDiscoveryOrder` |
| `SearchCorrect`, `CycleMembersFound`, `CycleListCorrect` | `Spec => []SearchIsExact`, `[]CycleMembersAreFound`, `[]CyclesAreListed` |
| `SweepsGrow` | `Spec => SweepsOnlyAdd` |
| `DominanceSound`, `FrontierCorrect` | `Spec => []DominanceIsSound`, `[]FrontierBoundsDominance` |
| `DominanceComplete` | `Spec => []DominatesIsComplete` |
| `NumbersCorrect`, `RepetitionsShareNumber`, `PairsCorrect` | `Spec => []SameNumberSameValue`, `[]SameOperationSameNumber`, `[]PairsStartAtFirst` |
| `ContextFollowsNesting`, `NamesUnambiguous` | `Spec => []ContextMatchesNesting`, `[]NamesAreUnambiguous` |
| `TypesForgottenBuffers` | `Spec => []TypesForgetBuffers` |
| `NodesAreFreed` | `ParserSpec => []NoNodeIsLost` |
| `FailuresAreReported` | `ParserSpec => FailureIsReported` |
| `LiteralsOwned` | `Spec => []LiteralsAreOwned` |
| `ResultsAreMeant` | `Spec => []ResultIsMeaning` |
| `CallsAlwaysBalance`, `TypesAgree` | `Spec => []CallsBalance`, `Spec => TypesPredictResults` |

**The inductive invariant.** Neither `BlockTypeOK` nor `LinkSymmetry` is
inductive alone. A pass that constructs a block sets its two link sets outright;
the mirror survives only because a block that did not exist was linked to by
nobody, which is `UnbornUnlinked`: `BlockTypeOK` says links lead to constructed
blocks, and `LinkSymmetry` carries that over to the other end. Their conjunction
`BlockInv` is inductive; there is one lemma per group of actions, and jump
threading, with its six updates, is a composition of `MirrorWith` and
`MirrorWithout`. `LinkSymmetry` is checked by the runs as well; the types of the
variables are proved only.

**Refinement.** `Reachable(adj, r)` is the least set that holds `r` and is closed
under `adj`, so the paths before and after a step are compared by closed sets
instead of by induction on paths. For splitting and merging, each closed set
of the graph before the step extends to one after it (by the new blocks it leads
to) and each closed set after restricts to one before: reachability among the
old blocks is the same. For threading, the target was already behind the
bypassed block, so a set closed before is closed after.

**Elimination.** The blocks the entry reaches have no link to a dead block, so
they keep theirs, so they are still reached (`ReachedKeepLinks`,
`ReachedStayReached`), and nothing else is, because links are only removed. The
list that is left is an `IsRemainder` of the old one, its entries in their order;
`RemainderElements` and `RemainderFirst` say what is on it and that the entry is
still first.

**Passes.** Each promise of a pass follows from `BlockInv` alone, so it holds of the
blocks by themselves and, because every step of a function keeps `BlockInv`, of
blocks and functions together (`PassesAmongFunctions`). `MergedInstructions` gives
the merged block position by position; two of the merge theorems compare positions
from there. `MergeRunsBothBodies` compares what is left of three sequences without
their terminators: `Computing` is a function of how much of a sequence has been
read, and it is compared with that of the parts position by position, upwards.
`SplitAllExhausts` shows why the list made before the first split is still right after the last: a
critical target trades one predecessor for another, so it keeps several. For
`ThreadingKeepsPaths` the bypassed block has no predecessor left: a set closed
after the step is closed before it once this block is added to it, whenever the
block before it is there.

**Traversals.** In `getReachableBlocks` the result followed by the queue
(`History`) is at all times an order of discovery of the visited blocks, and
every successor of a block in the result is visited or still to be looked at;
when both run out, the visited set is closed and so it is `Reachable`. Depth
first the same holds of frames: a successor of an entered block is entered, or
still in the loop of that block's frame (`EnteredInv`). For cycles the blocks
that were entered and left (`Left`) form a closed set without cycles, which is
why they need not be looked at again (`CycleInv`), and the blocks on the stack
are a path without repetition (`StackInv`), which the list is read off: from the
block that was met again, the part of the path above it is a cycle (`ListInv`).

**Dominators.** The set of a block stays below what the next visit makes of it
(`DomInv`), because the sets it is computed from only grow; so visits only add. A
block gets this into its set only when all its predecessors have it, and so
cannot escape if they cannot. At the end every visit changes nothing
(`SweepInv`), and then the blocks without this in their sets are themselves a
set that escapes. Soundness: the blocks an entry reaches past this are such a set
too (`PastThisEscapes`), at any time. Completeness: the blocks without this in
their sets that the entry does not reach past this would each have a predecessor
among themselves, and going back from one to the next would end nowhere; in a
finite graph without loops it ends, because what is reached grows with every step
back (`NoWayBackForEver`). For the frontier: a dominated block that
could not be reached inside it would have only such predecessors, and escape.

**Value numbering.** Two facts about the table carry everything: its entries are
different for different keys (`TableInv`), and the number of a result is the entry
of the key of its definition, or a number nothing else has (`NumberInv`). One lemma,
`NumberStep`, serves both numberings, because in both the instruction is from then
on the definition of its result. Then numbers are equal when keys are, and
`KeyFixesValue` and `OperationFixesKey` say what keys mean. For the searches
`SearchInv` says that the table holds the first instruction of each key and that
every other one is paired with it.

**Semantic analysis.** What is true of the frames, tables and global variables is
stated of any values of them (`Sound`), because a step may close one construct and
open two. `Nested` ties every frame to the tables that were open when it was
entered (`Opened`): the type saved in a function's frame is that of the symbol of
the function around it, found in the table `Opened` names, so it is still that
symbol's when the frame is left. Declaring a name changes the last table only.
`Unambiguous` needs to know which tables are those of parameters. A struct's name
must be in no table when it is declared, which is what makes it stand for one
struct while tables are opened and closed.

**Literals.** `Good` says of a stack, its tables and the allocated literals: the
literals are the disjoint union of what the frames hold; every frame is well formed
(`Formed`); the frame under a body is its call; and the table of the n-th open call
has literals which that call's frame holds (`Tabled`). A step pops the running
frame and pushes others (`GoodPop`, `GoodPush`), and only a body is pushed and
popped with its table (`GoodEnter`, `GoodLeave`). A name then stands for a symbol of
the source or for a literal some open call still holds (`NodeIsGood`), whichever
table it was found in.

**Types of expressions.** The type of an expression is a function defined by
recursion on expressions, from what the buffers hold (`T`). That there is such a
function is proved first: `Height` says how deep an expression is, solutions of the
equations exist below each height (a least height without one cannot be), any two
agree where both are defined, and together they give one for all expressions
(`TypesExist`). By the same kind of argument every expression is settled
(`AllSettle`): its text, the place it is at and what it writes do not depend on
what the buffers held before. Every type is a text that begins with a name
(`TypedInv`, for what tables hold), because the cut of an index depends on its last
word.

**Parser.** Every function of the descent keeps one contract with its caller
(`Gives`): its node, of which it says the size, is all that it leaves in memory; it
has read something if it returns a node, and reported an error if it returns none;
and it never stands behind the end of the file. A level of operators keeps it if the
level below does, its loop by induction over the rounds (`LoopGives`). For the
functions that call themselves the induction is over the depth: a call nested in
another begins at least one token later (`FitsFrom`, `DeeperFits`), so that a
descent *n* deep may be started *n* tokens before the end and one as deep as there
are tokens anywhere (`DescentIsDeepEnough`). What the loops over statements and
parameters have gathered is in memory until a node owns it or it is freed (`Lists`).
`Inv` then says that the nodes in memory are those of the trees the client was
given. `LoopEnds`, `StatementsEnd` and `ParametersEnd` show that one round more than
there are tokens would change nothing: what the model writes as a number of rounds
is the `while` loop, and it ends. The induction is over sets of numbers, by the
minimum of a well-founded relation, because the library's induction rule takes an
operator; that `SizeOf`, `Loop` and `Descent` are functions at all is shown the same
way first.

**Evaluator.** `CallsBalance` is inductive together with the shape of the stack
(every frame has a place). `Moved` covers the steps that put other frames in the
place of the running one; `Enter` adds one call, one level and one table, and
`LeaveBody` takes them off, which are the only two steps with an argument about
cardinalities. For `TypesAgree` every value on the stack, in a table or returned is
a proper one of its type, an integer whole and a truth value true or false
(`ValuesInv`); then `OperatorsAnswer` and `UnaryAnswers` are case analyses of
`BinaryOp` and `UnaryOp` against `StaticTypes`. That a literal is still proper when
it was printed and read again is `RereadIsPure`.

**Meaning.** `HandsOn` says of a frame that, given one value, it hands another on to
the frame under it, as the rules make of the first in a context that the tables
agree with (`Knows`); `Leads` chains this from the value at hand, through the stack,
to what comes out of the evaluator. Calling `Evaluate` establishes that the stack
leads to the meaning of the expression, each step keeps what the stack leads to
(one lemma a step, `StepLeads`), and an empty stack leads to the value at hand
only. That an operation gives what it means is a lemma of arithmetic
(`OperationAgrees`): truncated quotients of fractions are quotients of integers
(`TimesIsWhole`), and signs of differences order fractions (`OrderAgrees`). The
table of a call shadows its caller's as `Inside` says (`KnowsInside`); a
constant's initializer is evaluated in the caller's tables, which agree with
`Globally` on the names no caller has bound. What is known was found by a rule from
what is known one application before (`ExprKnown`, `BodyKnown`), which is all the
induction that is needed: the number of applications stays bounded by `MaxRules`,
whatever that is.

`With` and `Without` are written pointwise and not with `EXCEPT`: the SMT
translation of tlapm 1.4.5 merges nested `EXCEPT`s on one argument into a single
one with both values, from which anything follows.

## Only model-checked

- Liveness (`WorkListRunsOut`, `TraversalReturns`, `ComputationReturns`,
  `EvaluationEnds`): under
  fairness it is out of the prover's reach.
- The grammar (`ExpressionsFollowGrammar`, `DeclarationsKeepTheirParts`): the
  reference splits the tokens with recursive operators, which the prover does not
  take.
- The lexer (`PositionsAreTrue`, `TokensAreLongest`, `NothingIsLost`,
  `EveryStepReads`): its operators call each other, for the expressions in an
  f-string, over texts as sequences of characters.

## Not modelled, and the plan

Left out for good:

- ZIR types, values and the builder: immutable holders behind accessors with one
  type test each. Operand checks and result types of the instruction classes.
- Handles of the C API: each wrapper tests its arguments for NULL, calls one method
  and allocates or frees one handle. The methods are modelled.
- Constructors of tree nodes the parser never makes, copies of strings, and
  allocation failure; `parse_term` and `parse_factor`, which nothing calls;
  `is_comptime_expr`.
- Parsing and printing of types, struct types and the ranges of literals in
  `static_types.c`.
- Rounding of doubles and overflow of integers in the evaluator, except for the six
  digits of `%g`.
- `main.c` and `zacklang.c`, which are empty, the `.bak` file, which is not built, and all debug
  output.

What could follow: the rest of `static_types.c` as operators.
