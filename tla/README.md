# A TLA+ verification of Simple-Rust-Compiler

The repository compiles a subset of Rust to textual LLVM IR. It is one sequential C++ program:
no threads, no persistence, no messages. What is hard in it is of another kind: a chain of
passes that share maps keyed by AST node, visitors that keep mutable context across recursive
calls, and a code generator whose correctness depends on three copies of "where am I" staying
in step while jumps cut the flow of control short. The specifications here model that core; the
C++ call stack of a visitor becomes a variable, a step is the part of a visit between two
recursive calls, and TLC runs the visitors over families of small programs.

## Inventory

The driver (`src/main.cpp`, `run_full_pipeline`) calls the passes in a fixed order; each reads what
the ones before left in its maps and an exception (a `std::string` "CE ..." or a
`std::runtime_error`) ends the compilation.

| Component | Source (under `src/`) | State | Operations | Correct when |
|---|---|---|---|---|
| Lexer | `src/lexer` | token list, cursor | `read_and_get_tokens`; read, peek, consume | the tokens are the longest lexemes of the text (comments do not nest); the one buffer is never shared by two of them |
| Parser | `src/parser` | cursor in the lexer | Pratt expressions, statements, items | a printed tree is parsed back, no token is dropped, `must_return_unit` marks exactly the block-like statements whose value is discarded; it ends |
| AST, visitors | `src/ast`, `include/ast` | the tree, node ids | `AST_Walker::visit` of each node | every child is visited once, in source order |
| Scopes | `semantic/scope.cpp` | tree of scopes, a stack, `block_is_in_function` | enter, leave, declare | a block's scope has the right parent; a function body shares its function's scope |
| Semantic checker | `semantic/semantic_checker.cpp` | namespaces, impl tables, queue of constants | the four steps of `checker()`, impl merging, builtins | names resolve to one declaration, duplicates are refused |
| Types | `semantic/type.cpp` | `type_map` | resolve a type node | a type name means the declaration in scope |
| Constant evaluation | `semantic/consteval.cpp` | `const_value_map`, `const_expr_to_size_map`, queue of sizes, a flag | visits of items and array types, then the queue | every constant and size has the value that exact arithmetic gives it, whatever the order, unless a result overflows |
| Control-flow analysis | `semantic/controlflow.cpp` | `loop_depth`, `node_outcome_state_map` | one visit per node | a node that can complete has NEXT; stray jumps are refused |
| Type checking | `semantic/typecheck.cpp` | types and places of nodes, `loop_type_stack`, `now_func_decl` | one visit per node | only well typed programs pass; `never` only where control cannot continue |
| Type lowering | `ir/type_lowering.cpp` | struct, size and alignment tables by name, structs in progress | declare, define, measure | sizes are those of the natural layout; structs without one are refused |
| Global lowering | `ir/global_lowering.cpp` | names taken | walk the scope tree, emit constants and declarations | one name per entity |
| IRBuilder | `ir/IRBuilder.cpp` | module, functions, blocks, insertion point, name counters | create_*, set_insertion_point, declare, define | well-formed blocks, unique names |
| IR generation | `ir/IRGen.cpp` | `FunctionContext` (current block, sealed, slots, loops), value and address maps | one visit per node | the IR does what the program means |
| Runtime | `runtime/builtin.c` | none | print, read, strings | |
| Tools, driver | `src/tools`, `main.cpp` | none | | |

How they interact: the control-flow analysis writes `node_outcome_state_map`; the type checker
reads NEXT from it to give `never`, and the generator reads NEXT to stop emitting
(`current_block_has_next`). The type checker writes the type of every node, from which the generator
decides whether an `if`, `loop` or tail needs a result slot. The generator drives one IRBuilder,
which places every instruction at the insertion point or, for slots, in the entry block of the
current function.

Hard behaviours, all listed at their line in `PROJECT.json` under `hazards`: an outcome that is lost
on the way up the tree; context that is restored wrongly after a nested function or loop; code that
arrives in a block which is already terminated; a pointer into a vector that grows meanwhile; names
from several counters; cached flags; tables by name that are filled in one scope and read in another; flags of
the scanner that survive a comment; operands evaluated late; a flag that one visit leaves for another; names of
different scopes that meet in one module.

## Modules

An arrow is EXTENDS, a double arrow INSTANCE.

- `Outcomes`, `Trees` <- `ControlFlow` <- `ControlFlowSound` <- `MCControlFlow`, `ControlFlow_proof`;
  `Outcomes` <- `Semantics`, of which `MCControlFlow` takes an instance
- `BasicBlocks` <- `IRBuilder` <- `MCIRBuilder`; `IRBuilder` <- `IRBuilder_proof` <- `IRBuilderHistory_proof`;
  `BasicBlocks` <- `BasicBlocks_proof` <- `IRBuilder_proof`, `IRGen_proof`
- `BasicBlocks`, `Ast` <- `IRGen` <- `IRGenPoint`, `Execution` <- `IRGenSound` <- `MCIRGen`, which takes `Semantics` as
  an instance to type-check and annotate its programs; `IRGenPoint` <- `IRGen_proof`
- `Places` <- `Aggregates` <- `AggregatesSound` <- `MCAggregates`
- `Scopes` <- `Checker` <- `GlobalLowering` <- `GlobalLoweringSound` <- `MCGlobalLowering`;
  `GlobalLoweringSound` <- `GlobalLowering_proof`
- `ConstValues` <- `Constants`; `ConstValues` <- `ConstEval` <- `ConstEvalSound` <- `MCConstEval`;
  `Constants` <= `ConstEvalSound`, the refinement
- `Parser` <- `ParserSound` <- `MCParser`
- `Lexer` <- `LexerSound` <- `MCLexer`; `LexerSound` <- `Lexer_proof`
- `TypeLayout` <- `TypeLayoutSound` <- `MCTypeLayout`; `TypeLayout` <- `TypeLayout_proof`

- **Ast**: the control skeleton of the tree, `[k |-> kind, s |-> children]`. `bool` is the one data
  type that values have, `x` the one variable that is read. A call is `say` (an observable effect with
  a bool argument), `ask` (returns a bool nobody can predict) or `exit`. A function is `fn`
  (returns `()`), `fnb` (returns `bool`) or `main`. `ret` and `brk` have a child when they carry a value.
  A `blockt` has a tail. Every statement of the skeleton ends in a semicolon, so `must_return_unit`
  plays no part.
- **Outcomes**: the outcome algebra of `controlflow.cpp` and what each visit records
  (`node_outcome_state`). `bitset<4>` has no bit for DIVERGE (index 4): the write is undefined, so what
  it leaves is the constant `DivergeMark`. Beside it stands the reference, `node_runs`: how an execution of a node can
  really end, given how its children can.
- **Trees**: paths of child indices and the nodes they lead to, without recursion, so that they can be proved about.
- **ControlFlow**: `ControlFlowVisitor` on one function, as a machine. `stack` is the C++ stack,
  `Enter` goes into the next child (or refuses a stray jump, before its operand is visited), `Leave`
  records the outcome and restores `loop_depth`, `Finish` ends; `loop_depth` and the refused jumps have their
  properties here. **ControlFlowSound** states what outcomes are for against that reference. `TreeOutcome` and
  `TreeRuns`, of whole trees, are constant operators there, and `ReferenceAssumption` says that they are computed from the
  leaves upwards, which determines them on finite trees; so they can be proved about. TLC gets the recursive ones of
  `Semantics` and evaluates the assumption.
- **Semantics**: the same analysis as a function of the tree (`OutcomeOf`), the type checker's verdict
  (`TypeOf`, one operator per visit), the rules for `exit` and for jumps, hence `Accepted`; `annotated`
  attaches to each node what IRGen looks up.
- **Scopes**, **Checker**, **GlobalLowering**: one machine that follows names from the source to the
  module. A program is the walk `AST_Walker` makes of it, a sequence of nodes with an `end` where the walk returns
  from a node that has children, so that every pass can be a step per node: `pass` says which pass runs and
  `at` where its walk is.
  - `Scopes` is `ScopeBuilder_Visitor`: `scope_stack`, the tree of `scopes`, the declarations `decls` (a namespace is
    the set of declarations with that scope), `node_scope_map`, and the flag `block_is_in_function`. The
    code pushes only where it makes a scope; here every node that is entered pushes, so that every `end` pops.
  - `Checker` is `Semantic_Checker` as far as names go: the walk of the scope tree that merges impls
    (`Scope_dfs_and_build_type`; `todo` is its recursion), the builtins, types named in bodies, and the last walk, in
    which locals come into being and names are resolved (`candidates`).
  - `GlobalLowering` is `GlobalLoweringDriver` (struct cache, paths of scopes as `suffix`, declared functions and
    globals) and the part of `IRGenVisitor` that decides which function a body, a slot and a call belong
    to; `frames` are the items and blocks it is in, dead once a statement has no NEXT.
  **GlobalLoweringSound** states what names should mean; **MCGlobalLowering** builds the programs.
- **BasicBlocks**: `BasicBlock::append`, including its two surprises: after a terminator, an instruction
  goes in front of it, and a second terminator throws.
- **IRBuilder**: every call that changes the module's functions and blocks, the insertion point or the name
  counters, in any order a client may choose. A register or label name is a pair of hint (label) and
  number; the code's `hint + "." + number` is injective on such pairs, because the number is what
  follows the last dot. `emitted` is a history variable. `failed` is an exception that left the builder.
- **IRGen**: `IRGenVisitor`. Everything the visitor reads and writes is the record `gen`; helpers
  (`branch_if_needed`, `ensure_current_insertion`, `get_rvalue`, ...) are operators from `gen` to `gen` with
  the names of the code. One action per `visit`, one disjunct per stretch between two `accept` calls; a frame
  of `stack` holds the locals of the visit. Registers and blocks are numbered; the names are the
  business of `IRBuilder`. The pointer that `visit(BreakExpr)` holds across a visit is kept with the
  capacity of `loop_stack` at that time: when the capacity has changed, reading through it is undefined
  and the model takes both outcomes.
- **IRGenPoint**: what is said of the visitor's position and of its exceptions, and of which programs
  (`orderly_node`, `sound_place`), without recursion, so that it can be proved.
- **Execution**: two meanings of a function. `Meaning` executes the tree, `Behaviour` the blocks;
  both give the trace of what can be observed. **IRGenSound** compares them and names the programs the
  generator is known to get wrong (`Ordinary` is what remains).
- **Places**, **Aggregates**: the other half of `IRGenVisitor`: literals of structs and arrays, fields, elements,
  references, receivers, arguments, results and copies, in code without jumps. `EnterFunction` is the prologue (slots of
  parameters and `self`, the place of a result), `LowerStatement` the visit of one statement with all visits it nests as
  recursive operators from `gen` to `gen`, `LeaveFunction` the tail and the return. `result` is the entry that the visited
  node gets in `expr_value_map_` or `expr_address_map_`. The loop that fills a repeated array is the one instruction
  `fill`. `Places` has types, values and memory. **AggregatesSound** executes the instructions (`Behaviour`) and reads the
  text with Rust's rules (`Meaning`).

- **ConstValues**: the values of constants, `safe_stoll`, the unary and binary operators and the casts of
  `consteval.cpp`. `Width` stands for 32 bits, an untyped literal has twice as many. `Refused` is a thrown error,
  `Trapped` the division of the least integer by -1, which kills the compiler.
- **Constants**: the abstract specification. It knows no visit, flag, queue or order: it gives any constant or size
  that has no value yet the value its expression denotes in exact integers, and in the end accepts, refuses, or dies.
  `Overflow` is a result that does not fit; nothing is promised about it, although `consteval.md:20` promises that it
  is detected. `!` of an integer has a value here, although `test_const_eval.cpp:120-130` wants an error. Both are
  explained with the other disagreements, under *Runs*.
- **ConstEval**: `ConstItemVisitor`, `ArrayTypeVisitor` and the queue of step 3 of `Semantic_Checker` as a machine over
  the items, with the flag `is_need_to_calculate` and the two maps, then `emit_const` of `GlobalLoweringDriver`.
  **ConstEvalSound** maps its state to that of `Constants`.
- **Parser**: every parse function of `parser.cpp`. `todo` is the rest of all calls under way as a list of tasks,
  `trees` the results they hold, `pos` the cursor of the lexer. An error the code reports is the outcome `refused`, an
  uncaught exception `aborted`. **ParserSound** has a printer with Rust's levels of precedence.
- **Lexer**: the scan of a text, a character per step, with the flags of the code (`mode`, `word`) and its buffer
  `now_str`. **LexerSound** says declaratively what a lexeme is and cuts the text into longest ones.
- **TypeLayout**: `TypeLowering` for structs. `todo` is the set of steps `visit_scope` has left (declare all, define
  all, measure all, scope by scope; within a loop in any order, where the code has that of the names), `frames` the calls
  of `size_of_struct` under way, and after the lowering any type the program copies may be `asking` for its size.
  **TypeLayoutSound** has the layout, declaratively and by levels of nesting (`Nested`), so that it is defined for structs
  that hold themselves too; `HoldsItself` says of those that they are a set each of which holds another.

## Runs

The compiler is one thread that runs until it is done, so its loops are weakly fair: `WF_vars(Next)` for the scanner,
the parser and the evaluation of constants, `WF_vars(Lowering \/ Layout)` for the layout, whose environment (`Query`, the
visits that ask for a size) is owed nothing. The four are the components whose end is in doubt: they follow
cycles in the input, or a cursor that might stop. The visits of a tree (`ControlFlow`, `IRGen`, `GlobalLowering`)
end because the tree is finite; their runs and that of the builder state safety only. `CHECK_DEADLOCK FALSE`
everywhere: an analysis ends, an exception ends a compilation, and the bounds of IRBuilder end a sequence of
calls.

| Run | Question | Result |
|---|---|---|
| `ControlFlow` | visit of 15660 functions, three constructs deep (5978 of them refused) | `loop_depth` counts exactly the loops of the current function (`DepthCountsLoops`); a program is refused exactly when a jump has no loop of its function (`StrayJumpsRefused`); outcomes are a function of the subtree, nothing leaks between siblings (`OutcomesCompositional`); a node without NEXT cannot complete, unless an operand hides a jump (`NextSound`) |
| `IRBuilder` | all call sequences with 3 instructions and 2 blocks on 2 functions | terminators stay last, code keeps its order of emission and is never lost, registers and labels are unique, the builder stands in its current function, intrinsic calls are declared, a definition stays one |
| `IRGen` | lowering of 3520 accepted functions | an ordinary one behaves as its tree for both arguments and all answers (`SameBehaviour`); a sound one never throws (`NeverThrows`), and every ordinary one is sound; the three copies of the position agree (`PointFollowsContext`), reachable blocks end in terminators and nested functions share none (`WellFormedGraph`), sealed blocks get slots only (`NoLateCode`) |
| `Aggregates` | lowering of 8493 programs of straight-line code over structs, arrays and references | an ordinary program prints the same numbers executed as read with Rust's rules (`SameData`); no program prints an address or what nobody stored (`SlotsWrittenFirst`) |
| `GlobalLowering` | compilation of 13118 programs with items in every place | symbols are unique (`SymbolsUnique`); the flag and the stack give every node the scope of the text around it (`ScopesFollowText`); a method belongs to one struct, a struct has no two of a name (`MethodTables`); a call reaches the body of the function that its name was resolved to, unless that item is dead code (`CallsReachCallee`); a local is stored before it is read, unless a nested function captures it (`StoredBeforeRead`); an accepted program fails for four reasons only (`FailuresKnown`) |
| `ConstEval` | evaluation of 11 kinds of operand under every operator, and constants, casts, sizes and scopes in every order | it implements `Constants`, which is Rust's meaning but for what overflows (`ImplementsConstants`), and ends (`EvaluationEnds`); the initializer of a global is the value of its constant in the shape of its type (`GlobalsHoldConstants`) |
| `Parser` | 31398 programs: printed trees and all short token sequences | what is printed with Rust's parentheses is parsed back (`RoundTrip`), an accepted program is in its tree token for token (`NothingDropped`), statements whose value is discarded are marked and no others (`UnitMarks`), the parser ends (`ParserEnds`) |
| `Lexer` | every text of up to 5 or 6 characters of four alphabets, one for each part of the scanner | tokens are longest lexemes and the rest is refused (`TokensAreLexemes`), the buffer has one user at a time (`BufferOwned`), the scan ends (`ScanEnds`) |
| `TypeLayout` | 9765 programs of three structs, in two scopes, that may hold each other | every size is that of the natural layout (`SizesAreLayouts`); refused are exactly structs that hold themselves, empty arrays and clashing names (`RefusedExactly`); the structs in progress are the calls under way (`InProgressIsStack`); measuring ends (`MeasuringEnds`) |
| `LostJump` | does every accepted program have sound outcomes? | no: `loop { !(break); }` counts as endless, because unary operators, `return` and `break` forget the state of their operand |
| `StaleLoop` | does `break` store its value, as `IRGen.md` says? | no: `loop { break loop { break x } }` writes through a pointer into a vector that has grown |
| `BuiltinClash` | can functions clash, which `PLAN.md` excludes in every scope? | yes: `fn append` of the program receives the calls of the `String` method `append` |

The three violation runs are disagreements between the code and its design documents; `findings` in
`PROJECT.json` quotes the lines.

Other disagreements that the models contain and no run is spent on:

- `while (break ^ ask()) { }` is accepted although `controlflow.md:13` allows jumps in a loop body only: `loop_depth`
  counts the condition. The generator then throws.
- The tail of `{ return ask(); x }` is loaded in the entry block, which is sealed; `IRGen.md:50` says such code is skipped.
- `loop { return; break; }` leaves an empty `loop.break`; `IRGen.md:222` wants no dead blocks.
- In `{ f(); return; fn f() { } }` the item is never visited and `f.0.0` is declared without a body, where
  `global-lowering.md:3` wants every item defined.
- `&` binds tighter than the shifts (`parser.cpp:713,722`), unlike Rust's.
- `x: mut i32` makes `parse_type` throw a string literal that `main` does not catch, so the compiler is terminated
  where `parser.md:33` wants a message.
- `!` of an `i32` is an error for `test/const_eval/test_const_eval.cpp:120-130`. The code gives it the value `~x`
  (`consteval.cpp:96-98`, on purpose: the comment in line 87), and so do the type checker (`typecheck.cpp:451`), the
  generator (`IRGen.cpp:591-601`) and Rust. `Constants` takes this side (`denoted_unary`), and the run `ConstEval`
  applies `!` to every kind: that `ImplementsConstants` passes means that the assertion of the test does not hold.
- Folding detects overflow according to `docs/semantic/consteval.md:20`. The code tests for zero divisors, the count of
  `<<` (not of `>>`) and the range of a literal and of a conversion, but `+`, `-`, `*`, negation and the shift
  itself keep the wrapped result (`consteval.cpp:131-147`, `wrap` in `ConstValues`): `4294967295u32 + 1u32` is accepted as 0, where
  `rustc` reports an error. `Constants` permits a refusal and any value there, so `ImplementsConstants` neither shows
  detection nor fails for the lack of it.
- `456_i32` is an `i32` for `test_const_eval.cpp:18-23`, and `docs/tools/tools.md:18` describes the underscore too;
  `safe_stoll` refuses it. Literals are numbers in the model, so no run has one.
- The words around a comment become one (`a/* */b`), and the character of `'\0'` is lost (`lexer.cpp`); a number is a run
  of letters and digits that nobody validates before its value is wanted.

### Bounds and why they are enough

- `ControlFlow`: program families (`MCControlFlow`). Level one is every construct around every leaf and every
  sibling; level two puts all of these under every construct; level three puts these under what hides,
  resets or swallows an outcome (loop, while condition, unary operator, nested function, block with tail). An
  outcome is decided by a node and its children, and a jump by the loops and functions around it, so three
  levels meet every pair of an effect and what undoes it. `MaxNesting = 9` is more than these trees have.
- `IRBuilder`: `MaxInstructions = 3` (a terminator, code after it, a second attempt),
  `MaxBlocks = 2` (two blocks of one function, or one of each of two), one hint beside the
  anonymous series, one label beside `entry`, one intrinsic. The two
  functions are symmetric. All nine properties are proved for any bounds.
- `IRGen`: `MCIRGen` builds statements around statements and expressions around statements to depth two
  (`S2`), each in a `fn`, a `fnb` and `main`, keeps what the type checker accepts, and adds rare shapes
  (`Rare`). `MaxBits = 2` answers and both arguments drive each branch both ways; `MaxTrace = 4`
  observations and `Fuel = 6` turns of silent loops (the blocks get `8 * Fuel` jumps, more than as many
  turns of the deepest loop need) stop endless programs at the same observation in both executions: a
  silent endless loop gives the same finite trace whatever the fuel.
- `GlobalLowering`: a main, two pieces of code in it and up to one item before or after it. A piece is a leaf, an
  item or a block around a leaf, or around one of eight pairs whose second part refers to the first (a
  local and its use, a struct and its impl, a call and the item behind a return). One name per namespace
  (`x`, `f`, `S`) is enough for every clash and every shadowing; the pieces nest three scopes deep, which
  meets a use, the scope between, and the declaration. `Special` has what needs a second name: builtins,
  structs that contain each other, a block in the type of a parameter.
- `Aggregates`: a struct, a struct that holds it, an array of numbers and one of structs, a variable index and a
  reference into a struct. `S1`, `T1`, `A1`, `B1` and `Ints1` put every expression of a type under every expression that takes it;
  each is assigned to every kind of place, put into a new variable, borrowed, or made a receiver, and then either
  it or its source is changed, which tells a copy from an alias. Two parts and two elements tell the first from the
  others. A program declares only the variables and functions it uses, and prints every number it can reach.
- `DivergeMark = {}`, a bitset that drops the bit. No reader of an outcome asks for anything but NEXT,
  RETURN and BREAK.

- `ConstEval`: `Width = 3`, so that literals of six bits reach every limit of every kind and go past it. `Operations`
  puts every operator between every pair of operands at a limit; `Orders` has three constants in three orders and two
  scopes; `Arrays` and `Deep` have sizes that are literals, constants, later constants, casts and errors.
- `Parser`: operators nest to depth three (an operator between two others meets every comparison of binding powers),
  bodies have up to three statements of every form, and all token sequences up to length four after a brace or a
  parenthesis meet every error path there.
- `Lexer`: five characters are a comment with one character inside or two words around it; raw strings need six.
- `TypeLayout`: two structs of the root scope with up to two fields that may hold each other, themselves or arrays, and
  a third in an inner scope whose name is free, taken by the first, or that of a builtin. Two structs are a cycle,
  three and a scope meet a struct that is measured as a field before its turn; lengths include 0, in fields and in what
  is asked about.

### What the runs leave out

`ConstEval` promises nothing of a result that overflows (`Overflow`: the code wraps it, its document promises an error,
and what a shift by the width or more gives depends on the build) nor of casts to arrays, and lets the code refuse a constant that names a later one. `Parser` prints
parentheses where the code's grammar differs from Rust's (`&` beside a shift), around block-like operands, and never
has a jump without value as operand. `Lexer` leaves out texts whose words only a comment separates (`joins_words`) or
in which a raw string begins inside a word (`splits_word`), and takes NUL out of its reference.

`Aggregates` has its own `Ordinary`. It excludes what the code evaluates in another order than Rust, where that order can
be seen: an operand in a place that a later operand writes to (`read_late`: `f(s, { s.x = 9; 1 })`), a target whose
place depends on the value (`target_first`: `a[i] = { i = 0; 1 }`, the place is found first), fields of a literal that
are not in the order of the declaration and act on each other (`out_of_order`), and a borrow of a block whose tail is a
variable (`borrowed_block`: `&mut { a }` is `&mut a`). Each was seen in the compiler's output. `SlotsWrittenFirst` holds
of these programs too.

### What `Ordinary` of `IRGen` leaves out

`SameBehaviour` and its companions are claims about programs in which no operand jumps
(`operand_jumps`: `x = { return; true }` stores into the entry block and the dead store runs), no name is loaded
after a later operand has assigned it (`read_late`: `x ^ { x = true; x }`), no tail follows a jump
(`dead_tail`), no loop's only jump is `continue` (`never_with_next`: `alloca void`), no
break value contains a loop (`stale_loop`), no branch of an `if` with a value ends in an `if` or `loop` that does not
complete (`dead_branch`: in `fn f(x: bool) -> bool { if ask() { loop { return x; } } else { x } }` the unreached block behind
the loop stays current, because only a statement drops it, while `IRGen.md:130` wants that of every expression without
NEXT; the `if` then asks for a value the branch does not have, and the lowering throws), and `main` ends in `exit`
(`no_exit_code`). Each was seen to be lowered
wrongly, or to a module that LLVM refuses; the conditions are syntactic, so the rest of the
family, among it every jump as a statement, in branches, loops and nested functions, is checked in full.

## Proofs

`IRBuilder_proof` and `IRBuilderHistory_proof` prove all nine properties of the run `IRBuilder`, for all sets of functions,
labels, hints and effects and all bounds, from `BoundsAssumption`, `NamesAssumption` and `HintsAssumption` (a
client does not ask for the hint `tmp`, which the anonymous registers use) only.

- `TypeCorrect`, `TerminatorsLast`, `PointStaysInFunction`. The inductive invariant is
  `IndInv == TypeOK /\ PointInFunction /\ TerminatorLast` (theorem `Inductive`). `TypeOK` alone is not inductive: that
  an instruction lands in a block of `BlockIds`, and that the entry block of the current function exists, needs
  `PointInFunction`; that only existing blocks have code is part of it for the same reason. `TerminatorLast` needs the
  shape of bodies: `AppendKeepsTerminatorLast` rests on `OnlyTerminator` (in such a body the first terminator is the last
  instruction) and `InsertShape` (what `InsertAt` of the community modules puts where). The step is split by what changes
  rather than by action: `BlocksChange`, `FunctionsChange`, `PointChange`, `NamesChange` and `FlagsChange` say for every
  action which of the few possible things it does to one part of the state, and `TypeStep`, `PointStep` and
  `BodiesTyped` conclude.
- `NothingEmittedIsLost`, `DefinitionsStay` are action properties: a step puts at most one instruction into a body, and
  changes a function only from declared to defined.
- `EmittedInOrder` needs that every instruction is older than `emitted` (`EmittedBefore`): only then is the one put in
  front of a terminator younger than all before it.
- `LabelsAreUnique` and `RegistersAreUnique` need that every name in use is below the counter of its series
  (`LabelsTaken`, `NamesTaken`), and that `entry` and the anonymous series stay apart from the others.
- `CalleesAreDeclared` needs that a flag of the builder is only set when the function is in the module (`FlagsRight`),
  for what a call relies on is the flag.

`ControlFlow_proof` proves, for every set of programs that are trees with a function at the root and at most `MaxNesting`
deep (`ProgramsAssumption`; any depth will do),

- `DepthIsRight`: `Spec => []DepthCountsLoops`, and `JumpsAreInLoops`. A visit restores what it saved, so the strengthening
  `DepthInv` says of every frame on the stack that its `prev_loop_depth` counts the loops above it, not only of the top.
- `StraysAreRefused`: `Spec => []StrayJumpsRefused`, and `OutcomesAreLocal`: an accepted visit leaves every node of the tree
  with what its children's outcomes combine to. `loop_depth` knows only the stack, while a stray jump is a matter of the
  tree, so `WalkInv` says where the visit is: the frames are the nodes on one path from the root (`Onto`), and a node that
  has an outcome has been let in and so have its children (`Closed`). With `DepthInv`, `StrayHere` then gives that a jump below the
  innermost frame is stray exactly when `loop_depth` is 0. That the visit reaches every node follows level by level
  (`EveryNode`).
- `OutcomesOfSubtrees`: `Spec => []OutcomesCompositional`, and `NextIsSound`: `Spec => []NextSound`, for every pair of
  operators that fulfils `ReferenceAssumption` (which also asks for the right number of children). `Closed` makes the
  recorded outcomes follow from those of the children, and `BottomUp` is induction over the levels of a tree, deepest first,
  for one set; the first theorem is that for the set of the nodes whose outcome is right. For the second the claim must be
  stronger than NEXT: a `loop` has NEXT because of a BREAK inside it, so every ending of NEXT or BREAK has to be recorded
  (`covered`). `NodeCovered` is its step, for one node of each kind and without any state; it is where the hypothesis that no
  operand hides a jump is used (`masks_jump`), and where `SequenceStates` says what a sequence of outcomes keeps.

`TypeLayout_proof` proves all three safety properties of the run `TypeLayout`, for all sets of programs and questions. Its
assumption (`ProgramsAssumption`) is that a program is a sequence of structs whose fields name structs of their own scope
or one around it, and that the types asked about are types of the program.

- `ChainOfStructs`: `Spec => []InProgressIsStack`, with the shape of frames (`FramesShaped`) as its strengthening, and
  `AlignmentsAreCached`: the exception for a struct with a size and no alignment is dead code.
- `SizesAreRight`: `Spec => []SizesAreLayouts`. The invariant is `NamesInv /\ LayoutInv /\ ErrorsInv`, beside
  `InProgressIsStack`. `NamesInv` ties the names declared and defined to the steps that are done; from it two structs that
  are defined never share a name, so the caches by name are caches by struct. `LayoutInv` is `CallsInv` (each call waits for
  the struct of the next, none of which has a size yet), `CachesInv` and `FramesInv`. The layout of a struct is that
  of `Nested(p)[n]` for every `n` that is large enough, and the difficulty is to say how large: `CachesRight` says
  that from the *number of structs measured* on, every level agrees with the caches. A struct that is finished holds measured structs
  only, so it is laid out from the level below (`FinishedIsLaid`), and the count grows by one. `FramesInv` says the same
  of the fields a call has placed (`LaidFrame`), `OneMoreLaid` is one field, `AllLaid` the end of a struct. What the
  recursive functions of the model and of the layout give (`EndsEquation`, `NestedEquation`, `ElementsNat`) is proved by a least counterexample
  (`Least`, `UpToN`).
- `RefusalsAreExact`: `Spec => []RefusedExactly`. `ErrorsInv` lists the exceptions with what they say of the program;
  for a cycle, the structs of the calls from the one met again to the last are the witness (`ChainIsCycle`). For the
  converse `DoneNested` says that among measured structs every nonempty set has a member that holds no other of it.

Two points of the definition matter for a proof: the first multiple of an alignment is chosen from a range that has
exactly one, and the layout of a struct goes by levels of nesting, since a recursion through its fields would be no
definition for a program with a cycle. An empty array may also be refused because it is asked about, not only as a field.

`Lexer_proof` proves two theorems for all texts (`TextsAssumption` only says that a text is a
sequence of strings).

- `BufferIsOwned`: `Spec => []BufferOwned`. The invariant is inductive by itself.
- `ScannerIsSound`: `Spec => []TokensAreLexemes`. The invariant `ScansLexemes` counts the lexemes behind the scanner:
  for some `n` the tokens are those of the first `n`, and `scanned` says, mode by mode, how much of the next one has
  been read: nothing (`code_at`), a word of which the buffer is the part so far (`word_at`), a comment that has not
  closed (`line_comment_at`, `block_comment_at`), a literal whose content so far is the buffer (`char_at`, `string_at`,
  `raw_string_at`). A word that a comment follows stays open, so the tokens are those with the word added
  (`with_word`); `follows_word` says which lexeme it is, and that another word would be joined to it, which is when the
  property claims nothing. The scanner never looks at the longest lexeme, so for each kind a lemma says by which
  characters the reference's longest lexeme is that one (`WordAt`, `SymbolAt`, `StringAt`, ...) or that there is none
  (`BrokenString`, `BrokenRaw`, `NothingAt`, ...). In literals the reference counts backslashes where the scanner jumps
  over what is escaped; `EscapedNext` relates the two. `Lexemes` and the content of a literal are recursive functions
  over a range; their equations follow by a least counterexample (`UpToN`), and the rest is an induction along the
  states of the scanner. TLC found no counterexample to `ScansLexemes` on the texts of the run before it was proved.

`GlobalLowering_proof` proves, for every set of programs (`ProgramsAssumption`: sequences of nodes, nested in any
way), `SymbolsDistinct`: `Spec => []SymbolsUnique`. The symbol of an item is its name and the path of its
scope, so two facts are needed. `NamesDistinct`: no two functions or constants of one scope share a name;
the builder's refusals keep it, and what the checker adds later are builtins and locals
(`DeclareKeepsNames`, `OthersKeepNames`). `PathsDistinct`: no two scopes share a path. This is not
inductive: a child gets its path when its parent is visited, and nothing in it forbids a second visit.
`PathOfParent` adds that a path always extends that of a visited scope, and `Tree` that a scope has one parent and
is listed once (`PushKeepsTree`); then a scope about to be visited has neither children with a path nor paths that
extend its own (`NoPathYet`), which is what `VisitStep` needs. `IInv` is their conjunction with `Shape`.

Three more theorems of that module follow names through the passes, under the same assumption. Each rests on `IInv`
and on `SInv`: every scope but the root is a child (`Rooted`), the entries of `node_scope_map` are scopes, and a function
item has one declaration (`FnPerNode`).

- `CallsReach`: `Spec => []CallsReachCallee`. `LInv` says what the two walks of the lowering have done so far: the
  functions declared are those of the visited scopes, under symbols that differ, and a declared function has a body
  exactly when the lowering is past its item and has not skipped it. At the end of the first walk every
  scope has been visited (`VisitReaches`), because a set of scopes that has the root and the children of its members is
  all of them (`ClosedIsAll`, by the least scope missing). `NamesResolved` bounds what the checker hands over.
- `TablesOfImpls`: `Spec => []MethodTables`. `MInv` says that an entry of the tables is a function of an impl and the
  struct its name stands for there (`OfImpl`), one for each name (`OneOfName`), and that the impls the checker's walk has
  entered are in the tables (`ImplsEntered`; the scopes walked are not part of the state, so the invariant says there is a
  set of them). That a name stands for one struct rests on `TypesDistinct` and on the walk outward: `NearestOutward`
  shows that the recursive function `nearest` satisfies its equation at every scope, `NearestFinds` that it gives at most
  one declaration when every scope has at most one, and `LookupsStay` that the later passes, which add only locals and
  builtins, do not change what a type's name means.
- `FailuresAreKnown`: `Spec => []FailuresKnown`. `CachesFollowWalk` and `LInv` exclude the duplicate global and the
  second lowering of a function, for the walk visits a scope once and symbols differ. What is left for the struct that is
  refused as `cyclic` is that a chain of parts longer than there are structs repeats one
  (`PartsByLevel`, `PartsAreChained`), so the structs of the chain contain each other (`CyclicContainsItself`).

Two theorems compare what the walks do with where things stand in the text. They also need `BodiesAssumption`: after the
head of a function come only names (the sizes of arrays in its signature) and then its body, unless a size has a block.
Programs with such a block are in the runs; an accepted program has none, which `TextInv` keeps as `Unsized`. Nesting
is counted in brackets (`Depth`), and its lemmas (`DepthAdds`, `EnclosingStep`) say how the sequence `O` of the constructs
that are open changes at one node. The brackets need not balance.

- `ScopesFollow`: `Spec => []ScopesFollowText`. `TextInv` says that `scope_stack` is what `O` makes of it
  (`StackFollows`: a construct puts its scope on the stack, the body of a function repeats the one below), that
  scopes are numbered in the order of the text (`scope_of`), and that `block_is_in_function` holds exactly between a head
  and its body. Then the top of the stack is the scope of the innermost construct
  around the node (`CurrentPlaced`), for two nodes the same scope if and only if the same construct (`StandsForOne`).
- `StoredFirst`: `Spec => []StoredBeforeRead`. `LetInv` is about the checker: a local is declared by a `let` or a
  function, in the scope in which it stands (`LetsPlaced`), and a use that is resolved to it comes
  later and inside that scope (`UsesPlaced`). `GenInv` is about IRGenVisitor: its frames are those of `O`
  (`FramesFollow`), and a local whose scope is open in live code, and which the walk has passed, has a slot (`SlotsFollow`). So a
  use that finds no slot is one of a local whose scope lies outside the function
  (`OthersAreCaptured`, with `NearestInside`: a search outward stays in the scopes around its start).

`IRGen_proof` proves `PointIsRight`: `Spec => []PointFollowsContext`, and `NoCodeIsLate`: `Spec => NoLateCode`, for every
set of programs and every set `OrderlyNodes` that fulfils `OrderlyAssumption`: its members are `orderly_node`s and their
children are members too. That closure is how a condition on a whole tree is said without recursion; the cfg gives the
set of all nodes of those programs of the family that are orderly throughout, and TLC evaluates the assumption. A node
is orderly when its number of children is that of its kind, a jump does not complete, a block completes only if all in
it do, and the operands of a node, the statements in front of a tail and the body of a `fnb` that has NEXT complete; a
tail that does not complete has no value. `IRGenSound.Ordinary` implies it (of the 3520 programs 3213 are orderly), and
it is needed: without it `x = { return; true }` emits code in a block that is sealed.

`PointFollowsContext` alone says nothing of what a visit will find when the visits it makes come back, so the
inductive invariant `PointInv` speaks of every frame on the stack: `FramesOK` (a frame waits for the child its parent has
just entered), `Claims` (the blocks a frame will move to are still open, belong to it alone, and are not the current
one), `Lively` (a visit is entered where the visitor stands in an open block) and `Good` (the shape of `gen`). What
one visit does is put into one relation: `Moves(g, w)` says that the blocks the visit holds or waits for (`w`) afterwards are
open, its own or new, that the open blocks of others stay open, and that closed blocks get slots only; `ReturnKeeps` and `AcceptKeeps` conclude from it for the frames below. Each
of the 17 visits has its lemma (`LiteralKeeps` ... `FunctionKeeps`), of the form "what it does is one of: it goes on
where it stands (`Emits`), leaves (`Leaves`), moves to a block it claims". `BasicBlocks_proof` has the lemmas on
`BasicBlock::append` that both proofs about blocks rest on.

`NothingThrows`: `Spec => []NeverThrows` says that the lowering of a sound program does not throw, for every set of
programs and every set `SoundPlaces` that fulfils `SoundAssumption`. Whether a node is lowered well depends on what
is around it, so the members of that set are pairs of a node and its place (`TopPlace`, `place_of`): what is known
of the innermost loop, whether the node is in the value of a break, whether the function has a return slot, whether
the node ends a branch that does not complete of an `if` with a value. A place is sound (`sound_place`) when every
child whose value is read is one that has a value, a jump has a loop, the value of a break has no loop, an `if` with
a value has both branches, and a branch that does not complete ends in a jump; the type checker sees to most of it.
The other conditions exclude what the generator gets wrong (`dead_branch`, `stale_loop`). Of the 3520 programs 3239
are sound, and all 2935 ordinary ones, which `MCIRGen` states as an assumption (`OrdinaryIsSound`) that TLC
evaluates, so the theorem is about no fewer programs than `SameBehaviour`.

A visit throws for what other visits did: a child that left no value, a loop that was popped, a context that was not
restored. So the invariant `SoundInv` claims an environment for every visit in progress (`Surrounded`): its place,
the `loop_stack` it began with, the capacity that a break around it counts on, and whether a function is around it.
`environment` says what it is entered with, `remembers` what it has put aside, `encloses` how the environment of the
visit it waits for follows from its own, `valued` that the children it has behind it left the values it will read.
Values are named by the paths of nodes, which the visits on the stack extend one by one, so a visit below keeps them
(`keeps_values`). Each visit has a second lemma (`LiteralSound` ... `FunctionSound`) on top of the first, by
`ReturnSound` and `AcceptSound`; `PointInv` supplies that the visitor stands in an open block where it must, and
that a block it closes is not closed already.

Only model-checked: what compares a component with a reference on whole trees or programs (`SameBehaviour`,
`SameData`, `RoundTrip`), because the references recurse over trees. RECURSIVE operators
and the induction theorems are out of the prover's reach; a recursive function is within it where a least
counterexample does, as for `nearest`, the layouts and the lexemes of a text. The claims that go with those references (`WellFormedGraph`,
`SlotsWrittenFirst`, `NothingDropped`, `UnitMarks`, `GlobalsHoldConstants`) are about the same programs and stay
with TLC too. The refinement of `Constants`, whose denotation is recursive, and every liveness property are checked,
not proved.

## Not modelled

In IRGen: enums, strings, casts, operators on integers other than `+`, and structs or arrays as values of `if` and
`loop` (control and data are modelled apart, in `IRGen` and `Aggregates`). A function that returns an aggregate gets its
hidden parameter twice (`IRGen.cpp:105-112` and `lower_function`); `Aggregates` shows that the one without an argument is
never read, but not what a target makes of such a call. The sizes that `memcpy` uses (`TypeLayout`) assume pointers of 4
bytes while the module names no target (`main.cpp:22`), which concerns the C compiler behind. In the type checker:
references, integers, fields, patterns, mutability. In the syntax tree: its printer and the numbering of nodes. The
runtime is C code that reads and prints. Wording of errors and printing of IR are output.

In the modules about names a program has only what names need. A method or path node carries the name of the
struct its base has, which the type checker finds from the base. Parameters and locals are `i32`, a
receiver is none or `self`, a struct has at most one field, of a struct or a builtin type, and constants are arrays
(only those become globals). Impls hold functions: associated constants and enum variants are left out, as are
arities and types of arguments, `Self`, and the `exit` at the end of `main`. The builtin `len` of arrays is never a
call.

## Plan

1. *Done*: control-flow analysis, IRBuilder, IR generation of control; scopes, names and global lowering; constants with
   their abstract specification; parser; lexer; layout of structs. Proofs of the builder in full, of symbols, loop
   depth and refused jumps, the sizes and refusals of structs, and the scanner, its buffer and its tokens.
2. *Done*: structs, arrays and references (`Aggregates`) against a semantics with values and places.
3. The two halves of `IRGen` as one: aggregates as values of `if`, `loop` and `break`.
4. *Done*: `MethodTables`, `CallsReachCallee` and `FailuresKnown` for `GlobalLowering`, from `SymbolsDistinct`; the
   insertion point and the sealed blocks of `IRGen`.
5. *Done*: `NeverThrows` for `IRGen`; `OutcomesCompositional` and `NextSound` for `ControlFlow`; `ScopesFollowText` and `StoredBeforeRead`, from an assumption on where the body of a function stands.
