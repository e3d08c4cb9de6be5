# PavicCompiler: verification development

TLA+ models of the Markos compiler `pavicc` (C++17), the TLC runs that check
them and the TLAPS proofs about them. Source paths below are relative to the
repository; the code is in `src/*.cpp`, `src/codegen/` and `src/*.hpp`.

The compiler is a sequential program that reads one file holding several
programs and turns each into a 256-byte 6502 image (or the file into LLVM IR,
Java or TypeScript). There is no concurrency. What makes it hard is elsewhere:
one diagnostic bag is shared by all phases and all programs; three passes keep
three scope stacks that must evolve alike; data addresses are decided before
the code whose length they depend on exists; two regions grow towards each
other; a retry loop rewrites its own input; and the output is written by code
with several error paths.

## 1. Inventory

| Component (source) | State | Operations | Talks to | What makes it correct |
|---|---|---|---|---|
| Driver (`main.cpp`) | source text, tokens, fix-pass count, per-program ok flags and objects, output file, exit status | read, fix loop, phases over all programs, link, write, exit | calls everything, reads the bag's error count before and after each call | one faulty program stops all output; exit status and file tell the truth; the loop ends |
| Diagnostic bag and rewrites (`diagnostic.cpp`) | diagnostics with suggested rewrites | report, count, clear, collect fixes, apply them to the text | every phase writes, driver reads | rewrites of one pass are applied together or not at all |
| Lexer (`lexer.cpp`, `token.cpp`, `source.cpp`) | position, tokens | lex; report with fixes | bag | spans in range; a fix removes the error it belongs to |
| Parser, CST, lowering (`parser.cpp`, `cst.cpp`, `ast_lower.cpp`) | position, tree | recursive descent up to the first error, lowering | bag | exactly the grammar is accepted; spans and lowered trees say what the text says |
| Symbol table and scope pass (`symbol_table.cpp`, `semantic_scope.cpp`) | stack of scopes, all scopes, ordered symbols | push, pop, declare, lookup; stores a scope id in every identifier node | annotates the tree | an id stored is that of the declaration lexical scoping means; keys (name, id) are unique |
| Type pass (`semantic_type.cpp`) | its own stack name -> type | infer, check | reads the tree, bag | agrees with the scope pass on what a name means |
| Optimizer (`optimizer.cpp`) | a stack of what is known of each name | fold, propagate, remove, unroll | replaces the tree | the new tree does what the old one did, and its names mean the same variables |
| Usage pass (`semantic_usage.cpp`) | its own stack name -> read/assigned/initialised | declare, read, assign, report at block end | reads the tree, bag | a hint exactly when it is true |
| 6502 generator: layout (`codegen.cpp`, `memory_layout.cpp`, `code_buffer.cpp`) | bump allocator, string pool, code buffer, fixups, image | bind, plan heap, emit, patch branches, relocate, pad, store strings | symbol table, bag | code, variables and strings lie in the image, disjoint; operands and branches lead where they were meant to |
| 6502 generator: lowering (`codegen.cpp`) | registers it relies on | expressions to A/X/Y and Z | layout | the emitted instructions compute the expression |
| Text back ends (`multi_backend.cpp`) | names, registers, text | emit module | bag | distinct variables have distinct names |

Hard behaviours, each listed with its line in `PROJECT.json` ("hazards"):
address counters that wrap, regions at the exact limit, patches applied late,
state of one program that leaks into the next through the bag, passes that
disagree, values propagated too far, and output that is partly written.

## 2. Modules

| Module | Models | Role |
|---|---|---|
| `Isa6502` | opcodes and encoding used by the generator | shared operators |
| `ObjectImage` | `generate6502Program` and everything it calls that decides *where* bytes go | component; runs and proofs |
| `ObjectImage_proofs` | – | theorems about it |
| `Semantics` | scope, type and usage pass over one program | component; run and proofs |
| `Semantics_proofs` | – | theorems about it |
| `Driver` | one run of `main` | component; composes the phases by their effect on the bag |
| `Driver_proofs` | – | theorems about it |
| `Build` | what a run promises its caller | abstract specification `Driver` implements |
| `Tree`, `Ast` | the tree; what occurs in one | shared operators |
| `Rewrites`, `Optimizer` | `optimizeAstProgram` as operators: one node, the whole tree | pure algorithm |
| `Optimizer_proofs` | – | theorems about `Rewrites`, `Values` and, with `Lowering_proofs`, about the machine that runs an optimized program |
| `Values`, `Interp` | what a checked program does when it runs: one node, the whole tree | reference definition (external) |
| `Programs` | writes every checked program up to a size | input of the next two |
| `OptimizerCheck` | the optimizer against the reference | composes `Programs`, `Optimizer`, `Interp` |
| `Fragments`, `Lowering` | instruction selection of the 6502 generator: one node, the whole tree | pure algorithm |
| `Cpu6502` | the machine, instruction by instruction | component (external) |
| `MachineCode` | what generated code has in common, and the machine running any such code | abstract specification of what `Lowering` delivers |
| `Machine_proofs` | – | theorems about it |
| `Outcomes` | one program's code is loaded and runs; what it must print | composes `MachineCode` with an outcome |
| `Lowering_proofs` | – | theorems about `Fragments`, `Values` and `Outcomes` |
| `Emitters`, `TextBackEnds` | the emitters for Java, TypeScript and LLVM IR: one node, the whole tree | pure algorithm |
| `TextRules` | what javac and LLVM demand of a text | reference definition (external) |
| `IrMachine` | what the instructions of LLVM IR do that are emitted | reference definition (external) |
| `Emitters_proofs` | – | theorems about `Emitters`, `TextRules` and `IrMachine` |
| `BackEnds` | write, optimize, compile, run | composes `Programs`, `Optimizer`, `Interp`, `Lowering`, `TextBackEnds`, `TextRules`, `IrMachine`, `Outcomes` |
| `SourceText` | rewrites of a text, and which sets of them are refused | shared operators |
| `Lexer` | `lexAll`, one action for each case of its loop | component; runs and proofs |
| `Lexer_proofs` | – | theorems about it |
| `Parser` | the recursive descent and `lowerCstToAst`, as operators on tokens | pure algorithm |
| `FrontEnd` | the passes of `compileFile` with and without `--fix` | composes the three above |
| `MC*` | constants of the runs | TLC only |

### ObjectImage

One behaviour is one call of `generate6502Program`. `phase` follows it: `bind`
(`bindLayoutFromSymbols` and the constructor), `plan` (`planStringHeap` and the
two constant slots), `emit` (the statements), `relocate`
(`backpatchDataToAfterCode`), `pad`, `heap` (`materializeStringHeapInImage`),
`done`. The program is chosen as it is compiled: a statement handler queues the
instructions it emits for one statement in `todo`, and `EmitPlain`,
`EmitForward` and `EmitBack` put them in `buf` with the fixup or the branch the
code records. Expressions have at most one operator; that is enough for every
emission path that takes a temporary, records a fixup or a branch. `priorErr`
says whether the bag held errors before, since the generator looks at it.
Addresses are `% AddrMod` as `uint16_t` is; image bytes are bytes. An address 0
of the allocator doubles as "nothing allocated", as in the code.

### Semantics

The tree is the sequence of visits its walk makes. The scope pass chooses the
visits (so every program up to `MaxVisits` is covered); the other passes walk
the same sequence with stacks of their own, as the code does. `resolved` is what
the scope pass stores in the nodes. In `main` the usage pass sees the tree after
the optimizer; here it sees the tree the type pass left, so `ReportsExact` is a
statement about the pass and not about the order of the two.

### Driver and Build

`stage` is the position in `main`. The phases appear as what they do to the bag
and their results; a program has one of six natures that decide which phase
faults it. This is where the shared error count matters: `Passed` compares the
count before and after a call, `OptimizeAndHint` computes `canRunCodegen` from
the total, `Object` describes what the generator leaves when the bag is already
dirty (a padded image with only BRK), and `MayWrite` is the gate of the output.
`fresh` says whether tokens and spans belong to the text after rewriting.
`Build` states what a Makefile relies on: the file is delivered whole or the
status is failure. `Driver` implements it under the mapping in `Promise`.

### Tree, Ast, Rewrites, Optimizer, Values, Interp, OptimizerCheck

`Rewrites` has one operator for each function of `optimizer.cpp`: what becomes of a
node, given what becomes of its parts, on trees in which identifiers carry their
scope id. `Optimizer` applies them along the tree; it holds all the recursion, so
that `Rewrites` can be proved about. `Values` and `Interp` say what the generated object
does with such a tree: static slots that start as 0, ints of `IntMod` values,
declarations that emit no code; and what the languages of the text back ends do
with it, where a declaration makes its variable anew. `Programs` is a state
machine that writes checked programs statement by statement; whenever the root
block alone is open `OptimizerCheck` runs the optimizer on the program and
compares. `InferOf` is the type of a node as the type pass infers it, and `Infer`
applies it along an expression: `Programs`
writes only what it accepts, and `TypesKept` asks whether it would accept the
optimized tree, which in the compiler it never sees. The recursion is written over `Head` and `Tail`: nested folds of the
library with operator arguments are evaluated lazily by TLC and gave wrong
values for these operators. Steps of a walk are put together by small operators
(`Follow`, `Join`, `Assembled`) rather than by chains of LET, whose expansions
multiply when TLC counts how often each expression is evaluated.

### Fragments, Lowering, Cpu6502, MachineCode, Outcomes, Emitters, TextBackEnds, IrMachine and BackEnds

`Fragments` has one operator for each function of `codegen.cpp` that selects
instructions: the code of a node, given that of its parts. `Lowering` applies them
along the tree, and `Interp` does the same with `Values`; so all recursion is in two
small modules and the rest can be proved about. In `Fragments` an operand is a slot (a variable's key, a temporary's number, the
two constants), and branches are counted in instructions. Where the bytes and
addresses go is left to `ObjectImage`, whose theorems say that slots are distinct
and that operands and branches survive. `Cpu6502` is a state machine of the
instructions that are used. The generator leaves `LDA` between `CPX` and `BNE`
(`BooleanExprWrapper`), so the machine it is written for sets Z in `CPX` only;
with an `LDA` that sets Z, `b = (x == y)` would always be false.
`MachineCode` says what code the machine may be given (`Runnable`) and lets it run
any such code; `Outcomes` lets it run the code of one program next to `meant`, what
that program prints.
`BackEnds` lets `Programs` write a program, compiles it and runs it: `meant` is
what the reference says the program prints as it was before it was optimized. The text back ends are
judged in the state before, on two copies of the program as two programs of one
file: what they emit is run by `Interp` (Java, TypeScript) or, instruction by
instruction, by `IrMachine` (LLVM), and the rules of those languages for names, registers and labels are
invariants. `Emitters` has one operator for each thing the emitters write: what is
written for a node, and the counters and scopes after it, given that of its parts,
which `TextBackEnds` supplies. An alias is the pair of the name and the number, the
Java text is a tree over aliases, and the LLVM text is a sequence of instructions
between which labels stand. The registers in between for `printf`, `strcmp` and the
addresses of strings are left out; each comes from `freshReg` and is used once, by
the next instruction.

### SourceText, Lexer, Parser and FrontEnd

A text is a sequence of pieces: reserved words, single letters, digits, signs,
quotes and newlines are pieces, since no operation looks inside one. `Lexer`
has one action for each case of `lexAll` and keeps the rewrites the diagnostics
suggest. `Parser` gives, for the tokens, the trees or the first failure with its
rewrites, production by production. `FrontEnd` is the loop of `compileFile`:
scan, apply rewrites and start again, parse, apply rewrites and start again,
accept or give up; `pass` is `fixPass`, and the texts are those of the run. The
actions `FixAfterLex` and `ParseFails` take the rewrites of one pass together,
as `applySourceRewritesToString` does. The outcome and the number of passes of
the model were compared with the compiler on all 13842 inputs of the run (each
text with and without `--fix`, 32 passes) and agreed on every one.

## 3. Runs

| Run | Question | Bounds, and why they suffice |
|---|---|---|
| `object_image` | Are layout, operands, branches and strings right over all statements and at every limit? | 48-byte image with data from 24, two statements, branch limit 14 (127 in the code), payloads of 0, 2, 16 and 47 bytes: small enough that two statements overrun every limit, so that each error path is taken, and each limit is also met exactly |
| `object_image_wrap` | README promise "fail safely" | declarations only, address counter of 6 bits: **violated** by 64 declarations, whose first two share their addresses with the two constants |
| `semantics` | Do the passes agree, and is an accepted program what the generator assumes? | long programs over one name (nested and sibling blocks, duplicates) and short ones over two names, two types and all operators |
| `driver` | Gates, blame, output, exit, termination, refinement of `Build` | three programs (one before, one after the faulty one), three turns of the fix loop, all targets |
| `driver_full_disk` | Does success mean the file is there? | a disk that refuses the data on close: **violated** |
| `optimizer` | Is the optimized program equivalent, are its names the same variables and its values of the same types? | all programs of four statements after a prelude, over an int and a boolean, with three open blocks; unrolling limit 2, so that loops at, under and over it exist; ints of 3 bits, so that counters wrap |
| `optimizer_capture` | README promise "equivalent form" | a loop body that redeclares its counter: **violated** |
| `optimizer_overflow` | README promise "equivalent form" | a sum above the width of an int: **violated** |
| `back_ends` | Does the 6502 code print what the source means and halt? Do the texts for the other targets, and are they well-formed? | three statements after a prelude, over two ints, a boolean and a string; words of 4 bits and `MaxIncrement` 2 (8 in the code), so that sums go by `INC` and by `ADC` and wrap; every kind of operand on both sides of a comparison that the finding below spares |
| `lowering_compare` | `==` "is test for equality" | a right operand that is a sum by `ADC`: **violated** |
| `front_end` | Do rewrites apply, does the parser accept the productions over tokens, do repairs converge and keep what was written? | all texts of four pieces over seven, and five programs that use every production, with every piece left out, replaced or inserted, or two left out; 8 passes (32 in the code), more than the mistakes of any text |
| `fix_stray_slash` | README promise "stray `/` -> start `/*`" | one text: **violated** |

`CHECK_DEADLOCK FALSE` everywhere: a compilation ends, and so does a program
that is being written.

Main properties:

- `SlotsDistinct`, `RegionsDisjoint`, `StringsIntact`, `CodeIntact`,
  `OperandsRelocated`, `BranchesResolved`: the finished image, against what
  the statement handlers meant when they emitted.
- `KeysUnique`, `ResolvesLexically`: the ids in the tree, against a definition of
  lexical scoping by position alone. `TypesAgree`, `NoInternalError`,
  `CodegenAssumptions`, `ReportsExact` relate the passes to each other.
- `TokensCurrent`, `BlameIsLocal`, `AllOrNothing`, `ExitHonest`,
  `UntouchedUnlessSound`, `Terminates`, `KeepsPromise`.
- `Equivalent` (same output, ends in the same cases), `ScopesKept` (looking names
  up by nesting and by id gives the same declaration in the new tree) and
  `TypesKept` (the new tree is well-typed, and run side by side the two programs
  print values of the same types).
- `OutputFollows` (at every instruction the machine has printed a beginning of
  what is meant, and it stops only at the end), `ConstantsHold` (the two bytes
  that every unconditional branch and every addition rest on keep their values),
  `Halts`; `TextAgrees`, `JavaNames`, `IrWellFormed` for the other targets.
- `FixesApply` (what the scan suggests can be applied together), `AcceptsGrammar`
  (recursive descent against the productions, a number and a string being one token
  each; what the lexer allows in them is in section 4), `TreesMatchText` (lowered trees
  spelled out are the tokens in the span of the node), `NothingLost` (repairs keep
  what was written), `GetsFurther` and `ExceedsOnlyBySlash` (repairs make
  progress, unless a `/` outside of strings and comments begins no comment), `Settles`.

Every property of a passing run has a mutant, a plausible slip in one mapped
definition, that violates it (`PROJECT.json`, "mutants").

Programs with a literal that the optimized tree cannot emit (a folded sum above
255) are refused by the generator and are no counterexample to `Equivalent`
(`Emittable`). A program that uses up `Fuel` turns counts as one that does not
end. A program of four statements with two loops changes at most an int of 8
values and a boolean, so one that ends is at most 32 times at the head of a loop,
less than the 33 turns given, and in no loop more than 2^`LoopDepth` times.

### Fairness

The compiler is one thread that waits for nothing but the file system, so every
step that is enabled is taken at last.

- `Driver`: weak fairness of `Next`. No fairness is put on a choice, so
  `Terminates` rests on `MaxFixPasses` alone: a source whose fixes always suggest
  more fixes stays in the loop until the bound.
- `FrontEnd`: weak fairness of each stage of a pass (for the parse, whose guard
  is expensive, written out with `[]<>`). That `Settles` holds is due to `pos`,
  which grows in every step of a scan, and to `MaxFixPasses`.
- `BackEnds`: weak fairness of `Run`, the machine; a processor does not stop by
  itself. Nothing makes a program be written or compiled. `Halts` is stated for
  programs that end by the reference.

## 4. Disagreements between code and documentation

1. `memory_layout.cpp:14`: the 16-bit address counter wraps; a program with 65536
   declarations is accepted, and its first two variables have the addresses of the
   two constants the code rests on, against `README.md:31` (collision checks "so
   programs fail safely"). With 65533 to 65535 declarations the address of a constant
   cannot be moved behind the code, and the relocation reports an overflow; so the
   counter is never 0 for a program that is accepted (`StaticsMeasured`, proved as `MeasuredStatics`).
2. `main.cpp:209`: writers do not flush or close before they report success;
   `-o /dev/full` prints that the file was written and exits 0, against the
   message at `main.cpp:212-213`.
3. `optimizer.cpp:484`: a loop whose body declares the name its condition tests
   is unrolled as if it counted the outer variable, against `README.md:301`
   ("more efficient equivalent form").
4. `optimizer.cpp:122`: sums are folded with the host's int, so comparisons with
   a sum above 255 are decided otherwise than on the machine; same sentence.

5. `codegen.cpp:1042`: the left operand of a comparison is loaded into X before
   the code of the right operand runs, and a sum by `ADC` or a comparison as right
   operand uses X: `if (j == 9 + i)` takes the wrong branch, against `README.md:89`
   ("`==` is test for equality.").
6. `lexer.cpp:371`: the fix for a stray slash puts the star before it, the next
   pass finds the slash again and `--fix` gives up after all its passes, against
   `README.md:281` ("stray `/` -> start `/*`").

Each was also observed with the compiler itself.

Met while modelling, without a run:

- The grammar of `README.md:65-66` and `85` makes a number one `digit`, and that of
  `README.md:68`, `75-77` and `83-84` fills a string with letters and spaces only.
  `lexNumber` (`lexer.cpp:171`) takes all the digits there are and `lexString`
  (`lexer.cpp:140`) whatever is on the line up to the next quote: `print(11)` and
  `print("1")` are compiled, as observed with the compiler. The tests count on it
  (`03_int_literal_out_of_range` expects the literal 300 to reach the code generator).
  `AcceptsGrammar` is therefore about tokens: it does not say that an accepted text is
  in the language of that grammar.
- `README.md:280` lists `Print` -> `print` among the fixes, but `lexWord` is given
  lower-case letters only, so that a capital is an unexpected character.
- A variable declared in the body of a loop is 0 again at every turn in the text back
  ends and keeps its value on the 6502.
- A string that was never assigned is the pointer 0 on the 6502, which no literal
  equals.
- Java prints booleans as words, the other targets as 0 and 1.
- A statement after `while (true) { }` is unreachable for javac.
- `tests/run_phase_tests.sh:88-94` still expects variables of type `string` and
  `boolean` to be refused for the 6502, while `bindLayoutFromSymbols`
  (`codegen.cpp:1108-1119`) gives all three types a byte; the models follow the code.

## 5. Proofs

TLAPS checks, for every value of the constants that satisfies the ASSUMEs of the
modules:

- `TypeCorrect` (`ObjectImage_proofs`): `Spec => []TypeOK`. `TypeOK` alone is not
  inductive: a fixup is typed only if the address a queued instruction names is
  that of a slot, the literals 0 and 1 need their two slots, and a backward branch
  needs an open loop to lead to. `QueueInv` adds this. One lemma per action.
- `DistinctSlots` and `DisjointRegions` (`ObjectImage_proofs`), each under
  `NoWrap`: the symbols and the temporaries of all statements are fewer than
  `AddrMod`. The code does not check this, and `object_image_wrap` shows that it
  is needed. The inductive invariant `SafeInv` says that slots are handed out in
  order without gaps (`LayoutInv`), that pool addresses lie between `heapBase`
  and the end of the image with room for their literal (`HeapInv`), and that an
  image that is not refused was measured to fit (`ImageInv`). `SlotsDistinct` and
  `RegionsDisjoint` follow from it.
- `IntactCode`, `IntactStrings`, `RelocatedOperands` and `ResolvedBranches`
  (`ObjectImage_proofs`), under `NoWrap` as well: `CodeIntact`, `StringsIntact`,
  `OperandsRelocated` and `BranchesResolved`. The code is written in three turns:
  an operand or a displacement is emitted, then patched, then the heap is stored
  behind it. The inductive invariant `ContentInv` therefore keeps, for every place
  that is written twice (absolute operands, exit branches of open blocks, patched
  branches), that it lies within the code and apart from all others (`OperandInv`,
  `OpenInv`, `BranchInv`); so no patch can undo another one. `RelocatedInv` is what
  the relocation leaves in the operands, `HeapOrder` that the payloads lie in the
  order they were planned, and `StoredInv` that the code and the payloads written
  so far are in the image; by `SafeInv` the next payload is written behind both.
- `MeasuredStatics` (`ObjectImage_proofs`) is `StaticsMeasured`, without `NoWrap`: when the
  counter has come back to 0, the slot it gave last has the highest address; an
  instruction in the queue or a fixup names that slot (`CounterInv`), so the
  relocation upwards (`RamBase < MinDataBase`, 0 and 0x36 in the code) is refused.

- `DriverTypes`, `LocalBlame`, `CompleteOutput`, `OutputUntouched`, `CurrentTokens`
  (`Driver_proofs`) are the type invariant, `BlameIsLocal`, `AllOrNothing`,
  `UntouchedUnlessSound` and `TokensCurrent`, for every number of programs, errors
  and turns of the fix loop. The inductive invariant `DriverInv` adds to the types how
  far each list kept per program has got at each stage (`ProgressInv`), that a
  verdict is right and that a count of 0 means that everything so far was faultless
  (`GateInv`), and that the file is as before until the output stage (`FileInv`).
- `HonestExit` (`ExitHonest`) and `Implements` (`KeepsPromise`: every step of
  `Driver` is one of `Build` or a stutter) assume `~LateLoss`, a disk that loses
  nothing after the last check of the stream. `driver_full_disk` shows that
  without the assumption the first is false.

- `LexTypeCorrect` and `LexFixesApply` (`Lexer_proofs`) are `LexTypeOK` and
  `FixesApply` for every text, the first pass of `--fix` and, since the loop starts
  a scan from nothing, every later one. The inductive invariant adds that the
  rewrites kept so far are in order, each ending where the next may begin
  (`Ordered`), and end behind the scan position (`AllBehind`).

- `TypeCorrect`, `UniqueKeys`, `NoNameWithoutType`, `TypesAgreeAlways` and
  `CodegenMayAssume` (`Semantics_proofs`) are `TypeOK`, `KeysUnique`,
  `NoInternalError`, `TypesAgree` and `CodegenAssumptions`, for every set of names
  and every program. What links the passes is no part of their state: the stack
  the scope pass had at a visit is gone when the type pass comes to it. The
  invariant `HistoryInv` therefore asserts that there is a history `H`, one stack
  for each visit, each following from the one before it (`Follows`), which explains
  the notes in the nodes (`Annotated`) and the symbol table (`Recorded`), and that
  the stack of the current pass has the form of `H` at its cursor (`InStep`). The
  scope pass extends `H`; the others only move along it. `KeysUnique` rests on scope
  ids being positions in `allScopes`, so that no id is given out twice (`ScopesInv`,
  `SymbolsInv`). `CodegenMayAssume` adds that the visits the type pass has left
  behind are well typed by key (`CheckedInv`). The innermost frame that binds a name
  exists because a non-empty set of indices has a greatest element, which follows
  from the library's theorem on well-founded relations. The assumption on the
  constants is that `None` is no name, type, number or record of the usage pass.
- `LexicalScoping` (`Semantics_proofs`) is `ResolvesLexically`. The reference
  definition knows positions only, the history stacks only: the length of a stack is
  the `Depth` at its visit (`DepthIs`), and a frame binds a name to the first
  declaration of its depth that is still visible (`Explained`), both for the visit a
  least counterexample could be.
- `ExactReports` (`Semantics_proofs`) is `ReportsExact`. A symbol is `Live` while
  its declaration is visible. The invariant `UsageInv` says that the slot of a live
  symbol has seen the reads and writes of its key up to the cursor (`Tracks`), and
  that what was reported is what is due by then (`Good`). A slot can be reported on
  when its block closes because a key is used only while its symbol is live
  (`UsedWhileLive`), which needs `ResolvesLexically` and that a position declares one
  symbol (`DeclaredOnce`).

- `MachineTypes`, `StableConstants` and `NeverStuck` (`Machine_proofs`) are `TypeOK`,
  `ConstantsHold` and `Executable` (the machine that has not halted is at an
  instruction it can execute) of `MachineCode`, for all `Runnable` code and every width of a
  word above 2: no value of a register or cell leaves the word, the machine never
  runs off its code, and the two bytes that predicates, unconditional branches and
  additions rest on keep 0 and 1. The inductive invariant `MachineInv` adds that the
  prologue has stored each constant once the machine is past that instruction, and
  that X selects a service wherever a system call comes next.
- `CodeIsRunnable` (`Lowering_proofs`): the code the generator emits for a checked
  program of any size is `Runnable`; `Comparable` (below) is not needed for it. A
  fragment is `Contained` if each instruction in it is sound wherever the fragment
  lies and each branch leads into it, or just behind it, and to no system call; the
  fragments of nodes and statements are contained if those of their parts are
  (`CatContained`, `GuardContained` for an if, `LoopContained` for a while).
  `ProgramsAreRunnable` draws the conclusion: `OneProgram` implements `MachineSpec`,
  and so `TypeOK` and `ConstantsHold` hold of every program that is loaded and run.
- `ExpressionCode`, `StatementCode` and `ProgramOutput` (`Lowering_proofs`): the 6502
  generator is right. `ProgramOutput` is `OutputFollows` for one program of any size
  whose code is loaded and runs (`OneProgram`): at every instruction the machine
  has printed a beginning of what the program prints, and if the program ends, the
  machine halts only with all of it printed. What the program prints is what `ExecBlock` makes
  of the tree that is compiled; `OptimizedOutput` (below) adds the way from the source
  to that tree. With loops that use up `fuel` the printing is compared as
  far as both go.

The argument for these three. `Effect` is the machine as a function on states
(`StepIsEffect`: `CpuStep` is that function), and `Reaches` is "after finitely many
instructions". A rule about a piece of code says that, wherever it lies in some
code, the machine that starts it with given variables gets to its end with a given
value in A, Y, X or Z, with the variables, the constants and the temporaries below
`n` untouched (`YieldsA`, `YieldsZ`, ...), or with the variables changed and output
appended as statements do (`Follows`). There is one rule for each emission path of
`Fragments`, and rules are put together as the code is. Loops are compared turn by
turn with the halves in which `Loop` counts them (`ManyTurns`). The invariant
of `OneProgram` is `OnTheWay`: from the state the machine is in it reaches the
state the program ends in, or the other way round; since it is deterministic
(`NextOnTheWay`) and only appends to its output (`OutGrows`), the printed text is
a prefix.

Trees are data, so the theorems cannot use induction on them and cannot see the
RECURSIVE definitions. They take instead a set `T` of expressions and a set `Q` of
statement sequences with a rank in Nat that falls from a node to its parts, which any
tree has (`Expressions`, `Statements`), and use well-founded induction on the rank.
`ToA`, `Lowered`, `Eval`, `ExecBlock` and the others are CONSTANT operators there, of
which only the equations that define them in `Lowering` and `Interp` are assumed, for
the members of `T` and `Q` (`Compiled6502`, `Meant`, `CompiledBlock`, `MeantBlock`).
The other hypotheses:

- `IntMod = WordMod` and `~DeclResets`: the source is taken as it is meant for this
  machine. `WordModAssumption` (more than two values in a word; 256 in the code) and
  `ReservedNames` (no variable is called like a temporary's slot; names are letters in
  the code) are ASSUMEs of the modules.
- Literals fit in a byte (else the generator refuses the program) and the operators
  have operands of one type, as the type pass ensures (`CodegenMayAssume`).
- `Comparable`: the right operand of a comparison of ints is a variable or has code
  that leaves X alone. This is what finding 5 is about: it is false of the program
  of `lowering_compare`, and the theorem is false without it.

All programs of `back_ends` satisfy these hypotheses with `T` the expressions in a
program and `Q` the rests and bodies of its blocks, and the program of
`lowering_compare` fails exactly `Comparable`; both were evaluated with TLC.

- `FoldingKeepsValue`, `OptimizedRuns` and `OptimizedOutput` (`Optimizer_proofs`): the
  optimizer is right. An expression is worth what its optimized form is worth. Where
  a program ends, the optimized program ends in no more turns of loops, has printed
  the same and leaves the same in the variables (the first half of `Equivalent`, for
  programs of every size and every `MaxUnroll`, and whether declarations do nothing,
  as on the machine, or make their variable anew, as in Java). With `ProgramOutput`: the machine
  that runs the code of the optimized program prints what the *source* prints, and
  halts only with all of it printed.
- `ScopesStay`: where every name of the source has the id of the declaration it means
  by the nesting of blocks, so has every name of the optimized program (`ScopesKept`).
  It needs neither of the two hypotheses below.
- `FoldingKeepsType` and `TypesStay`: an expression has the type it had, and a program
  in which the type pass finds nothing to report stays one (the first half of
  `TypesKept`; that every print prints a value of the type it had is
  `FoldingKeepsType` for its expression, and the order of the prints is `optimizer`'s).

The argument. The walk is followed next to a stack of scopes `sc`, which says what
declaration each name means where the walk is, and a run of the program. `Knows` is the
invariant: each name has its innermost frame in the environment where it has it
in `sc`, and what is known there is what that variable holds; a name that is in the
environment alone, since a body assigned it, is unknown. `KnowsOf` states it for values
and for types at once. `Untouched` says that a body changes only the variables that
the names `collectAssignedVars` finds mean outside of it; so what is left after
`AfterBody` is true whether or not the body ran, and true at the head of every turn of
a loop that is kept (`AfterBodyOf`, `LoopKept`). A loop that is unrolled counts:
the walk knows its variable to be `j` steps from the limit (`TurnsAway`), each
copy takes it one step on (`NextTurn`, from `Straight`), and the condition is false
exactly when no copy is left (`LimitReached`), so the run makes as many turns as
there are copies (`LoopOnward`). An unrolled loop burns no fuel; `Better` compares runs
up to fuel that is left over. `Abreast` is what one step of the walk keeps, and all
statements keep it by well-founded induction on the rank of a sequence. For the names,
`Leads` says that the statements a statement becomes may stand before whatever is
well scoped after it, and `Precedes` says the same of types.

The hypotheses, in the form of section 5's other theorems about trees: `Language` are
all expressions and all statements over them, with ranks and with the equations that
define `EvalConst`, `OptExpr`, `OptStmts`, `Unrolled`, `Eval`, `ExecBlock`, ... on them. `C`
holds sequences with the scopes they stand in and is `WellScoped`: no name is
declared twice in a scope, ids are those of the declarations, and no loop that
counts declares its own variable in its body. The last is exactly what finding 3
violates; the scope pass ensures the others (`UniqueKeys`, `LexicalScoping`). `W` and `V`
hold what is walked and unrolled, with the environments the walk comes with, and
`WalkFits`: no sum that is folded there is too large for an int, which is what
finding 4 violates. `Lexical` is the part of `WellScoped` about declarations and ids
alone; `ScopesStay` says that the optimizer keeps it. Evaluated with
TLC, all programs of the run `optimizer` satisfy `WellScoped`, `Lexical` and `WalkFits`
with these sets the ones their walk visits, and every program of
`optimizer_capture` and `optimizer_overflow` that is not kept violates `WellScoped` or
`WalkFits`, respectively.

- `IrIsWellFormed` (`Emitters_proofs`): what `LlvmEmitter` writes is what LLVM takes
  (`IrWellFormed`), for every sequence of programs.
- `NamesNeverClash` and `OptimizedNames` (`Emitters_proofs`): the Java text obeys
  javac's rules for names (`JavaNames`), for every sequence of programs in which
  each name has the id of the declaration it means (`Lexical`), and so for what the
  optimizer makes of such programs, by `ScopesStay`.
- `JavaRuns` and `JavaOutput` (`Emitters_proofs`): the Java text of a file does what its
  programs do, one after the other. `JavaRuns` compares the tree that is emitted with
  the tree it is emitted for: the same output in the same number of turns, also for
  programs that use up their `fuel`. `JavaOutput` adds the optimizer: where the *source*
  programs end, the Java text of the optimized file ends and has printed what they
  print (the half of `TextAgrees` about Java, and about TypeScript, whose walk is the
  same, for the programs that end).
- `LlvmRuns` and `LlvmOutput` (`Emitters_proofs`) say the same of the LLVM text: where
  the programs end, the run of the text in `IrMachine` returns and has printed what
  they print, one after the other; `LlvmOutput` with the optimizer before it.

The argument. A text is looked at piece by piece. `Written(s, t, P)` says that `t` is
written where `s` ends: what it defines has the numbers between the counters of `s`
and of `t`, each once; its branches lead to its own labels or to `P`, and `P` are the labels
that were taken and stand nowhere yet. Taking labels adds to `P`, a branch with the
label after it takes one out of it (`PartWritten`), and pieces go one after the other
since their numbers do (`WrittenOn`). A statement starts and ends with an empty
`P`; in between `P` is not empty, which is why the rule for branches is no
invariant by itself. For Java, `Framed` relates the scopes of the emitter to the
scopes in which the names stand: the same names in each frame, aliases that are
visible, and only numbers below the counter in use, so that a new alias is none of
those. `EmitsWell` is what every sequence of statements then satisfies, by
well-founded induction on its rank. For the runs, `Mirrored` says that what a visible
name holds in the source its alias holds in the Java text, and `Renames` that no two
visible names share an alias. A declaration is where both could break: it has
to make its variable anew in both, and a declaration in a body that runs again must
not be one that is still visible (`Anew`), which `Lexical` asks for. `Paired` is what
each statement keeps (`HeadPaired`), loops are compared turn by turn (`LoopsPaired`), and
after a body what held of its scopes holds of those around it (`PairedBefore`).
The methods of a file start with no variable set, so that only the output and the
fuel are handed on (`MethodPaired`). Hypotheses: `DeclResets`; the equations that define the
operators of `TextBackEnds` on these trees, and sets `X`, `E` and `N` of expressions,
statements and sequences over aliases, `N` being those that `NoClashOf` allows
(`Obeys`).

For LLVM a text runs wherever it stands. `Stands(w, p, f)` says that the piece `f`
is in the text `w` from `p` on, and `IrFollows` that the machine gets from `p` to
`q`, printing and storing as the source does on its way from one state to
another. What the registers and pointers hold at a place in the tree is given by
a `View` of it: the scopes of the source, those of the emitter, and the pointers in
them; `Reflects` says that what a name holds its pointer points at. An operand keeps
its value until it is used, since later registers have greater numbers. A jump
leads to the one place where its label stands, which is what `IrIsWellFormed` is
needed for (`Lone`). `IrRuns` is what every sequence of statements satisfies, by
well-founded induction on its rank (`AllIrRuns`); loops are compared turn by turn.
The emitter has one more scope around all programs, in which nothing is declared:
what is well scoped without it is so with it (`Widened`, `WidenedMeaning`). Programs
follow each other in one function, and the pointers and labels of one are never
those of the next (`Successive`, `FilesGo`). Hypotheses: as for Java, with the
equations of the LLVM emitter (`IrOf`, `IrOfBlock`, `IrOfPrograms`) in place of `Obeys`.

Only model-checked: the liveness properties (`Terminates`, `Settles`, `Halts`;
liveness under fairness is out of the prover's reach), the LLVM text of programs
that do not end (`TextAgrees` compares it as far as it gets), and what is about `Parser` (`AcceptsGrammar`,
`NothingLost`, `TreesMatchText`, `ExceedsOnlyBySlash`, `GetsFurther`), whose operators are
RECURSIVE: the prover does not take modules with such operators, nor the library's
induction theorems, which have an operator as parameter. `IrWellFormed`, `JavaNames`, `TextAgrees`,
`Equivalent`, `ScopesKept` and `TypesKept` are about the recursive operators of
`TextBackEnds` and `Optimizer`, too; the theorems above are their counterparts for the equations that define
these. Of `Equivalent`, that the optimized program does not end where the source does not,
and that programs that do not end print alike as far as both go, is model-checked
only. Every safety invariant of `ObjectImage`, `Semantics`, `Driver`, `Lexer` and the
machine is proved.

## 6. Plan

Done, in this order: `ObjectImage`; `Semantics`; `Driver` and `Build`; `Ast`,
`Interp`, `Optimizer`; `Lowering`, `Cpu6502`, `TextBackEnds` and `BackEnds`;
`SourceText`, `Lexer`, `Parser` and `FrontEnd`; the recursion of `Lowering` and
`Interp` apart from the rest, and `MachineCode` and `Outcomes`; the rewrites of
`Optimizer` and of the text back ends without recursion (`Rewrites`, `Emitters`); with the theorems of section 5, which lead
from the source of a checked program to what the machine and its Java and LLVM
texts print.

Next, most useful first:

1. The LLVM text of programs that do not end: it prints what they print as far as
   both go, from the rules about turns of `LlvmRuns`.
2. `Semantics` over the trees of `Programs`, for expressions of any depth.
3. A refinement of `ObjectImage` by the addresses of `Cpu6502`: the machine on the
   bytes of the image instead of the instructions.

## 7. Not modelled

- Wording and layout of diagnostics, traces, symbol tables and listings, line and
  column numbers; argument parsing: no property is about them.
- The escapes in strings and the constants that hold string payloads in the
  emitted texts; a string is its address or its text as a whole.
- Expressions with more than one operator in `ObjectImage` and `Semantics`
  (`Optimizer`, `Lowering`, `Parser` and `Infer` of `Programs` have trees of any
  depth). The emission
  paths that nesting repeats are all reached with one operator.
- The usage pass after the optimizer: `Semantics` runs it on the tree the type pass
  left, so no claim is made about hints for code the optimizer has removed.
- Texts with more than 32 mistakes that each need a pass of their own: they
  exceed the passes as well, and are above the bounds of `front_end`.
- Build files, scripts and tests: read as statements of what is expected.
