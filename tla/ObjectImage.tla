---------------------------- MODULE ObjectImage ----------------------------
(***************************************************************************)
(* How generate6502Program lays one program out in its 256-byte image      *)
(* (src/codegen/codegen.cpp, memory_layout.cpp, code_buffer.cpp).          *)
(*                                                                         *)
(* Code grows up from 0.  Variables and temporaries get logical addresses  *)
(* from a bump allocator and are relocated behind the code once its length *)
(* is known; string literals are planned downwards from the end of the     *)
(* image before any code exists, and written into it last.  Absolute       *)
(* operands are emitted with logical addresses and patched by the          *)
(* relocation; branches are patched when their target is known.            *)
(*                                                                         *)
(* The statements of the program are chosen freely here: each statement    *)
(* handler queues the instructions the generator emits for it, and Emit    *)
(* appends them to the code buffer one by one.  Expressions are at most    *)
(* one operator deep.                                                      *)
(***************************************************************************)
EXTENDS Integers, Sequences, FiniteSets, Functions, Isa6502

CONSTANTS
    Vars,          \* resolved variables: (name, declaring scope) keys
    StrVars,       \* those declared `string`; the others are int or boolean
    SymbolTables,  \* symbol tables a program may have: sequences of Vars
    Payloads,      \* string literal payloads: sequences of bytes
    IntLiterals,   \* integer literals the program may contain
    Increments,    \* small literals k for which `k + e` becomes k INCs
    ImageBytes,    \* target.programImageBytes, and the 0x0100 heap top
    MinDataBase,   \* target.minDataBase
    RamBase,       \* target.ramBase
    AddrMod,       \* 2^16: the width of MemoryLayout::nextAddr_
    BranchMax,     \* 127: the longest forward branch displacement
    MaxStmts       \* bound: statements of the program

ASSUME VarsAssumption ==
    /\ StrVars \subseteq Vars
    /\ \A s \in SymbolTables :
          s \in Seq(Vars) /\ \A i, j \in 1 .. Len(s) : s[i] = s[j] => i = j
ASSUME LiteralsAssumption ==
    /\ \A p \in Payloads : p \in Seq(1 .. 127)
    /\ IntLiterals \subseteq Nat
    /\ Increments \subseteq 0 .. 8
ASSUME TargetAssumption ==
    /\ ImageBytes \in 1 .. 256 /\ MinDataBase \in Nat /\ RamBase \in 0 .. MinDataBase
    /\ AddrMod \in 1 .. 65536 /\ ImageBytes < AddrMod /\ MinDataBase < AddrMod
    /\ BranchMax \in 1 .. 127 /\ MaxStmts \in Nat

VARIABLES
    phase,     \* "bind", "plan", "emit", "relocate", "pad", "heap", "done"
    symbols,   \* the program's symbol table (an input)
    priorErr,  \* the diagnostic bag held errors before this call (an input)
    bound,     \* symbols bound so far
    next,      \* MemoryLayout::nextAddr_
    varBase,   \* MemoryLayout::varBase_
    temps,     \* anonymous slots handed out; the first two are zeroAddr_, oneAddr_
    planned,   \* plannedStringPayloads_
    prefix,    \* bytes of the payloads planned before each one
    pool,      \* stringPoolByPayload_
    heapBase,  \* heapBase_
    todo,      \* instructions of the statement at hand still to be emitted
    buf,       \* CodeBuffer::bytes_ up to and including BRK
    fixups,    \* dataAddrFixups_
    open,      \* while and if statements whose body is being emitted
    branches,  \* every branch patched so far, with its target
    stmts,     \* statements visited
    image,     \* outObject
    written,   \* payloads written into the image
    err        \* this call added an error

inputs     == << symbols, priorErr >>
layoutVars == << bound, next, varBase, temps >>
heapVars   == << planned, prefix, pool, heapBase >>
codeVars   == << todo, buf, fixups, open, branches, stmts >>
imageVars  == << image, written >>
vars == << phase, inputs, layoutVars, heapVars, codeVars, imageVars, err >>

-----------------------------------------------------------------------------
(***************************************************************************)
(* MemoryLayout: the bump allocator.                                       *)
(***************************************************************************)
Bump(a, n) == (a + n) % AddrMod

\* varSlot: a variable keeps the address it was given first.
VarSlot(k) ==
    IF k \in DOMAIN varBase
    THEN UNCHANGED << next, varBase >>
    ELSE /\ varBase' = [v \in DOMAIN varBase \cup {k} |->
                          IF v = k THEN next ELSE varBase[v]]
         /\ next' = Bump(next, 1)

\* Mutant of Allocate: the counter moves by one, whatever was handed out.
AllocateOne(n) ==
    /\ temps' = temps \o [i \in 1 .. n |-> Bump(next, i - 1)]
    /\ next' = Bump(next, 1)

\* allocateAnonymous(1), n times.
Allocate(n) ==
    /\ temps' = temps \o [i \in 1 .. n |-> Bump(next, i - 1)]
    /\ next' = Bump(next, n)
Fresh(i)  == Bump(next, i - 1)
ZeroAddr  == temps[1]
OneAddr   == temps[2]

\* bindLayoutFromSymbols: one byte per symbol, whatever its type.
BindSymbol ==
    /\ phase = "bind" /\ bound < Len(symbols)
    /\ VarSlot(symbols[bound + 1])
    /\ bound' = bound + 1
    /\ UNCHANGED << phase, inputs, temps, heapVars, codeVars, imageVars, err >>

\* The constructor of Generator6502 takes the two constant slots.
ConstructGenerator ==
    /\ phase = "bind" /\ bound = Len(symbols)
    /\ Allocate(2)
    /\ phase' = "plan"
    /\ UNCHANGED << inputs, bound, varBase, heapVars, codeVars, imageVars, err >>

-----------------------------------------------------------------------------
(***************************************************************************)
(* planStringHeap.                                                         *)
(***************************************************************************)
HeapNeed(p) == Len(p) + 1
HeapTotal == IF planned = << >> THEN 0
             ELSE LET p == planned[Len(planned)] IN prefix[p] + HeapNeed(p)

\* rememberStringPayload, for each literal of the program in source order.
\* A payload seen before is not planned again.
RememberPayload(p) ==
    /\ phase = "plan"
    /\ p \notin DOMAIN pool
    /\ planned' = Append(planned, p)
    /\ prefix' = [q \in DOMAIN prefix \cup {p} |->
                    IF q = p THEN HeapTotal ELSE prefix[q]]
    /\ pool' = [q \in DOMAIN pool \cup {p} |-> IF q = p THEN 0 ELSE pool[q]]
    /\ UNCHANGED << phase, inputs, layoutVars, heapBase, codeVars, imageVars, err >>

\* All literals are known: place them in one run that ends at the top of the
\* image, or report that they do not fit and leave every address at 0.
\* visitProgram then stops if the bag has any error, its own or an earlier
\* one, and otherwise starts with the code that initialises the two constants.
HeapFits == HeapTotal <= ImageBytes
\* Mutant of PlacedPool: the cursor never moves behind the first payload.
PoolAtHeapBase == [p \in DOMAIN pool |-> ImageBytes - HeapTotal]
PlacedPool == [p \in DOMAIN pool |-> ImageBytes - HeapTotal + prefix[p]]
Prologue ==
    << Imm(Opcode.LDAI, 0), Abs(Opcode.STA, ZeroAddr),
       Imm(Opcode.LDAI, 1), Abs(Opcode.STA, OneAddr) >>

EndOfProgram(b) == Append(b, Opcode.BRK)

PlanHeap ==
    /\ phase = "plan"
    /\ IF HeapFits
       THEN /\ heapBase' = ImageBytes - HeapTotal
            /\ pool' = PlacedPool
            /\ err' = err
       ELSE /\ err' = TRUE
            /\ UNCHANGED << heapBase, pool >>
    /\ IF priorErr \/ err'
       THEN /\ phase' = "relocate"
            /\ buf' = EndOfProgram(buf)
            /\ todo' = todo
       ELSE /\ phase' = "emit"
            /\ todo' = Prologue
            /\ buf' = buf
    /\ UNCHANGED << inputs, layoutVars, planned, prefix,
                    fixups, open, branches, stmts, imageVars >>

-----------------------------------------------------------------------------
(***************************************************************************)
(* Statements.  Each visits one statement: it takes the temporaries the    *)
(* handler allocates and queues the instructions the handler emits.        *)
(***************************************************************************)
Visit(instrs, n) ==
    /\ phase = "emit" /\ todo = << >> /\ stmts < MaxStmts
    /\ stmts' = stmts + 1
    /\ Allocate(n)
    /\ todo' = instrs
    /\ UNCHANGED << phase, inputs, bound, varBase, heapVars,
                    buf, fixups, open, branches, imageVars, err >>

Declared == DOMAIN varBase
Strings  == Declared \cap StrVars
Ints     == Declared \ StrVars

\* The low byte of a pool address is the run-time value of a string.
Pointer(p) == pool[p] % 256

PrintLiteral == \E p \in DOMAIN pool :
    Visit(<< Imm(Opcode.LDYI, Pointer(p)),
             Imm(Opcode.LDXI, PrintStringService), Implied(Opcode.SYS) >>, 0)

PrintService(v) == IF v \in StrVars THEN PrintStringService ELSE PrintIntService
PrintVariable == \E v \in Declared :
    Visit(<< Abs(Opcode.LDY, varBase[v]),
             Imm(Opcode.LDXI, PrintService(v)), Implied(Opcode.SYS) >>, 0)

AssignInt == \E v \in Ints, n \in IntLiterals : n <= 255 /\
    Visit(<< Imm(Opcode.LDAI, n), Abs(Opcode.STA, varBase[v]) >>, 0)

\* A literal above 255 is reported; nothing is emitted for the statement.
RejectLiteral == \E n \in IntLiterals :
    /\ n > 255 /\ Ints # {}
    /\ phase = "emit" /\ todo = << >> /\ stmts < MaxStmts
    /\ stmts' = stmts + 1
    /\ err' = TRUE
    /\ UNCHANGED << phase, inputs, layoutVars, heapVars,
                    todo, buf, fixups, open, branches, imageVars >>

AssignString == \E v \in Strings, p \in DOMAIN pool :
    Visit(<< Imm(Opcode.LDAI, Pointer(p)), Abs(Opcode.STA, varBase[v]) >>, 0)

Copy == \E v, w \in Declared : (v \in StrVars <=> w \in StrVars) /\
    Visit(<< Abs(Opcode.LDA, varBase[w]), Abs(Opcode.STA, varBase[v]) >>, 0)

\* v = k + w with a literal k of at most 8: the sum is built in a slot.
Increment(a, k) == [i \in 1 .. k |-> Abs(Opcode.INC, a)]
AddSmall == \E v, w \in Ints, k \in Increments :
    Visit(<< Abs(Opcode.LDA, varBase[w]), Abs(Opcode.STA, Fresh(1)) >>
          \o Increment(Fresh(1), k)
          \o << Abs(Opcode.LDA, Fresh(1)), Abs(Opcode.STA, varBase[v]) >>, 1)

\* v = n + w otherwise; CPX of 0 with the byte holding 1 clears the carry.
AddGeneral == \E v, w \in Ints, n \in IntLiterals : n \in 9 .. 255 /\
    Visit(<< Imm(Opcode.LDAI, n), Abs(Opcode.STA, Fresh(1)),
             Abs(Opcode.LDA, varBase[w]),
             Imm(Opcode.LDXI, 0), Abs(Opcode.CPX, OneAddr),
             Abs(Opcode.ADC, Fresh(1)), Abs(Opcode.STA, varBase[v]) >>, 1)

\* The condition leaves Z = 1 when it holds; BNE then skips the body.  A
\* while statement remembers where its condition starts (top); an if
\* statement has none (0: the prologue occupies the first bytes).
IntGuard(v, w, top) ==
    << Abs(Opcode.LDX, varBase[v]), Abs(Opcode.CPX, varBase[w]), BneForward(top) >>
StringGuard(v, w, top) ==
    << Abs(Opcode.LDA, varBase[v]), Abs(Opcode.STA, Fresh(1)),
       Abs(Opcode.LDA, varBase[w]), Abs(Opcode.STA, Fresh(2)),
       Abs(Opcode.LDX, Fresh(1)), Abs(Opcode.CPX, Fresh(2)), BneForward(top) >>

OpenBlock(top) ==
    \/ \E v, w \in Ints    : Visit(IntGuard(v, w, top), 0)
    \/ \E v, w \in Strings : Visit(StringGuard(v, w, top), 2)
OpenIf    == OpenBlock(0)
OpenWhile == OpenBlock(Len(buf))

-----------------------------------------------------------------------------
(***************************************************************************)
(* Branches: patchBranchRel8.  `at` is the offset of the BNE opcode.       *)
(***************************************************************************)
\* Mutant of Displacement: counted from the operand instead of from the next
\* instruction.
DisplacementFromOperand(at, to) == to - (at + 1)
Displacement(at, to) == to - (at + 2)
Reaches(at, to) == Displacement(at, to) \in -(BranchMax + 1) .. BranchMax

\* Mutant of PatchBranch: the displacement is not narrowed to a byte.
PatchBranchWide(b, at, to) ==
    IF Reaches(at, to) THEN [b EXCEPT ![at + 2] = Displacement(at, to)] ELSE b
\* The buffer with the branch patched, unless the target is out of reach.
PatchBranch(b, at, to) ==
    IF Reaches(at, to) THEN [b EXCEPT ![at + 2] = Displacement(at, to) % 256] ELSE b

Top == open[Len(open)]
Pop == SubSeq(open, 1, Len(open) - 1)

\* visitIfStatement after its body: the BNE lands behind it.
CloseIf ==
    /\ phase = "emit" /\ todo = << >> /\ open # << >> /\ Top.top = 0
    /\ buf' = PatchBranch(buf, Top.bne, Len(buf))
    /\ branches' = branches \cup {[at |-> Top.bne, to |-> Len(buf)]}
    /\ err' = (err \/ ~Reaches(Top.bne, Len(buf)))
    /\ open' = Pop
    /\ UNCHANGED << phase, inputs, layoutVars, heapVars, todo, fixups, stmts, imageVars >>

\* visitWhileStatement after its body: emitForceZClear makes the BNE back to
\* the condition unconditional.
BranchAlwaysTo(top) ==
    << Imm(Opcode.LDXI, 1), Abs(Opcode.CPX, ZeroAddr), BneBack(top) >>
CloseWhile ==
    /\ phase = "emit" /\ todo = << >> /\ open # << >> /\ Top.top > 0
    /\ todo' = BranchAlwaysTo(Top.top)
    /\ UNCHANGED << phase, inputs, layoutVars, heapVars,
                    buf, fixups, open, branches, stmts, imageVars, err >>

(***************************************************************************)
(* Emit: the next queued instruction goes into the buffer.                 *)
(***************************************************************************)
EmitHead == buf \o InstrBytes(Head(todo))

\* emitDataAddr16 records where the operand is and which slot it names.
EmitPlain ==
    /\ phase = "emit" /\ todo # << >>
    /\ Head(todo).mode \in {"implied", "imm", "abs"}
    /\ buf' = EmitHead
    /\ fixups' = IF Head(todo).mode = "abs"
                 THEN fixups \cup {[off |-> Len(buf) + 1, addr |-> Head(todo).arg]}
                 ELSE fixups
    /\ todo' = Tail(todo)
    /\ UNCHANGED << phase, inputs, layoutVars, heapVars,
                    open, branches, stmts, imageVars, err >>

EmitForward ==
    /\ phase = "emit" /\ todo # << >> /\ Head(todo).mode = "forward"
    /\ buf' = EmitHead
    /\ open' = Append(open, [top |-> Head(todo).arg, bne |-> Len(buf)])
    /\ todo' = Tail(todo)
    /\ UNCHANGED << phase, inputs, layoutVars, heapVars,
                    fixups, branches, stmts, imageVars, err >>

\* The backward branch ends the loop, so the exit branch is patched as well.
EmitBack ==
    /\ phase = "emit" /\ todo # << >> /\ Head(todo).mode = "back"
    /\ LET exit == Len(buf) + 2
           back == [at |-> Len(buf), to |-> Head(todo).arg]
           skip == [at |-> Top.bne, to |-> exit]
       IN /\ buf' = PatchBranch(PatchBranch(EmitHead, back.at, back.to), skip.at, skip.to)
          /\ branches' = branches \cup {back, skip}
          /\ err' = (err \/ ~Reaches(back.at, back.to) \/ ~Reaches(skip.at, skip.to))
    /\ open' = Pop
    /\ todo' = Tail(todo)
    /\ UNCHANGED << phase, inputs, layoutVars, heapVars, fixups, stmts, imageVars >>

EndBlock ==
    /\ phase = "emit" /\ todo = << >> /\ open = << >>
    /\ buf' = EndOfProgram(buf)
    /\ phase' = "relocate"
    /\ UNCHANGED << inputs, layoutVars, heapVars, todo, fixups, open, branches, stmts,
                    imageVars, err >>

-----------------------------------------------------------------------------
(***************************************************************************)
(* backpatchDataToAfterCode.                                               *)
(***************************************************************************)
DataBase ==
    LET end == Len(buf) % AddrMod IN IF end < MinDataBase THEN MinDataBase ELSE end
Delta == DataBase - RamBase
StaticEnd == next - 1 + Delta
Relocated(a) == a + Delta

\* Mutants of StaticsFit: the heap is ignored; the last static byte may be the
\* first byte of the heap.
StaticsFitImage == next # 0 => StaticEnd < ImageBytes
StaticsTouchHeap ==
    next # 0 => /\ StaticEnd < ImageBytes
                /\ heapBase # ImageBytes => StaticEnd <= heapBase
\* nextAddr_ = 0 means "nothing was allocated" to this check.
StaticsFit ==
    next # 0 => /\ StaticEnd < ImageBytes
                /\ heapBase # ImageBytes => StaticEnd < heapBase
Relocates == \A f \in fixups : Relocated(f.addr) < AddrMod

\* Mutant of PatchOperands: the high byte first.
PatchBigEndian(b) ==
    [i \in 1 .. Len(b) |->
        IF \E f \in fixups : i - 1 \in {f.off, f.off + 1}
        THEN LET f == CHOOSE f \in fixups : i - 1 \in {f.off, f.off + 1}
             IN AddrBytes(Relocated(f.addr))[2 - (i - 1 - f.off)]
        ELSE b[i]]
PatchOperands(b) ==
    [i \in 1 .. Len(b) |->
        IF \E f \in fixups : i - 1 \in {f.off, f.off + 1}
        THEN LET f == CHOOSE f \in fixups : i - 1 \in {f.off, f.off + 1}
             IN AddrBytes(Relocated(f.addr))[i - f.off]
        ELSE b[i]]

Relocate ==
    /\ phase = "relocate"
    /\ IF Relocates /\ StaticsFit
       THEN /\ buf' = PatchOperands(buf)
            /\ phase' = "pad"
            /\ err' = err
       ELSE /\ phase' = "done"
            /\ err' = TRUE
            /\ buf' = buf
    /\ UNCHANGED << inputs, layoutVars, heapVars, todo, fixups, open, branches, stmts,
                    imageVars >>

\* generate6502Program: the buffer is zero-filled to the image size and
\* becomes the object; an image that is too long is refused.
Pad ==
    /\ phase = "pad"
    /\ IF Len(buf) > ImageBytes
       THEN /\ err' = TRUE
            /\ phase' = "done"
            /\ image' = image
       ELSE /\ image' = buf \o [i \in 1 .. ImageBytes - Len(buf) |-> 0]
            /\ phase' = "heap"
            /\ err' = err
    /\ UNCHANGED << inputs, layoutVars, heapVars, codeVars, written >>

(***************************************************************************)
(* materializeStringHeapInImage: each planned payload and its $00, in the  *)
(* order they were planned.                                                *)
(***************************************************************************)
Store(img, base, p) ==
    [i \in 1 .. Len(img) |->
        IF i - 1 \in base .. base + Len(p) - 1 THEN p[i - base]
        ELSE IF i - 1 = base + Len(p) THEN 0
        ELSE img[i]]

StorePayload ==
    /\ phase = "heap" /\ written < Len(planned)
    /\ LET p == planned[written + 1]
       IN IF pool[p] + Len(p) + 1 > Len(image)
          THEN /\ err' = TRUE
               /\ phase' = "done"
               /\ UNCHANGED imageVars
          ELSE /\ image' = Store(image, pool[p], p)
               /\ written' = written + 1
               /\ UNCHANGED << phase, err >>
    /\ UNCHANGED << inputs, layoutVars, heapVars, codeVars >>

Finish ==
    /\ phase = "heap" /\ written = Len(planned)
    /\ phase' = "done"
    /\ UNCHANGED << inputs, layoutVars, heapVars, codeVars, imageVars, err >>

-----------------------------------------------------------------------------
Init ==
    /\ phase = "bind"
    /\ symbols \in SymbolTables
    /\ priorErr \in BOOLEAN
    /\ bound = 0 /\ next = RamBase /\ varBase = << >> /\ temps = << >>
    /\ planned = << >> /\ prefix = << >> /\ pool = << >> /\ heapBase = ImageBytes
    /\ todo = << >> /\ buf = << >> /\ fixups = {} /\ open = << >>
    /\ branches = {} /\ stmts = 0
    /\ image = << >> /\ written = 0
    /\ err = FALSE

Statement ==
    \/ PrintLiteral \/ PrintVariable
    \/ AssignInt \/ RejectLiteral \/ AssignString \/ Copy
    \/ AddSmall \/ AddGeneral
    \/ OpenIf \/ OpenWhile \/ CloseIf \/ CloseWhile

Next ==
    \/ BindSymbol \/ ConstructGenerator
    \/ \E p \in Payloads : RememberPayload(p)
    \/ PlanHeap
    \/ Statement
    \/ EmitPlain \/ EmitForward \/ EmitBack \/ EndBlock
    \/ Relocate \/ Pad \/ StorePayload \/ Finish

Spec == Init /\ [][Next]_vars

-----------------------------------------------------------------------------
(***************************************************************************)
(* Properties.                                                             *)
(***************************************************************************)
Slots == {varBase[v] : v \in DOMAIN varBase} \cup Range(temps)
Fixup  == [off : Nat, addr : Nat]
Branch == [at : Nat, to : Nat]
Frame  == [top : Nat, bne : Nat]
Instr  == {i \in [mode : {"implied", "imm", "abs", "forward", "back"}, op : Byte, arg : Nat] :
                i.mode = "imm" => i.arg \in Byte}

InputTypes ==
    /\ phase \in {"bind", "plan", "emit", "relocate", "pad", "heap", "done"}
    /\ symbols \in SymbolTables /\ priorErr \in BOOLEAN
LayoutTypes ==
    /\ bound \in 0 .. Len(symbols)
    /\ next \in 0 .. AddrMod - 1
    /\ varBase \in [{symbols[i] : i \in 1 .. bound} -> 0 .. AddrMod - 1]
    /\ temps \in Seq(0 .. AddrMod - 1)
HeapTypes ==
    /\ planned \in Seq(Payloads)
    /\ prefix \in [Range(planned) -> Nat]
    /\ pool \in [Range(planned) -> Nat]
    /\ heapBase \in 0 .. ImageBytes
CodeTypes ==
    /\ todo \in Seq(Instr)
    /\ buf \in Seq(Byte)
    /\ fixups \subseteq Fixup
    /\ open \in Seq(Frame)
    /\ branches \subseteq Branch
    /\ stmts \in 0 .. MaxStmts
ImageTypes ==
    /\ image \in Seq(Byte)
    /\ written \in 0 .. Len(planned)
    /\ err \in BOOLEAN
TypeOK == InputTypes /\ LayoutTypes /\ HeapTypes /\ CodeTypes /\ ImageTypes

\* What generate6502Program returns; Complete is a success on a clean bag.
Succeeded == phase = "done" /\ ~err
Complete  == Succeeded /\ ~priorErr

\* No two variables and temporaries are given the same address: assigning
\* one can never change another.
SlotsDistinct ==
    /\ \A v, w \in DOMAIN varBase : varBase[v] = varBase[w] => v = w
    /\ \A i, j \in 1 .. Len(temps) : temps[i] = temps[j] => i = j
    /\ \A v \in DOMAIN varBase, i \in 1 .. Len(temps) : varBase[v] # temps[i]

\* Code, variables and string heap share the image without overlapping, and
\* all three lie inside it, whenever generate6502Program reports success.
RegionsDisjoint ==
    Succeeded =>
        /\ Len(image) = ImageBytes
        /\ \A a \in Slots : Len(buf) <= Relocated(a) /\ Relocated(a) < ImageBytes
        /\ \A p \in DOMAIN pool :
              /\ pool[p] + Len(p) < ImageBytes
              /\ Len(buf) <= pool[p]
              /\ \A a \in Slots : Relocated(a) < pool[p]

\* Every absolute operand of the finished image holds, low byte first, the
\* final address of the slot it was emitted for, whatever was emitted, patched
\* and stored after it.
OperandsRelocated ==
    Succeeded => \A f \in fixups :
        /\ f.addr \in Slots
        /\ image[f.off + 1] + 256 * image[f.off + 2] = Relocated(f.addr)

\* Every string literal can be read from the image at the address compiled
\* into the code, up to its $00, and two literals are at the same address only
\* when they are equal: comparing pointers compares strings.
StringsIntact ==
    Succeeded =>
        /\ \A p \in DOMAIN pool :
              /\ \A i \in 1 .. Len(p) : image[pool[p] + i] = p[i]
              /\ image[pool[p] + Len(p) + 1] = 0
        /\ \A p, q \in DOMAIN pool : pool[p] = pool[q] => p = q

\* Every branch of the finished image is a BNE whose signed displacement leads
\* to the place the statement handler meant, and no block is left open.
BranchesResolved ==
    Complete =>
        /\ open = << >>
        /\ \A b \in branches :
              LET d == image[b.at + 2]
                  signed == IF d > 127 THEN d - 256 ELSE d
              IN image[b.at + 1] = Opcode.BNE /\ b.at + 2 + signed = b.to /\ b.to < Len(buf)

\* Writing the heap leaves the code as it was emitted and patched, ending in BRK.
CodeIntact ==
    Succeeded => /\ SubSeq(image, 1, Len(buf)) = buf
                 /\ image[Len(buf)] = Opcode.BRK

\* "programs fail safely when memory does not fit" (README.md:31): a program is
\* accepted on a clean bag only if its variables and temporaries have addresses
\* of their own.
FailsSafely == Complete => SlotsDistinct

\* The end of the statics is measured in every program that is accepted on a
\* clean bag.  The counter may come back to 0, which the check takes for "nothing
\* was allocated", but then the last slot is at the highest address there is, and
\* the code that uses it cannot be relocated (codegen.cpp:149, 181).
StaticsMeasured == Complete => next # 0
=============================================================================
