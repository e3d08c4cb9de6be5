------------------------------ MODULE Isa6502 ------------------------------
(***************************************************************************)
(* The instruction subset the compiler emits (src/codegen/codegen.cpp):    *)
(* opcode bytes, and instructions as records the emitters queue.  An       *)
(* instruction is one opcode byte followed by no operand, a one-byte       *)
(* immediate, or a two-byte little-endian absolute address.                *)
(***************************************************************************)
EXTENDS Naturals, Sequences

Byte == 0 .. 255

Opcode ==
    [ BRK |-> 0,   NOP |-> 234, SYS |-> 255,
      LDAI |-> 169, LDA |-> 173, STA |-> 141, ADC |-> 109,
      LDXI |-> 162, LDX |-> 174, CPX |-> 236,
      LDYI |-> 160, LDY |-> 172, INC |-> 238, BNE |-> 208 ]

\* The low and the high byte of an address, in the order they are emitted.
AddrBytes(a) == << a % 256, (a \div 256) % 256 >>

Implied(op)  == [mode |-> "implied", op |-> op, arg |-> 0]
Imm(op, v)   == [mode |-> "imm", op |-> op, arg |-> v % 256]
Abs(op, a)   == [mode |-> "abs", op |-> op, arg |-> a]

\* BNE with a displacement still unknown.  BneForward is patched when the
\* block it skips has been emitted; BneBack(top) jumps back to `top`.
BneForward(top) == [mode |-> "forward", op |-> Opcode.BNE, arg |-> top]
BneBack(top)    == [mode |-> "back", op |-> Opcode.BNE, arg |-> top]

InstrBytes(i) ==
    CASE i.mode = "implied" -> << i.op >>
      [] i.mode = "abs"     -> << i.op, AddrBytes(i.arg)[1], AddrBytes(i.arg)[2] >>
      [] i.mode = "imm"     -> << i.op, i.arg >>
      [] OTHER              -> << i.op, 0 >>

\* The service a system call asks for in X: print the integer in Y, or the
\* string Y points at.
PrintIntService    == 1
PrintStringService == 2
=============================================================================
