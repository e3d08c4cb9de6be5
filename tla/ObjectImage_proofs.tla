------------------------- MODULE ObjectImage_proofs -------------------------
(***************************************************************************)
(* Theorems about ObjectImage, for every value of its constants.           *)
(***************************************************************************)
EXTENDS ObjectImage, SequenceTheorems, TLAPS

-----------------------------------------------------------------------------
(***************************************************************************)
(* The inductive invariants.                                               *)
(***************************************************************************)

\* Queued instructions name slots that exist; a branch ends the queue, and a
\* backward branch belongs to an open loop.
QueueInv ==
    /\ phase # "bind" => Len(temps) >= 2
    /\ \A i \in 1 .. Len(todo) :
          /\ todo[i].mode = "abs" => todo[i].arg \in Slots
          /\ todo[i].mode \in {"forward", "back"} => i = Len(todo)
          /\ todo[i].mode = "back" => open # << >>

TypeInv == TypeOK /\ QueueInv

-----------------------------------------------------------------------------
(***************************************************************************)
(* The instructions the statement handlers queue.                          *)
(***************************************************************************)
LEMMA OpcodesAreBytes ==
    /\ Opcode.BRK \in Byte /\ Opcode.NOP \in Byte /\ Opcode.SYS \in Byte
    /\ Opcode.LDAI \in Byte /\ Opcode.LDA \in Byte /\ Opcode.STA \in Byte
    /\ Opcode.ADC \in Byte /\ Opcode.LDXI \in Byte /\ Opcode.LDX \in Byte
    /\ Opcode.CPX \in Byte /\ Opcode.LDYI \in Byte /\ Opcode.LDY \in Byte
    /\ Opcode.INC \in Byte /\ Opcode.BNE \in Byte
BY DEF Opcode, Byte

LEMMA ImmType == ASSUME NEW op \in Byte, NEW v \in Nat PROVE Imm(op, v) \in Instr
BY DEF Imm, Instr, Byte

LEMMA AbsType == ASSUME NEW op \in Byte, NEW a \in Nat PROVE Abs(op, a) \in Instr
BY DEF Abs, Instr

LEMMA ImpliedType == ASSUME NEW op \in Byte PROVE Implied(op) \in Instr
BY DEF Implied, Instr

LEMMA BranchType ==
    ASSUME NEW top \in Nat PROVE BneForward(top) \in Instr /\ BneBack(top) \in Instr
BY OpcodesAreBytes DEF BneForward, BneBack, Instr

LEMMA AddrBytesType ==
    \A a \in Nat : AddrBytes(a)[1] \in Byte /\ AddrBytes(a)[2] \in Byte
BY DEF AddrBytes, Byte

LEMMA InstrBytesType ==
    \A i \in Instr : /\ InstrBytes(i) \in Seq(Byte)
                     /\ i.mode = "abs" => Len(InstrBytes(i)) = 3
                     /\ i.mode \in {"forward", "back"} => Len(InstrBytes(i)) = 2
<1> SUFFICES ASSUME NEW i \in Instr
             PROVE  /\ InstrBytes(i) \in Seq(Byte)
                    /\ i.mode = "abs" => Len(InstrBytes(i)) = 3
                    /\ i.mode \in {"forward", "back"} => Len(InstrBytes(i)) = 2
    OBVIOUS
<1>0. i.op \in Byte /\ i.arg \in Nat
    BY DEF Instr
<1>1. CASE i.mode = "implied"
    BY <1>0, <1>1 DEF InstrBytes
<1>2. CASE i.mode = "abs"
    <2>1. AddrBytes(i.arg)[1] \in Byte /\ AddrBytes(i.arg)[2] \in Byte
        BY <1>0, AddrBytesType
    <2> QED BY <1>0, <1>2, <2>1 DEF InstrBytes
<1>3. CASE i.mode = "imm"
    BY <1>0, <1>3 DEF InstrBytes, Instr
<1>4. CASE i.mode \in {"forward", "back"}
    <2>1. 0 \in Byte
        BY DEF Byte
    <2>2. InstrBytes(i) = << i.op, 0 >>
        BY <1>4 DEF InstrBytes
    <2> QED BY <1>0, <1>4, <2>1, <2>2
<1> QED BY <1>1, <1>2, <1>3, <1>4 DEF Instr

\* A queue a statement handler may leave: well-formed instructions over the
\* slots S, with at most a forward branch at its end, which remembers an
\* offset the code has reached.
Queue(q, S) ==
    /\ q \in Seq(Instr)
    /\ \A i \in 1 .. Len(q) :
          /\ q[i].mode = "abs" => q[i].arg \in S
          /\ q[i].mode = "forward" => /\ i = Len(q)
                                      /\ q[i].op = Opcode.BNE /\ q[i].arg <= Len(buf)
          /\ q[i].mode # "back"

\* A piece of a queue that only loads, stores or increments the slots S.
Direct(q, S) == /\ q \in Seq(Instr)
                /\ \A i \in 1 .. Len(q) : q[i].mode = "abs" /\ q[i].arg \in S

LEMMA ConcatDirect ==
    ASSUME NEW S, NEW a, NEW b, Direct(a, S), Direct(b, S)
    PROVE  Direct(a \o b, S)
<1>1. a \in Seq(Instr) /\ b \in Seq(Instr)
    BY DEF Direct
<1>2. a \o b \in Seq(Instr) /\ Len(a \o b) = Len(a) + Len(b) /\ Len(a) \in Nat /\ Len(b) \in Nat
    BY <1>1, ConcatProperties, LenProperties
<1>3. ASSUME NEW i \in 1 .. Len(a \o b)
      PROVE  (a \o b)[i].mode = "abs" /\ (a \o b)[i].arg \in S
    <2>1. (a \o b)[i] = IF i <= Len(a) THEN a[i] ELSE b[i - Len(a)]
        BY <1>1, <1>2, ConcatProperties
    <2>2. CASE i <= Len(a)
        <3>1. i \in 1 .. Len(a)
            BY <1>2, <2>2
        <3> QED BY <2>1, <2>2, <3>1 DEF Direct
    <2>3. CASE ~(i <= Len(a))
        <3>1. i - Len(a) \in 1 .. Len(b)
            BY <1>2, <2>3
        <3> QED BY <2>1, <2>3, <3>1 DEF Direct
    <2> QED BY <2>2, <2>3
<1> QED BY <1>2, <1>3 DEF Direct

LEMMA IncrementDirect ==
    ASSUME NEW S \in SUBSET Nat, NEW a \in S, NEW k \in Nat
    PROVE  Direct(Increment(a, k), S)
<1>1. Abs(Opcode.INC, a) \in Instr
    BY AbsType, OpcodesAreBytes
<1>2. Increment(a, k) \in [1 .. k -> Instr]
    BY <1>1 DEF Increment
<1>3. Increment(a, k) \in Seq(Instr)
    BY <1>2, SeqDef
<1>4. Len(Increment(a, k)) = k
    BY <1>2, <1>3, LenProperties
<1>5. \A i \in 1 .. k : Increment(a, k)[i] = Abs(Opcode.INC, a)
    BY DEF Increment
<1> QED BY <1>3, <1>4, <1>5 DEF Direct, Abs

SlotsAfter(n) == Slots \cup {Fresh(i) : i \in 1 .. n}

LEMMA BumpType == \A a, n \in Nat : Bump(a, n) \in 0 .. AddrMod - 1
BY TargetAssumption DEF Bump

LEMMA NextType == ASSUME TypeInv PROVE next \in Nat /\ next < AddrMod
<1>1. next \in 0 .. AddrMod - 1
    BY DEF TypeInv, TypeOK, LayoutTypes
<1> QED BY <1>1, TargetAssumption

LEMMA SlotTypes ==
    ASSUME TypeInv
    PROVE  /\ Slots \subseteq 0 .. AddrMod - 1
           /\ \A i \in Nat \ {0} : Fresh(i) \in 0 .. AddrMod - 1
           /\ \A v \in DOMAIN varBase : varBase[v] \in Slots
           /\ \A i \in 1 .. Len(temps) : temps[i] \in Slots
           /\ phase # "bind" => ZeroAddr \in Slots /\ OneAddr \in Slots
<1>1. \A v \in DOMAIN varBase : varBase[v] \in 0 .. AddrMod - 1
    BY DEF TypeInv, TypeOK, LayoutTypes
<1>2. Range(temps) \subseteq 0 .. AddrMod - 1 /\ \A i \in 1 .. Len(temps) : temps[i] \in Range(temps)
    <2>1. temps \in Seq(0 .. AddrMod - 1)
        BY DEF TypeInv, TypeOK, LayoutTypes
    <2>2. DOMAIN temps = 1 .. Len(temps) /\ temps \in [1 .. Len(temps) -> 0 .. AddrMod - 1]
        BY <2>1, LenProperties
    <2> QED BY <2>2 DEF Range
<1>3. \A i \in Nat \ {0} : Fresh(i) \in 0 .. AddrMod - 1
    <2>1. next \in Nat
        BY NextType
    <2>2. ASSUME NEW i \in Nat \ {0} PROVE Bump(next, i - 1) \in 0 .. AddrMod - 1
        <3>1. i - 1 \in Nat
            OBVIOUS
        <3> QED BY <2>1, <3>1, BumpType
    <2> QED BY <2>2 DEF Fresh
<1>4. phase # "bind" => Len(temps) \in Nat /\ Len(temps) >= 2
    BY LenProperties DEF TypeInv, TypeOK, LayoutTypes, QueueInv
<1> QED BY <1>1, <1>2, <1>3, <1>4 DEF Slots, ZeroAddr, OneAddr

LEMMA AllocateSlots ==
    ASSUME TypeInv, NEW n \in Nat, Allocate(n), UNCHANGED varBase
    PROVE  /\ temps' \in Seq(0 .. AddrMod - 1)
           /\ Len(temps') = Len(temps) + n
           /\ next' \in 0 .. AddrMod - 1
           /\ Slots' = SlotsAfter(n)
           /\ \A i \in 1 .. Len(temps) : temps'[i] = temps[i]
           /\ \A i \in 1 .. n : temps'[Len(temps) + i] = Fresh(i)
<1> DEFINE fresh == [i \in 1 .. n |-> Bump(next, i - 1)]
<1>1. fresh \in [1 .. n -> 0 .. AddrMod - 1]
    <2>1. next \in Nat
        BY NextType
    <2>2. ASSUME NEW i \in 1 .. n PROVE Bump(next, i - 1) \in 0 .. AddrMod - 1
        <3>1. i - 1 \in Nat
            OBVIOUS
        <3> QED BY <2>1, <3>1, BumpType
    <2> QED BY <2>2
<1>2. fresh \in Seq(0 .. AddrMod - 1) /\ Len(fresh) = n
    <2>1. fresh \in Seq(0 .. AddrMod - 1)
        BY <1>1, SeqDef
    <2> QED BY <1>1, <2>1, LenProperties
<1>3. temps \in Seq(0 .. AddrMod - 1)
    BY DEF TypeInv, TypeOK, LayoutTypes
<1>4. temps' = temps \o fresh
    BY DEF Allocate
<1>5. next' \in 0 .. AddrMod - 1
    BY BumpType DEF Allocate, TypeInv, TypeOK, LayoutTypes
<1>6. Len(temps) \in Nat /\ Len(temps') = Len(temps) + n
    BY <1>2, <1>3, <1>4, ConcatProperties, LenProperties
<1>7. temps' \in Seq(0 .. AddrMod - 1)
    BY <1>2, <1>3, <1>4, ConcatProperties
<1>8. \A i \in 1 .. Len(temps) : temps'[i] = temps[i]
    BY <1>2, <1>3, <1>4, <1>6, ConcatProperties
<1>9. \A i \in 1 .. n : temps'[Len(temps) + i] = Fresh(i)
    BY <1>2, <1>3, <1>4, <1>6, ConcatProperties DEF Fresh
<1>10. Range(temps') = Range(temps) \cup {Fresh(i) : i \in 1 .. n}
    <2>1. DOMAIN temps = 1 .. Len(temps) /\ DOMAIN temps' = 1 .. Len(temps')
        BY <1>3, <1>7, LenProperties
    <2>2. ASSUME NEW i \in 1 .. Len(temps')
          PROVE  temps'[i] \in Range(temps) \cup {Fresh(j) : j \in 1 .. n}
        <3>1. CASE i \in 1 .. Len(temps)
            BY <1>8, <2>1, <3>1 DEF Range
        <3>2. CASE i \notin 1 .. Len(temps)
            <4>1. i - Len(temps) \in 1 .. n /\ i = Len(temps) + (i - Len(temps))
                BY <1>6, <3>2
            <4> QED BY <1>9, <4>1
        <3> QED BY <3>1, <3>2
    <2>3. ASSUME NEW i \in 1 .. Len(temps) PROVE temps[i] \in Range(temps')
        BY <1>6, <1>8, <2>1 DEF Range
    <2>4. ASSUME NEW i \in 1 .. n PROVE Fresh(i) \in Range(temps')
        <3>1. Len(temps) + i \in 1 .. Len(temps')
            BY <1>6
        <3> QED BY <1>9, <2>1, <3>1 DEF Range
    <2> QED BY <2>1, <2>2, <2>3, <2>4 DEF Range
<1> QED BY <1>5, <1>6, <1>7, <1>8, <1>9, <1>10 DEF Slots, SlotsAfter

\* Every statement handler that emits something visits with a legal queue.
Emitting == \/ PrintLiteral \/ PrintVariable \/ AssignInt \/ AssignString \/ Copy
            \/ AddSmall \/ AddGeneral \/ OpenIf \/ OpenWhile
Legal(n) == \E q \in Seq(Instr) : Visit(q, n) /\ Queue(q, SlotsAfter(n))

LEMMA EmittingIsLegal ==
    ASSUME TypeInv, Emitting
    PROVE  Legal(0) \/ Legal(1) \/ Legal(2)
<1> USE OpcodesAreBytes
<1>0. phase = "emit"
    BY DEF Emitting, PrintLiteral, PrintVariable, AssignInt, AssignString, Copy, AddSmall,
           AddGeneral, OpenIf, OpenWhile, OpenBlock, Visit
<1>1. /\ \A v \in Declared : varBase[v] \in SlotsAfter(0) /\ varBase[v] \in SlotsAfter(1)
                            /\ varBase[v] \in SlotsAfter(2)
      /\ OneAddr \in SlotsAfter(1)
      /\ Fresh(1) \in SlotsAfter(1)
      /\ Fresh(1) \in SlotsAfter(2) /\ Fresh(2) \in SlotsAfter(2)
    BY <1>0, SlotTypes DEF SlotsAfter, Declared
<1>2. \A n \in {0, 1, 2} : SlotsAfter(n) \subseteq Nat
    BY SlotTypes, TargetAssumption DEF SlotsAfter
<1>3. \A op \in Byte, v \in Nat : /\ Imm(op, v) \in Instr
                                /\ Imm(op, v).mode = "imm"
    BY ImmType DEF Imm
<1>4. \A op \in Byte, a \in Nat : Abs(op, a) \in Instr /\ Abs(op, a).mode = "abs" /\ Abs(op, a).arg = a
    BY AbsType DEF Abs
<1>5. \A op \in Byte : Implied(op) \in Instr /\ Implied(op).mode = "implied"
    BY ImpliedType DEF Implied
<1>6. \A t \in Nat : /\ BneForward(t) \in Instr /\ BneForward(t).mode = "forward"
                     /\ BneForward(t).op = Opcode.BNE /\ BneForward(t).arg = t
    BY BranchType DEF BneForward
<1>7. \A p \in DOMAIN pool : Pointer(p) \in Nat
    BY DEF Pointer, TypeInv, TypeOK, HeapTypes
<1>8. Strings \subseteq Declared /\ Ints \subseteq Declared
    BY DEF Strings, Ints
<1>11. CASE PrintLiteral
    <2>1. PICK p \in DOMAIN pool :
              Visit(<< Imm(Opcode.LDYI, Pointer(p)),
                       Imm(Opcode.LDXI, PrintStringService), Implied(Opcode.SYS) >>, 0)
        BY <1>11 DEF PrintLiteral
    <2> DEFINE q == << Imm(Opcode.LDYI, Pointer(p)),
                       Imm(Opcode.LDXI, PrintStringService), Implied(Opcode.SYS) >>
    <2>2. Pointer(p) \in Nat /\ PrintStringService \in Nat
        BY <1>7 DEF PrintStringService
    <2>3. q \in Seq(Instr)
        BY <1>3, <1>5, <2>2
    <2>4. Queue(q, SlotsAfter(0))
        BY <1>3, <1>5, <2>2, <2>3 DEF Queue
    <2> QED BY <2>1, <2>3, <2>4 DEF Legal
<1>12. CASE PrintVariable
    <2>1. PICK v \in Declared :
              Visit(<< Abs(Opcode.LDY, varBase[v]),
                       Imm(Opcode.LDXI, PrintService(v)), Implied(Opcode.SYS) >>, 0)
        BY <1>12 DEF PrintVariable
    <2> DEFINE q == << Abs(Opcode.LDY, varBase[v]),
                       Imm(Opcode.LDXI, PrintService(v)), Implied(Opcode.SYS) >>
    <2>2. varBase[v] \in SlotsAfter(0) /\ varBase[v] \in Nat /\ PrintService(v) \in Nat
        BY <1>1, <1>2 DEF PrintService, PrintStringService, PrintIntService
    <2>3. q \in Seq(Instr)
        BY <1>3, <1>4, <1>5, <2>2
    <2>4. Queue(q, SlotsAfter(0))
        BY <1>3, <1>4, <1>5, <2>2, <2>3 DEF Queue
    <2> QED BY <2>1, <2>3, <2>4 DEF Legal
<1>13. CASE AssignInt
    <2>1. PICK v \in Ints, n \in IntLiterals :
              Visit(<< Imm(Opcode.LDAI, n), Abs(Opcode.STA, varBase[v]) >>, 0)
        BY <1>13 DEF AssignInt
    <2> DEFINE q == << Imm(Opcode.LDAI, n), Abs(Opcode.STA, varBase[v]) >>
    <2>2. n \in Nat /\ varBase[v] \in Nat /\ varBase[v] \in SlotsAfter(0)
        BY <1>1, <1>2, <1>8, LiteralsAssumption
    <2>3. q \in Seq(Instr)
        BY <1>3, <1>4, <2>2
    <2>4. Queue(q, SlotsAfter(0))
        BY <1>3, <1>4, <2>2, <2>3 DEF Queue
    <2> QED BY <2>1, <2>3, <2>4 DEF Legal
<1>14. CASE AssignString
    <2>1. PICK v \in Strings, p \in DOMAIN pool :
              Visit(<< Imm(Opcode.LDAI, Pointer(p)), Abs(Opcode.STA, varBase[v]) >>, 0)
        BY <1>14 DEF AssignString
    <2> DEFINE q == << Imm(Opcode.LDAI, Pointer(p)), Abs(Opcode.STA, varBase[v]) >>
    <2>2. Pointer(p) \in Nat /\ varBase[v] \in Nat /\ varBase[v] \in SlotsAfter(0)
        BY <1>1, <1>2, <1>7, <1>8
    <2>3. q \in Seq(Instr)
        BY <1>3, <1>4, <2>2
    <2>4. Queue(q, SlotsAfter(0))
        BY <1>3, <1>4, <2>2, <2>3 DEF Queue
    <2> QED BY <2>1, <2>3, <2>4 DEF Legal
<1>15. CASE Copy
    <2>1. PICK v \in Declared, w \in Declared :
              Visit(<< Abs(Opcode.LDA, varBase[w]), Abs(Opcode.STA, varBase[v]) >>, 0)
        BY <1>15 DEF Copy
    <2> DEFINE q == << Abs(Opcode.LDA, varBase[w]), Abs(Opcode.STA, varBase[v]) >>
    <2>2. /\ varBase[v] \in Nat /\ varBase[v] \in SlotsAfter(0)
          /\ varBase[w] \in Nat /\ varBase[w] \in SlotsAfter(0)
        BY <1>1, <1>2
    <2>3. q \in Seq(Instr)
        BY <1>4, <2>2
    <2>4. Queue(q, SlotsAfter(0))
        BY <1>4, <2>2, <2>3 DEF Queue
    <2> QED BY <2>1, <2>3, <2>4 DEF Legal
<1>16. CASE AddSmall
    <2>1. PICK v \in Ints, w \in Ints, k \in Increments :
              Visit(<< Abs(Opcode.LDA, varBase[w]), Abs(Opcode.STA, Fresh(1)) >>
                    \o Increment(Fresh(1), k)
                    \o << Abs(Opcode.LDA, Fresh(1)), Abs(Opcode.STA, varBase[v]) >>, 1)
        BY <1>16 DEF AddSmall
    <2> DEFINE a == << Abs(Opcode.LDA, varBase[w]), Abs(Opcode.STA, Fresh(1)) >>
               b == Increment(Fresh(1), k)
               c == << Abs(Opcode.LDA, Fresh(1)), Abs(Opcode.STA, varBase[v]) >>
               q == (a \o b) \o c
    <2>2. k \in Nat
        BY LiteralsAssumption
    <2>3. varBase[w] \in SlotsAfter(1) /\ varBase[v] \in SlotsAfter(1) /\ Fresh(1) \in SlotsAfter(1)
        BY <1>1, <1>8
    <2>4. Direct(a, SlotsAfter(1))
        BY <1>2, <1>4, <2>3 DEF Direct
    <2>5. Direct(c, SlotsAfter(1))
        BY <1>2, <1>4, <2>3 DEF Direct
    <2>6. Direct(b, SlotsAfter(1))
        BY <1>2, <1>4, <2>2, <2>3, IncrementDirect
    <2> HIDE DEF a, b, c
    <2>7. Direct(a \o b, SlotsAfter(1))
        BY <2>4, <2>6, ConcatDirect
    <2>8. Direct(q, SlotsAfter(1))
        BY <2>5, <2>7, ConcatDirect
    <2> HIDE DEF q
    <2>9. q \in Seq(Instr) /\ Queue(q, SlotsAfter(1))
        BY <2>8 DEF Queue, Direct
    <2>10. Visit(q, 1)
        BY <2>1 DEF q, a, b, c
    <2> QED BY <2>9, <2>10 DEF Legal
<1>17. CASE AddGeneral
    <2>1. PICK v \in Ints, w \in Ints, n \in IntLiterals :
              Visit(<< Imm(Opcode.LDAI, n), Abs(Opcode.STA, Fresh(1)),
                       Abs(Opcode.LDA, varBase[w]),
                       Imm(Opcode.LDXI, 0), Abs(Opcode.CPX, OneAddr),
                       Abs(Opcode.ADC, Fresh(1)), Abs(Opcode.STA, varBase[v]) >>, 1)
        BY <1>17 DEF AddGeneral
    <2> DEFINE q == << Imm(Opcode.LDAI, n), Abs(Opcode.STA, Fresh(1)),
                       Abs(Opcode.LDA, varBase[w]),
                       Imm(Opcode.LDXI, 0), Abs(Opcode.CPX, OneAddr),
                       Abs(Opcode.ADC, Fresh(1)), Abs(Opcode.STA, varBase[v]) >>
    <2>2. /\ varBase[v] \in Nat /\ varBase[v] \in SlotsAfter(1)
          /\ varBase[w] \in Nat /\ varBase[w] \in SlotsAfter(1)
          /\ OneAddr \in Nat /\ OneAddr \in SlotsAfter(1)
          /\ Fresh(1) \in Nat /\ Fresh(1) \in SlotsAfter(1)
          /\ n \in Nat /\ 0 \in Nat
        BY <1>1, <1>2, <1>8, LiteralsAssumption
    <2>3. q \in Seq(Instr)
        BY <1>3, <1>4, <2>2
    <2>4. Queue(q, SlotsAfter(1))
        BY <1>3, <1>4, <2>2, <2>3, SMTT(60) DEF Queue
    <2> QED BY <2>1, <2>3, <2>4 DEF Legal
<1>18. ASSUME NEW top \in Nat, top <= Len(buf), OpenBlock(top) PROVE Legal(0) \/ Legal(2)
    <2>1. CASE \E v, w \in Ints : Visit(IntGuard(v, w, top), 0)
        <3>1. PICK v \in Ints, w \in Ints : Visit(IntGuard(v, w, top), 0)
            BY <2>1
        <3> DEFINE q == << Abs(Opcode.LDX, varBase[v]), Abs(Opcode.CPX, varBase[w]),
                        BneForward(top) >>
        <3>2. /\ varBase[v] \in Nat /\ varBase[v] \in SlotsAfter(0)
              /\ varBase[w] \in Nat /\ varBase[w] \in SlotsAfter(0)
            BY <1>1, <1>2, <1>8
        <3>3. q \in Seq(Instr)
            BY <1>4, <1>6, <3>2
        <3>4. Queue(q, SlotsAfter(0))
            BY <1>4, <1>6, <1>18, <3>2, <3>3 DEF Queue
        <3> QED BY <3>1, <3>3, <3>4 DEF Legal, IntGuard
    <2>2. CASE \E v, w \in Strings : Visit(StringGuard(v, w, top), 2)
        <3>1. PICK v \in Strings, w \in Strings : Visit(StringGuard(v, w, top), 2)
            BY <2>2
        <3> DEFINE q == << Abs(Opcode.LDA, varBase[v]), Abs(Opcode.STA, Fresh(1)),
                        Abs(Opcode.LDA, varBase[w]), Abs(Opcode.STA, Fresh(2)),
                        Abs(Opcode.LDX, Fresh(1)), Abs(Opcode.CPX, Fresh(2)),
                        BneForward(top) >>
        <3>2. /\ varBase[v] \in Nat /\ varBase[v] \in SlotsAfter(2)
              /\ varBase[w] \in Nat /\ varBase[w] \in SlotsAfter(2)
              /\ Fresh(1) \in Nat /\ Fresh(1) \in SlotsAfter(2)
              /\ Fresh(2) \in Nat /\ Fresh(2) \in SlotsAfter(2)
            BY <1>1, <1>2, <1>8
        <3>3. q \in Seq(Instr)
            BY <1>4, <1>6, <3>2
        <3>4. Queue(q, SlotsAfter(2))
            BY <1>4, <1>6, <1>18, <3>2, <3>3, SMTT(60) DEF Queue
        <3> QED BY <3>1, <3>3, <3>4 DEF Legal, StringGuard
    <2> QED BY <1>18, <2>1, <2>2 DEF OpenBlock
<1>19. CASE OpenIf \/ OpenWhile
    <2>1. Len(buf) \in Nat
        BY LenProperties DEF TypeInv, TypeOK, CodeTypes
    <2>2. 0 \in Nat /\ 0 <= Len(buf) /\ Len(buf) <= Len(buf)
        BY <2>1
    <2> QED BY <1>18, <1>19, <2>1, <2>2 DEF OpenIf, OpenWhile
<1> QED BY <1>11, <1>12, <1>13, <1>14, <1>15, <1>16, <1>17, <1>19 DEF Emitting

-----------------------------------------------------------------------------
(***************************************************************************)
(* Type correctness.                                                       *)
(***************************************************************************)
LEMMA TypeInit == Init => TypeInv
<1> SUFFICES ASSUME Init PROVE TypeInv
    OBVIOUS
<1>1. Range(<< >>) = {}
    BY DEF Range
<1>2. symbols \in SymbolTables /\ Len(symbols) \in Nat
    BY VarsAssumption, LenProperties DEF Init
<1>3. InputTypes
    BY <1>2 DEF Init, InputTypes
<1>4. LayoutTypes
    <2>1. RamBase \in 0 .. AddrMod - 1
        BY TargetAssumption
    <2>2. varBase \in [{symbols[i] : i \in 1 .. bound} -> 0 .. AddrMod - 1]
        BY DEF Init
    <2> QED BY <1>2, <2>1, <2>2 DEF Init, LayoutTypes
<1>5. HeapTypes
    <2>1. ImageBytes \in 0 .. ImageBytes
        BY TargetAssumption
    <2> QED BY <1>1, <2>1 DEF Init, HeapTypes
<1>6. CodeTypes
    <2>1. 0 \in 0 .. MaxStmts
        BY TargetAssumption
    <2>2. todo = << >> /\ buf = << >> /\ open = << >> /\ fixups = {} /\ branches = {} /\ stmts = 0
        BY DEF Init
    <2>3. << >> \in Seq(Instr) /\ << >> \in Seq(Byte) /\ << >> \in Seq(Frame)
        BY EmptySeq
    <2> QED BY <2>1, <2>2, <2>3 DEF CodeTypes
<1>7. ImageTypes
    <2>1. image = << >> /\ written = 0 /\ Len(planned) = 0 /\ err = FALSE
        BY DEF Init
    <2>2. << >> \in Seq(Byte)
        BY EmptySeq
    <2>3. image \in Seq(Byte) /\ written \in 0 .. Len(planned)
        BY <2>1, <2>2
    <2>4. err \in BOOLEAN
        BY <2>1
    <2> QED BY <2>3, <2>4 DEF ImageTypes
<1>8. QueueInv
    BY DEF Init, QueueInv
<1> QED BY <1>3, <1>4, <1>5, <1>6, <1>7, <1>8 DEF TypeInv, TypeOK

LEMMA BindSymbolType == ASSUME TypeInv, BindSymbol PROVE TypeInv'
<1>1. /\ symbols \in Seq(Vars) /\ Len(symbols) \in Nat
      /\ \A i, j \in 1 .. Len(symbols) : symbols[i] = symbols[j] => i = j
    BY VarsAssumption, LenProperties DEF TypeInv, TypeOK, InputTypes
<1>2. bound \in Nat /\ bound < Len(symbols) /\ bound' = bound + 1
    BY <1>1 DEF TypeInv, TypeOK, LayoutTypes, BindSymbol
<1> DEFINE k == symbols[bound + 1]
           names(n) == {symbols[i] : i \in 1 .. n}
<1>3. varBase \in [names(bound) -> 0 .. AddrMod - 1]
    BY DEF TypeInv, TypeOK, LayoutTypes
<1>4. k \notin names(bound)
    <2>1. \A i \in 1 .. bound : symbols[i] # symbols[bound + 1]
        BY <1>1, <1>2
    <2> QED BY <2>1
<1>5. k \notin DOMAIN varBase
    BY <1>3, <1>4
<1>6. /\ varBase' = [v \in DOMAIN varBase \cup {k} |-> IF v = k THEN next ELSE varBase[v]]
      /\ next' = Bump(next, 1)
    BY <1>5 DEF BindSymbol, VarSlot
<1>7. next \in 0 .. AddrMod - 1 /\ next' \in 0 .. AddrMod - 1
    <2>1. next \in 0 .. AddrMod - 1
        BY DEF TypeInv, TypeOK, LayoutTypes
    <2>2. 1 \in Nat
        OBVIOUS
    <2> QED BY <1>6, <2>1, <2>2, BumpType, NextType
<1>8. names(bound + 1) = names(bound) \cup {k}
    BY <1>2
<1>9. varBase' \in [names(bound + 1) -> 0 .. AddrMod - 1]
    <2> HIDE DEF names, k
    <2> QED BY <1>3, <1>6, <1>7, <1>8
<1>10. LayoutTypes'
    <2>1. symbols' = symbols /\ temps' = temps
        BY DEF BindSymbol, inputs
    <2>2. bound' \in 0 .. Len(symbols')
        BY <1>1, <1>2, <2>1
    <2> QED BY <1>2, <1>7, <1>9, <2>1, <2>2 DEF TypeInv, TypeOK, LayoutTypes
<1>11. TypeOK'
    BY <1>10 DEF TypeInv, TypeOK, InputTypes, HeapTypes, CodeTypes, ImageTypes,
                 BindSymbol, inputs, heapVars, codeVars, imageVars
<1>12. Slots \subseteq Slots'
    <2>1. \A v \in DOMAIN varBase : v \in DOMAIN varBase' /\ varBase'[v] = varBase[v]
        BY <1>5, <1>6
    <2> QED BY <2>1 DEF Slots, BindSymbol
<1>13. QueueInv'
    BY <1>12 DEF TypeInv, QueueInv, BindSymbol, codeVars
<1> QED BY <1>11, <1>13 DEF TypeInv

LEMMA ConstructType == ASSUME TypeInv, ConstructGenerator PROVE TypeInv'
<1>1. /\ temps' \in Seq(0 .. AddrMod - 1) /\ next' \in 0 .. AddrMod - 1
      /\ Len(temps') = Len(temps) + 2 /\ Slots \subseteq Slots'
    BY AllocateSlots DEF ConstructGenerator, SlotsAfter
<1>2. Len(temps) \in Nat
    BY LenProperties DEF TypeInv, TypeOK, LayoutTypes
<1>3. TypeOK'
    BY <1>1 DEF TypeInv, TypeOK, InputTypes, LayoutTypes, HeapTypes, CodeTypes, ImageTypes,
                ConstructGenerator, inputs, heapVars, codeVars, imageVars
<1> QED BY <1>1, <1>2, <1>3 DEF TypeInv, QueueInv, ConstructGenerator, codeVars

LEMMA HeapNeedType == \A p \in Payloads : HeapNeed(p) \in Nat /\ Len(p) \in Nat
BY LiteralsAssumption, LenProperties DEF HeapNeed

LEMMA HeapTotalType == ASSUME TypeInv PROVE HeapTotal \in Nat
<1>1. planned \in Seq(Payloads) /\ prefix \in [Range(planned) -> Nat]
    BY DEF TypeInv, TypeOK, HeapTypes
<1>2. CASE planned = << >>
    BY <1>2 DEF HeapTotal
<1>3. CASE planned # << >>
    <2>1. Len(planned) \in 1 .. Len(planned) /\ DOMAIN planned = 1 .. Len(planned)
        BY <1>1, <1>3, LenProperties, EmptySeq
    <2>2. planned[Len(planned)] \in Payloads /\ planned[Len(planned)] \in Range(planned)
        BY <1>1, <2>1, ElementOfSeq DEF Range
    <2> QED BY <1>1, <1>3, <2>2, HeapNeedType DEF HeapTotal
<1> QED BY <1>2, <1>3

LEMMA AppendRange ==
    ASSUME NEW S, NEW s \in Seq(S), NEW e \in S
    PROVE  Range(Append(s, e)) = Range(s) \cup {e}
<1> DEFINE t == Append(s, e)
           n == Len(s)
<1>1. n \in Nat /\ DOMAIN s = 1 .. n
    BY LenProperties
<1>2. t \in Seq(S) /\ Len(t) = n + 1 /\ t[n + 1] = e /\ \A i \in 1 .. n : t[i] = s[i]
    BY AppendProperties
<1>3. DOMAIN t = 1 .. n + 1
    BY <1>2, LenProperties
<1> HIDE DEF t, n
<1>4. 1 .. n + 1 = (1 .. n) \cup {n + 1}
    BY <1>1
<1>5. Range(t) = {t[i] : i \in 1 .. n} \cup {e}
    BY <1>2, <1>3, <1>4 DEF Range
<1>6. {t[i] : i \in 1 .. n} = Range(s)
    BY <1>1, <1>2 DEF Range
<1> QED BY <1>5, <1>6 DEF t

LEMMA RememberType ==
    ASSUME TypeInv, NEW p \in Payloads, RememberPayload(p) PROVE TypeInv'
<1>1. planned \in Seq(Payloads) /\ planned' = Append(planned, p)
    BY DEF TypeInv, TypeOK, HeapTypes, RememberPayload
<1>2. planned' \in Seq(Payloads) /\ Len(planned') = Len(planned) + 1 /\ Len(planned) \in Nat
      /\ \A i \in 1 .. Len(planned) : planned'[i] = planned[i]
      /\ planned'[Len(planned) + 1] = p
    BY <1>1, AppendProperties, LenProperties
<1>3. Range(planned') = Range(planned) \cup {p}
    BY <1>1, AppendRange
<1>4. prefix' \in [Range(planned') -> Nat] /\ pool' \in [Range(planned') -> Nat]
    BY <1>3, HeapTotalType DEF TypeInv, TypeOK, HeapTypes, RememberPayload
<1>5. HeapTypes'
    BY <1>2, <1>4 DEF TypeInv, TypeOK, HeapTypes, RememberPayload
<1>6. ImageTypes'
    BY <1>2 DEF TypeInv, TypeOK, ImageTypes, RememberPayload, imageVars
<1>7. TypeOK'
    BY <1>5, <1>6 DEF TypeInv, TypeOK, InputTypes, LayoutTypes, CodeTypes,
                      RememberPayload, inputs, layoutVars, codeVars
<1> QED BY <1>7 DEF TypeInv, QueueInv, RememberPayload, codeVars, layoutVars, Slots

LEMMA PlanHeapType == ASSUME TypeInv, PlanHeap PROVE TypeInv'
<1>1. buf \in Seq(Byte) /\ err \in BOOLEAN /\ priorErr \in BOOLEAN
    BY DEF TypeInv, TypeOK, CodeTypes, ImageTypes, InputTypes
<1>2. EndOfProgram(buf) \in Seq(Byte)
    BY <1>1, OpcodesAreBytes, AppendProperties DEF EndOfProgram
<1>3. HeapTypes'
    <2>1. CASE HeapFits
        <3>1. heapBase' \in 0 .. ImageBytes
            BY <2>1, HeapTotalType, TargetAssumption DEF PlanHeap, HeapFits
        <3>2. pool' \in [Range(planned) -> Nat]
            <4>1. pool' = [p \in DOMAIN pool |-> ImageBytes - HeapTotal + prefix[p]]
                BY <2>1 DEF PlanHeap, PlacedPool
            <4>2. ImageBytes - HeapTotal \in Nat
                BY <2>1, HeapTotalType, TargetAssumption DEF HeapFits
            <4>3. DOMAIN pool = Range(planned) /\ \A p \in Range(planned) : prefix[p] \in Nat
                BY DEF TypeInv, TypeOK, HeapTypes
            <4> HIDE DEF HeapTotal
            <4>4. \A p \in Range(planned) : ImageBytes - HeapTotal + prefix[p] \in Nat
                BY <4>2, <4>3
            <4> QED BY <4>1, <4>3, <4>4
        <3> QED BY <3>1, <3>2 DEF TypeInv, TypeOK, HeapTypes, PlanHeap
    <2>2. CASE ~HeapFits
        BY <2>2 DEF TypeInv, TypeOK, HeapTypes, PlanHeap
    <2> QED BY <2>1, <2>2
<1>4. CASE priorErr \/ err'
    <2>1. todo' = todo /\ buf' = EndOfProgram(buf) /\ phase' = "relocate"
        BY <1>4 DEF PlanHeap
    <2>2. TypeOK'
        BY <1>1, <1>2, <1>3, <2>1 DEF TypeInv, TypeOK, InputTypes, LayoutTypes, CodeTypes, ImageTypes,
                           PlanHeap, inputs, layoutVars, imageVars
    <2> QED BY <2>1, <2>2 DEF TypeInv, QueueInv, PlanHeap, layoutVars, Slots
<1>5. CASE ~(priorErr \/ err')
    <2>1. todo' = Prologue /\ buf' = buf /\ phase' = "emit"
        BY <1>5 DEF PlanHeap
    <2>2. ZeroAddr \in Slots /\ OneAddr \in Slots /\ ZeroAddr \in Nat /\ OneAddr \in Nat
        BY SlotTypes, TargetAssumption DEF PlanHeap
    <2>3. /\ Imm(Opcode.LDAI, 0) \in Instr /\ Imm(Opcode.LDAI, 1) \in Instr
          /\ Abs(Opcode.STA, ZeroAddr) \in Instr /\ Abs(Opcode.STA, OneAddr) \in Instr
        BY <2>2, ImmType, AbsType, OpcodesAreBytes
    <2>4. Prologue \in Seq(Instr)
        BY <2>3 DEF Prologue
    <2>5. \A i \in 1 .. Len(Prologue) :
             /\ Prologue[i].mode = "abs" => Prologue[i].arg \in Slots
             /\ Prologue[i].mode \in {"imm", "abs"}
        BY <2>2 DEF Prologue, Imm, Abs
    <2>6. TypeOK'
        BY <1>1, <1>3, <2>1, <2>4 DEF TypeInv, TypeOK, InputTypes, LayoutTypes, CodeTypes, ImageTypes,
                           PlanHeap, inputs, layoutVars, imageVars
    <2>7. QueueInv'
        BY <2>1, <2>5 DEF TypeInv, QueueInv, PlanHeap, layoutVars, Slots
    <2> QED BY <2>6, <2>7 DEF TypeInv
<1> QED BY <1>4, <1>5

LEMMA VisitType == ASSUME TypeInv, NEW n \in 0 .. 2, Legal(n) PROVE TypeInv'
<1>1. PICK q \in Seq(Instr) : Visit(q, n) /\ Queue(q, SlotsAfter(n))
    BY DEF Legal
<1>2. n \in Nat
    OBVIOUS
<1>3. /\ temps' \in Seq(0 .. AddrMod - 1) /\ next' \in 0 .. AddrMod - 1
      /\ Len(temps') = Len(temps) + n /\ Slots' = SlotsAfter(n)
    BY <1>1, <1>2, AllocateSlots DEF Visit
<1>4. stmts' \in 0 .. MaxStmts
    BY <1>1, TargetAssumption DEF Visit, TypeInv, TypeOK, CodeTypes
<1>5. TypeOK'
    BY <1>1, <1>3, <1>4 DEF TypeInv, TypeOK, InputTypes, LayoutTypes, HeapTypes, CodeTypes,
                            ImageTypes, Visit, inputs, heapVars, imageVars
<1>6. Len(temps) \in Nat /\ Len(temps) >= 2
    BY <1>1, LenProperties DEF TypeInv, TypeOK, LayoutTypes, QueueInv, Visit
<1>7. todo' = q
    BY <1>1 DEF Visit
<1>8. QueueInv'
    BY <1>1, <1>2, <1>3, <1>6, <1>7 DEF QueueInv, Queue
<1> QED BY <1>5, <1>8 DEF TypeInv

LEMMA RejectLiteralType == ASSUME TypeInv, RejectLiteral PROVE TypeInv'
<1>1. stmts' \in 0 .. MaxStmts /\ err' = TRUE
    BY TargetAssumption DEF RejectLiteral, TypeInv, TypeOK, CodeTypes
<1>2. TypeOK'
    BY <1>1 DEF TypeInv, TypeOK, InputTypes, LayoutTypes, HeapTypes, CodeTypes, ImageTypes,
                RejectLiteral, inputs, layoutVars, heapVars, imageVars
<1> QED BY <1>2 DEF TypeInv, QueueInv, RejectLiteral, layoutVars, Slots

LEMMA TopType ==
    ASSUME TypeInv, open # << >>
    PROVE  Top \in Frame /\ Pop \in Seq(Frame)
<1>1. open \in Seq(Frame)
    BY DEF TypeInv, TypeOK, CodeTypes
<1>2. Len(open) \in Nat \ {0}
    BY <1>1, EmptySeq
<1>3. Top \in Frame
    BY <1>1, <1>2, ElementOfSeq DEF Top
<1>4. \A i \in 1 .. Len(open) - 1 : open[i] \in Frame
    BY <1>1, <1>2, ElementOfSeq
<1>5. Len(open) - 1 \in Int
    BY <1>2
<1> QED BY <1>3, <1>4, <1>5, SubSeqProperties DEF Pop

LEMMA CloseWhileType == ASSUME TypeInv, CloseWhile PROVE TypeInv'
<1>1. open # << >>
    BY DEF CloseWhile
<1>2. Top.top \in Nat
    BY <1>1, TopType DEF Frame
<1>3. ZeroAddr \in Slots /\ ZeroAddr \in Nat
    BY SlotTypes, TargetAssumption DEF CloseWhile
<1>4. todo' = << Imm(Opcode.LDXI, 1), Abs(Opcode.CPX, ZeroAddr), BneBack(Top.top) >>
    BY DEF CloseWhile, BranchAlwaysTo
<1>5. /\ Imm(Opcode.LDXI, 1) \in Instr /\ Abs(Opcode.CPX, ZeroAddr) \in Instr
      /\ BneBack(Top.top) \in Instr
    BY <1>2, <1>3, ImmType, AbsType, BranchType, OpcodesAreBytes
<1>6. todo' \in Seq(Instr)
    BY <1>4, <1>5
<1>7. /\ Imm(Opcode.LDXI, 1).mode = "imm" /\ Abs(Opcode.CPX, ZeroAddr).mode = "abs"
      /\ Abs(Opcode.CPX, ZeroAddr).arg = ZeroAddr /\ BneBack(Top.top).mode = "back"
    BY DEF Imm, Abs, BneBack
<1>8. TypeOK'
    BY <1>6 DEF TypeInv, TypeOK, InputTypes, LayoutTypes, HeapTypes, CodeTypes, ImageTypes,
                CloseWhile, inputs, layoutVars, heapVars, imageVars
<1>9. Slots' = Slots /\ temps' = temps /\ phase' = phase /\ open' = open /\ open # << >>
    BY DEF CloseWhile, layoutVars, Slots
<1>10. QueueInv'
    BY <1>3, <1>4, <1>7, <1>9 DEF TypeInv, QueueInv
<1> QED BY <1>8, <1>10 DEF TypeInv

LEMMA PatchType ==
    ASSUME NEW b \in Seq(Byte), NEW at \in Nat, NEW to \in Nat
    PROVE  /\ PatchBranch(b, at, to) \in Seq(Byte) /\ Len(PatchBranch(b, at, to)) = Len(b)
           /\ \A i \in 1 .. Len(b) : i # at + 2 => PatchBranch(b, at, to)[i] = b[i]
<1> DEFINE d == Displacement(at, to) % 256
<1>1. d \in Byte
    BY DEF Displacement, Byte
<1>2. DOMAIN b = 1 .. Len(b) /\ Len(b) \in Nat
    BY LenProperties
<1>3. CASE at + 2 \in 1 .. Len(b)
    <2> HIDE DEF d
    <2>1. /\ [b EXCEPT ![at + 2] = d] \in Seq(Byte) /\ Len([b EXCEPT ![at + 2] = d]) = Len(b)
          /\ \A i \in 1 .. Len(b) : [b EXCEPT ![at + 2] = d][i] = IF i = at + 2 THEN d ELSE b[i]
        BY <1>1, <1>3, ExceptSeq
    <2> QED BY <2>1 DEF PatchBranch, d
<1>4. CASE at + 2 \notin 1 .. Len(b)
    <2>1. [b EXCEPT ![at + 2] = d] = b
        BY <1>2, <1>4
    <2> QED BY <2>1 DEF PatchBranch
<1> QED BY <1>3, <1>4

LEMMA BranchOpType ==
    ASSUME NEW at \in Nat, NEW to \in Nat
    PROVE  [at |-> at, to |-> to] \in Branch
BY DEF Branch

LEMMA CloseIfType == ASSUME TypeInv, CloseIf PROVE TypeInv'
<1>1. Top \in Frame /\ Pop \in Seq(Frame)
    BY TopType DEF CloseIf
<1>2. Top.bne \in Nat
    BY <1>1 DEF Frame
<1>3. buf \in Seq(Byte) /\ Len(buf) \in Nat
    BY LenProperties DEF TypeInv, TypeOK, CodeTypes
<1>4. buf' \in Seq(Byte)
    BY <1>2, <1>3, PatchType DEF CloseIf
<1>5. branches' \subseteq Branch
    BY <1>2, <1>3, BranchOpType DEF TypeInv, TypeOK, CodeTypes, CloseIf
<1>6. err' \in BOOLEAN
    BY DEF TypeInv, TypeOK, ImageTypes, CloseIf
<1>7. CodeTypes'
    BY <1>1, <1>4, <1>5 DEF TypeInv, TypeOK, CodeTypes, CloseIf
<1>8. TypeOK'
    BY <1>6, <1>7 DEF TypeInv, TypeOK, InputTypes, LayoutTypes, HeapTypes, ImageTypes,
                      CloseIf, inputs, layoutVars, heapVars, imageVars
<1>9. todo' = << >> /\ Slots' = Slots /\ temps' = temps /\ phase' = phase
    BY DEF CloseIf, layoutVars, Slots
<1> QED BY <1>8, <1>9 DEF TypeInv, QueueInv

\* What the head of the queue is, and what is left behind it.
LEMMA HeadType ==
    ASSUME TypeInv, todo # << >>
    PROVE  /\ Head(todo) \in Instr /\ Tail(todo) \in Seq(Instr)
           /\ Head(todo) = todo[1] /\ Len(Tail(todo)) = Len(todo) - 1 /\ Len(todo) \in Nat \ {0}
           /\ \A i \in 1 .. Len(Tail(todo)) : Tail(todo)[i] = todo[i + 1]
           /\ Head(todo).mode = "abs" => Head(todo).arg \in Slots
           /\ Head(todo).mode \in {"forward", "back"} => Tail(todo) = << >>
           /\ Head(todo).mode = "back" => open # << >>
           /\ EmitHead \in Seq(Byte)
           /\ Len(EmitHead) = Len(buf) + Len(InstrBytes(Head(todo)))
           /\ \A i \in 1 .. Len(buf) : EmitHead[i] = buf[i]
           /\ \A i \in 1 .. Len(InstrBytes(Head(todo))) :
                 EmitHead[Len(buf) + i] = InstrBytes(Head(todo))[i]
<1>1. todo \in Seq(Instr) /\ buf \in Seq(Byte)
    BY DEF TypeInv, TypeOK, CodeTypes
<1>2. Len(todo) \in Nat \ {0} /\ Len(buf) \in Nat
    BY <1>1, EmptySeq, LenProperties
<1>3. /\ Head(todo) \in Instr /\ Tail(todo) \in Seq(Instr) /\ Head(todo) = todo[1]
      /\ Len(Tail(todo)) = Len(todo) - 1
      /\ \A i \in 1 .. Len(Tail(todo)) : Tail(todo)[i] = todo[i + 1]
    BY <1>1, <1>2, HeadTailProperties
<1>4. 1 \in 1 .. Len(todo)
    BY <1>2
<1>5. /\ todo[1].mode = "abs" => todo[1].arg \in Slots
      /\ todo[1].mode \in {"forward", "back"} => 1 = Len(todo)
      /\ todo[1].mode = "back" => open # << >>
    BY <1>4 DEF TypeInv, QueueInv
<1>6. 1 = Len(todo) => Tail(todo) = << >>
    <2>1. \A s \in Seq(Instr) : s # << >> => Len(s) \in Nat \ {0}
        BY EmptySeq
    <2> DEFINE n == Len(todo)  m == Len(Tail(todo))
    <2>2. n \in Nat /\ m = n - 1
        BY <1>2, <1>3
    <2>3. Tail(todo) # << >> => m \in Nat \ {0}
        BY <1>3, <2>1
    <2> HIDE DEF n, m
    <2>4. 1 = n => m \notin Nat \ {0}
        BY <2>2
    <2>5. 1 = n => Tail(todo) = << >>
        BY <2>3, <2>4
    <2> QED BY <2>5 DEF n
<1>7. InstrBytes(Head(todo)) \in Seq(Byte)
    BY <1>3, InstrBytesType
<1>8. Len(InstrBytes(Head(todo))) \in Nat
    BY <1>7, LenProperties
<1>9. /\ EmitHead \in Seq(Byte)
      /\ Len(EmitHead) = Len(buf) + Len(InstrBytes(Head(todo)))
      /\ \A i \in 1 .. Len(buf) + Len(InstrBytes(Head(todo))) :
            EmitHead[i] = IF i <= Len(buf) THEN buf[i] ELSE InstrBytes(Head(todo))[i - Len(buf)]
    BY <1>1, <1>7, ConcatProperties DEF EmitHead
<1>10. \A i \in 1 .. Len(buf) : EmitHead[i] = buf[i]
    BY <1>2, <1>8, <1>9
<1>11. ASSUME NEW i \in 1 .. Len(InstrBytes(Head(todo)))
       PROVE  EmitHead[Len(buf) + i] = InstrBytes(Head(todo))[i]
    <2>1. Len(buf) + i \in 1 .. Len(buf) + Len(InstrBytes(Head(todo))) /\ ~(Len(buf) + i <= Len(buf))
          /\ Len(buf) + i - Len(buf) = i
        BY <1>2, <1>8
    <2> QED BY <1>9, <2>1
<1> QED BY <1>2, <1>3, <1>5, <1>6, <1>9, <1>10, <1>11

LEMMA EmitPlainType == ASSUME TypeInv, EmitPlain PROVE TypeInv'
<1>1. /\ Tail(todo) \in Seq(Instr) /\ EmitHead \in Seq(Byte) /\ Head(todo) \in Instr
      /\ Len(todo) \in Nat \ {0} /\ Len(Tail(todo)) = Len(todo) - 1
      /\ \A i \in 1 .. Len(Tail(todo)) : Tail(todo)[i] = todo[i + 1]
    BY HeadType DEF EmitPlain
<1>2. Len(buf) \in Nat /\ Head(todo).arg \in Nat
    BY <1>1, LenProperties DEF TypeInv, TypeOK, CodeTypes, Instr
<1>3. fixups' \subseteq Fixup
    <2>1. [off |-> Len(buf) + 1, addr |-> Head(todo).arg] \in Fixup
        BY <1>2 DEF Fixup
    <2>2. fixups' \subseteq fixups \cup {[off |-> Len(buf) + 1, addr |-> Head(todo).arg]}
        BY DEF EmitPlain
    <2> QED BY <2>1, <2>2 DEF TypeInv, TypeOK, CodeTypes
<1>4. CodeTypes'
    BY <1>1, <1>3 DEF TypeInv, TypeOK, CodeTypes, EmitPlain
<1>5. TypeOK'
    BY <1>4 DEF TypeInv, TypeOK, InputTypes, LayoutTypes, HeapTypes, ImageTypes,
                EmitPlain, inputs, layoutVars, heapVars, imageVars
<1>6. Slots' = Slots /\ temps' = temps /\ phase' = phase /\ open' = open /\ todo' = Tail(todo)
    BY DEF EmitPlain, layoutVars, Slots
<1>7. \A i \in 1 .. Len(Tail(todo)) : i + 1 \in 1 .. Len(todo)
    BY <1>1
<1>8. QueueInv'
    <2>1. ASSUME NEW i \in 1 .. Len(todo')
          PROVE  /\ todo'[i].mode = "abs" => todo'[i].arg \in Slots'
                 /\ todo'[i].mode \in {"forward", "back"} => i = Len(todo')
                 /\ todo'[i].mode = "back" => open' # << >>
        <3>1. i + 1 \in 1 .. Len(todo) /\ todo'[i] = todo[i + 1] /\ Len(todo') = Len(todo) - 1
            BY <1>1, <1>6, <1>7
        <3>2. /\ todo[i + 1].mode = "abs" => todo[i + 1].arg \in Slots
              /\ todo[i + 1].mode \in {"forward", "back"} => i + 1 = Len(todo)
              /\ todo[i + 1].mode = "back" => open # << >>
            <4> DEFINE j == i + 1
            <4>1. \A k \in 1 .. Len(todo) :
                     /\ todo[k].mode = "abs" => todo[k].arg \in Slots
                     /\ todo[k].mode \in {"forward", "back"} => k = Len(todo)
                     /\ todo[k].mode = "back" => open # << >>
                BY DEF TypeInv, QueueInv
            <4>2. j \in 1 .. Len(todo)
                BY <3>1
            <4> HIDE DEF j
            <4>3. /\ todo[j].mode = "abs" => todo[j].arg \in Slots
                  /\ todo[j].mode \in {"forward", "back"} => j = Len(todo)
                  /\ todo[j].mode = "back" => open # << >>
                BY <4>1, <4>2
            <4> QED BY <4>3 DEF j
        <3>3. i + 1 = Len(todo) => i = Len(todo')
            <4> DEFINE n == Len(todo)  m == Len(todo')
            <4>1. n \in Nat /\ m = n - 1
                BY <1>1, <3>1
            <4>2. i \in Int
                OBVIOUS
            <4> HIDE DEF n, m
            <4>3. i + 1 = n => i = m
                BY <4>1, <4>2
            <4> QED BY <4>3 DEF n, m
        <3> QED BY <1>6, <3>1, <3>2, <3>3
    <2>2. (phase # "bind" => Len(temps) >= 2)'
        BY <1>6 DEF TypeInv, QueueInv
    <2> QED BY <2>1, <2>2 DEF QueueInv
<1> QED BY <1>5, <1>8 DEF TypeInv

LEMMA EmitForwardType == ASSUME TypeInv, EmitForward PROVE TypeInv'
<1>1. /\ Tail(todo) = << >> /\ EmitHead \in Seq(Byte) /\ Head(todo) \in Instr
    BY HeadType DEF EmitForward
<1>2. Len(buf) \in Nat /\ Head(todo).arg \in Nat
    BY <1>1, LenProperties DEF TypeInv, TypeOK, CodeTypes, Instr
<1>3. open' \in Seq(Frame)
    <2>1. [top |-> Head(todo).arg, bne |-> Len(buf)] \in Frame
        BY <1>2 DEF Frame
    <2>2. open \in Seq(Frame)
        BY DEF TypeInv, TypeOK, CodeTypes
    <2> QED BY <2>1, <2>2, AppendProperties DEF EmitForward
<1>4. CodeTypes'
    BY <1>1, <1>3 DEF TypeInv, TypeOK, CodeTypes, EmitForward
<1>5. TypeOK'
    BY <1>4 DEF TypeInv, TypeOK, InputTypes, LayoutTypes, HeapTypes, ImageTypes,
                EmitForward, inputs, layoutVars, heapVars, imageVars
<1>6. temps' = temps /\ phase' = phase /\ todo' = << >>
    BY <1>1 DEF EmitForward, layoutVars
<1> QED BY <1>5, <1>6 DEF TypeInv, QueueInv

LEMMA EmitBackType == ASSUME TypeInv, EmitBack PROVE TypeInv'
<1>1. /\ Tail(todo) = << >> /\ EmitHead \in Seq(Byte) /\ Head(todo) \in Instr /\ open # << >>
    BY HeadType DEF EmitBack
<1>2. Len(buf) \in Nat /\ Head(todo).arg \in Nat
    BY <1>1, LenProperties DEF TypeInv, TypeOK, CodeTypes, Instr
<1>3. Top.bne \in Nat /\ Pop \in Seq(Frame)
    BY <1>1, TopType DEF Frame
<1>4. buf' \in Seq(Byte)
    <2>1. buf' = PatchBranch(PatchBranch(EmitHead, Len(buf), Head(todo).arg), Top.bne, Len(buf) + 2)
        BY DEF EmitBack
    <2>2. PatchBranch(EmitHead, Len(buf), Head(todo).arg) \in Seq(Byte)
        BY <1>1, <1>2, PatchType
    <2>3. Len(buf) + 2 \in Nat
        BY <1>2
    <2> QED BY <1>3, <2>1, <2>2, <2>3, PatchType
<1>5. branches' \subseteq Branch
    <2>1. Len(buf) + 2 \in Nat
        BY <1>2
    <2>2. /\ [at |-> Len(buf), to |-> Head(todo).arg] \in Branch
          /\ [at |-> Top.bne, to |-> Len(buf) + 2] \in Branch
        BY <1>2, <1>3, <2>1, BranchOpType
    <2> QED BY <2>2 DEF TypeInv, TypeOK, CodeTypes, EmitBack
<1>6. err' \in BOOLEAN
    <2>1. err \in BOOLEAN
        BY DEF TypeInv, TypeOK, ImageTypes
    <2> QED BY <2>1 DEF EmitBack
<1>7. CodeTypes'
    BY <1>1, <1>3, <1>4, <1>5 DEF TypeInv, TypeOK, CodeTypes, EmitBack
<1>8. TypeOK'
    BY <1>6, <1>7 DEF TypeInv, TypeOK, InputTypes, LayoutTypes, HeapTypes, ImageTypes,
                      EmitBack, inputs, layoutVars, heapVars, imageVars
<1>9. temps' = temps /\ phase' = phase /\ todo' = << >>
    BY <1>1 DEF EmitBack, layoutVars
<1> QED BY <1>8, <1>9 DEF TypeInv, QueueInv

LEMMA EndBlockType == ASSUME TypeInv, EndBlock PROVE TypeInv'
<1>1. buf' \in Seq(Byte)
    BY OpcodesAreBytes, AppendProperties DEF TypeInv, TypeOK, CodeTypes, EndBlock, EndOfProgram
<1>2. TypeOK'
    BY <1>1 DEF TypeInv, TypeOK, InputTypes, LayoutTypes, HeapTypes, CodeTypes, ImageTypes,
                EndBlock, inputs, layoutVars, heapVars, imageVars
<1> QED BY <1>2 DEF TypeInv, QueueInv, EndBlock, layoutVars, Slots

LEMMA DeltaType ==
    ASSUME TypeInv
    PROVE  DataBase \in Nat /\ Delta \in Nat /\ Delta = DataBase - RamBase /\ Len(buf) \in Nat
<1>1. Len(buf) \in Nat
    BY LenProperties DEF TypeInv, TypeOK, CodeTypes
<1>2. Len(buf) % AddrMod \in Nat
    BY <1>1, TargetAssumption
<1>3. DataBase \in Nat /\ DataBase >= MinDataBase
    BY <1>2, TargetAssumption DEF DataBase
<1> QED BY <1>1, <1>3, TargetAssumption DEF Delta

LEMMA PatchOperandsType ==
    ASSUME TypeInv
    PROVE  /\ PatchOperands(buf) \in Seq(Byte) /\ Len(PatchOperands(buf)) = Len(buf)
           /\ PatchOperands(buf) \in [1 .. Len(buf) -> Byte]
<1>1. buf \in [1 .. Len(buf) -> Byte] /\ Len(buf) \in Nat
    BY LenProperties DEF TypeInv, TypeOK, CodeTypes
<1>2. fixups \subseteq Fixup
    BY DEF TypeInv, TypeOK, CodeTypes
<1>3. ASSUME NEW i \in 1 .. Len(buf), \E f \in fixups : i - 1 \in {f.off, f.off + 1}
      PROVE  AddrBytes(Relocated((CHOOSE f \in fixups : i - 1 \in {f.off, f.off + 1}).addr))
                 [i - (CHOOSE f \in fixups : i - 1 \in {f.off, f.off + 1}).off] \in Byte
    <2> DEFINE f == CHOOSE f \in fixups : i - 1 \in {f.off, f.off + 1}
    <2>1. f \in fixups /\ i - 1 \in {f.off, f.off + 1}
        BY <1>3
    <2> HIDE DEF f
    <2>2. f.off \in Nat /\ f.addr \in Nat
        BY <1>2, <2>1 DEF Fixup
    <2>3. i - f.off \in {1, 2}
        BY <2>1, <2>2
    <2>4. Relocated(f.addr) \in Nat
        BY <2>2, DeltaType DEF Relocated
    <2>5. AddrBytes(Relocated(f.addr))[i - f.off] \in Byte
        BY <2>3, <2>4, AddrBytesType
    <2> QED BY <2>5 DEF f
<1>4. PatchOperands(buf) \in [1 .. Len(buf) -> Byte]
    BY <1>1, <1>3 DEF PatchOperands
<1>5. PatchOperands(buf) \in Seq(Byte)
    BY <1>1, <1>4, SeqDef
<1>6. Len(PatchOperands(buf)) = Len(buf)
    BY <1>1, <1>4, <1>5, LenProperties
<1> QED BY <1>4, <1>5, <1>6

LEMMA RelocateType == ASSUME TypeInv, Relocate PROVE TypeInv'
<1>1. buf' \in Seq(Byte) /\ err' \in BOOLEAN /\ phase' \in {"pad", "done"}
    BY PatchOperandsType DEF TypeInv, TypeOK, CodeTypes, ImageTypes, Relocate
<1>2. TypeOK'
    BY <1>1 DEF TypeInv, TypeOK, InputTypes, LayoutTypes, HeapTypes, CodeTypes, ImageTypes,
                Relocate, inputs, layoutVars, heapVars, imageVars
<1> QED BY <1>2 DEF TypeInv, QueueInv, Relocate, layoutVars, Slots

\* The zero bytes that fill the image behind the code.
LEMMA PaddedType ==
    ASSUME TypeInv, Len(buf) <= ImageBytes
    PROVE  LET padded == buf \o [i \in 1 .. ImageBytes - Len(buf) |-> 0] IN
           /\ padded \in Seq(Byte) /\ Len(padded) = ImageBytes
           /\ \A i \in 1 .. Len(buf) : padded[i] = buf[i]
<1> DEFINE n == ImageBytes - Len(buf)
           zeros == [i \in 1 .. n |-> 0]
<1>1. buf \in Seq(Byte) /\ Len(buf) \in Nat
    BY LenProperties DEF TypeInv, TypeOK, CodeTypes
<1>2. n \in Nat /\ Len(buf) + n = ImageBytes
    BY <1>1, TargetAssumption
<1>3. 0 \in Byte
    BY DEF Byte
<1> HIDE DEF n
<1>4. zeros \in [1 .. n -> Byte]
    BY <1>3
<1>5. zeros \in Seq(Byte)
    BY <1>2, <1>4, SeqDef
<1>6. Len(zeros) = n
    BY <1>2, <1>4, <1>5, LenProperties
<1> HIDE DEF zeros
<1>7. /\ buf \o zeros \in Seq(Byte) /\ Len(buf \o zeros) = Len(buf) + n
      /\ \A i \in 1 .. Len(buf) : (buf \o zeros)[i] = buf[i]
    <2>1. /\ buf \o zeros \in Seq(Byte) /\ Len(buf \o zeros) = Len(buf) + n
          /\ \A i \in 1 .. Len(buf) + n :
                (buf \o zeros)[i] = IF i <= Len(buf) THEN buf[i] ELSE zeros[i - Len(buf)]
        BY <1>1, <1>5, <1>6, ConcatProperties
    <2>2. \A i \in 1 .. Len(buf) : i \in 1 .. Len(buf) + n /\ i <= Len(buf)
        BY <1>1, <1>2
    <2> QED BY <2>1, <2>2
<1> QED BY <1>2, <1>7 DEF zeros, n

LEMMA PadType == ASSUME TypeInv, Pad PROVE TypeInv'
<1>1. image' \in Seq(Byte) /\ err' \in BOOLEAN /\ phase' \in {"heap", "done"}
    <2>1. CASE Len(buf) > ImageBytes
        BY <2>1 DEF TypeInv, TypeOK, ImageTypes, Pad
    <2>2. CASE ~(Len(buf) > ImageBytes)
        <3>1. Len(buf) <= ImageBytes
            BY <2>2, DeltaType, TargetAssumption
        <3> QED BY <2>2, <3>1, PaddedType DEF TypeInv, TypeOK, ImageTypes, Pad
    <2> QED BY <2>1, <2>2
<1>2. TypeOK'
    BY <1>1 DEF TypeInv, TypeOK, InputTypes, LayoutTypes, HeapTypes, CodeTypes, ImageTypes,
                Pad, inputs, layoutVars, heapVars, codeVars
<1> QED BY <1>2 DEF TypeInv, QueueInv, Pad, layoutVars, codeVars, Slots

LEMMA StoreType ==
    ASSUME NEW img \in Seq(Byte), NEW base \in Nat, NEW p \in Payloads
    PROVE  /\ Store(img, base, p) \in Seq(Byte) /\ Len(Store(img, base, p)) = Len(img)
           /\ \A i \in 1 .. Len(img) :
                 Store(img, base, p)[i] = IF i - 1 \in base .. base + Len(p) - 1 THEN p[i - base]
                                          ELSE IF i - 1 = base + Len(p) THEN 0
                                          ELSE img[i]
<1>1. img \in [1 .. Len(img) -> Byte] /\ Len(img) \in Nat
    BY LenProperties
<1>2. p \in Seq(1 .. 127) /\ Len(p) \in Nat
    BY LiteralsAssumption, LenProperties
<1>3. ASSUME NEW i \in 1 .. Len(img), i - 1 \in base .. base + Len(p) - 1
      PROVE  p[i - base] \in Byte
    <2>1. i - base \in 1 .. Len(p)
        BY <1>1, <1>2, <1>3
    <2>2. p[i - base] \in 1 .. 127
        BY <1>2, <2>1, ElementOfSeq
    <2> QED BY <2>2 DEF Byte
<1>4. 0 \in Byte
    BY DEF Byte
<1>5. Store(img, base, p) \in [1 .. Len(img) -> Byte]
    BY <1>1, <1>3, <1>4 DEF Store
<1>6. Store(img, base, p) \in Seq(Byte)
    BY <1>1, <1>5, SeqDef
<1>7. Len(Store(img, base, p)) = Len(img)
    BY <1>1, <1>5, <1>6, LenProperties
<1> QED BY <1>6, <1>7 DEF Store

LEMMA PlannedType ==
    ASSUME TypeInv
    PROVE  /\ Len(planned) \in Nat
           /\ \A i \in 1 .. Len(planned) : /\ planned[i] \in Payloads
                                           /\ planned[i] \in DOMAIN pool
                                           /\ pool[planned[i]] \in Nat
                                           /\ prefix[planned[i]] \in Nat
           /\ \A p \in DOMAIN pool : \E i \in 1 .. Len(planned) : p = planned[i]
<1>1. planned \in Seq(Payloads) /\ DOMAIN planned = 1 .. Len(planned) /\ Len(planned) \in Nat
    BY LenProperties DEF TypeInv, TypeOK, HeapTypes
<1>2. pool \in [Range(planned) -> Nat] /\ prefix \in [Range(planned) -> Nat]
    BY DEF TypeInv, TypeOK, HeapTypes
<1>3. \A i \in 1 .. Len(planned) : planned[i] \in Payloads /\ planned[i] \in Range(planned)
    BY <1>1, ElementOfSeq DEF Range
<1>4. \A p \in Range(planned) : \E i \in 1 .. Len(planned) : p = planned[i]
    BY <1>1 DEF Range
<1> QED BY <1>1, <1>2, <1>3, <1>4

LEMMA StorePayloadType == ASSUME TypeInv, StorePayload PROVE TypeInv'
<1>1. written \in Nat /\ written + 1 \in 1 .. Len(planned)
    BY PlannedType DEF TypeInv, TypeOK, ImageTypes, StorePayload
<1> DEFINE p == planned[written + 1]
<1>2. p \in Payloads /\ pool[p] \in Nat
    BY <1>1, PlannedType
<1>3. image \in Seq(Byte) /\ err \in BOOLEAN /\ written \in 0 .. Len(planned)
    BY DEF TypeInv, TypeOK, ImageTypes
<1>4. Store(image, pool[p], p) \in Seq(Byte)
    BY <1>2, <1>3, StoreType
<1>5. /\ image' \in Seq(Byte) /\ written' \in 0 .. Len(planned) /\ err' \in BOOLEAN
      /\ phase' \in {"heap", "done"}
    <2>1. CASE pool[p] + Len(p) + 1 > Len(image)
        BY <1>3, <2>1 DEF StorePayload, imageVars
    <2>2. CASE ~(pool[p] + Len(p) + 1 > Len(image))
        <3>1. image' = Store(image, pool[p], p) /\ written' = written + 1 /\ err' = err /\ phase' = phase
            BY <2>2 DEF StorePayload
        <3>2. written + 1 \in 0 .. Len(planned)
            BY <1>1
        <3> QED BY <1>3, <1>4, <3>1, <3>2 DEF StorePayload
    <2> QED BY <2>1, <2>2
<1>6. TypeOK'
    BY <1>5 DEF TypeInv, TypeOK, InputTypes, LayoutTypes, HeapTypes, CodeTypes, ImageTypes,
                StorePayload, inputs, layoutVars, heapVars, codeVars
<1> QED BY <1>6 DEF TypeInv, QueueInv, StorePayload, layoutVars, codeVars, Slots

LEMMA FinishType == ASSUME TypeInv, Finish PROVE TypeInv'
<1>1. TypeOK'
    BY DEF TypeInv, TypeOK, InputTypes, LayoutTypes, HeapTypes, CodeTypes, ImageTypes,
           Finish, inputs, layoutVars, heapVars, codeVars, imageVars
<1> QED BY <1>1 DEF TypeInv, QueueInv, Finish, layoutVars, codeVars, Slots

LEMMA StatementCases == Statement => \/ Emitting \/ RejectLiteral \/ CloseIf \/ CloseWhile
BY DEF Statement, Emitting

LEMMA TypeStep == TypeInv /\ [Next]_vars => TypeInv'
<1> SUFFICES ASSUME TypeInv, [Next]_vars PROVE TypeInv'
    OBVIOUS
<1>1. CASE BindSymbol
    BY <1>1, BindSymbolType
<1>2. CASE ConstructGenerator
    BY <1>2, ConstructType
<1>3. ASSUME NEW p \in Payloads, RememberPayload(p) PROVE TypeInv'
    BY <1>3, RememberType
<1>4. CASE PlanHeap
    BY <1>4, PlanHeapType
<1>5. CASE Statement
    <2>1. CASE Emitting
        BY <2>1, EmittingIsLegal, VisitType
    <2>2. CASE RejectLiteral
        BY <2>2, RejectLiteralType
    <2>3. CASE CloseIf
        BY <2>3, CloseIfType
    <2>4. CASE CloseWhile
        BY <2>4, CloseWhileType
    <2> QED BY <1>5, <2>1, <2>2, <2>3, <2>4, StatementCases
<1>6. CASE EmitPlain
    BY <1>6, EmitPlainType
<1>7. CASE EmitForward
    BY <1>7, EmitForwardType
<1>8. CASE EmitBack
    BY <1>8, EmitBackType
<1>9. CASE EndBlock
    BY <1>9, EndBlockType
<1>10. CASE Relocate
    BY <1>10, RelocateType
<1>11. CASE Pad
    BY <1>11, PadType
<1>12. CASE StorePayload
    BY <1>12, StorePayloadType
<1>13. CASE Finish
    BY <1>13, FinishType
<1>14. CASE UNCHANGED vars
    <2>1. TypeOK'
        BY <1>14 DEF TypeInv, TypeOK, InputTypes, LayoutTypes, HeapTypes, CodeTypes, ImageTypes,
               vars, inputs, layoutVars, heapVars, codeVars, imageVars
    <2> QED BY <1>14, <2>1 DEF TypeInv, QueueInv, vars, layoutVars, codeVars, Slots
<1> QED BY <1>1, <1>2, <1>3, <1>4, <1>5, <1>6, <1>7, <1>8, <1>9, <1>10, <1>11, <1>12, <1>13, <1>14
        DEF Next

\* TypeOK holds in every reachable state: addresses stay within nextAddr_'s
\* width, every byte of code and image is a byte, no list is read past its end.
THEOREM TypeCorrect == Spec => []TypeOK
<1>1. Spec => []TypeInv
    BY TypeInit, TypeStep, PTL DEF Spec
<1>2. TypeInv => TypeOK
    BY DEF TypeInv
<1> QED BY <1>1, <1>2, PTL

-----------------------------------------------------------------------------
(***************************************************************************)
(* Memory safety of the object image, for every program and every target   *)
(* whose slots fit the width of MemoryLayout::nextAddr_.                   *)
(***************************************************************************)
\* No program needs more slots than nextAddr_ can count.  The compiler does
\* not check this: ObjectImageWrap.cfg shows what happens without it.
NoWrap == \A s \in SymbolTables : RamBase + Len(s) + 2 + 2 * MaxStmts < AddrMod

-----------------------------------------------------------------------------
(***************************************************************************)
(* The layout: slots are handed out in order, without gaps.                *)
(***************************************************************************)
LayoutInv ==
    /\ IF phase = "bind" THEN Len(temps) = 0
                         ELSE bound = Len(symbols) /\ Len(temps) >= 2
    /\ Len(temps) <= 2 + 2 * stmts
    /\ next = RamBase + bound + Len(temps)
    /\ \A i \in 1 .. bound : varBase[symbols[i]] = RamBase + i - 1
    /\ \A i \in 1 .. Len(temps) : temps[i] = RamBase + bound + i - 1

LEMMA BumpExact == \A a, n \in Nat : a + n < AddrMod => Bump(a, n) = a + n
<1> SUFFICES ASSUME NEW a \in Nat, NEW n \in Nat, a + n < AddrMod PROVE (a + n) % AddrMod = a + n
    BY DEF Bump
<1> DEFINE b == a + n
<1>1. b \in 0 .. AddrMod - 1 /\ AddrMod \in Nat \ {0}
    BY TargetAssumption
<1> HIDE DEF b
<1>2. b % AddrMod = b
    BY <1>1
<1> QED BY <1>2 DEF b

\* What TypeInv says of the numbers a layout step works with.
LEMMA LayoutNumbers ==
    ASSUME TypeInv
    PROVE  /\ bound \in Nat /\ bound <= Len(symbols) /\ Len(symbols) \in Nat
           /\ Len(temps) \in Nat /\ stmts \in Nat /\ stmts <= MaxStmts
           /\ MaxStmts \in Nat /\ RamBase \in Nat /\ AddrMod \in Nat
           /\ symbols \in Seq(Vars) /\ symbols \in SymbolTables
           /\ \A i, j \in 1 .. Len(symbols) : symbols[i] = symbols[j] => i = j
           /\ DOMAIN varBase = {symbols[i] : i \in 1 .. bound}
<1>1. symbols \in SymbolTables
    BY DEF TypeInv, TypeOK, InputTypes
<1>2. symbols \in Seq(Vars) /\ \A i, j \in 1 .. Len(symbols) : symbols[i] = symbols[j] => i = j
    BY <1>1, VarsAssumption
<1>3. Len(symbols) \in Nat
    BY <1>2, LenProperties
<1>4. Len(temps) \in Nat
    BY LenProperties DEF TypeInv, TypeOK, LayoutTypes
<1>5. bound \in 0 .. Len(symbols) /\ DOMAIN varBase = {symbols[i] : i \in 1 .. bound}
    BY DEF TypeInv, TypeOK, LayoutTypes
<1>6. stmts \in 0 .. MaxStmts
    BY DEF TypeInv, TypeOK, CodeTypes
<1>7. MaxStmts \in Nat /\ RamBase \in Nat /\ AddrMod \in Nat
    BY TargetAssumption
<1>8. bound \in Nat /\ bound <= Len(symbols)
    BY <1>3, <1>5
<1>9. stmts \in Nat /\ stmts <= MaxStmts
    BY <1>6, <1>7
<1> QED BY <1>1, <1>2, <1>3, <1>4, <1>5, <1>7, <1>8, <1>9

LEMMA BindSymbolLayout ==
    ASSUME NoWrap, TypeInv, LayoutInv, BindSymbol
    PROVE  LayoutInv'
<1> DEFINE k == symbols[bound + 1]
<1>1. bound + 1 \in 1 .. Len(symbols) /\ Len(temps) = 0 /\ next = RamBase + bound
    BY LayoutNumbers DEF BindSymbol, LayoutInv
<1>2. k \notin DOMAIN varBase
    <2>1. ASSUME NEW i \in 1 .. bound PROVE symbols[i] # k
        <3>1. i \in 1 .. Len(symbols) /\ i # bound + 1
            BY <1>1, LayoutNumbers
        <3> QED BY <1>1, <3>1, LayoutNumbers
    <2> QED BY <2>1, LayoutNumbers
<1>3. /\ varBase' = [v \in DOMAIN varBase \cup {k} |-> IF v = k THEN next ELSE varBase[v]]
      /\ next' = Bump(next, 1) /\ bound' = bound + 1
      /\ temps' = temps /\ symbols' = symbols /\ phase' = phase /\ phase = "bind" /\ stmts' = stmts
    BY <1>2 DEF BindSymbol, VarSlot, inputs, codeVars
<1>4. next' = RamBase + bound' + Len(temps')
    <2>1. RamBase + Len(symbols) + 2 + 2 * MaxStmts < AddrMod
        BY LayoutNumbers DEF NoWrap
    <2>2. next \in Nat /\ next + 1 < AddrMod
        BY <1>1, <2>1, LayoutNumbers
    <2>3. next' = next + 1
        BY <1>3, <2>2, BumpExact
    <2> QED BY <1>1, <1>3, <2>3, LayoutNumbers
<1>5. ASSUME NEW i \in 1 .. bound' PROVE varBase'[symbols'[i]] = RamBase + i - 1
    <2>1. CASE i = bound + 1
        <3>1. varBase'[k] = next
            BY <1>3
        <3>2. symbols'[i] = k /\ next = RamBase + i - 1
            BY <1>1, <1>3, <2>1, LayoutNumbers
        <3> QED BY <3>1, <3>2
    <2>2. CASE i # bound + 1
        <3>1. i \in 1 .. bound
            BY <1>3, <2>2, LayoutNumbers
        <3>2. symbols[i] \in DOMAIN varBase
            BY <3>1, LayoutNumbers
        <3>3. varBase'[symbols[i]] = varBase[symbols[i]]
            BY <1>2, <1>3, <3>2
        <3> QED BY <1>3, <3>1, <3>3 DEF LayoutInv
    <2> QED BY <2>1, <2>2
<1>6. Len(temps') = 0 /\ Len(temps') <= 2 + 2 * stmts' /\ phase' = "bind"
    BY <1>1, <1>3, LayoutNumbers
<1> QED BY <1>1, <1>4, <1>5, <1>6 DEF LayoutInv

LEMMA SlotsFit ==
    \A base, b, used, n, visited, max, mod \in Nat :
        /\ base + b + 2 + 2 * max < mod
        /\ visited <= max
        /\ used + n <= 2 + 2 * visited
        => base + b + used + n < mod
OBVIOUS

\* A step that allocates n temporaries and binds nothing.
LEMMA AllocateLayout ==
    ASSUME NoWrap, TypeInv, LayoutInv, NEW n \in Nat,
           Allocate(n), UNCHANGED << varBase, bound, symbols >>,
           bound = Len(symbols), phase' # "bind",
           stmts' \in Nat, stmts' <= MaxStmts,
           Len(temps) + n <= 2 + 2 * stmts', Len(temps) + n >= 2
    PROVE  LayoutInv'
<1>1. /\ Len(temps') = Len(temps) + n
      /\ \A i \in 1 .. Len(temps) : temps'[i] = temps[i]
      /\ \A i \in 1 .. n : temps'[Len(temps) + i] = Fresh(i)
    BY AllocateSlots
<1>2. next + n < AddrMod /\ next \in Nat /\ next = RamBase + bound + Len(temps)
    <2>1. RamBase + Len(symbols) + 2 + 2 * MaxStmts < AddrMod
        BY LayoutNumbers DEF NoWrap
    <2>2. next = RamBase + bound + Len(temps)
        BY DEF LayoutInv
    <2>3. /\ RamBase \in Nat /\ bound \in Nat /\ Len(temps) \in Nat
          /\ MaxStmts \in Nat /\ AddrMod \in Nat /\ bound = Len(symbols)
        BY LayoutNumbers
    <2>4. RamBase + bound + Len(temps) + n < AddrMod
        BY <2>1, <2>3, SlotsFit
    <2> QED BY <2>2, <2>3, <2>4
<1>3. next' = RamBase + bound' + Len(temps')
    <2>1. next' = next + n
        BY <1>2, BumpExact DEF Allocate
    <2> QED BY <1>1, <1>2, <2>1, LayoutNumbers
<1>4. ASSUME NEW i \in 1 .. Len(temps') PROVE temps'[i] = RamBase + bound' + i - 1
    <2>1. CASE i \in 1 .. Len(temps)
        BY <1>1, <2>1 DEF LayoutInv
    <2>2. CASE i \notin 1 .. Len(temps)
        <3> DEFINE j == i - Len(temps)
        <3>1. j \in 1 .. n /\ i = Len(temps) + j
            BY <1>1, <2>2, LayoutNumbers
        <3> HIDE DEF j
        <3>2. j - 1 \in Nat /\ next + (j - 1) < AddrMod
            <4>1. j - 1 \in Nat /\ j - 1 < n
                BY <3>1
            <4> QED BY <1>2, <4>1, TargetAssumption
        <3>3. temps'[i] = Bump(next, j - 1)
            BY <1>1, <3>1 DEF Fresh
        <3>4. temps'[i] = next + (j - 1)
            BY <1>2, <3>2, <3>3, BumpExact
        <3>5. next + (j - 1) = RamBase + bound + i - 1
            <4>1. j \in Nat /\ bound \in Nat /\ Len(temps) \in Nat /\ RamBase \in Nat
                BY <3>1, LayoutNumbers
            <4> QED BY <1>2, <3>1, <4>1
        <3> QED BY <3>4, <3>5
    <2> QED BY <2>1, <2>2
<1>5. ASSUME NEW i \in 1 .. bound' PROVE varBase'[symbols'[i]] = RamBase + i - 1
    BY DEF LayoutInv
<1> QED BY <1>1, <1>3, <1>4, <1>5 DEF LayoutInv

LEMMA ConstructLayout ==
    ASSUME NoWrap, TypeInv, LayoutInv, ConstructGenerator
    PROVE  LayoutInv'
<1>1. Allocate(2) /\ UNCHANGED << varBase, bound, symbols >> /\ bound = Len(symbols)
      /\ phase' = "plan" /\ stmts' = stmts /\ Len(temps) = 0
    BY DEF ConstructGenerator, LayoutInv, inputs, codeVars
<1> QED BY <1>1, AllocateLayout, LayoutNumbers

LEMMA VisitLayout ==
    ASSUME NoWrap, TypeInv, LayoutInv, NEW n \in 0 .. 2, Legal(n)
    PROVE  LayoutInv'
<1>1. PICK q : Visit(q, n)
    BY DEF Legal
<1>2. /\ Allocate(n) /\ UNCHANGED << varBase, bound, symbols >>
      /\ stmts' = stmts + 1 /\ stmts < MaxStmts /\ phase' = "emit" /\ phase = "emit"
    BY <1>1 DEF Visit, inputs
<1>3. bound = Len(symbols) /\ Len(temps) >= 2 /\ Len(temps) <= 2 + 2 * stmts
    BY <1>2 DEF LayoutInv
<1>4. /\ n \in Nat /\ stmts' \in Nat /\ stmts' <= MaxStmts
      /\ Len(temps) + n <= 2 + 2 * stmts' /\ Len(temps) + n >= 2
    BY <1>2, <1>3, LayoutNumbers
<1> QED BY <1>2, <1>3, <1>4, AllocateLayout

\* All other steps leave the layout alone.
LEMMA LayoutCases ==
    ASSUME TypeInv, [Next]_vars
    PROVE  \/ BindSymbol \/ ConstructGenerator \/ \E n \in 0 .. 2 : Legal(n)
           \/ /\ UNCHANGED << layoutVars, symbols >>
              /\ phase = "bind" <=> phase' = "bind"
              /\ stmts' \in {stmts, stmts + 1}
<1>1. CASE Emitting
    BY <1>1, EmittingIsLegal
<1>2. CASE RejectLiteral \/ CloseIf \/ CloseWhile
    BY <1>2 DEF RejectLiteral, CloseIf, CloseWhile, inputs, layoutVars
<1>3. CASE EmitPlain \/ EmitForward \/ EmitBack \/ EndBlock
    BY <1>3 DEF EmitPlain, EmitForward, EmitBack, EndBlock, inputs, layoutVars
<1>4. CASE PlanHeap \/ \E p \in Payloads : RememberPayload(p)
    BY <1>4 DEF PlanHeap, RememberPayload, inputs, layoutVars, codeVars
<1>5. CASE Relocate \/ Pad \/ StorePayload \/ Finish
    BY <1>5 DEF Relocate, Pad, StorePayload, Finish, inputs, layoutVars, codeVars
<1>6. CASE UNCHANGED vars
    BY <1>6 DEF vars, inputs, layoutVars, codeVars
<1> QED BY <1>1, <1>2, <1>3, <1>4, <1>5, <1>6, StatementCases DEF Next

LEMMA LayoutStep ==
    ASSUME NoWrap, TypeInv, LayoutInv, [Next]_vars
    PROVE  LayoutInv'
<1>1. CASE BindSymbol
    BY <1>1, BindSymbolLayout
<1>2. CASE ConstructGenerator
    BY <1>2, ConstructLayout
<1>3. CASE \E n \in 0 .. 2 : Legal(n)
    BY <1>3, VisitLayout
<1>4. CASE /\ UNCHANGED << layoutVars, symbols >>
           /\ phase = "bind" <=> phase' = "bind"
           /\ stmts' \in {stmts, stmts + 1}
    <2>1. Len(temps) <= 2 + 2 * stmts /\ Len(temps) \in Nat /\ stmts \in Nat
        BY LayoutNumbers DEF LayoutInv
    <2>2. temps' = temps /\ Len(temps) <= 2 + 2 * stmts'
        BY <1>4, <2>1 DEF layoutVars
    <2> QED BY <1>4, <2>2 DEF LayoutInv, layoutVars
<1> QED BY <1>1, <1>2, <1>3, <1>4, LayoutCases

LEMMA LayoutInit == Init => LayoutInv
<1> SUFFICES ASSUME Init PROVE LayoutInv
    OBVIOUS
<1>1. Len(temps) = 0 /\ stmts = 0 /\ bound = 0 /\ next = RamBase /\ phase = "bind"
    BY DEF Init
<1> QED BY <1>1, TargetAssumption DEF LayoutInv

LEMMA LayoutCorrect == ASSUME NoWrap PROVE Spec => [](TypeInv /\ LayoutInv)
<1>1. Init => TypeInv /\ LayoutInv
    BY TypeInit, LayoutInit
<1>2. TypeInv /\ LayoutInv /\ [Next]_vars => (TypeInv /\ LayoutInv)'
    BY TypeStep, LayoutStep
<1> QED BY <1>1, <1>2, PTL DEF Spec

\* The slot of a variable is its place in the symbol table.
LEMMA SlotOfSymbol ==
    ASSUME TypeInv, LayoutInv, NEW v \in DOMAIN varBase
    PROVE  \E i \in 1 .. bound : v = symbols[i] /\ varBase[v] = RamBase + i - 1
<1>1. DOMAIN varBase = {symbols[i] : i \in 1 .. bound}
    BY LayoutNumbers
<1>2. PICK i \in 1 .. bound : v = symbols[i]
    BY <1>1
<1>3. varBase[symbols[i]] = RamBase + i - 1
    BY DEF LayoutInv
<1> QED BY <1>2, <1>3

\* A layout without gaps is one without collisions.
LEMMA LayoutDistinct == ASSUME TypeInv, LayoutInv PROVE SlotsDistinct
<1>2. ASSUME NEW v \in DOMAIN varBase, NEW w \in DOMAIN varBase, varBase[v] = varBase[w]
      PROVE  v = w
    <2>1. PICK i \in 1 .. bound : v = symbols[i] /\ varBase[v] = RamBase + i - 1
        BY SlotOfSymbol
    <2>2. PICK j \in 1 .. bound : w = symbols[j] /\ varBase[w] = RamBase + j - 1
        BY SlotOfSymbol
    <2>3. i = j
        BY <1>2, <2>1, <2>2, LayoutNumbers
    <2> QED BY <2>1, <2>2, <2>3
<1>3. ASSUME NEW i \in 1 .. Len(temps), NEW j \in 1 .. Len(temps), temps[i] = temps[j]
      PROVE  i = j
    BY <1>3, LayoutNumbers DEF LayoutInv
<1>4. ASSUME NEW v \in DOMAIN varBase, NEW i \in 1 .. Len(temps)
      PROVE  varBase[v] # temps[i]
    <2>1. PICK j \in 1 .. bound : varBase[v] = RamBase + j - 1
        BY SlotOfSymbol
    <2>2. temps[i] = RamBase + bound + i - 1
        BY DEF LayoutInv
    <2> QED BY <2>1, <2>2, LayoutNumbers
<1> QED BY <1>2, <1>3, <1>4 DEF SlotsDistinct

\* While the address counter does not wrap, no two variables or temporaries
\* of any program ever share a byte.
THEOREM DistinctSlots == ASSUME NoWrap PROVE Spec => []SlotsDistinct
<1>1. TypeInv /\ LayoutInv => SlotsDistinct
    BY LayoutDistinct
<1> QED BY <1>1, LayoutCorrect, PTL

-----------------------------------------------------------------------------
(***************************************************************************)
(* The string heap: payloads are planned one behind the other, and a plan  *)
(* that fits puts the first one at heapBase_.                              *)
(***************************************************************************)
HeapInv ==
    /\ \A p \in Range(planned) : prefix[p] + HeapNeed(p) <= HeapTotal
    /\ phase \notin {"bind", "plan"} /\ ~err =>
          /\ HeapTotal <= ImageBytes /\ heapBase = ImageBytes - HeapTotal
          /\ \A p \in DOMAIN pool : pool[p] = heapBase + prefix[p]

LEMMA RememberHeap ==
    ASSUME TypeInv, HeapInv, NEW p \in Payloads, RememberPayload(p)
    PROVE  HeapInv'
<1>1. planned \in Seq(Payloads) /\ planned' = Append(planned, p) /\ DOMAIN pool = Range(planned)
      /\ DOMAIN prefix = Range(planned) /\ prefix \in [Range(planned) -> Nat]
    BY DEF TypeInv, TypeOK, HeapTypes, RememberPayload
<1>2. /\ Len(planned') = Len(planned) + 1 /\ planned'[Len(planned) + 1] = p
      /\ Len(planned) \in Nat /\ planned' \in Seq(Payloads)
    BY <1>1, AppendProperties, LenProperties
<1>3. Range(planned') = Range(planned) \cup {p} /\ p \notin Range(planned)
    BY <1>1, AppendRange DEF RememberPayload
<1>4. prefix'[p] = HeapTotal /\ \A q \in Range(planned) : prefix'[q] = prefix[q]
    <2> HIDE DEF HeapTotal
    <2>1. prefix' = [q \in DOMAIN prefix \cup {p} |-> IF q = p THEN HeapTotal ELSE prefix[q]]
        BY DEF RememberPayload
    <2> QED BY <1>1, <1>3, <2>1
<1>5. HeapTotal' = HeapTotal + HeapNeed(p)
    <2>1. planned' # << >>
        BY <1>2, EmptySeq
    <2>2. planned'[Len(planned')] = p
        BY <1>2
    <2>3. HeapTotal' = prefix'[p] + HeapNeed(p)
        BY <2>1, <2>2 DEF HeapTotal, HeapNeed
    <2> QED BY <1>4, <2>3
<1>6. HeapTotal \in Nat /\ HeapNeed(p) \in Nat
    BY HeapTotalType, HeapNeedType
<1>7. ASSUME NEW q \in Range(planned') PROVE prefix'[q] + HeapNeed(q) <= HeapTotal'
    <2>1. CASE q = p
        BY <1>4, <1>5, <2>1, <1>6
    <2>2. CASE q \in Range(planned)
        <3>1. prefix[q] + HeapNeed(q) <= HeapTotal
            BY <2>2 DEF HeapInv
        <3>2. q \in Payloads
            BY <1>1, <2>2, PlannedType
        <3>3. prefix[q] \in Nat /\ HeapNeed(q) \in Nat
            BY <1>1, <2>2, <3>2, HeapNeedType
        <3> QED BY <1>4, <1>5, <1>6, <2>2, <3>1, <3>3
    <2> QED BY <1>3, <2>1, <2>2
<1>8. phase' = "plan"
    BY DEF RememberPayload
<1> QED BY <1>7, <1>8 DEF HeapInv, HeapNeed

LEMMA PlanHeapHeap == ASSUME TypeInv, HeapInv, PlanHeap PROVE HeapInv'
<1>1. planned' = planned /\ prefix' = prefix
    BY DEF PlanHeap
<1>2. HeapTotal' = HeapTotal
    BY <1>1 DEF HeapTotal, HeapNeed
<1>3. ASSUME ~err'
      PROVE  /\ HeapTotal <= ImageBytes /\ heapBase' = ImageBytes - HeapTotal
             /\ \A p \in DOMAIN pool' : pool'[p] = heapBase' + prefix[p]
    <2>1. HeapFits
        BY <1>3 DEF PlanHeap
    <2>2. heapBase' = ImageBytes - HeapTotal /\ pool' = PlacedPool
        BY <2>1 DEF PlanHeap
    <2> QED BY <2>1, <2>2 DEF HeapFits, PlacedPool
<1> QED BY <1>1, <1>2, <1>3 DEF HeapInv, HeapNeed

LEMMA HeapCases ==
    ASSUME TypeInv, [Next]_vars
    PROVE  \/ PlanHeap \/ \E p \in Payloads : RememberPayload(p)
           \/ /\ UNCHANGED heapVars
              /\ err => err'
              /\ phase \in {"bind", "plan"} => phase' \in {"bind", "plan"}
<1>1. CASE Emitting
    <2>1. PICK n \in 0 .. 2 : Legal(n)
        BY <1>1, EmittingIsLegal
    <2> QED BY <2>1 DEF Legal, Visit
<1>2. CASE RejectLiteral \/ CloseIf \/ CloseWhile
    BY <1>2 DEF RejectLiteral, CloseIf, CloseWhile
<1>3. CASE EmitPlain \/ EmitForward \/ EmitBack \/ EndBlock
    BY <1>3 DEF EmitPlain, EmitForward, EmitBack, EndBlock
<1>4. CASE BindSymbol \/ ConstructGenerator
    BY <1>4 DEF BindSymbol, ConstructGenerator
<1>5. CASE Relocate \/ Pad \/ StorePayload \/ Finish
    BY <1>5 DEF Relocate, Pad, StorePayload, Finish
<1>6. CASE UNCHANGED vars
    BY <1>6 DEF vars
<1> QED BY <1>1, <1>2, <1>3, <1>4, <1>5, <1>6, StatementCases DEF Next

LEMMA HeapStep == ASSUME TypeInv, HeapInv, [Next]_vars PROVE HeapInv'
<1>1. CASE PlanHeap
    BY <1>1, PlanHeapHeap
<1>2. CASE \E p \in Payloads : RememberPayload(p)
    BY <1>2, RememberHeap
<1>3. CASE /\ UNCHANGED heapVars
           /\ err => err'
           /\ phase \in {"bind", "plan"} => phase' \in {"bind", "plan"}
    BY <1>3 DEF HeapInv, HeapTotal, HeapNeed, heapVars
<1> QED BY <1>1, <1>2, <1>3, HeapCases

LEMMA HeapInit == Init => HeapInv
BY DEF Init, HeapInv, Range

-----------------------------------------------------------------------------
(***************************************************************************)
(* The image: what the relocation checked stays true of what is stored.    *)
(***************************************************************************)
ImageInv ==
    /\ phase \in {"pad", "heap"} \/ Succeeded => StaticsFit
    /\ phase = "heap" \/ Succeeded => Len(image) = ImageBytes /\ Len(buf) <= ImageBytes

LEMMA ImageStep == ASSUME TypeInv, ImageInv, [Next]_vars PROVE ImageInv'
<1>1. CASE Relocate
    <2>1. CASE Relocates /\ StaticsFit
        <3>1. buf' = PatchOperands(buf) /\ phase' = "pad" /\ next' = next /\ heapBase' = heapBase
            BY <1>1, <2>1 DEF Relocate, layoutVars, heapVars
        <3>2. Len(buf') = Len(buf)
            BY <3>1, PatchOperandsType
        <3>3. StaticsFit'
            BY <2>1, <3>1, <3>2 DEF StaticsFit, StaticEnd, Delta, DataBase
        <3> QED BY <3>1, <3>3 DEF ImageInv, Succeeded
    <2>2. CASE ~(Relocates /\ StaticsFit)
        <3>1. phase' = "done" /\ err'
            BY <1>1, <2>2 DEF Relocate
        <3> QED BY <3>1 DEF ImageInv, Succeeded
    <2> QED BY <2>1, <2>2
<1>2. CASE Pad
    <2>1. StaticsFit /\ StaticsFit'
        BY <1>2 DEF Pad, ImageInv, StaticsFit, StaticEnd, Delta, DataBase,
                    layoutVars, heapVars, codeVars
    <2>2. CASE Len(buf) > ImageBytes
        <3>1. phase' = "done" /\ err'
            BY <1>2, <2>2 DEF Pad
        <3> QED BY <3>1 DEF ImageInv, Succeeded
    <2>3. CASE ~(Len(buf) > ImageBytes)
        <3>1. Len(buf) <= ImageBytes
            BY <2>3, DeltaType, TargetAssumption
        <3>2. phase' = "heap" /\ Len(image') = ImageBytes /\ buf' = buf
            BY <1>2, <2>3, <3>1, PaddedType DEF Pad, codeVars
        <3> QED BY <2>1, <3>1, <3>2 DEF ImageInv
    <2> QED BY <2>2, <2>3
<1>3. CASE StorePayload
    <2>1. StaticsFit /\ StaticsFit' /\ Len(image) = ImageBytes /\ Len(buf) <= ImageBytes /\ buf' = buf
        BY <1>3 DEF StorePayload, ImageInv, StaticsFit, StaticEnd, Delta, DataBase,
                    layoutVars, heapVars, codeVars
    <2> DEFINE p == planned[written + 1]
    <2>2. CASE pool[p] + Len(p) + 1 > Len(image)
        <3>1. phase' = "done" /\ err'
            BY <1>3, <2>2 DEF StorePayload
        <3> QED BY <3>1 DEF ImageInv, Succeeded
    <2>3. CASE ~(pool[p] + Len(p) + 1 > Len(image))
        <3>1. image' = Store(image, pool[p], p)
            BY <1>3, <2>3 DEF StorePayload
        <3>2. p \in Payloads /\ pool[p] \in Nat /\ image \in Seq(Byte)
            BY <1>3, PlannedType DEF TypeInv, TypeOK, ImageTypes, StorePayload
        <3>3. Len(image') = Len(image)
            BY <3>1, <3>2, StoreType
        <3> QED BY <2>1, <3>3 DEF ImageInv
    <2> QED BY <2>2, <2>3
<1>4. CASE Finish
    BY <1>4 DEF Finish, ImageInv, Succeeded, StaticsFit, StaticEnd, Delta, DataBase,
                layoutVars, heapVars, codeVars, imageVars
<1>5. CASE UNCHANGED vars
    BY <1>5 DEF vars, ImageInv, Succeeded, StaticsFit, StaticEnd, Delta, DataBase,
                layoutVars, heapVars, codeVars, imageVars
<1>6. CASE Emitting
    <2>1. PICK n \in 0 .. 2 : Legal(n)
        BY <1>6, EmittingIsLegal
    <2> QED BY <2>1 DEF Legal, Visit, ImageInv, Succeeded
<1>7. CASE RejectLiteral \/ CloseIf \/ CloseWhile
    BY <1>7 DEF RejectLiteral, CloseIf, CloseWhile, ImageInv, Succeeded
<1>8. CASE EmitPlain \/ EmitForward \/ EmitBack \/ EndBlock
    BY <1>8 DEF EmitPlain, EmitForward, EmitBack, EndBlock, ImageInv, Succeeded
<1>9. CASE BindSymbol \/ ConstructGenerator
    BY <1>9 DEF BindSymbol, ConstructGenerator, ImageInv, Succeeded
<1>10. CASE PlanHeap \/ \E p \in Payloads : RememberPayload(p)
    BY <1>10 DEF PlanHeap, RememberPayload, ImageInv, Succeeded
<1> QED BY <1>1, <1>2, <1>3, <1>4, <1>5, <1>6, <1>7, <1>8, <1>9, <1>10, StatementCases DEF Next

LEMMA ImageInit == Init => ImageInv
BY DEF Init, ImageInv, Succeeded

-----------------------------------------------------------------------------
SafeInv == TypeInv /\ LayoutInv /\ HeapInv /\ ImageInv

LEMMA SafeCorrect == ASSUME NoWrap PROVE Spec => []SafeInv
<1>1. Init => SafeInv
    BY TypeInit, LayoutInit, HeapInit, ImageInit DEF SafeInv
<1>2. SafeInv /\ [Next]_vars => SafeInv'
    BY TypeStep, LayoutStep, HeapStep, ImageStep DEF SafeInv
<1> QED BY <1>1, <1>2, PTL DEF Spec

\* The regions are apart already while the heap is being written.
LEMMA SafeRegions ==
    ASSUME SafeInv, phase \in {"heap", "done"}, ~err
    PROVE  /\ Len(image) = ImageBytes
           /\ \A a \in Slots : Len(buf) <= Relocated(a) /\ Relocated(a) < ImageBytes
           /\ \A p \in DOMAIN pool :
                 /\ pool[p] + Len(p) < ImageBytes
                 /\ Len(buf) <= pool[p]
                 /\ \A a \in Slots : Relocated(a) < pool[p]
<1>1. Len(image) = ImageBytes /\ Len(buf) <= ImageBytes /\ StaticsFit
    BY DEF SafeInv, ImageInv, Succeeded
<1>2. /\ Len(buf) \in Nat /\ DataBase \in Nat /\ Delta = DataBase - RamBase /\ RamBase \in Nat
      /\ ImageBytes \in Nat /\ AddrMod \in Nat /\ ImageBytes < AddrMod /\ next \in Nat
    BY DeltaType, NextType, TargetAssumption DEF SafeInv
<1>3. Len(buf) <= DataBase
    <2> DEFINE n == Len(buf)
    <2>1. n \in 0 .. AddrMod - 1 /\ AddrMod \in Nat \ {0}
        BY <1>1, <1>2
    <2> HIDE DEF n
    <2>2. n % AddrMod = n
        BY <2>1
    <2> QED BY <1>2, <2>2, TargetAssumption DEF DataBase, n
<1>4. ASSUME NEW a \in Slots PROVE a \in Nat /\ RamBase <= a /\ a <= next - 1
    <2>1. next = RamBase + bound + Len(temps)
        BY DEF SafeInv, LayoutInv
    <2>2. \A v \in DOMAIN varBase : \E i \in 1 .. bound : varBase[v] = RamBase + i - 1
        BY SlotOfSymbol DEF SafeInv
    <2>3. bound \in Nat /\ Len(temps) \in Nat
        BY LayoutNumbers DEF SafeInv
    <2>4. CASE \E v \in DOMAIN varBase : a = varBase[v]
        BY <1>2, <2>1, <2>2, <2>3, <2>4
    <2>5. CASE a \in Range(temps)
        <3>1. DOMAIN temps = 1 .. Len(temps)
            BY LenProperties DEF SafeInv, TypeInv, TypeOK, LayoutTypes
        <3>2. PICK i \in 1 .. Len(temps) : a = temps[i]
            BY <2>5, <3>1 DEF Range
        <3>3. a = RamBase + bound + i - 1
            BY <3>2 DEF SafeInv, LayoutInv
        <3> QED BY <1>2, <2>1, <2>3, <3>3
    <2> QED BY <2>4, <2>5 DEF Slots
<1>5. next # 0
    <2>1. next = RamBase + bound + Len(temps) /\ Len(temps) >= 2
        BY <1>1 DEF SafeInv, LayoutInv
    <2>2. bound \in Nat /\ Len(temps) \in Nat
        BY LayoutNumbers DEF SafeInv
    <2> QED BY <1>2, <2>1, <2>2
<1>6. StaticEnd < ImageBytes /\ (heapBase # ImageBytes => StaticEnd < heapBase)
    BY <1>1, <1>5 DEF StaticsFit
<1>7. ASSUME NEW a \in Slots
      PROVE  Len(buf) <= Relocated(a) /\ Relocated(a) <= StaticEnd /\ Relocated(a) \in Int
    BY <1>2, <1>3, <1>4 DEF Relocated, StaticEnd
<1>8. ZeroAddr \in Slots /\ StaticEnd \in Int
    BY <1>1, <1>2, SlotTypes DEF SafeInv, StaticEnd
<1>9. ASSUME NEW p \in DOMAIN pool
      PROVE  /\ pool[p] + Len(p) < ImageBytes /\ StaticEnd < pool[p] /\ pool[p] \in Int
    <2>1. p \in Range(planned) /\ p \in Payloads /\ prefix[p] \in Nat
        BY PlannedType DEF SafeInv, TypeInv, TypeOK, HeapTypes
    <2>2. /\ prefix[p] + HeapNeed(p) <= HeapTotal /\ HeapTotal <= ImageBytes
          /\ heapBase = ImageBytes - HeapTotal /\ pool[p] = heapBase + prefix[p]
        BY <1>1, <2>1 DEF SafeInv, HeapInv
    <2>3. HeapTotal \in Nat /\ HeapNeed(p) = Len(p) + 1 /\ Len(p) \in Nat
        BY <2>1, HeapTotalType, HeapNeedType DEF SafeInv, HeapNeed
    <2>4. heapBase # ImageBytes /\ heapBase \in Nat
        BY <1>2, <2>1, <2>2, <2>3
    <2> QED BY <1>2, <1>6, <1>8, <2>1, <2>2, <2>3, <2>4
<1>10. ASSUME NEW p \in DOMAIN pool PROVE Len(buf) <= pool[p]
    BY <1>2, <1>7, <1>8, <1>9
<1>11. ASSUME NEW p \in DOMAIN pool, NEW a \in Slots PROVE Relocated(a) < pool[p]
    BY <1>7, <1>8, <1>9
<1>12. ASSUME NEW a \in Slots PROVE Relocated(a) < ImageBytes
    BY <1>2, <1>6, <1>7, <1>8
<1> QED BY <1>1, <1>7, <1>9, <1>10, <1>11, <1>12

LEMMA SafeDisjoint == ASSUME SafeInv PROVE RegionsDisjoint
BY SafeRegions DEF RegionsDisjoint, Succeeded

\* Code, variables and string heap of every program that compiles share the
\* image without overlapping.
THEOREM DisjointRegions == ASSUME NoWrap PROVE Spec => []RegionsDisjoint
<1>1. SafeInv => RegionsDisjoint
    BY SafeDisjoint
<1> QED BY <1>1, SafeCorrect, PTL

-----------------------------------------------------------------------------
(***************************************************************************)
(* What the finished image holds, for every program: the code as it was    *)
(* emitted, every operand relocated, every branch leading to its target,   *)
(* and every string literal up to its $00.                                 *)
(***************************************************************************)
-----------------------------------------------------------------------------
(***************************************************************************)
(* The places of the code that are written twice: absolute operands, by    *)
(* the relocation, and displacements, when their target is known.  A site  *)
(* is the offset `at` such that the bytes at + 1 and at + 2 of the buffer  *)
(* belong to it.                                                           *)
(***************************************************************************)
Late    == phase \notin {"bind", "plan", "emit"}
\* The code without the BRK that ends it.
CodeLen == IF Late THEN Len(buf) - 1 ELSE Len(buf)

Far(m, n) == m + 2 <= n \/ n + 2 <= m

PhaseInv ==
    /\ phase \in {"bind", "plan"} =>
          todo = << >> /\ buf = << >> /\ open = << >> /\ fixups = {} /\ branches = {}
    /\ Late => todo = << >> /\ open = << >> /\ Len(buf) >= 1 /\ buf[Len(buf)] = Opcode.BRK

\* A queued branch is a BNE that remembers an offset the code has reached.
BranchQueueInv ==
    \A i \in 1 .. Len(todo) : todo[i].mode \in {"forward", "back"} =>
        todo[i].op = Opcode.BNE /\ todo[i].arg <= Len(buf)

OperandInv ==
    /\ \A f \in fixups : f.addr \in Slots /\ f.off + 2 <= CodeLen
    /\ \A f, g \in fixups : f = g \/ Far(f.off, g.off)

\* The exit branch of an open block is in the code and still to be patched.
OpenInv ==
    /\ \A i \in 1 .. Len(open) :
          /\ open[i].bne + 2 <= Len(buf) /\ open[i].top <= Len(buf)
          /\ buf[open[i].bne + 1] = Opcode.BNE
          /\ \A f \in fixups   : Far(f.off, open[i].bne)
          /\ \A b \in branches : Far(b.at, open[i].bne)
    /\ \A i, j \in 1 .. Len(open) : i = j \/ Far(open[i].bne, open[j].bne)

\* A patched branch, unless its target was out of reach.
Patched(b) == /\ Reaches(b.at, b.to)
              /\ buf[b.at + 2] = Displacement(b.at, b.to) % 256
BranchInv ==
    /\ \A b \in branches :
          /\ b.at + 2 <= CodeLen /\ b.to <= CodeLen
          /\ buf[b.at + 1] = Opcode.BNE
          /\ ~err => Patched(b)
          /\ \A f \in fixups : Far(f.off, b.at)
    /\ \A b, c \in branches : b = c \/ Far(b.at, c.at)

CodeInv == PhaseInv /\ BranchQueueInv /\ OperandInv /\ OpenInv /\ BranchInv

\* What the relocation leaves in an operand.
RelocatedInv ==
    phase \in {"pad", "heap"} \/ Succeeded =>
        \A f \in fixups :
            /\ Relocated(f.addr) < AddrMod
            /\ buf[f.off + 1] = AddrBytes(Relocated(f.addr))[1]
            /\ buf[f.off + 2] = AddrBytes(Relocated(f.addr))[2]

\* What the image holds: the code, and the payloads written so far.
Payload(p) == /\ \A i \in 1 .. Len(p) : image[pool[p] + i] = p[i]
              /\ image[pool[p] + Len(p) + 1] = 0
StoredInv ==
    /\ phase \in {"heap", "done"} /\ ~err =>
          /\ \A i \in 1 .. Len(buf) : image[i] = buf[i]
          /\ \A k \in 1 .. written : Payload(planned[k])
    /\ phase \notin {"heap", "done"} => written = 0
    /\ Succeeded => written = Len(planned)

\* The payloads lie in the heap in the order they were planned.
HeapOrder ==
    \A i, j \in 1 .. Len(planned) :
        i < j => prefix[planned[i]] + HeapNeed(planned[i]) <= prefix[planned[j]]

ContentInv == CodeInv /\ RelocatedInv /\ StoredInv /\ HeapOrder

-----------------------------------------------------------------------------
(***************************************************************************)
(* The code and its sites.                                                 *)
(***************************************************************************)
\* A step that leaves the code alone.
Quiet ==
    /\ UNCHANGED << todo, buf, fixups, open, branches >>
    /\ err => err'
    /\ \/ phase \in {"bind", "plan"} /\ phase' \in {"bind", "plan"}
       \/ /\ UNCHANGED << varBase, temps >>
          /\ \/ phase' = phase
             \/ phase \in {"pad", "heap"} /\ phase' \in {"heap", "done"}

LEMMA CodeCases ==
    ASSUME TypeInv, [Next]_vars
    PROVE  \/ PlanHeap \/ CloseIf \/ CloseWhile \/ EmitPlain \/ EmitForward \/ EmitBack
           \/ EndBlock \/ Relocate \/ (\E n \in 0 .. 2 : Legal(n)) \/ Quiet
<1>1. CASE Emitting
    BY <1>1, EmittingIsLegal
<1>2. CASE RejectLiteral
    BY <1>2 DEF RejectLiteral, Quiet, layoutVars
<1>3. CASE BindSymbol \/ ConstructGenerator \/ \E p \in Payloads : RememberPayload(p)
    BY <1>3 DEF BindSymbol, ConstructGenerator, RememberPayload, Quiet, codeVars
<1>4. CASE Pad \/ Finish
    BY <1>4 DEF Pad, Finish, Quiet, codeVars, layoutVars
<1>5. CASE StorePayload
    <2>1. codeVars' = codeVars /\ layoutVars' = layoutVars /\ phase = "heap" /\ phase' \in {"heap", "done"}
          /\ (err => err')
        BY <1>5 DEF StorePayload
    <2> QED BY <2>1 DEF Quiet, codeVars, layoutVars
<1>6. CASE UNCHANGED vars
    BY <1>6 DEF vars, Quiet, codeVars, layoutVars
<1> QED BY <1>1, <1>2, <1>3, <1>4, <1>5, <1>6, StatementCases DEF Next

\* What the invariants say of the numbers and sequences a step works with.
LEMMA CodeNumbers ==
    ASSUME TypeInv
    PROVE  /\ buf \in Seq(Byte) /\ Len(buf) \in Nat /\ CodeLen \in Int
           /\ \A f \in fixups : f.off \in Nat /\ f.addr \in Nat
           /\ \A b \in branches : b.at \in Nat /\ b.to \in Nat
           /\ open \in Seq(Frame) /\ Len(open) \in Nat
           /\ \A i \in 1 .. Len(open) : open[i].top \in Nat /\ open[i].bne \in Nat
           /\ BranchMax \in 1 .. 127
<1>1. buf \in Seq(Byte) /\ open \in Seq(Frame) /\ fixups \subseteq Fixup /\ branches \subseteq Branch
    BY DEF TypeInv, TypeOK, CodeTypes
<1>2. Len(buf) \in Nat /\ Len(open) \in Nat
    BY <1>1, LenProperties
<1>3. \A i \in 1 .. Len(open) : open[i] \in Frame
    BY <1>1, ElementOfSeq
<1>4. /\ \A f \in fixups : f.off \in Nat /\ f.addr \in Nat
      /\ \A b \in branches : b.at \in Nat /\ b.to \in Nat
    BY <1>1 DEF Fixup, Branch
<1>5. \A i \in 1 .. Len(open) : open[i].top \in Nat /\ open[i].bne \in Nat
    BY <1>3 DEF Frame
<1>6. CodeLen \in Int
    BY <1>2 DEF CodeLen
<1>7. BranchMax \in 1 .. 127
    BY TargetAssumption
<1> QED BY <1>1, <1>2, <1>4, <1>5, <1>6, <1>7

LEMMA QuietCode == ASSUME TypeInv, CodeInv, Quiet PROVE CodeInv'
<1>1. /\ todo' = todo /\ buf' = buf /\ fixups' = fixups /\ open' = open /\ branches' = branches
      /\ Late' = Late /\ CodeLen' = CodeLen
    BY DEF Quiet, Late, CodeLen
<1>2. PhaseInv'
    BY <1>1 DEF CodeInv, PhaseInv, Quiet, Late
<1>3. OperandInv'
    <2>1. CASE UNCHANGED << varBase, temps >>
        BY <1>1, <2>1 DEF CodeInv, OperandInv, Slots
    <2>2. CASE phase \in {"bind", "plan"}
        BY <1>1, <2>2 DEF CodeInv, PhaseInv, OperandInv
    <2> QED BY <2>1, <2>2 DEF Quiet
<1>4. BranchInv'
    BY <1>1 DEF CodeInv, BranchInv, Patched, Quiet
<1>5. BranchQueueInv' /\ OpenInv'
    BY <1>1 DEF CodeInv, BranchQueueInv, OpenInv
<1> QED BY <1>2, <1>3, <1>4, <1>5 DEF CodeInv

LEMMA VisitCode ==
    ASSUME TypeInv, CodeInv, NEW n \in 0 .. 2, Legal(n)
    PROVE  CodeInv'
<1>1. PICK q \in Seq(Instr) : Visit(q, n) /\ Queue(q, SlotsAfter(n))
    BY DEF Legal
<1>2. /\ todo' = q /\ buf' = buf /\ fixups' = fixups /\ open' = open /\ branches' = branches
      /\ err' = err /\ phase = "emit" /\ phase' = "emit"
    BY <1>1 DEF Visit
<1>3. Slots \subseteq Slots' /\ Late' = Late /\ CodeLen' = CodeLen
    <2>1. n \in Nat /\ Allocate(n) /\ varBase' = varBase
        BY <1>1 DEF Visit
    <2>2. Slots' = SlotsAfter(n)
        BY <2>1, AllocateSlots
    <2> QED BY <1>2, <2>2 DEF SlotsAfter, Late, CodeLen
<1>4. PhaseInv'
    BY <1>2 DEF PhaseInv, Late
<1>5. BranchQueueInv'
    BY <1>1, <1>2 DEF Queue, BranchQueueInv
<1>6. OperandInv'
    BY <1>2, <1>3 DEF CodeInv, OperandInv
<1>7. OpenInv' /\ BranchInv'
    BY <1>2, <1>3 DEF CodeInv, OpenInv, BranchInv, Patched
<1> QED BY <1>4, <1>5, <1>6, <1>7 DEF CodeInv

LEMMA CloseWhileCode == ASSUME TypeInv, CodeInv, CloseWhile PROVE CodeInv'
<1>1. /\ buf' = buf /\ fixups' = fixups /\ open' = open /\ branches' = branches /\ err' = err
      /\ phase = "emit" /\ phase' = "emit" /\ open # << >> /\ varBase' = varBase /\ temps' = temps
      /\ todo' = << Imm(Opcode.LDXI, 1), Abs(Opcode.CPX, ZeroAddr), BneBack(Top.top) >>
    BY DEF CloseWhile, BranchAlwaysTo, layoutVars
<1>2. Top.top <= Len(buf)
    <2>1. Len(open) \in 1 .. Len(open)
        BY <1>1, CodeNumbers, EmptySeq
    <2> QED BY <2>1 DEF CodeInv, OpenInv, Top
<1>3. BranchQueueInv'
    <2>1. /\ Imm(Opcode.LDXI, 1).mode = "imm" /\ Abs(Opcode.CPX, ZeroAddr).mode = "abs"
          /\ BneBack(Top.top).op = Opcode.BNE /\ BneBack(Top.top).arg = Top.top
        BY DEF Imm, Abs, BneBack
    <2> QED BY <1>1, <1>2, <2>1 DEF BranchQueueInv
<1>4. PhaseInv' /\ Late' = Late /\ CodeLen' = CodeLen /\ Slots' = Slots
    BY <1>1 DEF PhaseInv, Late, CodeLen, Slots
<1>5. OperandInv' /\ OpenInv' /\ BranchInv'
    BY <1>1, <1>4 DEF CodeInv, OperandInv, OpenInv, BranchInv, Patched
<1> QED BY <1>3, <1>4, <1>5 DEF CodeInv

\* The code grows: everything that was said of it stays true.
LEMMA GrownSites ==
    ASSUME TypeInv, CodeInv, phase = "emit", phase' = "emit",
           Len(buf') \in Nat, Len(buf) <= Len(buf'),
           \A i \in 1 .. Len(buf) : buf'[i] = buf[i]
    PROVE  /\ Late' = FALSE /\ Late = FALSE /\ CodeLen' = Len(buf') /\ CodeLen = Len(buf)
           /\ \A f \in fixups : f.addr \in Slots /\ f.off + 2 <= Len(buf')
           /\ \A b \in branches :
                 /\ b.at + 2 <= Len(buf') /\ b.to <= Len(buf')
                 /\ buf'[b.at + 1] = Opcode.BNE
                 /\ ~err => Reaches(b.at, b.to) /\ buf'[b.at + 2] = Displacement(b.at, b.to) % 256
           /\ \A i \in 1 .. Len(open) :
                 /\ open[i].bne + 2 <= Len(buf') /\ open[i].top <= Len(buf')
                 /\ buf'[open[i].bne + 1] = Opcode.BNE
<1>1. Late' = FALSE /\ Late = FALSE /\ CodeLen' = Len(buf') /\ CodeLen = Len(buf)
    BY DEF Late, CodeLen
<1>2. Len(buf) \in Nat
    BY CodeNumbers
<1>3. ASSUME NEW f \in fixups PROVE f.addr \in Slots /\ f.off + 2 <= Len(buf')
    <2>1. f.addr \in Slots /\ f.off + 2 <= Len(buf) /\ f.off \in Nat
        BY <1>1, CodeNumbers DEF CodeInv, OperandInv
    <2> QED BY <1>2, <2>1
<1>4. ASSUME NEW b \in branches
      PROVE  /\ b.at + 2 <= Len(buf') /\ b.to <= Len(buf')
             /\ buf'[b.at + 1] = Opcode.BNE
             /\ ~err => Reaches(b.at, b.to) /\ buf'[b.at + 2] = Displacement(b.at, b.to) % 256
    <2>1. /\ b.at + 2 <= Len(buf) /\ b.to <= Len(buf) /\ b.at \in Nat /\ b.to \in Nat
          /\ buf[b.at + 1] = Opcode.BNE /\ (~err => Patched(b))
        BY <1>1, CodeNumbers DEF CodeInv, BranchInv
    <2>2. b.at + 1 \in 1 .. Len(buf) /\ b.at + 2 \in 1 .. Len(buf)
        BY <1>2, <2>1
    <2>3. buf'[b.at + 1] = buf[b.at + 1] /\ buf'[b.at + 2] = buf[b.at + 2]
        BY <2>2
    <2> QED BY <1>2, <2>1, <2>3 DEF Patched
<1>5. ASSUME NEW i \in 1 .. Len(open)
      PROVE  /\ open[i].bne + 2 <= Len(buf') /\ open[i].top <= Len(buf')
             /\ buf'[open[i].bne + 1] = Opcode.BNE
    <2>1. /\ open[i].bne + 2 <= Len(buf) /\ open[i].top <= Len(buf)
          /\ buf[open[i].bne + 1] = Opcode.BNE
          /\ open[i].top \in Nat /\ open[i].bne \in Nat
        BY CodeNumbers DEF CodeInv, OpenInv
    <2>2. open[i].bne + 1 \in 1 .. Len(buf)
        BY <1>2, <2>1
    <2> QED BY <1>2, <2>1, <2>2
<1> QED BY <1>1, <1>3, <1>4, <1>5

LEMMA EmitPlainCode == ASSUME TypeInv, CodeInv, EmitPlain PROVE CodeInv'
<1>1. /\ phase = "emit" /\ phase' = "emit" /\ todo # << >> /\ buf' = EmitHead /\ todo' = Tail(todo)
      /\ open' = open /\ branches' = branches /\ err' = err /\ varBase' = varBase /\ temps' = temps
    BY DEF EmitPlain, layoutVars
<1> DEFINE h == Head(todo)
           new == [off |-> Len(buf) + 1, addr |-> h.arg]
<1>2. /\ Len(buf) \in Nat /\ Len(buf') = Len(buf) + Len(InstrBytes(h)) /\ Len(InstrBytes(h)) \in Nat
      /\ \A i \in 1 .. Len(buf) : buf'[i] = buf[i]
      /\ h.mode = "abs" => h.arg \in Slots /\ Len(InstrBytes(h)) = 3
    <2>1. h \in Instr
        BY <1>1, HeadType
    <2>2. InstrBytes(h) \in Seq(Byte) /\ (h.mode = "abs" => Len(InstrBytes(h)) = 3)
        BY <2>1, InstrBytesType
    <2> QED BY <1>1, <2>2, HeadType, CodeNumbers, LenProperties
<1>3. Len(buf') \in Nat /\ Len(buf) <= Len(buf')
    BY <1>2
<1>4. /\ Late' = FALSE /\ CodeLen' = Len(buf') /\ CodeLen = Len(buf)
      /\ \A f \in fixups : f.addr \in Slots /\ f.off + 2 <= Len(buf')
      /\ \A b \in branches :
            /\ b.at + 2 <= Len(buf') /\ b.to <= Len(buf')
            /\ buf'[b.at + 1] = Opcode.BNE
            /\ ~err => Reaches(b.at, b.to) /\ buf'[b.at + 2] = Displacement(b.at, b.to) % 256
      /\ \A i \in 1 .. Len(open) :
            /\ open[i].bne + 2 <= Len(buf') /\ open[i].top <= Len(buf')
            /\ buf'[open[i].bne + 1] = Opcode.BNE
    BY <1>1, <1>2, <1>3, GrownSites
<1>5. Slots' = Slots
    BY <1>1 DEF Slots
<1>6. PhaseInv'
    BY <1>1, <1>4 DEF PhaseInv
<1>7. BranchQueueInv'
    <2>1. ASSUME NEW i \in 1 .. Len(todo'), todo'[i].mode \in {"forward", "back"}
          PROVE  todo'[i].op = Opcode.BNE /\ todo'[i].arg <= Len(buf')
        <3> DEFINE j == i + 1
        <3>1. todo'[i] = todo[j] /\ Len(todo') = Len(todo) - 1 /\ Len(todo) \in Nat
            BY <1>1, HeadType
        <3>2. j \in 1 .. Len(todo)
            BY <3>1
        <3>3. todo[j] \in Instr
            BY <3>2, ElementOfSeq DEF TypeInv, TypeOK, CodeTypes
        <3> HIDE DEF j
        <3>4. todo[j].op = Opcode.BNE /\ todo[j].arg <= Len(buf) /\ todo[j].arg \in Nat
            BY <2>1, <3>1, <3>2, <3>3 DEF CodeInv, BranchQueueInv, Instr
        <3> QED BY <1>2, <1>3, <3>1, <3>4
    <2> QED BY <2>1 DEF BranchQueueInv
\* An operand emitted now lies behind every site there is.
<1>8. /\ \A f \in fixups : Far(f.off, Len(buf) + 1)
      /\ \A b \in branches : Far(Len(buf) + 1, b.at)
      /\ \A i \in 1 .. Len(open) : Far(Len(buf) + 1, open[i].bne)
    <2>1. \A f \in fixups : f.off \in Nat /\ f.off + 2 <= Len(buf)
        BY <1>4, CodeNumbers DEF CodeInv, OperandInv
    <2>2. \A b \in branches : b.at \in Nat /\ b.at + 2 <= Len(buf)
        BY <1>4, CodeNumbers DEF CodeInv, BranchInv
    <2>3. \A i \in 1 .. Len(open) : open[i].bne \in Nat /\ open[i].bne + 2 <= Len(buf)
        BY CodeNumbers DEF CodeInv, OpenInv
    <2> QED BY <1>2, <2>1, <2>2, <2>3 DEF Far
<1>9. fixups' \subseteq fixups \cup {new} /\ (new \in fixups' => new \in fixups \/ h.mode = "abs")
    BY DEF EmitPlain
<1>10. OperandInv'
    <2>1. ASSUME NEW f \in fixups' PROVE f.addr \in Slots' /\ f.off + 2 <= CodeLen'
        <3>1. CASE f \in fixups
            BY <1>4, <1>5, <3>1
        <3>2. CASE f = new /\ h.mode = "abs"
            <4>1. f.addr = h.arg /\ f.off = Len(buf) + 1
                BY <3>2
            <4>2. h.arg \in Slots /\ Len(buf') = Len(buf) + 3
                BY <1>2, <3>2
            <4> QED BY <1>2, <1>4, <1>5, <4>1, <4>2
        <3> QED BY <1>9, <3>1, <3>2
    <2>2. ASSUME NEW f \in fixups', NEW g \in fixups' PROVE f = g \/ Far(f.off, g.off)
        <3>1. \A e \in fixups : Far(e.off, new.off) /\ Far(new.off, e.off)
            BY <1>8 DEF Far
        <3>2. \A d, e \in fixups : d = e \/ Far(d.off, e.off)
            BY DEF CodeInv, OperandInv
        <3> HIDE DEF new
        <3> QED BY <1>9, <3>1, <3>2
    <2> QED BY <2>1, <2>2 DEF OperandInv
<1>11. OpenInv'
    <2>1. \A i \in 1 .. Len(open), f \in fixups' : Far(f.off, open[i].bne)
        BY <1>8, <1>9 DEF CodeInv, OpenInv
    <2> QED BY <1>1, <1>4, <2>1 DEF CodeInv, OpenInv
<1>12. BranchInv'
    <2>1. \A b \in branches, f \in fixups' : Far(f.off, b.at)
        BY <1>8, <1>9 DEF CodeInv, BranchInv
    <2> QED BY <1>1, <1>4, <2>1 DEF CodeInv, BranchInv, Patched
<1> QED BY <1>6, <1>7, <1>10, <1>11, <1>12 DEF CodeInv

LEMMA EmitForwardCode == ASSUME TypeInv, CodeInv, EmitForward PROVE CodeInv'
<1> DEFINE h == Head(todo)
           new == [top |-> h.arg, bne |-> Len(buf)]
<1>1. /\ phase = "emit" /\ phase' = "emit" /\ todo # << >> /\ h.mode = "forward"
      /\ buf' = EmitHead /\ todo' = Tail(todo) /\ open' = Append(open, new)
      /\ branches' = branches /\ fixups' = fixups /\ err' = err
      /\ varBase' = varBase /\ temps' = temps
    BY DEF EmitForward, layoutVars
<1>2. /\ Len(buf) \in Nat /\ Len(buf') = Len(buf) + 2
      /\ \A i \in 1 .. Len(buf) : buf'[i] = buf[i]
      /\ buf'[Len(buf) + 1] = Opcode.BNE /\ h.arg <= Len(buf) /\ h.arg \in Nat
      /\ todo' = << >>
    <2>1. h \in Instr /\ h = todo[1] /\ 1 \in 1 .. Len(todo) /\ Tail(todo) = << >>
        BY <1>1, HeadType
    <2>2. h.op = Opcode.BNE /\ h.arg <= Len(buf) /\ h.arg \in Nat
        BY <1>1, <2>1 DEF CodeInv, BranchQueueInv, Instr
    <2>3. InstrBytes(h) = << h.op, 0 >>
        BY <1>1 DEF InstrBytes
    <2>4. Len(InstrBytes(h)) = 2 /\ InstrBytes(h)[1] = Opcode.BNE /\ 1 \in 1 .. 2
        BY <2>2, <2>3
    <2> QED BY <1>1, <2>1, <2>2, <2>4, HeadType, CodeNumbers
<1>3. Len(buf') \in Nat /\ Len(buf) <= Len(buf')
    BY <1>2
<1>4. /\ Late' = FALSE /\ CodeLen' = Len(buf') /\ CodeLen = Len(buf)
      /\ \A f \in fixups : f.addr \in Slots /\ f.off + 2 <= Len(buf')
      /\ \A b \in branches :
            /\ b.at + 2 <= Len(buf') /\ b.to <= Len(buf')
            /\ buf'[b.at + 1] = Opcode.BNE
            /\ ~err => Reaches(b.at, b.to) /\ buf'[b.at + 2] = Displacement(b.at, b.to) % 256
      /\ \A i \in 1 .. Len(open) :
            /\ open[i].bne + 2 <= Len(buf') /\ open[i].top <= Len(buf')
            /\ buf'[open[i].bne + 1] = Opcode.BNE
    BY <1>1, <1>2, <1>3, GrownSites
<1>5. PhaseInv' /\ BranchQueueInv'
    <2>1. PhaseInv'
        BY <1>1, <1>4 DEF PhaseInv
    <2>2. Len(todo') = 0
        BY <1>2
    <2>3. BranchQueueInv'
        BY <2>2 DEF BranchQueueInv
    <2> QED BY <2>1, <2>3
<1>6. OperandInv' /\ BranchInv'
    <2>1. Slots' = Slots
        BY <1>1 DEF Slots
    <2> QED BY <1>1, <1>4, <2>1 DEF CodeInv, OperandInv, BranchInv, Patched
<1>7. /\ Len(open') = Len(open) + 1 /\ Len(open) \in Nat /\ open'[Len(open) + 1] = new
      /\ \A i \in 1 .. Len(open) : open'[i] = open[i]
    <2>1. new \in Frame
        BY <1>2 DEF Frame
    <2> QED BY <1>1, <2>1, CodeNumbers, AppendProperties
<1>8. /\ \A f \in fixups : Far(f.off, Len(buf))
      /\ \A b \in branches : Far(b.at, Len(buf))
      /\ \A i \in 1 .. Len(open) : Far(open[i].bne, Len(buf)) /\ Far(Len(buf), open[i].bne)
    <2>1. \A f \in fixups : f.off \in Nat /\ f.off + 2 <= Len(buf)
        BY <1>4, CodeNumbers DEF CodeInv, OperandInv
    <2>2. \A b \in branches : b.at \in Nat /\ b.at + 2 <= Len(buf)
        BY <1>4, CodeNumbers DEF CodeInv, BranchInv
    <2>3. \A i \in 1 .. Len(open) : open[i].bne \in Nat /\ open[i].bne + 2 <= Len(buf)
        BY CodeNumbers DEF CodeInv, OpenInv
    <2> QED BY <1>2, <2>1, <2>2, <2>3 DEF Far
<1>9. \A i \in 1 .. Len(open') : i \in 1 .. Len(open) \/ i = Len(open) + 1
    BY <1>7
<1>10. OpenInv'
    <2>1. ASSUME NEW i \in 1 .. Len(open')
          PROVE  /\ open'[i].bne + 2 <= Len(buf') /\ open'[i].top <= Len(buf')
                 /\ buf'[open'[i].bne + 1] = Opcode.BNE
                 /\ \A f \in fixups'   : Far(f.off, open'[i].bne)
                 /\ \A b \in branches' : Far(b.at, open'[i].bne)
        <3>1. CASE i \in 1 .. Len(open)
            BY <1>1, <1>4, <1>7, <3>1 DEF CodeInv, OpenInv
        <3>2. CASE i = Len(open) + 1
            BY <1>1, <1>2, <1>7, <1>8, <3>2
        <3> QED BY <1>9, <3>1, <3>2
    <2>2. ASSUME NEW i \in 1 .. Len(open'), NEW j \in 1 .. Len(open')
          PROVE  i = j \/ Far(open'[i].bne, open'[j].bne)
        <3>1. CASE i \in 1 .. Len(open) /\ j \in 1 .. Len(open)
            BY <1>7, <3>1 DEF CodeInv, OpenInv
        <3>2. CASE i = Len(open) + 1 \/ j = Len(open) + 1
            BY <1>7, <1>8, <1>9, <3>2
        <3> QED BY <1>9, <3>1, <3>2
    <2> QED BY <2>1, <2>2 DEF OpenInv
<1> QED BY <1>5, <1>6, <1>10 DEF CodeInv

LEMMA PatchValue ==
    ASSUME NEW b \in Seq(Byte), NEW at \in Nat, NEW to \in Nat,
           at + 2 <= Len(b), Reaches(at, to)
    PROVE  PatchBranch(b, at, to)[at + 2] = Displacement(at, to) % 256
<1> DEFINE d == Displacement(at, to) % 256
<1>1. d \in Byte /\ at + 2 \in 1 .. Len(b)
    BY LenProperties DEF Displacement, Byte
<1> HIDE DEF d
<1>2. [b EXCEPT ![at + 2] = d][at + 2] = d
    BY <1>1, ExceptSeq
<1> QED BY <1>2 DEF PatchBranch, d

\* The innermost block is closed: its exit branch is patched in the code B,
\* which goes on where the code ended with at most one more branch.
LEMMA ClosedBlock ==
    ASSUME TypeInv, CodeInv, phase = "emit", phase' = "emit", open # << >>, open' = Pop,
           todo' = << >>, fixups' = fixups, Slots' = Slots,
           NEW B \in Seq(Byte), Len(buf) <= Len(B), \A i \in 1 .. Len(buf) : B[i] = buf[i],
           NEW to \in Nat, to <= Len(B), buf' = PatchBranch(B, Top.bne, to),
           ~err' => ~err /\ Reaches(Top.bne, to),
           NEW extra \in SUBSET Branch,
           branches' = branches \cup {[at |-> Top.bne, to |-> to]} \cup extra,
           \A b \in extra :
              /\ Len(buf) <= b.at /\ b.at + 2 <= Len(B) /\ b.to <= Len(B)
              /\ B[b.at + 1] = Opcode.BNE
              /\ ~err' => Reaches(b.at, b.to) /\ B[b.at + 2] = Displacement(b.at, b.to) % 256,
           \A b, c \in extra : b = c
    PROVE  CodeInv'
<1> DEFINE n == Len(open)
           t == Top.bne
           skip == [at |-> t, to |-> to]
<1>1. n \in Nat \ {0} /\ n \in 1 .. n /\ Top = open[n]
    BY CodeNumbers, EmptySeq DEF Top
<1>2. /\ t \in Nat /\ t + 2 <= Len(buf) /\ buf[t + 1] = Opcode.BNE
      /\ \A f \in fixups : Far(f.off, t)
      /\ \A b \in branches : Far(b.at, t)
      /\ \A i \in 1 .. n : i = n \/ Far(open[i].bne, t)
    BY <1>1, CodeNumbers DEF CodeInv, OpenInv
<1>3. Len(buf) \in Nat /\ Len(B) \in Nat
    BY CodeNumbers, LenProperties
<1>4. /\ buf' \in Seq(Byte) /\ Len(buf') = Len(B)
      /\ \A i \in 1 .. Len(B) : i # t + 2 => buf'[i] = B[i]
    BY <1>2, PatchType
<1>5. ~err' => buf'[t + 2] = Displacement(t, to) % 256
    BY <1>2, <1>3, PatchValue
<1>6. Late = FALSE /\ Late' = FALSE /\ CodeLen = Len(buf) /\ CodeLen' = Len(B)
    BY <1>4 DEF Late, CodeLen
\* A site apart from the exit branch keeps its bytes.
<1>7. ASSUME NEW m \in Nat, m + 2 <= Len(buf), Far(m, t)
      PROVE  buf'[m + 1] = buf[m + 1] /\ buf'[m + 2] = buf[m + 2]
    <2>1. m + 1 \in 1 .. Len(buf) /\ m + 2 \in 1 .. Len(buf) /\ m + 1 # t + 2 /\ m + 2 # t + 2
        BY <1>2, <1>3, <1>7 DEF Far
    <2>2. m + 1 \in 1 .. Len(B) /\ m + 2 \in 1 .. Len(B)
        BY <1>3, <2>1
    <2> QED BY <1>4, <2>1, <2>2
<1>8. buf'[t + 1] = Opcode.BNE
    <2>1. t + 1 \in 1 .. Len(buf) /\ t + 1 \in 1 .. Len(B) /\ t + 1 # t + 2
        BY <1>2, <1>3
    <2> QED BY <1>2, <1>4, <2>1
<1>9. PhaseInv'
    BY <1>6 DEF PhaseInv
<1>10. BranchQueueInv'
    <2>1. Len(todo') = 0
        OBVIOUS
    <2> QED BY <2>1 DEF BranchQueueInv
<1>11. OperandInv'
    <2>1. \A f \in fixups : f.off \in Nat /\ f.off + 2 <= Len(buf) /\ f.addr \in Slots
        BY <1>6, CodeNumbers DEF CodeInv, OperandInv
    <2>2. \A f \in fixups : f.off + 2 <= CodeLen'
        BY <1>3, <1>6, <2>1
    <2> QED BY <2>1, <2>2 DEF CodeInv, OperandInv
<1>12. /\ Len(open') = n - 1
       /\ \A i \in 1 .. n - 1 : open'[i] = open[i] /\ i \in 1 .. n /\ i # n
    <2>1. open \in Seq(Frame) /\ n - 1 \in Nat /\ \A i \in 1 .. n - 1 : open[i] \in Frame
        BY <1>1, CodeNumbers
    <2>2. open' = SubSeq(open, 1, n - 1)
        BY DEF Pop
    <2> HIDE DEF n
    <2>3. open' \in Seq(Frame) /\ Len(open') = n - 1 /\ \A i \in 1 .. n - 1 : open'[i] = open[1 + i - 1]
        BY <2>1, <2>2, SubSeqProperties
    <2>4. \A i \in 1 .. n - 1 : open'[i] = open[i]
        BY <2>1, <2>3
    <2> QED BY <1>1, <2>3, <2>4 DEF n
<1> HIDE DEF n
<1>13. \A b \in branches' : b \in branches \/ b = skip \/ b \in extra
    OBVIOUS
<1>14. ASSUME NEW i \in 1 .. n - 1
       PROVE  /\ open[i].bne \in Nat /\ open[i].top \in Nat /\ Far(open[i].bne, t)
              /\ open[i].bne + 2 <= Len(buf) /\ open[i].top <= Len(buf)
              /\ buf[open[i].bne + 1] = Opcode.BNE
              /\ \A f \in fixups   : Far(f.off, open[i].bne)
              /\ \A b \in branches : Far(b.at, open[i].bne)
              /\ \A j \in 1 .. n - 1 : i = j \/ Far(open[i].bne, open[j].bne)
    BY <1>2, <1>12, CodeNumbers DEF CodeInv, OpenInv, n
<1>15. OpenInv'
    <2>1. ASSUME NEW i \in 1 .. n - 1
          PROVE  /\ open[i].bne + 2 <= Len(buf') /\ open[i].top <= Len(buf')
                 /\ buf'[open[i].bne + 1] = Opcode.BNE
                 /\ \A b \in branches' : Far(b.at, open[i].bne)
        <3>1. open[i].bne + 2 <= Len(buf') /\ open[i].top <= Len(buf')
            BY <1>3, <1>4, <1>14
        <3>2. buf'[open[i].bne + 1] = Opcode.BNE
            BY <1>7, <1>14
        <3>3. ASSUME NEW b \in extra PROVE Far(b.at, open[i].bne)
            <4>1. b.at \in Nat
                BY DEF Branch
            <4> QED BY <1>3, <1>14, <4>1 DEF Far
        <3>4. Far(skip.at, open[i].bne)
            BY <1>14 DEF Far
        <3> HIDE DEF skip
        <3> QED BY <1>13, <1>14, <3>1, <3>2, <3>3, <3>4
    <2>2. ASSUME NEW i \in 1 .. Len(open')
          PROVE  /\ open'[i].bne + 2 <= Len(buf') /\ open'[i].top <= Len(buf')
                 /\ buf'[open'[i].bne + 1] = Opcode.BNE
                 /\ \A f \in fixups'   : Far(f.off, open'[i].bne)
                 /\ \A b \in branches' : Far(b.at, open'[i].bne)
        <3>1. i \in 1 .. n - 1 /\ open'[i] = open[i]
            BY <1>12
        <3> QED BY <1>14, <2>1, <3>1
    <2>3. ASSUME NEW i \in 1 .. Len(open'), NEW j \in 1 .. Len(open')
          PROVE  i = j \/ Far(open'[i].bne, open'[j].bne)
        <3>1. /\ i \in 1 .. n - 1 /\ open'[i] = open[i]
              /\ j \in 1 .. n - 1 /\ open'[j] = open[j]
            BY <1>12
        <3> QED BY <1>14, <3>1
    <2> QED BY <2>2, <2>3 DEF OpenInv
<1>16. ASSUME NEW b \in branches'
       PROVE  /\ b.at + 2 <= CodeLen' /\ b.to <= CodeLen' /\ buf'[b.at + 1] = Opcode.BNE
              /\ ~err' => Patched(b)'
              /\ \A f \in fixups : Far(f.off, b.at)
    <2>1. CASE b \in branches
        <3>1. /\ b.at \in Nat /\ b.to \in Nat /\ b.at + 2 <= Len(buf) /\ b.to <= Len(buf)
              /\ buf[b.at + 1] = Opcode.BNE /\ (~err => Patched(b)) /\ Far(b.at, t)
              /\ \A f \in fixups : Far(f.off, b.at)
            BY <1>2, <1>6, <2>1, CodeNumbers DEF CodeInv, BranchInv
        <3>2. buf'[b.at + 1] = buf[b.at + 1] /\ buf'[b.at + 2] = buf[b.at + 2]
            BY <1>7, <3>1
        <3>3. b.at + 2 <= CodeLen' /\ b.to <= CodeLen'
            BY <1>3, <1>6, <3>1
        <3> QED BY <3>1, <3>2, <3>3 DEF Patched
    <2>2. CASE b = skip
        <3>1. b.at = t /\ b.to = to
            BY <2>2
        <3>2. b.at + 2 <= CodeLen' /\ b.to <= CodeLen'
            BY <1>2, <1>3, <1>6, <3>1
        <3>3. \A f \in fixups : Far(f.off, b.at)
            BY <1>2, <3>1
        <3> QED BY <1>5, <1>8, <3>1, <3>2, <3>3 DEF Patched
    <2>3. CASE b \in extra
        <3>1. b.at \in Nat /\ b.to \in Nat
            BY <2>3 DEF Branch
        <3>2. /\ b.at + 1 \in 1 .. Len(B) /\ b.at + 2 \in 1 .. Len(B)
              /\ b.at + 1 # t + 2 /\ b.at + 2 # t + 2
            BY <1>2, <1>3, <2>3, <3>1
        <3>3. buf'[b.at + 1] = B[b.at + 1] /\ buf'[b.at + 2] = B[b.at + 2]
            BY <1>4, <3>2
        <3>4. ASSUME NEW f \in fixups PROVE Far(f.off, b.at)
            <4>1. f.off \in Nat /\ f.off + 2 <= Len(buf)
                BY <1>6, CodeNumbers DEF CodeInv, OperandInv
            <4> QED BY <1>3, <2>3, <3>1, <4>1 DEF Far
        <3> QED BY <1>6, <2>3, <3>3, <3>4 DEF Patched
    <2> QED BY <1>13, <2>1, <2>2, <2>3
<1>17. ASSUME NEW b \in branches', NEW c \in branches' PROVE b = c \/ Far(b.at, c.at)
    <2>1. \A d \in branches : d.at \in Nat /\ d.at + 2 <= Len(buf) /\ Far(d.at, t) /\ Far(t, d.at)
        BY <1>2, <1>6, CodeNumbers DEF CodeInv, BranchInv, Far
    <2>2. \A d, e \in branches : d = e \/ Far(d.at, e.at)
        BY DEF CodeInv, BranchInv
    <2>3. \A e \in extra : e.at \in Nat /\ Len(buf) <= e.at
        BY DEF Branch
    <2>4. \A d \in branches, e \in extra : Far(d.at, e.at) /\ Far(e.at, d.at)
        BY <1>3, <2>1, <2>3 DEF Far
    <2>5. \A e \in extra : Far(skip.at, e.at) /\ Far(e.at, skip.at)
        BY <1>2, <1>3, <2>3 DEF Far
    <2>6. \A d \in branches : Far(skip.at, d.at) /\ Far(d.at, skip.at)
        BY <2>1
    <2> HIDE DEF skip
    <2> QED BY <1>13, <2>2, <2>4, <2>5, <2>6
<1>18. BranchInv'
    BY <1>16, <1>17 DEF BranchInv
<1> QED BY <1>9, <1>10, <1>11, <1>15, <1>18 DEF CodeInv

LEMMA CloseIfCode == ASSUME TypeInv, CodeInv, CloseIf PROVE CodeInv'
<1>1. /\ phase = "emit" /\ phase' = "emit" /\ open # << >> /\ open' = Pop /\ todo' = << >>
      /\ fixups' = fixups /\ Slots' = Slots
      /\ buf' = PatchBranch(buf, Top.bne, Len(buf))
      /\ branches' = branches \cup {[at |-> Top.bne, to |-> Len(buf)]} \cup {}
      /\ ~err' => ~err /\ Reaches(Top.bne, Len(buf))
    BY DEF CloseIf, layoutVars, Slots
<1>2. buf \in Seq(Byte) /\ Len(buf) \in Nat /\ Len(buf) <= Len(buf) /\ {} \in SUBSET Branch
    BY CodeNumbers
<1> QED BY <1>1, <1>2, ClosedBlock

LEMMA EmitBackCode == ASSUME TypeInv, CodeInv, EmitBack PROVE CodeInv'
<1> DEFINE h == Head(todo)
           back == [at |-> Len(buf), to |-> h.arg]
           B == PatchBranch(EmitHead, Len(buf), h.arg)
           to == Len(buf) + 2
<1>1. /\ phase = "emit" /\ phase' = "emit" /\ open' = Pop /\ todo # << >> /\ h.mode = "back"
      /\ fixups' = fixups /\ Slots' = Slots
      /\ buf' = PatchBranch(B, Top.bne, to)
      /\ branches' = branches \cup {[at |-> Top.bne, to |-> to]} \cup {back}
      /\ err' = (err \/ ~Reaches(Len(buf), h.arg) \/ ~Reaches(Top.bne, to))
    BY DEF EmitBack, layoutVars, Slots
<1>2. /\ open # << >> /\ todo' = << >> /\ EmitHead \in Seq(Byte) /\ Len(buf) \in Nat
      /\ Len(EmitHead) = Len(buf) + 2 /\ \A i \in 1 .. Len(buf) : EmitHead[i] = buf[i]
      /\ EmitHead[Len(buf) + 1] = Opcode.BNE /\ h.arg <= Len(buf) /\ h.arg \in Nat
    <2>1. h \in Instr /\ h = todo[1] /\ 1 \in 1 .. Len(todo) /\ Tail(todo) = << >> /\ open # << >>
        BY <1>1, HeadType
    <2>2. h.op = Opcode.BNE /\ h.arg <= Len(buf) /\ h.arg \in Nat
        BY <1>1, <2>1 DEF CodeInv, BranchQueueInv, Instr
    <2>3. InstrBytes(h) = << h.op, 0 >>
        BY <1>1 DEF InstrBytes
    <2>4. Len(InstrBytes(h)) = 2 /\ InstrBytes(h)[1] = Opcode.BNE /\ 1 \in 1 .. 2
        BY <2>2, <2>3
    <2>5. todo' = << >>
        BY <2>1 DEF EmitBack
    <2> QED BY <1>1, <2>1, <2>2, <2>4, <2>5, HeadType, CodeNumbers
<1>3. /\ B \in Seq(Byte) /\ Len(B) = Len(buf) + 2
      /\ \A i \in 1 .. Len(buf) + 2 : i # Len(buf) + 2 => B[i] = EmitHead[i]
    <2> HIDE DEF h
    <2>1. EmitHead \in Seq(Byte) /\ Len(buf) \in Nat /\ h.arg \in Nat
        BY <1>2
    <2>2. /\ B \in Seq(Byte) /\ Len(B) = Len(EmitHead)
          /\ \A i \in 1 .. Len(EmitHead) : i # Len(buf) + 2 => B[i] = EmitHead[i]
        BY <2>1, PatchType
    <2>3. Len(EmitHead) = Len(buf) + 2
        BY <1>2
    <2> QED BY <2>2, <2>3
<1>4. Reaches(Len(buf), h.arg) => B[Len(buf) + 2] = Displacement(Len(buf), h.arg) % 256
    BY <1>2, PatchValue
<1> HIDE DEF h, B
<1>5. (\A i \in 1 .. Len(buf) : B[i] = buf[i]) /\ B[Len(buf) + 1] = Opcode.BNE
    <2>1. \A i \in 1 .. Len(buf) : i \in 1 .. Len(buf) + 2 /\ i # Len(buf) + 2
        BY <1>2
    <2>2. Len(buf) + 1 \in 1 .. Len(buf) + 2 /\ Len(buf) + 1 # Len(buf) + 2
        BY <1>2
    <2> QED BY <1>2, <1>3, <2>1, <2>2
<1>6. /\ Len(buf) <= Len(B) /\ to \in Nat /\ to <= Len(B)
      /\ ~err' => ~err /\ Reaches(Top.bne, to) /\ Reaches(Len(buf), h.arg)
      /\ {back} \in SUBSET Branch
    <2>1. back \in Branch
        BY <1>2 DEF Branch
    <2>2. Len(buf) <= Len(B) /\ to \in Nat /\ to <= Len(B)
        BY <1>2, <1>3
    <2>3. ~err' => ~err /\ Reaches(Top.bne, to) /\ Reaches(Len(buf), h.arg)
        BY <1>1
    <2> QED BY <2>1, <2>2, <2>3
<1>7. /\ Len(buf) <= back.at /\ back.at + 2 <= Len(B) /\ back.to <= Len(B)
      /\ B[back.at + 1] = Opcode.BNE
      /\ ~err' => Reaches(back.at, back.to) /\ B[back.at + 2] = Displacement(back.at, back.to) % 256
    BY <1>2, <1>3, <1>4, <1>5, <1>6
<1> HIDE DEF back
<1>8. \A b \in {back} :
        /\ Len(buf) <= b.at /\ b.at + 2 <= Len(B) /\ b.to <= Len(B)
        /\ B[b.at + 1] = Opcode.BNE
        /\ ~err' => Reaches(b.at, b.to) /\ B[b.at + 2] = Displacement(b.at, b.to) % 256
    BY <1>7
<1>9. \A b, c \in {back} : b = c
    OBVIOUS
<1> HIDE DEF to
<1> QED BY <1>1, <1>2, <1>3, <1>5, <1>6, <1>8, <1>9, ClosedBlock

\* The BRK behind the code: the buffer ends there and nothing else moves.
LEMMA EndedCode ==
    ASSUME TypeInv, CodeInv, ~Late, phase' = "relocate", buf' = EndOfProgram(buf),
           todo' = << >>, open = << >>, open' = << >>, fixups' = fixups, branches' = branches,
           Slots' = Slots, err => err'
    PROVE  CodeInv'
<1>1. /\ Len(buf') = Len(buf) + 1 /\ Len(buf) \in Nat /\ buf'[Len(buf) + 1] = Opcode.BRK
      /\ \A i \in 1 .. Len(buf) : buf'[i] = buf[i]
    BY CodeNumbers, AppendProperties, OpcodesAreBytes DEF EndOfProgram
<1>2. Late' /\ CodeLen = Len(buf) /\ CodeLen' = Len(buf)
    BY <1>1 DEF Late, CodeLen
<1>3. PhaseInv'
    BY <1>1, <1>2 DEF PhaseInv
<1>4. BranchQueueInv' /\ OpenInv'
    <2>1. Len(todo') = 0 /\ Len(open') = 0
        OBVIOUS
    <2> QED BY <2>1 DEF BranchQueueInv, OpenInv
<1>5. OperandInv'
    BY <1>2 DEF CodeInv, OperandInv
<1>6. ASSUME NEW b \in branches
      PROVE  /\ b.at + 2 <= CodeLen' /\ b.to <= CodeLen' /\ buf'[b.at + 1] = Opcode.BNE
             /\ ~err' => Patched(b)'
    <2>1. /\ b.at \in Nat /\ b.at + 2 <= Len(buf) /\ b.to <= Len(buf)
          /\ buf[b.at + 1] = Opcode.BNE /\ (~err => Patched(b))
        BY <1>2, CodeNumbers DEF CodeInv, BranchInv
    <2>2. b.at + 1 \in 1 .. Len(buf) /\ b.at + 2 \in 1 .. Len(buf)
        BY <1>1, <2>1
    <2>3. buf'[b.at + 1] = buf[b.at + 1] /\ buf'[b.at + 2] = buf[b.at + 2]
        BY <1>1, <2>2
    <2> QED BY <1>2, <2>1, <2>3 DEF Patched
<1>7. BranchInv'
    BY <1>6 DEF CodeInv, BranchInv
<1> QED BY <1>3, <1>4, <1>5, <1>7 DEF CodeInv

LEMMA EndBlockCode == ASSUME TypeInv, CodeInv, EndBlock PROVE CodeInv'
<1>1. /\ ~Late /\ phase' = "relocate" /\ buf' = EndOfProgram(buf) /\ todo' = << >>
      /\ open = << >> /\ open' = << >> /\ fixups' = fixups /\ branches' = branches
      /\ Slots' = Slots /\ (err => err')
    BY DEF EndBlock, Late, layoutVars, Slots
<1> QED BY <1>1, EndedCode

LEMMA PlanHeapCode == ASSUME TypeInv, CodeInv, PlanHeap PROVE CodeInv'
<1>1. /\ ~Late /\ todo = << >> /\ buf = << >> /\ open = << >> /\ fixups = {} /\ branches = {}
      /\ open' = open /\ fixups' = fixups /\ branches' = branches /\ Slots' = Slots /\ (err => err')
    BY DEF PlanHeap, CodeInv, PhaseInv, Late, layoutVars, Slots
<1>2. CASE priorErr \/ err'
    <2>1. phase' = "relocate" /\ buf' = EndOfProgram(buf) /\ todo' = todo
        BY <1>2 DEF PlanHeap
    <2> QED BY <1>1, <2>1, EndedCode
<1>3. CASE ~(priorErr \/ err')
    <2>1. phase' = "emit" /\ todo' = Prologue
        BY <1>3 DEF PlanHeap
    <2>2. PhaseInv'
        BY <2>1 DEF PhaseInv, Late
    <2>3. \A i \in 1 .. Len(Prologue) : Prologue[i].mode \in {"imm", "abs"}
        BY DEF Prologue, Imm, Abs
    <2>4. BranchQueueInv'
        BY <2>1, <2>3 DEF BranchQueueInv
    <2>5. Len(open') = 0
        BY <1>1
    <2>6. OperandInv' /\ OpenInv' /\ BranchInv'
        BY <1>1, <2>5 DEF OperandInv, OpenInv, BranchInv
    <2> QED BY <2>2, <2>4, <2>6 DEF CodeInv
<1> QED BY <1>2, <1>3

-----------------------------------------------------------------------------
(***************************************************************************)
(* The relocation.                                                         *)
(***************************************************************************)
LEMMA PatchOperandsValue ==
    ASSUME TypeInv, OperandInv, Late
    PROVE  /\ \A f \in fixups :
                 /\ PatchOperands(buf)[f.off + 1] = AddrBytes(Relocated(f.addr))[1]
                 /\ PatchOperands(buf)[f.off + 2] = AddrBytes(Relocated(f.addr))[2]
           /\ \A i \in 1 .. Len(buf) :
                 (\A f \in fixups : i # f.off + 1 /\ i # f.off + 2) => PatchOperands(buf)[i] = buf[i]
<1>1. /\ Len(buf) \in Nat
      /\ \A f \in fixups : f.off \in Nat /\ f.off + 2 <= Len(buf) - 1
    BY CodeNumbers DEF OperandInv, CodeLen
<1>2. ASSUME NEW f \in fixups, NEW k \in {1, 2}
      PROVE  PatchOperands(buf)[f.off + k] = AddrBytes(Relocated(f.addr))[k]
    <2> DEFINE i == f.off + k
               g == CHOOSE g \in fixups : i - 1 \in {g.off, g.off + 1}
    <2>1. i \in 1 .. Len(buf) /\ i - 1 \in {f.off, f.off + 1} /\ i - f.off = k
        BY <1>1
    <2> HIDE DEF i
    <2>2. PatchOperands(buf)[i] = AddrBytes(Relocated(g.addr))[i - g.off]
        BY <2>1 DEF PatchOperands
    <2>3. g \in fixups /\ i - 1 \in {g.off, g.off + 1}
        BY <2>1
    <2> HIDE DEF g
    <2>4. g = f
        <3>1. g.off \in Nat /\ f.off \in Nat
            BY <1>1, <2>3
        <3>2. ~Far(g.off, f.off)
            BY <2>1, <2>3, <3>1 DEF Far
        <3> QED BY <2>3, <3>2 DEF OperandInv
    <2> QED BY <2>1, <2>2, <2>4 DEF i
<1>3. ASSUME NEW f \in fixups
      PROVE  /\ PatchOperands(buf)[f.off + 1] = AddrBytes(Relocated(f.addr))[1]
             /\ PatchOperands(buf)[f.off + 2] = AddrBytes(Relocated(f.addr))[2]
    BY <1>2
<1>4. ASSUME NEW i \in 1 .. Len(buf), \A f \in fixups : i # f.off + 1 /\ i # f.off + 2
      PROVE  PatchOperands(buf)[i] = buf[i]
    <2>1. ~ \E f \in fixups : i - 1 \in {f.off, f.off + 1}
        BY <1>1, <1>4
    <2> QED BY <2>1 DEF PatchOperands
<1> QED BY <1>3, <1>4

LEMMA RelocateCode == ASSUME TypeInv, CodeInv, Relocate PROVE CodeInv' /\ RelocatedInv'
<1>1. /\ phase = "relocate" /\ phase' \in {"pad", "done"} /\ todo' = todo /\ fixups' = fixups
      /\ open' = open /\ branches' = branches /\ Slots' = Slots /\ (err => err') /\ Late /\ Late'
    BY DEF Relocate, layoutVars, Slots, Late
<1>2. todo = << >> /\ open = << >> /\ Len(buf) >= 1 /\ buf[Len(buf)] = Opcode.BRK /\ Len(buf) \in Nat
    BY <1>1, CodeNumbers DEF CodeInv, PhaseInv
<1>3. Len(todo') = 0 /\ Len(open') = 0
    BY <1>1, <1>2
<1>4. BranchQueueInv' /\ OpenInv'
    BY <1>3 DEF BranchQueueInv, OpenInv
<1>5. CASE Relocates /\ StaticsFit
    <2>1. buf' = PatchOperands(buf) /\ phase' = "pad" /\ err' = err
        BY <1>5 DEF Relocate
    <2>2. Len(buf') = Len(buf) /\ CodeLen' = CodeLen /\ CodeLen = Len(buf) - 1
        BY <1>1, <2>1, PatchOperandsType DEF CodeLen
    <2>3. OperandInv /\ OperandInv'
        BY <1>1, <2>2 DEF CodeInv, OperandInv
    <2>4. /\ \A f \in fixups :
                /\ buf'[f.off + 1] = AddrBytes(Relocated(f.addr))[1]
                /\ buf'[f.off + 2] = AddrBytes(Relocated(f.addr))[2]
                /\ f.off \in Nat /\ f.off + 2 <= Len(buf) - 1
          /\ \A i \in 1 .. Len(buf) :
                (\A f \in fixups : i # f.off + 1 /\ i # f.off + 2) => buf'[i] = buf[i]
        BY <1>1, <2>1, <2>2, <2>3, PatchOperandsValue, CodeNumbers DEF OperandInv
    <2>5. buf'[Len(buf')] = Opcode.BRK
        <3>1. \A f \in fixups : Len(buf) # f.off + 1 /\ Len(buf) # f.off + 2
            BY <1>2, <2>4
        <3>2. Len(buf) \in 1 .. Len(buf)
            BY <1>2
        <3> QED BY <1>2, <2>2, <2>4, <3>1, <3>2
    <2>6. PhaseInv'
        BY <1>1, <1>2, <2>1, <2>2, <2>5 DEF PhaseInv
    <2>7. ASSUME NEW b \in branches
          PROVE  /\ b.at + 2 <= CodeLen' /\ b.to <= CodeLen' /\ buf'[b.at + 1] = Opcode.BNE
                 /\ ~err' => Patched(b)'
        <3>1. /\ b.at \in Nat /\ b.at + 2 <= Len(buf) - 1 /\ b.to <= Len(buf) - 1
              /\ buf[b.at + 1] = Opcode.BNE /\ (~err => Patched(b))
              /\ \A f \in fixups : Far(f.off, b.at)
            BY <2>2, CodeNumbers DEF CodeInv, BranchInv
        <3>2. b.at + 1 \in 1 .. Len(buf) /\ b.at + 2 \in 1 .. Len(buf)
            BY <1>2, <3>1
        <3>3. \A f \in fixups : /\ b.at + 1 # f.off + 1 /\ b.at + 1 # f.off + 2
                                /\ b.at + 2 # f.off + 1 /\ b.at + 2 # f.off + 2
            BY <2>4, <3>1 DEF Far
        <3>4. buf'[b.at + 1] = buf[b.at + 1] /\ buf'[b.at + 2] = buf[b.at + 2]
            BY <2>4, <3>2, <3>3
        <3> QED BY <2>1, <2>2, <3>1, <3>4 DEF Patched
    <2>8. BranchInv'
        BY <1>1, <2>7 DEF CodeInv, BranchInv
    <2>9. RelocatedInv'
        <3>1. \A f \in fixups : Relocated(f.addr)' = Relocated(f.addr) /\ Relocated(f.addr) < AddrMod
            BY <1>5, <2>2 DEF Relocates, Relocated, Delta, DataBase
        <3> QED BY <1>1, <2>4, <3>1 DEF RelocatedInv, Relocated
    <2> QED BY <1>4, <2>3, <2>6, <2>8, <2>9 DEF CodeInv
<1>6. CASE ~(Relocates /\ StaticsFit)
    <2>1. buf' = buf /\ phase' = "done" /\ err' = TRUE /\ CodeLen' = CodeLen
        BY <1>1, <1>6 DEF Relocate, CodeLen
    <2>2. PhaseInv' /\ OperandInv' /\ BranchInv'
        BY <1>1, <1>2, <2>1 DEF CodeInv, PhaseInv, OperandInv, BranchInv
    <2>3. RelocatedInv'
        BY <2>1 DEF RelocatedInv, Succeeded
    <2> QED BY <1>4, <2>2, <2>3 DEF CodeInv
<1> QED BY <1>5, <1>6

LEMMA QuietRelocated == ASSUME RelocatedInv, Quiet PROVE RelocatedInv'
<1>1. buf' = buf /\ fixups' = fixups /\ \A f \in fixups : Relocated(f.addr)' = Relocated(f.addr)
    BY DEF Quiet, Relocated, Delta, DataBase
<1>2. (phase \in {"pad", "heap"} \/ Succeeded)' => phase \in {"pad", "heap"} \/ Succeeded
    BY DEF Quiet, Succeeded
<1> QED BY <1>1, <1>2 DEF RelocatedInv, Relocated

LEMMA CodeStep ==
    ASSUME TypeInv, CodeInv, RelocatedInv, [Next]_vars
    PROVE  CodeInv' /\ RelocatedInv'
<1>1. CASE Quiet
    BY <1>1, QuietCode, QuietRelocated
<1>2. CASE Relocate
    BY <1>2, RelocateCode
<1>3. CASE \E n \in 0 .. 2 : Legal(n)
    <2>1. phase' = "emit"
        BY <1>3 DEF Legal, Visit
    <2> QED BY <1>3, <2>1, VisitCode DEF RelocatedInv, Succeeded
<1>4. CASE PlanHeap \/ CloseIf \/ CloseWhile \/ EmitPlain \/ EmitForward \/ EmitBack \/ EndBlock
    <2>1. phase' \in {"emit", "relocate"}
        BY <1>4 DEF PlanHeap, CloseIf, CloseWhile, EmitPlain, EmitForward, EmitBack, EndBlock
    <2>2. CodeInv'
        BY <1>4, PlanHeapCode, CloseIfCode, CloseWhileCode, EmitPlainCode, EmitForwardCode,
           EmitBackCode, EndBlockCode
    <2> QED BY <2>1, <2>2 DEF RelocatedInv, Succeeded
<1> QED BY <1>1, <1>2, <1>3, <1>4, CodeCases

LEMMA CodeInit == Init => CodeInv /\ RelocatedInv
<1> SUFFICES ASSUME Init PROVE CodeInv /\ RelocatedInv
    OBVIOUS
<1>1. /\ phase = "bind" /\ todo = << >> /\ buf = << >> /\ open = << >> /\ fixups = {} /\ branches = {}
      /\ Len(todo) = 0 /\ Len(open) = 0
    BY DEF Init
<1>2. PhaseInv
    BY <1>1 DEF PhaseInv, Late
<1>3. BranchQueueInv /\ OperandInv /\ OpenInv /\ BranchInv
    BY <1>1 DEF BranchQueueInv, OperandInv, OpenInv, BranchInv
<1>4. RelocatedInv
    BY <1>1 DEF RelocatedInv
<1> QED BY <1>2, <1>3, <1>4 DEF CodeInv

-----------------------------------------------------------------------------
(***************************************************************************)
(* The heap in the image.                                                  *)
(***************************************************************************)
LEMMA RememberOrder ==
    ASSUME TypeInv, HeapInv, HeapOrder, NEW p \in Payloads, RememberPayload(p)
    PROVE  HeapOrder'
<1> DEFINE n == Len(planned)
<1>1. planned \in Seq(Payloads) /\ planned' = Append(planned, p) /\ DOMAIN pool = Range(planned)
      /\ DOMAIN prefix = Range(planned) /\ p \notin Range(planned) /\ n \in Nat
      /\ DOMAIN planned = 1 .. n
    BY LenProperties DEF TypeInv, TypeOK, HeapTypes, RememberPayload
<1>2. Len(planned') = n + 1 /\ planned'[n + 1] = p /\ \A i \in 1 .. n : planned'[i] = planned[i]
    BY <1>1, AppendProperties
<1>3. \A i \in 1 .. n : planned[i] \in Range(planned)
    BY <1>1 DEF Range
<1>4. prefix'[p] = HeapTotal /\ \A q \in Range(planned) : prefix'[q] = prefix[q]
    <2> HIDE DEF HeapTotal
    <2>1. prefix' = [q \in DOMAIN prefix \cup {p} |-> IF q = p THEN HeapTotal ELSE prefix[q]]
        BY DEF RememberPayload
    <2> QED BY <1>1, <2>1
<1>5. ASSUME NEW i \in 1 .. Len(planned'), NEW j \in 1 .. Len(planned'), i < j
      PROVE  prefix'[planned'[i]] + HeapNeed(planned'[i]) <= prefix'[planned'[j]]
    <2>1. i \in 1 .. n /\ (j \in 1 .. n \/ j = n + 1)
        BY <1>1, <1>2, <1>5
    <2>2. planned'[i] = planned[i] /\ prefix'[planned[i]] = prefix[planned[i]]
        BY <1>2, <1>3, <1>4, <2>1
    <2>3. CASE j \in 1 .. n
        BY <1>2, <1>3, <1>4, <1>5, <2>1, <2>2, <2>3 DEF HeapOrder
    <2>4. CASE j = n + 1
        <3>1. prefix[planned[i]] + HeapNeed(planned[i]) <= HeapTotal
            BY <1>3, <2>1 DEF HeapInv
        <3> QED BY <1>2, <1>4, <2>2, <2>4, <3>1
    <2> QED BY <2>1, <2>3, <2>4
<1> QED BY <1>5 DEF HeapOrder, HeapNeed

LEMMA OrderStep == ASSUME TypeInv, HeapInv, HeapOrder, [Next]_vars PROVE HeapOrder'
<1>1. CASE \E p \in Payloads : RememberPayload(p)
    BY <1>1, RememberOrder
<1>2. CASE PlanHeap \/ UNCHANGED heapVars
    <2>1. planned' = planned /\ prefix' = prefix
        BY <1>2 DEF PlanHeap, heapVars
    <2> QED BY <2>1 DEF HeapOrder, HeapNeed
<1> QED BY <1>1, <1>2, HeapCases

\* Where the payloads lie, once the heap has been planned.
LEMMA PayloadPlaces ==
    ASSUME SafeInv, HeapOrder, phase \in {"heap", "done"}, ~err
    PROVE  /\ \A k \in 1 .. Len(planned) :
                 /\ planned[k] \in Payloads /\ pool[planned[k]] \in Nat /\ Len(planned[k]) \in Nat
                 /\ Len(buf) <= pool[planned[k]]
                 /\ pool[planned[k]] + Len(planned[k]) < Len(image)
           /\ \A i, j \in 1 .. Len(planned) :
                 i < j => pool[planned[i]] + Len(planned[i]) < pool[planned[j]]
<1>1. ASSUME NEW k \in 1 .. Len(planned)
      PROVE  /\ planned[k] \in Payloads /\ pool[planned[k]] \in Nat /\ Len(planned[k]) \in Nat
             /\ prefix[planned[k]] \in Nat /\ planned[k] \in DOMAIN pool
             /\ Len(buf) <= pool[planned[k]]
             /\ pool[planned[k]] + Len(planned[k]) < Len(image)
             /\ pool[planned[k]] = heapBase + prefix[planned[k]]
    <2>1. /\ planned[k] \in Payloads /\ pool[planned[k]] \in Nat /\ prefix[planned[k]] \in Nat
          /\ planned[k] \in DOMAIN pool
        BY PlannedType DEF SafeInv
    <2>2. pool[planned[k]] = heapBase + prefix[planned[k]]
        BY <2>1 DEF SafeInv, HeapInv
    <2>3. Len(buf) <= pool[planned[k]] /\ pool[planned[k]] + Len(planned[k]) < Len(image)
        BY <2>1, SafeRegions
    <2> QED BY <2>1, <2>2, <2>3, HeapNeedType
<1>2. heapBase \in Nat
    BY DEF SafeInv, TypeInv, TypeOK, HeapTypes
<1>3. ASSUME NEW i \in 1 .. Len(planned), NEW j \in 1 .. Len(planned), i < j
      PROVE  pool[planned[i]] + Len(planned[i]) < pool[planned[j]]
    <2>1. prefix[planned[i]] + (Len(planned[i]) + 1) <= prefix[planned[j]]
        BY <1>3 DEF HeapOrder, HeapNeed
    <2>2. /\ prefix[planned[i]] \in Nat /\ Len(planned[i]) \in Nat /\ prefix[planned[j]] \in Nat
          /\ pool[planned[i]] = heapBase + prefix[planned[i]]
          /\ pool[planned[j]] = heapBase + prefix[planned[j]]
        BY <1>1
    <2> QED BY <1>2, <2>1, <2>2
<1> QED BY <1>1, <1>3

LEMMA PadStored == ASSUME SafeInv, StoredInv, Pad PROVE StoredInv'
<1>1. written = 0 /\ written' = 0 /\ buf' = buf
    BY DEF Pad, StoredInv, codeVars
<1>2. CASE Len(buf) > ImageBytes
    <2>1. phase' = "done" /\ err' = TRUE
        BY <1>2 DEF Pad
    <2> QED BY <2>1 DEF StoredInv, Succeeded
<1>3. CASE ~(Len(buf) > ImageBytes)
    <2>1. Len(buf) <= ImageBytes
        BY <1>3, DeltaType, TargetAssumption DEF SafeInv
    <2>2. phase' = "heap" /\ \A i \in 1 .. Len(buf) : image'[i] = buf[i]
        BY <1>3, <2>1, PaddedType DEF Pad, SafeInv
    <2>3. ~Succeeded' /\ 1 .. written' = {}
        BY <1>1, <2>2 DEF Succeeded
    <2> QED BY <1>1, <2>2, <2>3 DEF StoredInv
<1> QED BY <1>2, <1>3

LEMMA StorePayloadStored ==
    ASSUME SafeInv, HeapOrder, StoredInv, StorePayload
    PROVE  StoredInv'
<1> DEFINE p == planned[written + 1]
           base == pool[p]
<1>1. /\ phase = "heap" /\ written < Len(planned)
      /\ buf' = buf /\ planned' = planned /\ pool' = pool
    BY DEF StorePayload, codeVars, heapVars
<1>2. CASE base + Len(p) + 1 > Len(image) \/ err
    <2>1. err' /\ phase' \in {"heap", "done"}
        BY <1>2 DEF StorePayload
    <2> QED BY <2>1 DEF StoredInv, Succeeded
<1>3. CASE ~(base + Len(p) + 1 > Len(image)) /\ ~err
    <2>1. image' = Store(image, base, p) /\ written' = written + 1 /\ phase' = "heap" /\ err' = err
        BY <1>1, <1>3 DEF StorePayload
    <2>2. written \in Nat /\ written + 1 \in 1 .. Len(planned) /\ Len(planned) \in Nat
        BY <1>1, PlannedType DEF SafeInv, TypeInv, TypeOK, ImageTypes
    <2>3. /\ p \in Payloads /\ base \in Nat /\ Len(p) \in Nat
          /\ Len(buf) <= base /\ base + Len(p) < Len(image)
        BY <1>1, <1>3, <2>2, PayloadPlaces
    <2>4. image \in Seq(Byte) /\ Len(image) \in Nat /\ Len(buf) \in Nat
        BY LenProperties, CodeNumbers DEF SafeInv, TypeInv, TypeOK, ImageTypes
    <2> HIDE DEF p, base
    <2>5. \A i \in 1 .. Len(image) :
             image'[i] = IF i - 1 \in base .. base + Len(p) - 1 THEN p[i - base]
                         ELSE IF i - 1 = base + Len(p) THEN 0
                         ELSE image[i]
        <3>1. \A i \in 1 .. Len(image) :
                 Store(image, base, p)[i] = IF i - 1 \in base .. base + Len(p) - 1 THEN p[i - base]
                                            ELSE IF i - 1 = base + Len(p) THEN 0
                                            ELSE image[i]
            BY <2>3, <2>4, StoreType
        <3> QED BY <2>1, <3>1
    <2>6. \A i \in 1 .. Len(image) : i <= base => image'[i] = image[i]
        BY <2>3, <2>4, <2>5
    <2>7. ASSUME NEW i \in 1 .. Len(buf) PROVE image'[i] = buf[i]
        <3>1. i \in 1 .. Len(image) /\ i <= base
            BY <2>3, <2>4
        <3> QED BY <1>1, <1>3, <2>6, <3>1 DEF StoredInv
    <2>8. ASSUME NEW k \in 1 .. written PROVE Payload(planned[k])'
        <3> DEFINE q == planned[k]
                   low == pool[q]
        <3>1. k \in 1 .. Len(planned) /\ k < written + 1
            BY <2>2
        <3>2. low \in Nat /\ Len(q) \in Nat /\ low + Len(q) < base
            BY <1>1, <1>3, <2>2, <3>1, PayloadPlaces DEF p, base
        <3>3. Payload(q)
            BY <1>1, <1>3 DEF StoredInv
        <3>4. q' = q /\ low' = low
            BY <1>1
        <3> HIDE DEF q, low
        <3>5. ASSUME NEW i \in 1 .. Len(q) + 1 PROVE image'[low + i] = image[low + i]
            <4>1. low + i \in 1 .. Len(image) /\ low + i <= base
                BY <2>3, <2>4, <3>2
            <4> QED BY <2>6, <4>1
        <3>6. /\ \A i \in 1 .. Len(q) : image'[low + i] = q[i]
              /\ image'[low + Len(q) + 1] = 0
            <4>1. \A i \in 1 .. Len(q) : i \in 1 .. Len(q) + 1
                BY <3>2
            <4>2. Len(q) + 1 \in 1 .. Len(q) + 1 /\ low + (Len(q) + 1) = low + Len(q) + 1
                BY <3>2
            <4>3. image'[low + (Len(q) + 1)] = image[low + (Len(q) + 1)]
                BY <3>5, <4>2
            <4> QED BY <3>3, <3>5, <4>1, <4>2, <4>3 DEF Payload, low
        <3> QED BY <3>4, <3>6 DEF Payload, q, low
    <2>9. ASSUME NEW k \in 1 .. Len(planned), k = written + 1 PROVE Payload(planned[k])'
        <3>1. ASSUME NEW i \in 1 .. Len(p) PROVE image'[base + i] = p[i]
            <4> DEFINE j == base + i
            <4>1. j \in 1 .. Len(image) /\ j - 1 \in base .. base + Len(p) - 1 /\ j - base = i
                BY <2>3, <2>4
            <4> HIDE DEF j
            <4>2. image'[j] = p[i]
                BY <2>5, <4>1
            <4> QED BY <4>2 DEF j
        <3>2. image'[base + Len(p) + 1] = 0
            <4> DEFINE j == base + Len(p) + 1
            <4>1. j \in 1 .. Len(image) /\ j - 1 = base + Len(p) /\ j - 1 \notin base .. base + Len(p) - 1
                BY <2>3, <2>4
            <4> HIDE DEF j
            <4>2. image'[j] = 0
                BY <2>5, <4>1
            <4> QED BY <4>2 DEF j
        <3>3. planned'[k] = p /\ pool'[p] = base
            BY <1>1, <2>9 DEF p, base
        <3> QED BY <3>1, <3>2, <3>3 DEF Payload
    <2>10. ASSUME NEW k \in 1 .. written' PROVE Payload(planned[k])'
        <3>1. k \in 1 .. written \/ (k \in 1 .. Len(planned) /\ k = written + 1)
            BY <2>1, <2>2
        <3>2. CASE k \in 1 .. written
            BY <2>8, <3>2
        <3>3. CASE k \in 1 .. Len(planned) /\ k = written + 1
            BY <2>9, <3>3
        <3> QED BY <3>1, <3>2, <3>3
    <2>11. ~Succeeded' /\ phase' = "heap"
        BY <2>1 DEF Succeeded
    <2> QED BY <1>1, <2>7, <2>10, <2>11 DEF StoredInv
<1> QED BY <1>2, <1>3

LEMMA StoredStep ==
    ASSUME SafeInv, HeapOrder, StoredInv, [Next]_vars
    PROVE  StoredInv'
<1>1. CASE Pad
    BY <1>1, PadStored
<1>2. CASE StorePayload
    BY <1>2, StorePayloadStored
<1>3. CASE Finish \/ UNCHANGED vars
    <2>1. /\ image' = image /\ written' = written /\ buf' = buf /\ planned' = planned
          /\ pool' = pool /\ err' = err
          /\ phase' = phase \/ (phase = "heap" /\ phase' = "done" /\ written = Len(planned))
        BY <1>3 DEF Finish, vars, imageVars, codeVars, heapVars
    <2>2. CASE phase' = phase
        BY <2>1, <2>2 DEF StoredInv, Payload, Succeeded
    <2>3. CASE phase = "heap" /\ phase' = "done" /\ written = Len(planned)
        BY <2>1, <2>3 DEF StoredInv, Payload
    <2> QED BY <2>1, <2>2, <2>3
<1>4. CASE Relocate
    <2>1. phase' = "pad" \/ (phase' = "done" /\ err' = TRUE)
        BY <1>4 DEF Relocate
    <2>2. written' = written /\ written = 0
        BY <1>4 DEF Relocate, imageVars, StoredInv
    <2> QED BY <2>1, <2>2 DEF StoredInv, Succeeded
<1>5. CASE /\ written' = written /\ phase \notin {"heap", "done"}
           /\ phase' \notin {"heap", "done"}
    BY <1>5 DEF StoredInv, Succeeded
<1>6. CASE Emitting
    <2>1. PICK n \in 0 .. 2 : Legal(n)
        BY <1>6, EmittingIsLegal DEF SafeInv
    <2>2. written' = written /\ phase = "emit" /\ phase' = "emit"
        BY <2>1 DEF Legal, Visit, imageVars
    <2> QED BY <1>5, <2>2
<1>7. CASE RejectLiteral \/ CloseIf \/ CloseWhile
    BY <1>5, <1>7 DEF RejectLiteral, CloseIf, CloseWhile, imageVars
<1>8. CASE EmitPlain \/ EmitForward \/ EmitBack \/ EndBlock
    BY <1>5, <1>8 DEF EmitPlain, EmitForward, EmitBack, EndBlock, imageVars
<1>9. CASE BindSymbol \/ ConstructGenerator \/ PlanHeap \/ \E p \in Payloads : RememberPayload(p)
    BY <1>5, <1>9 DEF BindSymbol, ConstructGenerator, PlanHeap, RememberPayload, imageVars
<1> QED BY <1>1, <1>2, <1>3, <1>4, <1>6, <1>7, <1>8, <1>9, StatementCases DEF Next

LEMMA HeapContentInit == Init => StoredInv /\ HeapOrder
<1> SUFFICES ASSUME Init PROVE StoredInv /\ HeapOrder
    OBVIOUS
<1>1. phase = "bind" /\ written = 0 /\ Len(planned) = 0
    BY DEF Init
<1> QED BY <1>1 DEF StoredInv, HeapOrder, Succeeded

-----------------------------------------------------------------------------
LEMMA ContentCorrect == ASSUME NoWrap PROVE Spec => [](SafeInv /\ ContentInv)
<1>1. Init => SafeInv /\ ContentInv
    BY TypeInit, LayoutInit, HeapInit, ImageInit, CodeInit, HeapContentInit DEF SafeInv, ContentInv
<1>2. SafeInv /\ ContentInv /\ [Next]_vars => (SafeInv /\ ContentInv)'
    <2>1. SafeInv /\ [Next]_vars => SafeInv'
        BY TypeStep, LayoutStep, HeapStep, ImageStep DEF SafeInv
    <2>2. SafeInv /\ ContentInv /\ [Next]_vars => ContentInv'
        BY CodeStep, OrderStep, StoredStep DEF SafeInv, ContentInv
    <2> QED BY <2>1, <2>2
<1> QED BY <1>1, <1>2, PTL DEF Spec

\* The image of a program that compiled begins with its code, BRK included.
LEMMA CodeKept ==
    ASSUME SafeInv, ContentInv, Succeeded
    PROVE  /\ Len(buf) \in Nat /\ Len(buf) >= 1 /\ Len(buf) <= Len(image)
           /\ buf[Len(buf)] = Opcode.BRK /\ Late /\ CodeLen = Len(buf) - 1
           /\ \A i \in 1 .. Len(buf) : image[i] = buf[i]
<1>1. Late /\ CodeLen = Len(buf) - 1 /\ phase \in {"heap", "done"} /\ ~err
    BY DEF Succeeded, Late, CodeLen
<1>2. Len(buf) \in Nat /\ Len(buf) <= Len(image)
    BY CodeNumbers DEF SafeInv, ImageInv
<1> QED BY <1>1, <1>2 DEF ContentInv, CodeInv, PhaseInv, StoredInv

LEMMA CodeIsIntact == ASSUME SafeInv, ContentInv PROVE CodeIntact
<1> SUFFICES ASSUME Succeeded
             PROVE  SubSeq(image, 1, Len(buf)) = buf /\ image[Len(buf)] = Opcode.BRK
    BY DEF CodeIntact
<1> DEFINE n == Len(buf)
<1>1. /\ n \in Nat /\ n >= 1 /\ n <= Len(image) /\ buf[n] = Opcode.BRK
      /\ \A i \in 1 .. n : image[i] = buf[i]
    BY CodeKept
<1>2. buf \in Seq(Byte) /\ image \in Seq(Byte) /\ Len(image) \in Nat
    BY LenProperties DEF SafeInv, TypeInv, TypeOK, CodeTypes, ImageTypes
<1>3. \A i \in 1 .. n : image[i] \in Byte
    BY <1>1, <1>2
<1>4. /\ SubSeq(image, 1, n) \in Seq(Byte) /\ Len(SubSeq(image, 1, n)) = n
      /\ \A i \in 1 .. n : SubSeq(image, 1, n)[i] = image[i]
    <2> HIDE DEF n
    <2>1. /\ SubSeq(image, 1, n) \in Seq(Byte) /\ Len(SubSeq(image, 1, n)) = n
          /\ \A i \in 1 .. n : SubSeq(image, 1, n)[i] = image[1 + i - 1]
        BY <1>1, <1>3, SubSeqProperties
    <2>2. \A i \in 1 .. n : 1 + i - 1 = i
        BY <1>1
    <2> QED BY <2>1, <2>2
<1>5. SubSeq(image, 1, n) = buf
    BY <1>1, <1>2, <1>4, SeqEqual
<1>6. image[n] = Opcode.BRK
    BY <1>1
<1> QED BY <1>5, <1>6

LEMMA StringsAreIntact == ASSUME SafeInv, ContentInv PROVE StringsIntact
<1> SUFFICES ASSUME Succeeded
             PROVE  /\ \A p \in DOMAIN pool : Payload(p)
                    /\ \A p, q \in DOMAIN pool : pool[p] = pool[q] => p = q
    BY DEF StringsIntact, Payload
<1>1. /\ written = Len(planned) /\ phase \in {"heap", "done"} /\ ~err
      /\ \A k \in 1 .. written : Payload(planned[k])
    BY DEF ContentInv, StoredInv, Succeeded
<1>2. \A p \in DOMAIN pool : \E i \in 1 .. Len(planned) : p = planned[i]
    BY PlannedType DEF SafeInv
<1>3. \A p \in DOMAIN pool : Payload(p)
    BY <1>1, <1>2
<1>4. ASSUME NEW p \in DOMAIN pool, NEW q \in DOMAIN pool, pool[p] = pool[q] PROVE p = q
    <2>1. PICK i \in 1 .. Len(planned) : p = planned[i]
        BY <1>2
    <2>2. PICK j \in 1 .. Len(planned) : q = planned[j]
        BY <1>2
    <2>3. /\ pool[p] \in Nat /\ Len(p) \in Nat /\ pool[q] \in Nat /\ Len(q) \in Nat
          /\ i < j => pool[p] + Len(p) < pool[q]
          /\ j < i => pool[q] + Len(q) < pool[p]
        BY <1>1, <2>1, <2>2, PayloadPlaces DEF ContentInv
    <2>4. i = j
        BY <1>4, <2>3
    <2> QED BY <2>1, <2>2, <2>4
<1> QED BY <1>3, <1>4

\* The two bytes of a 16-bit address.
LEMMA WordOfBytes ==
    ASSUME NEW a \in Nat, a < 65536
    PROVE  (a % 256) + 256 * ((a \div 256) % 256) = a
<1> DEFINE q == a \div 256
<1>1. a = 256 * q + (a % 256) /\ q \in Nat /\ a % 256 \in 0 .. 255
    OBVIOUS
<1>2. q \in 0 .. 255
    BY <1>1
<1> HIDE DEF q
<1>3. q % 256 = q
    BY <1>2
<1> QED BY <1>1, <1>3 DEF q

LEMMA OperandsAreRelocated == ASSUME SafeInv, ContentInv PROVE OperandsRelocated
<1> SUFFICES ASSUME Succeeded, NEW f \in fixups
             PROVE  /\ f.addr \in Slots
                    /\ image[f.off + 1] + 256 * image[f.off + 2] = Relocated(f.addr)
    BY DEF OperandsRelocated
<1>1. /\ Len(buf) \in Nat /\ CodeLen = Len(buf) - 1
      /\ \A i \in 1 .. Len(buf) : image[i] = buf[i]
    BY CodeKept
<1>2. f.off \in Nat /\ f.addr \in Nat /\ f.off + 2 <= Len(buf) - 1 /\ f.addr \in Slots
    BY <1>1, CodeNumbers DEF SafeInv, ContentInv, CodeInv, OperandInv
<1>3. f.off + 1 \in 1 .. Len(buf) /\ f.off + 2 \in 1 .. Len(buf)
    BY <1>1, <1>2
<1> DEFINE word == Relocated(f.addr)
<1>4. word < AddrMod /\ buf[f.off + 1] = AddrBytes(word)[1] /\ buf[f.off + 2] = AddrBytes(word)[2]
    BY DEF ContentInv, RelocatedInv
<1>5. word \in Nat /\ word < 65536
    <2>1. word = f.addr + Delta
        BY DEF Relocated
    <2>2. Delta \in Nat
        BY DeltaType DEF SafeInv
    <2>3. AddrMod \in Nat /\ AddrMod <= 65536
        BY TargetAssumption
    <2>4. word < AddrMod /\ f.addr \in Nat
        BY <1>2, <1>4
    <2> HIDE DEF word
    <2> QED BY <2>1, <2>2, <2>3, <2>4
<1> HIDE DEF word
<1>6. AddrBytes(word)[1] = word % 256 /\ AddrBytes(word)[2] = (word \div 256) % 256
    BY DEF AddrBytes
<1>7. (word % 256) + 256 * ((word \div 256) % 256) = word
    BY <1>5, WordOfBytes
<1> QED BY <1>1, <1>2, <1>3, <1>4, <1>6, <1>7 DEF word

\* A displacement in range is what the byte that holds it means to BNE.
LEMMA SignedByte ==
    ASSUME NEW d \in -128 .. 127
    PROVE  (IF d % 256 > 127 THEN (d % 256) - 256 ELSE d % 256) = d
OBVIOUS

LEMMA BranchesAreResolved == ASSUME SafeInv, ContentInv PROVE BranchesResolved
<1> SUFFICES ASSUME Succeeded
             PROVE  /\ open = << >>
                    /\ \A b \in branches :
                          LET d == image[b.at + 2]
                              signed == IF d > 127 THEN d - 256 ELSE d
                          IN /\ image[b.at + 1] = Opcode.BNE
                             /\ b.at + 2 + signed = b.to /\ b.to < Len(buf)
    BY DEF BranchesResolved, Complete
<1>1. /\ Len(buf) \in Nat /\ CodeLen = Len(buf) - 1 /\ Late /\ ~err
      /\ \A i \in 1 .. Len(buf) : image[i] = buf[i]
    BY CodeKept DEF Succeeded
<1>2. open = << >>
    BY <1>1 DEF ContentInv, CodeInv, PhaseInv
<1>3. ASSUME NEW b \in branches
      PROVE  LET d == image[b.at + 2]
                 signed == IF d > 127 THEN d - 256 ELSE d
             IN /\ image[b.at + 1] = Opcode.BNE
                /\ b.at + 2 + signed = b.to /\ b.to < Len(buf)
    <2>1. /\ b.at \in Nat /\ b.to \in Nat /\ b.at + 2 <= Len(buf) - 1 /\ b.to <= Len(buf) - 1
          /\ buf[b.at + 1] = Opcode.BNE /\ Patched(b)
        BY <1>1, CodeNumbers DEF SafeInv, ContentInv, CodeInv, BranchInv
    <2>2. b.at + 1 \in 1 .. Len(buf) /\ b.at + 2 \in 1 .. Len(buf)
        BY <1>1, <2>1
    <2> DEFINE d == Displacement(b.at, b.to)
    <2>3. d \in -128 .. 127 /\ d = b.to - (b.at + 2)
        <3>1. d \in -(BranchMax + 1) .. BranchMax
            BY <2>1 DEF Patched, Reaches
        <3>2. BranchMax \in 1 .. 127
            BY TargetAssumption
        <3>3. d = b.to - (b.at + 2)
            BY DEF Displacement
        <3>4. b.to \in Int /\ b.at \in Int
            BY <2>1
        <3> HIDE DEF d
        <3>5. d \in -128 .. 127
            BY <3>1, <3>2
        <3> QED BY <3>3, <3>5
    <2>4. image[b.at + 2] = d % 256 /\ image[b.at + 1] = Opcode.BNE
        BY <1>1, <2>1, <2>2 DEF Patched
    <2> HIDE DEF d
    <2>5. (IF d % 256 > 127 THEN (d % 256) - 256 ELSE d % 256) = d
        BY <2>3, SignedByte
    <2>6. b.at + 2 + d = b.to /\ b.to < Len(buf)
        BY <1>1, <2>1, <2>3
    <2> QED BY <2>4, <2>5, <2>6
<1> QED BY <1>2, <1>3

\* Writing the heap and padding the image leave the code of every program as
\* it was emitted and patched.
THEOREM IntactCode == ASSUME NoWrap PROVE Spec => []CodeIntact
<1>1. SafeInv /\ ContentInv => CodeIntact
    BY CodeIsIntact
<1> QED BY <1>1, ContentCorrect, PTL

\* Every string literal of every program that compiles can be read back from
\* its image, and equal pointers mean equal strings.
THEOREM IntactStrings == ASSUME NoWrap PROVE Spec => []StringsIntact
<1>1. SafeInv /\ ContentInv => StringsIntact
    BY StringsAreIntact
<1> QED BY <1>1, ContentCorrect, PTL

\* Every absolute operand of every program that compiles holds the address of
\* its slot behind the code.
THEOREM RelocatedOperands == ASSUME NoWrap PROVE Spec => []OperandsRelocated
<1>1. SafeInv /\ ContentInv => OperandsRelocated
    BY OperandsAreRelocated
<1> QED BY <1>1, ContentCorrect, PTL

\* Every branch of every program that compiles leads where its statement
\* meant it to.
THEOREM ResolvedBranches == ASSUME NoWrap PROVE Spec => []BranchesResolved
<1>1. SafeInv /\ ContentInv => BranchesResolved
    BY BranchesAreResolved
<1> QED BY <1>1, ContentCorrect, PTL

-----------------------------------------------------------------------------
(***************************************************************************)
(* The address that means "nothing was allocated", without NoWrap.  When   *)
(* the counter comes back to 0, the slot it gave last has the highest      *)
(* address, and an instruction names that slot.                            *)
(***************************************************************************)
Highest == AddrMod - 1
Names(i) == i.mode = "abs" /\ i.arg = Highest
Queued == \E i \in 1 .. Len(todo) : Names(todo[i])
Fixed  == \E f \in fixups : f.addr = Highest

CounterInv ==
    /\ phase = "bind" => Len(temps) = 0
    /\ phase = "plan" /\ next = 0 => OneAddr = Highest
    /\ phase = "emit" => ~priorErr
    /\ phase = "emit" /\ next = 0 => Queued \/ Fixed
    /\ phase = "relocate" /\ ~priorErr /\ ~err /\ next = 0 => Fixed
    /\ phase \in {"pad", "heap", "done"} /\ ~priorErr /\ ~err => next # 0

\* The address handed out before the counter came back to 0 is the highest.
LEMMA BumpToZero ==
    ASSUME NEW a \in 0 .. AddrMod - 1, NEW n \in 1 .. 2, Bump(a, n) = 0
    PROVE  Bump(a, n - 1) = Highest
<1>1. AddrMod \in Nat /\ AddrMod >= 2
    BY TargetAssumption
<1>2. CASE a + n < AddrMod
    <2>1. Bump(a, n) = a + n
        BY <1>2, BumpExact
    <2> QED BY <2>1
<1>3. CASE a + n = AddrMod
    <2>1. n - 1 \in Nat /\ a + (n - 1) = AddrMod - 1 /\ a + (n - 1) < AddrMod
        BY <1>1, <1>3
    <2>2. Bump(a, n - 1) = a + (n - 1)
        BY <2>1, BumpExact
    <2> QED BY <2>1, <2>2 DEF Highest
<1>4. CASE a + n > AddrMod
    <2>1. a + n = AddrMod + 1
        BY <1>1, <1>4
    <2>2. (AddrMod + 1) % AddrMod = 1
        BY <1>1
    <2> QED BY <2>1, <2>2 DEF Bump
<1> QED BY <1>1, <1>2, <1>3, <1>4

\* What a handler queues names the last slot it takes.
Uses(q, n) == n = 0 \/ \E i \in 1 .. Len(q) : q[i].mode = "abs" /\ q[i].arg = Fresh(n)

LEMMA SmallSumUses ==
    ASSUME NEW a \in Instr, NEW b \in Instr, NEW c \in Instr, NEW d \in Instr,
           NEW inc \in Seq(Instr), b.mode = "abs", b.arg = Fresh(1)
    PROVE  Uses(<< a, b >> \o inc \o << c, d >>, 1)
<1> DEFINE s == << a, b >>  m == s \o inc  q == m \o << c, d >>
<1>1. s \in Seq(Instr) /\ Len(s) = 2 /\ s[2] = b /\ << c, d >> \in Seq(Instr) /\ Len(<< c, d >>) = 2
    OBVIOUS
<1>2. Len(inc) \in Nat
    BY LenProperties
<1> HIDE DEF s
<1>3. m \in Seq(Instr) /\ Len(m) = 2 + Len(inc) /\ m[2] = b
    <2>1. /\ m \in Seq(Instr) /\ Len(m) = Len(s) + Len(inc)
          /\ \A i \in 1 .. Len(s) + Len(inc) : m[i] = IF i <= Len(s) THEN s[i] ELSE inc[i - Len(s)]
        BY <1>1, ConcatProperties
    <2> HIDE DEF m
    <2>2. 2 \in 1 .. Len(s) + Len(inc)
        BY <1>1, <1>2
    <2> QED BY <1>1, <2>1, <2>2
<1> HIDE DEF m
<1>4. Len(q) = 4 + Len(inc) /\ q[2] = b
    BY <1>1, <1>2, <1>3, ConcatProperties
<1>5. 2 \in 1 .. Len(q)
    BY <1>2, <1>4
<1>6. Uses(q, 1)
    BY <1>4, <1>5 DEF Uses
<1> QED BY <1>6 DEF m, s

LEMMA EmittingUses ==
    ASSUME TypeInv, Emitting
    PROVE  \E n \in 0 .. 2 : \E q : Visit(q, n) /\ Uses(q, n)
<1>1. CASE PrintLiteral \/ PrintVariable \/ AssignInt \/ AssignString \/ Copy
    <2>1. \E q : Visit(q, 0)
        BY <1>1 DEF PrintLiteral, PrintVariable, AssignInt, AssignString, Copy
    <2> QED BY <2>1 DEF Uses
<1>2. CASE AddSmall
    <2>1. PICK v \in Ints, w \in Ints, k \in Increments :
              Visit(<< Abs(Opcode.LDA, varBase[w]), Abs(Opcode.STA, Fresh(1)) >>
                    \o Increment(Fresh(1), k)
                    \o << Abs(Opcode.LDA, Fresh(1)), Abs(Opcode.STA, varBase[v]) >>, 1)
        BY <1>2 DEF AddSmall
    <2>2. /\ Fresh(1) \in Nat /\ k \in Nat
          /\ varBase[v] \in Nat /\ varBase[w] \in Nat
        BY SlotTypes, LiteralsAssumption, TargetAssumption DEF Ints, Declared
    <2>3. Increment(Fresh(1), k) \in Seq(Instr)
        BY <2>2, IncrementDirect DEF Direct
    <2>4. /\ \A a \in Nat : Abs(Opcode.LDA, a) \in Instr /\ Abs(Opcode.STA, a) \in Instr
          /\ Abs(Opcode.STA, Fresh(1)).mode = "abs" /\ Abs(Opcode.STA, Fresh(1)).arg = Fresh(1)
        BY AbsType, OpcodesAreBytes DEF Abs
    <2>5. Uses(<< Abs(Opcode.LDA, varBase[w]), Abs(Opcode.STA, Fresh(1)) >>
               \o Increment(Fresh(1), k)
               \o << Abs(Opcode.LDA, Fresh(1)), Abs(Opcode.STA, varBase[v]) >>, 1)
        BY <2>2, <2>3, <2>4, SmallSumUses
    <2> QED BY <2>1, <2>5
<1>3. CASE AddGeneral
    <2>1. PICK v \in Ints, w \in Ints, n \in IntLiterals :
              Visit(<< Imm(Opcode.LDAI, n), Abs(Opcode.STA, Fresh(1)),
                       Abs(Opcode.LDA, varBase[w]),
                       Imm(Opcode.LDXI, 0), Abs(Opcode.CPX, OneAddr),
                       Abs(Opcode.ADC, Fresh(1)), Abs(Opcode.STA, varBase[v]) >>, 1)
        BY <1>3 DEF AddGeneral
    <2> DEFINE q == << Imm(Opcode.LDAI, n), Abs(Opcode.STA, Fresh(1)),
                       Abs(Opcode.LDA, varBase[w]),
                       Imm(Opcode.LDXI, 0), Abs(Opcode.CPX, OneAddr),
                       Abs(Opcode.ADC, Fresh(1)), Abs(Opcode.STA, varBase[v]) >>
    <2>2. 2 \in 1 .. Len(q) /\ q[2].mode = "abs" /\ q[2].arg = Fresh(1)
        BY DEF Abs
    <2> QED BY <2>1, <2>2 DEF Uses
<1>4. ASSUME NEW top, OpenBlock(top)
      PROVE  \E n \in 0 .. 2 : \E q : Visit(q, n) /\ Uses(q, n)
    <2>1. CASE \E v, w \in Ints : Visit(IntGuard(v, w, top), 0)
        BY <2>1 DEF Uses
    <2>2. CASE \E v, w \in Strings : Visit(StringGuard(v, w, top), 2)
        <3>1. PICK v \in Strings, w \in Strings : Visit(StringGuard(v, w, top), 2)
            BY <2>2
        <3> DEFINE q == StringGuard(v, w, top)
        <3>2. 4 \in 1 .. Len(q) /\ q[4].mode = "abs" /\ q[4].arg = Fresh(2)
            BY DEF StringGuard, Abs
        <3> QED BY <3>1, <3>2 DEF Uses
    <2> QED BY <1>4, <2>1, <2>2 DEF OpenBlock
<1> QED BY <1>1, <1>2, <1>3, <1>4 DEF Emitting, OpenIf, OpenWhile

LEMMA VisitCounter ==
    ASSUME TypeInv, CounterInv, NEW n \in 0 .. 2, NEW q, Visit(q, n), Uses(q, n)
    PROVE  CounterInv'
<1>1. /\ phase = "emit" /\ phase' = "emit" /\ todo = << >> /\ todo' = q /\ fixups' = fixups
      /\ priorErr' = priorErr /\ next' = Bump(next, n)
    BY DEF Visit, Allocate, inputs
<1>2. ASSUME next' = 0 PROVE Queued' \/ Fixed'
    <2>1. next \in 0 .. AddrMod - 1
        BY DEF TypeInv, TypeOK, LayoutTypes
    <2>2. CASE n = 0
        <3>1. next + 0 < AddrMod /\ next \in Nat /\ next + 0 = next
            BY <2>1, TargetAssumption
        <3>2. next = 0
            BY <1>1, <1>2, <2>2, <3>1, BumpExact
        <3>3. ~Queued
            BY <1>1 DEF Queued
        <3> QED BY <1>1, <3>2, <3>3 DEF CounterInv, Fixed
    <2>3. CASE n # 0
        <3>1. Fresh(n) = Highest
            <4>1. n \in 1 .. 2 /\ Bump(next, n) = 0
                BY <1>1, <1>2, <2>3
            <4> QED BY <2>1, <4>1, BumpToZero DEF Fresh
        <3> QED BY <1>1, <2>3, <3>1 DEF Uses, Queued, Names
    <2> QED BY <2>2, <2>3
<1> QED BY <1>1, <1>2 DEF CounterInv

LEMMA ConstructCounter == ASSUME TypeInv, CounterInv, ConstructGenerator PROVE CounterInv'
<1>1. Allocate(2) /\ UNCHANGED varBase /\ phase = "bind" /\ phase' = "plan"
    BY DEF ConstructGenerator
<1>2. Len(temps) = 0
    BY <1>1 DEF CounterInv
<1>3. temps'[Len(temps) + 2] = Fresh(2)
    BY <1>1, AllocateSlots
<1>4. OneAddr' = Fresh(2)
    BY <1>2, <1>3 DEF OneAddr
<1>5. next \in 0 .. AddrMod - 1
    BY DEF TypeInv, TypeOK, LayoutTypes
<1>6. next' = 0 => OneAddr' = Highest
    BY <1>1, <1>4, <1>5, BumpToZero DEF Allocate, Fresh
<1> QED BY <1>1, <1>6 DEF CounterInv, Highest

LEMMA PlanCounter == ASSUME TypeInv, CounterInv, PlanHeap PROVE CounterInv'
<1>1. phase = "plan" /\ next' = next /\ OneAddr' = OneAddr /\ priorErr' = priorErr
    BY DEF PlanHeap, layoutVars, inputs, OneAddr
<1>2. CASE priorErr \/ err'
    BY <1>1, <1>2 DEF PlanHeap, CounterInv
<1>3. CASE ~(priorErr \/ err')
    <2>1. phase' = "emit" /\ todo' = Prologue
        BY <1>3 DEF PlanHeap
    <2>2. 4 \in 1 .. Len(Prologue) /\ Prologue[4] = Abs(Opcode.STA, OneAddr)
        BY DEF Prologue
    <2>3. next = 0 => Names(Prologue[4])
        BY <1>1, <2>2 DEF CounterInv, Names, Abs
    <2>4. next' = 0 => Queued'
        BY <1>1, <2>1, <2>2, <2>3 DEF Queued
    <2> QED BY <1>1, <1>3, <2>1, <2>4 DEF CounterInv
<1> QED BY <1>2, <1>3

\* An instruction that is emitted leaves the queue for the fixups.
LEMMA EmitCounter ==
    ASSUME TypeInv, CounterInv, EmitPlain \/ EmitForward \/ EmitBack PROVE CounterInv'
<1>1. /\ phase = "emit" /\ phase' = "emit" /\ todo # << >> /\ todo' = Tail(todo)
      /\ next' = next /\ priorErr' = priorErr /\ fixups \subseteq fixups'
      /\ Head(todo).mode = "abs" => Head(todo).arg \in {f.addr : f \in fixups'}
    BY DEF EmitPlain, EmitForward, EmitBack, layoutVars, inputs
<1>2. /\ Head(todo) = todo[1] /\ Len(todo) \in Nat \ {0} /\ Len(Tail(todo)) = Len(todo) - 1
      /\ \A i \in 1 .. Len(Tail(todo)) : Tail(todo)[i] = todo[i + 1]
    BY <1>1, HeadType
<1>3. ASSUME Queued PROVE Queued' \/ Fixed'
    <2>1. PICK i \in 1 .. Len(todo) : Names(todo[i])
        BY <1>3 DEF Queued
    <2>2. CASE i = 1
        BY <1>1, <1>2, <2>1, <2>2 DEF Names, Fixed, Highest
    <2>3. CASE i # 1
        <3>1. i - 1 \in 1 .. Len(Tail(todo)) /\ (i - 1) + 1 = i
            BY <1>2, <2>1, <2>3
        <3>2. Names(Tail(todo)[i - 1])
            BY <1>2, <2>1, <3>1
        <3> QED BY <1>1, <3>1, <3>2 DEF Queued, Names, Highest
    <2> QED BY <2>2, <2>3
<1>4. Fixed => Fixed'
    BY <1>1 DEF Fixed, Highest
<1> QED BY <1>1, <1>3, <1>4 DEF CounterInv

\* No slot at the highest address can be moved up behind the code.
LEMMA RelocateCounter ==
    ASSUME RamBase < MinDataBase, TypeInv, CounterInv, Relocate PROVE CounterInv'
<1>1. phase = "relocate" /\ next' = next /\ priorErr' = priorErr
    BY DEF Relocate, layoutVars, inputs
<1>2. CASE ~(Relocates /\ StaticsFit)
    BY <1>1, <1>2 DEF Relocate, CounterInv
<1>3. CASE Relocates /\ StaticsFit
    <2>1. phase' = "pad" /\ err' = err
        BY <1>3 DEF Relocate
    <2>2. Delta >= 1 /\ Delta \in Nat
        <3>1. Len(buf) % AddrMod \in Nat
            BY DeltaType, TargetAssumption
        <3>2. DataBase >= MinDataBase /\ DataBase \in Nat
            BY <3>1, TargetAssumption DEF DataBase
        <3> QED BY <3>2, TargetAssumption, DeltaType
    <2>3. ~Fixed
        <3>1. ASSUME NEW f \in fixups PROVE f.addr # Highest
            <4>1. Relocated(f.addr) < AddrMod
                BY <1>3 DEF Relocates
            <4>2. Highest + Delta >= AddrMod
                BY <2>2, TargetAssumption DEF Highest
            <4> QED BY <2>2, <4>1, <4>2, TargetAssumption DEF Relocated, Highest
        <3> QED BY <3>1 DEF Fixed
    <2> QED BY <1>1, <2>1, <2>3 DEF CounterInv
<1> QED BY <1>2, <1>3

LEMMA CounterStep ==
    ASSUME RamBase < MinDataBase, TypeInv, CounterInv, [Next]_vars PROVE CounterInv'
<1>1. CASE Emitting
    BY <1>1, EmittingUses, VisitCounter
<1>2. CASE BindSymbol
    BY <1>2 DEF BindSymbol, CounterInv
<1>3. CASE ConstructGenerator
    BY <1>3, ConstructCounter
<1>4. CASE \E p \in Payloads : RememberPayload(p)
    <2>1. phase = "plan" /\ phase' = "plan" /\ next' = next /\ OneAddr' = OneAddr
        BY <1>4 DEF RememberPayload, layoutVars, OneAddr
    <2> QED BY <2>1 DEF CounterInv, Highest
<1>5. CASE PlanHeap
    BY <1>5, PlanCounter
<1>6. CASE RejectLiteral \/ CloseIf
    BY <1>6 DEF RejectLiteral, CloseIf, CounterInv, Queued, Fixed, Names, Highest, layoutVars, inputs
<1>7. CASE CloseWhile
    <2>1. /\ phase = "emit" /\ phase' = "emit" /\ todo = << >> /\ next' = next
          /\ fixups' = fixups /\ priorErr' = priorErr
        BY <1>7 DEF CloseWhile, layoutVars, inputs
    <2>2. ~Queued
        BY <2>1 DEF Queued
    <2> QED BY <2>1, <2>2 DEF CounterInv, Fixed, Highest
<1>8. CASE EmitPlain \/ EmitForward \/ EmitBack
    BY <1>8, EmitCounter
<1>9. CASE EndBlock
    <2>1. /\ phase = "emit" /\ phase' = "relocate" /\ todo = << >> /\ next' = next
          /\ fixups' = fixups /\ priorErr' = priorErr
        BY <1>9 DEF EndBlock, layoutVars, inputs
    <2>2. ~Queued
        BY <2>1 DEF Queued
    <2> QED BY <2>1, <2>2 DEF CounterInv, Fixed, Highest
<1>10. CASE Relocate
    BY <1>10, RelocateCounter
<1>11. CASE Pad \/ StorePayload \/ Finish
    BY <1>11 DEF Pad, StorePayload, Finish, CounterInv, layoutVars, inputs
<1>12. CASE UNCHANGED vars
    BY <1>12 DEF vars, CounterInv, Queued, Fixed, Names, Highest, OneAddr, layoutVars, inputs, codeVars
<1> QED BY <1>1, <1>2, <1>3, <1>4, <1>5, <1>6, <1>7, <1>8, <1>9, <1>10, <1>11, <1>12,
           StatementCases DEF Next

\* Every program that is accepted on a clean bag had the end of its statics
\* measured, however often the counter wrapped, if the target relocates upwards.
THEOREM MeasuredStatics == ASSUME RamBase < MinDataBase PROVE Spec => []StaticsMeasured
<1>1. Init => TypeInv /\ CounterInv
    <2>1. Init => CounterInv
        BY DEF Init, CounterInv
    <2> QED BY <2>1, TypeInit
<1>2. TypeInv /\ CounterInv /\ [Next]_vars => (TypeInv /\ CounterInv)'
    BY TypeStep, CounterStep
<1>3. TypeInv /\ CounterInv => StaticsMeasured
    BY DEF CounterInv, StaticsMeasured, Complete, Succeeded
<1> QED BY <1>1, <1>2, <1>3, PTL DEF Spec
=============================================================================
