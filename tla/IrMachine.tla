----------------------------- MODULE IrMachine -----------------------------
(***************************************************************************)
(* What the instructions of LLVM IR do that are emitted (module Emitters), *)
(* one at a time.                                                          *)
(***************************************************************************)
EXTENDS Emitters

\* Registers and what pointers point at are in one store; jumps are counted.
IrState(pc, store, out, jumps) == [pc |-> pc, store |-> store, out |-> out, jumps |-> jumps]
IrStart == IrState(1, << >>, << >>, 0)
IrReturns(text, m) == text[m.pc].op = "ret"

\* Ints are below mod.
IrStep(text, m, mod) ==
    LET i       == text[m.pc]
        V(v)    == IF v[1] = "const" THEN v[2] ELSE m.store[v]
        Bound(k, v) ==
            IrState(m.pc + 1, [j \in DOMAIN m.store \cup {k} |-> IF j = k THEN v ELSE m.store[j]],
                    m.out, m.jumps)
        Jump(l) ==
            IrState(CHOOSE p \in DOMAIN text : text[p].op = "label" /\ text[p].l = l,
                    m.store, m.out, m.jumps + 1)
    IN CASE i.op = "load"   -> Bound(i.dst, m.store[i.l])
         [] i.op = "store"  -> Bound(i.r, V(i.l))
         [] i.op = "add"    -> Bound(i.dst, (V(i.l) + V(i.r)) % mod)
         [] i.op = "eq"     -> Bound(i.dst, IF V(i.l) = V(i.r) THEN 1 ELSE 0)
         [] i.op = "ne"     -> Bound(i.dst, IF V(i.l) = V(i.r) THEN 0 ELSE 1)
         [] i.op = "print"  -> IrState(m.pc + 1, m.store, Append(m.out, V(i.l)), m.jumps)
         [] i.op = "br"     -> Jump(i.r[IF V(i.l) = 1 THEN 1 ELSE 2])
         [] i.op = "jmp"    -> Jump(i.l)
         [] OTHER           -> IrState(m.pc + 1, m.store, m.out, m.jumps)
=============================================================================
