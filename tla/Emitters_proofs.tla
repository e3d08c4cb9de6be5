--------------------------- MODULE Emitters_proofs ---------------------------
(***************************************************************************)
(* What the emitters write for Java and for LLVM is what these take.       *)
(*                                                                         *)
(* The text of LLVM IR is looked at piece by piece, and the aliases of     *)
(* Java next to the scopes in which the names stand; the Java text does    *)
(* what the programs of the file do.                                       *)
(***************************************************************************)
EXTENDS Optimizer_proofs, TextRules, IrMachine

\* The recursive operators of TextBackEnds, of which only the equations that define
\* them are used.
CONSTANTS
    Spelled(_, _), Emitted(_, _, _), Module(_, _), ExprVars(_),
    IrExpr(_, _), IrStmts(_, _), IrPrograms(_, _)

-----------------------------------------------------------------------------
(***************************************************************************)
(* Pieces of text.                                                         *)
(***************************************************************************)
Listed(w) == \E A : w \in Seq(A)

\* What a piece defines, and where it goes.
Regs(w)     == {w[i].dst : i \in DefinedAt(w)}
LabelsOf(w) == {w[i].l : i \in LabelAt(w)}
Aims(w)     == UNION {Targets(w[i]) : i \in BranchAt(w)}
Once(w) ==
    /\ \A i, j \in DefinedAt(w) : w[i].dst = w[j].dst => i = j
    /\ \A i, j \in LabelAt(w) : w[i].l = w[j].l => i = j
Flows(w) ==
    /\ \A i \in LabelAt(w) : i - 1 \in BranchAt(w)
    /\ \A i \in BranchAt(w) : i + 1 \in LabelAt(w)

\* A sequence whose elements all lie in Q is a sequence over Q.
LEMMA AllMembers ==
    ASSUME NEW R, NEW Q, NEW s \in Seq(R), \A i \in DOMAIN s : s[i] \in Q
    PROVE  s \in Seq(Q) /\ Len(s) \in Nat
<1>1. Len(s) \in Nat /\ DOMAIN s = 1 .. Len(s) /\ s \in [1 .. Len(s) -> R]
  OBVIOUS
<1>2. s \in [1 .. Len(s) -> Q]
  BY <1>1
<1> QED
  BY <1>1, <1>2

\* The instructions of w are those of u and, k further on, those of v.
Strung(u, v, w, k) ==
    /\ k \in Nat /\ DOMAIN u = 1 .. k /\ DOMAIN v = 1 .. Len(v) /\ Len(v) \in Nat
    /\ \A i \in DOMAIN u : i \in DOMAIN w /\ w[i] = u[i]
    /\ \A i \in DOMAIN v : i + k \in DOMAIN w /\ w[i + k] = v[i]
    /\ \A j \in DOMAIN w : j \in DOMAIN u \/ \E i \in DOMAIN v : j = i + k

LEMMA TextAt ==
    ASSUME NEW u, NEW v, Listed(u), Listed(v), NEW w, w = u \o v, NEW k, k = Len(u)
    PROVE  Listed(w) /\ Strung(u, v, w, k)
<1>1. PICK A : u \in Seq(A)
  BY DEF Listed
<1>2. PICK B : v \in Seq(B)
  BY DEF Listed
<1>3. PICK D : D = A \cup B
  OBVIOUS
<1>4. u \in Seq(D) /\ v \in Seq(D)
  BY <1>1, <1>2, <1>3
<1>5. /\ k \in Nat /\ DOMAIN u = 1 .. k /\ DOMAIN v = 1 .. Len(v) /\ Len(v) \in Nat
      /\ w \in Seq(D) /\ Len(w) = k + Len(v) /\ DOMAIN w = 1 .. k + Len(v)
  BY <1>4
<1>6. \A i \in 1 .. k : w[i] = u[i]
  BY <1>4
<1>7. \A i \in 1 .. Len(v) : w[i + k] = v[i]
  BY <1>4, <1>5
<1>8. \A j \in 1 .. k + Len(v) : j \in 1 .. k \/ \E i \in 1 .. Len(v) : j = i + k
  <2>0. k \in Nat
    BY <1>5
  <2>1. PICK m \in Nat : m = Len(v)
    BY <1>5
  <2>2. ASSUME NEW j \in 1 .. k + m, ~ (j \in 1 .. k) PROVE \E i \in 1 .. m : j = i + k
    <3>1. j - k \in 1 .. m /\ j = (j - k) + k
      BY <2>0, <2>1, <2>2
    <3> QED
      BY <3>1
  <2> QED
    BY <2>1, <2>2
<1>9. Listed(w)
  BY <1>5 DEF Listed
<1>10. /\ \A i \in DOMAIN u : i \in DOMAIN w /\ w[i] = u[i]
       /\ \A i \in DOMAIN v : i + k \in DOMAIN w /\ w[i + k] = v[i]
  <2>1. \A i \in 1 .. k : i \in 1 .. k + Len(v)
    BY <1>5
  <2>2. \A i \in 1 .. Len(v) : i + k \in 1 .. k + Len(v)
    BY <1>5
  <2> QED
    BY <1>5, <1>6, <1>7, <2>1, <2>2
<1>11. \A j \in DOMAIN w : j \in DOMAIN u \/ \E i \in DOMAIN v : j = i + k
  BY <1>5, <1>8
<1> QED
  BY <1>5, <1>9, <1>10, <1>11 DEF Strung

\* The same for the instructions of a kind, which are at P in u, at Q in v and at R
\* in w.
Joined(P, Q, R, u, v, w, k) ==
    /\ \A i \in P : i \in R /\ w[i] = u[i] /\ i \in Nat /\ i <= k
    /\ \A i \in Q : i + k \in R /\ w[i + k] = v[i] /\ i \in Nat /\ i > 0
    /\ \A j \in R : j \in P \/ \E i \in Q : j = i + k

LEMMA TextPlaces ==
    ASSUME NEW u, NEW v, Listed(u), Listed(v), NEW w, w = u \o v, NEW k, k = Len(u)
    PROVE  /\ Joined(DefinedAt(u), DefinedAt(v), DefinedAt(w), u, v, w, k)
           /\ Joined(LabelAt(u), LabelAt(v), LabelAt(w), u, v, w, k)
           /\ Joined(BranchAt(u), BranchAt(v), BranchAt(w), u, v, w, k)
<1>1. /\ k \in Nat /\ DOMAIN u = 1 .. k /\ DOMAIN v = 1 .. Len(v) /\ Len(v) \in Nat
      /\ \A i \in DOMAIN u : i \in DOMAIN w /\ w[i] = u[i]
      /\ \A i \in DOMAIN v : i + k \in DOMAIN w /\ w[i + k] = v[i]
      /\ \A j \in DOMAIN w : j \in DOMAIN u \/ \E i \in DOMAIN v : j = i + k
  <2>1. Strung(u, v, w, k)
    BY TextAt
  <2> QED
    BY <2>1 DEF Strung
<1>2. /\ \A i \in DOMAIN u : i \in Nat /\ i <= k
      /\ \A i \in DOMAIN v : i \in Nat /\ i > 0
  BY <1>1
<1>3. Joined(DefinedAt(u), DefinedAt(v), DefinedAt(w), u, v, w, k)
  BY <1>1, <1>2 DEF DefinedAt, Joined
<1>4. Joined(LabelAt(u), LabelAt(v), LabelAt(w), u, v, w, k)
  BY <1>1, <1>2 DEF LabelAt, Joined
<1>5. Joined(BranchAt(u), BranchAt(v), BranchAt(w), u, v, w, k)
  BY <1>1, <1>2 DEF BranchAt, Joined
<1> QED
  BY <1>3, <1>4, <1>5

\* Pieces that define different things go together.
LEMMA CatPieces ==
    ASSUME NEW u, NEW v, Listed(u), Listed(v), NEW w, w = u \o v
    PROVE  /\ Listed(w)
           /\ Regs(w) = Regs(u) \cup Regs(v)
           /\ LabelsOf(w) = LabelsOf(u) \cup LabelsOf(v)
           /\ Aims(w) = Aims(u) \cup Aims(v)
           /\ Flows(u) /\ Flows(v) => Flows(w)
           /\ Once(u) /\ Once(v) /\ Regs(u) \cap Regs(v) = {} /\ LabelsOf(u) \cap LabelsOf(v) = {} => Once(w)
<1>1. PICK k : k = Len(u) /\ w = u \o v /\ Listed(u) /\ Listed(v)
  OBVIOUS
<1>2. Listed(w) /\ k \in Nat
  <2>1. Listed(w) /\ Strung(u, v, w, k)
    BY ONLY <1>1, TextAt
  <2> QED
    BY <2>1 DEF Strung
<1>0. /\ Joined(DefinedAt(u), DefinedAt(v), DefinedAt(w), u, v, w, k)
      /\ Joined(LabelAt(u), LabelAt(v), LabelAt(w), u, v, w, k)
      /\ Joined(BranchAt(u), BranchAt(v), BranchAt(w), u, v, w, k)
  BY ONLY <1>1, TextPlaces
<1>3. /\ \A i \in DefinedAt(u) : i \in DefinedAt(w) /\ w[i] = u[i] /\ i \in Nat /\ i <= k
      /\ \A i \in DefinedAt(v) : i + k \in DefinedAt(w) /\ w[i + k] = v[i] /\ i \in Nat /\ i > 0
      /\ \A j \in DefinedAt(w) : j \in DefinedAt(u) \/ \E i \in DefinedAt(v) : j = i + k
  BY <1>0 DEF Joined
<1>4. /\ \A i \in LabelAt(u) : i \in LabelAt(w) /\ w[i] = u[i] /\ i \in Nat /\ i <= k
      /\ \A i \in LabelAt(v) : i + k \in LabelAt(w) /\ w[i + k] = v[i] /\ i \in Nat /\ i > 0
      /\ \A j \in LabelAt(w) : j \in LabelAt(u) \/ \E i \in LabelAt(v) : j = i + k
  BY <1>0 DEF Joined
<1>5. /\ \A i \in BranchAt(u) : i \in BranchAt(w) /\ w[i] = u[i] /\ i \in Nat /\ i <= k
      /\ \A i \in BranchAt(v) : i + k \in BranchAt(w) /\ w[i + k] = v[i] /\ i \in Nat /\ i > 0
      /\ \A j \in BranchAt(w) : j \in BranchAt(u) \/ \E i \in BranchAt(v) : j = i + k
  BY <1>0 DEF Joined
<1>6. Regs(w) = Regs(u) \cup Regs(v)
  <2>1. ASSUME NEW x \in Regs(w) PROVE x \in Regs(u) \cup Regs(v)
    <3>1. PICK j \in DefinedAt(w) : x = w[j].dst
      BY <2>1 DEF Regs
    <3>2. CASE j \in DefinedAt(u)
      BY <1>3, <3>1, <3>2 DEF Regs
    <3>3. ASSUME NEW i \in DefinedAt(v), j = i + k PROVE x \in Regs(v)
      BY <1>3, <3>1, <3>3 DEF Regs
    <3> QED
      BY <1>3, <3>2, <3>3
  <2>2. Regs(u) \subseteq Regs(w)
    BY <1>3 DEF Regs
  <2>3. Regs(v) \subseteq Regs(w)
    BY <1>3, ZenonT(40) DEF Regs
  <2> QED
    BY <2>1, <2>2, <2>3
<1>7. LabelsOf(w) = LabelsOf(u) \cup LabelsOf(v)
  <2>1. ASSUME NEW x \in LabelsOf(w) PROVE x \in LabelsOf(u) \cup LabelsOf(v)
    <3>1. PICK j \in LabelAt(w) : x = w[j].l
      BY <2>1 DEF LabelsOf
    <3>2. CASE j \in LabelAt(u)
      BY <1>4, <3>1, <3>2 DEF LabelsOf
    <3>3. ASSUME NEW i \in LabelAt(v), j = i + k PROVE x \in LabelsOf(v)
      BY <1>4, <3>1, <3>3 DEF LabelsOf
    <3> QED
      BY <1>4, <3>2, <3>3
  <2>2. LabelsOf(u) \subseteq LabelsOf(w)
    BY <1>4 DEF LabelsOf
  <2>3. LabelsOf(v) \subseteq LabelsOf(w)
    BY <1>4, ZenonT(40) DEF LabelsOf
  <2> QED
    BY <2>1, <2>2, <2>3
<1>8. Aims(w) = Aims(u) \cup Aims(v)
  <2>1. ASSUME NEW x \in Aims(w) PROVE x \in Aims(u) \cup Aims(v)
    <3>1. PICK j \in BranchAt(w) : x \in Targets(w[j])
      BY <2>1 DEF Aims
    <3>2. CASE j \in BranchAt(u)
      BY <1>5, <3>1, <3>2 DEF Aims
    <3>3. ASSUME NEW i \in BranchAt(v), j = i + k PROVE x \in Aims(v)
      BY <1>5, <3>1, <3>3 DEF Aims
    <3> QED
      BY <1>5, <3>2, <3>3
  <2>2. ASSUME NEW x \in Aims(u) PROVE x \in Aims(w)
    BY <1>5, <2>2 DEF Aims
  <2>3. ASSUME NEW x \in Aims(v) PROVE x \in Aims(w)
    <3>1. PICK i \in BranchAt(v) : x \in Targets(v[i])
      BY <2>3 DEF Aims
    <3> QED
      BY <1>5, <3>1 DEF Aims
  <2> QED
    BY <2>1, <2>2, <2>3
<1>9. ASSUME Flows(u), Flows(v) PROVE Flows(w)
  <2>1. \A i \in LabelAt(w) : i - 1 \in BranchAt(w)
    <3> SUFFICES ASSUME NEW j \in LabelAt(w) PROVE j - 1 \in BranchAt(w)
      OBVIOUS
    <3>1. CASE j \in LabelAt(u)
      BY <1>5, <1>9, <3>1 DEF Flows
    <3>2. ASSUME NEW i \in LabelAt(v), j = i + k PROVE j - 1 \in BranchAt(w)
      <4>1. i - 1 \in BranchAt(v) /\ i \in Nat
        BY <1>4, <1>9 DEF Flows
      <4>2. (i - 1) + k = j - 1
        BY <1>2, <3>2, <4>1
      <4> QED
        BY <1>5, <4>1, <4>2
    <3> QED
      BY <1>4, <3>1, <3>2
  <2>2. \A i \in BranchAt(w) : i + 1 \in LabelAt(w)
    <3> SUFFICES ASSUME NEW j \in BranchAt(w) PROVE j + 1 \in LabelAt(w)
      OBVIOUS
    <3>1. CASE j \in BranchAt(u)
      BY <1>4, <1>9, <3>1 DEF Flows
    <3>2. ASSUME NEW i \in BranchAt(v), j = i + k PROVE j + 1 \in LabelAt(w)
      <4>1. i + 1 \in LabelAt(v) /\ i \in Nat
        BY <1>5, <1>9 DEF Flows
      <4>2. (i + 1) + k = j + 1
        BY <1>2, <3>2, <4>1
      <4> QED
        BY <1>4, <4>1, <4>2
    <3> QED
      BY <1>5, <3>1, <3>2
  <2> QED
    BY <2>1, <2>2 DEF Flows
<1>10. ASSUME Once(u), Once(v), Regs(u) \cap Regs(v) = {}, LabelsOf(u) \cap LabelsOf(v) = {} PROVE Once(w)
  <2>1. ASSUME NEW i \in DefinedAt(w), NEW j \in DefinedAt(w), w[i].dst = w[j].dst PROVE i = j
    <3>1. CASE i \in DefinedAt(u) /\ j \in DefinedAt(u)
      BY <1>3, <1>10, <2>1, <3>1 DEF Once
    <3>2. ASSUME NEW g \in DefinedAt(v), NEW h \in DefinedAt(v), i = g + k, j = h + k PROVE i = j
      BY <1>3, <1>10, <2>1, <3>2, ZenonT(40) DEF Once
    <3>3. ASSUME NEW g \in DefinedAt(u), NEW h \in DefinedAt(v), w[g].dst = w[h + k].dst PROVE FALSE
      <4>1. u[g].dst \in Regs(u) /\ v[h].dst \in Regs(v)
        BY DEF Regs
      <4>2. u[g].dst = v[h].dst
        BY <1>3, <3>3
      <4> QED
        BY <1>10, <4>1, <4>2
    <3> QED
      BY <1>3, <2>1, <3>1, <3>2, <3>3
  <2>2. ASSUME NEW i \in LabelAt(w), NEW j \in LabelAt(w), w[i].l = w[j].l PROVE i = j
    <3>1. CASE i \in LabelAt(u) /\ j \in LabelAt(u)
      BY <1>4, <1>10, <2>2, <3>1 DEF Once
    <3>2. ASSUME NEW g \in LabelAt(v), NEW h \in LabelAt(v), i = g + k, j = h + k PROVE i = j
      BY <1>4, <1>10, <2>2, <3>2, ZenonT(40) DEF Once
    <3>3. ASSUME NEW g \in LabelAt(u), NEW h \in LabelAt(v), w[g].l = w[h + k].l PROVE FALSE
      <4>1. u[g].l \in LabelsOf(u) /\ v[h].l \in LabelsOf(v)
        BY DEF LabelsOf
      <4>2. u[g].l = v[h].l
        BY <1>4, <3>3
      <4> QED
        BY <1>10, <4>1, <4>2
    <3> QED
      BY <1>4, <2>2, <3>1, <3>2, <3>3
  <2> QED
    BY <2>1, <2>2 DEF Once
<1> QED
  BY <1>2, <1>6, <1>7, <1>8, <1>9, <1>10

\* One instruction that is neither a branch nor a label, and one that branches with
\* the label after it.
LEMMA OneLine ==
    ASSUME NEW x, x.op \notin {"jmp", "br", "label"}, NEW w, w = << x >>
    PROVE  /\ Listed(w) /\ Once(w) /\ Flows(w) /\ LabelsOf(w) = {} /\ Aims(w) = {}
           /\ Regs(w) = IF x.dst = None THEN {} ELSE {x.dst}
<1>1. w = << x >> /\ w \in Seq({x}) /\ DOMAIN w = {1} /\ w[1] = x
  OBVIOUS
<1>2. LabelAt(w) = {} /\ BranchAt(w) = {} /\ DefinedAt(w) = IF x.dst = None THEN {} ELSE {1}
  BY <1>1 DEF LabelAt, BranchAt, DefinedAt
<1>3. Listed(w)
  BY <1>1 DEF Listed
<1> QED
  BY <1>1, <1>2, <1>3 DEF Once, Flows, LabelsOf, Aims, Regs

LEMMA PartLines ==
    ASSUME NEW op \in {"jmp", "br"}, NEW l, NEW r, NEW label,
           NEW w, w = << Line3(op, None, l, r), Line3("label", None, label, None) >>
    PROVE  /\ Listed(w) /\ Once(w) /\ Flows(w) /\ LabelsOf(w) = {label} /\ Regs(w) = {}
           /\ Aims(w) = IF op = "jmp" THEN {l} ELSE {r[1], r[2]}
<1>1. PICK x : x = Line3(op, None, l, r)
  OBVIOUS
<1>2. PICK y : y = Line3("label", None, label, None)
  OBVIOUS
<1>3. /\ x.op = op /\ x.dst = None /\ x.l = l /\ x.r = r
      /\ y.op = "label" /\ y.dst = None /\ y.l = label
  BY <1>1, <1>2 DEF Line3
<1>4. w = << x, y >> /\ w \in Seq({x, y}) /\ DOMAIN w = {1, 2} /\ w[1] = x /\ w[2] = y
  BY <1>1, <1>2
<1>5. LabelAt(w) = {2} /\ BranchAt(w) = {1} /\ DefinedAt(w) = {}
  BY <1>3, <1>4 DEF LabelAt, BranchAt, DefinedAt
<1>6. Listed(w)
  BY <1>4 DEF Listed
<1>7. LabelsOf(w) = {label} /\ Regs(w) = {}
  BY <1>3, <1>4, <1>5 DEF LabelsOf, Regs
<1>8. Aims(w) = Targets(x)
  BY <1>4, <1>5 DEF Aims
<1>9. Once(w) /\ Flows(w)
  BY <1>5 DEF Once, Flows
<1> QED
  BY <1>3, <1>6, <1>7, <1>8, <1>9 DEF Targets

LEMMA AppendText ==
    ASSUME NEW w, Listed(w)
    PROVE  /\ \A x : Append(w, x) = w \o << x >>
           /\ \A x, y : Append(Append(w, x), y) = w \o << x, y >>
<1> SUFFICES ASSUME NEW x, NEW y
             PROVE  Append(w, x) = w \o << x >> /\ Append(Append(w, x), y) = w \o << x, y >>
  OBVIOUS
<1>1. PICK A : w \in Seq(A)
  BY DEF Listed
<1>2. PICK B : B = A \cup {x, y}
  OBVIOUS
<1>3. w \in Seq(B) /\ x \in B /\ y \in B
  BY <1>1, <1>2
<1>4. Append(w, x) = w \o << x >>
  BY <1>3
<1>5. PICK p, q : p = Append(Append(w, x), y) /\ q = w \o << x, y >>
  OBVIOUS
<1>6. PICK k \in Nat : k = Len(w)
  BY <1>3
<1>7. /\ p \in Seq(B) /\ Len(p) = k + 2 /\ p[k + 1] = x /\ p[k + 2] = y
      /\ \A i \in 1 .. k : p[i] = w[i]
  BY <1>3, <1>5, <1>6
<1>8. /\ q \in Seq(B) /\ Len(q) = k + 2 /\ q[k + 1] = x /\ q[k + 2] = y
      /\ \A i \in 1 .. k : q[i] = w[i]
  <2>1. PICK r : r = << x, y >>
    OBVIOUS
  <2>2. r \in Seq(B) /\ Len(r) = 2 /\ r[1] = x /\ r[2] = y
    BY <1>3, <2>1
  <2> QED
    BY <1>3, <1>5, <1>6, <2>1, <2>2
<1>9. \A i \in 1 .. k + 2 : p[i] = q[i]
  <2>1. \A i \in 1 .. k + 2 : i \in 1 .. k \/ i = k + 1 \/ i = k + 2
    BY <1>6
  <2> QED
    BY <1>7, <1>8, <2>1
<1>10. p = q
  BY <1>7, <1>8, <1>9
<1> QED
  BY <1>4, <1>5, <1>10

-----------------------------------------------------------------------------
(***************************************************************************)
(* What is emitted from a place on.                                        *)
(***************************************************************************)
TextIn(s)  == s.text
RegIn(s)   == s.reg
LabelIn(s) == s.label
Begins(s) == RegIn(s) \in Nat /\ LabelIn(s) \in Nat

\* t is emitted where s ends: what it defines has new numbers, and its branches
\* lead to its own labels or to P, which are taken and still to come.
Written(s, t, P) ==
    /\ Begins(s) /\ Begins(t) /\ RegIn(s) <= RegIn(t) /\ LabelIn(s) <= LabelIn(t)
    /\ Listed(TextIn(t)) /\ Once(TextIn(t)) /\ Flows(TextIn(t))
    /\ \A d \in Regs(TextIn(t)) : \E n \in Nat : RegIn(s) <= n /\ n < RegIn(t) /\ d = Reg(n)
    /\ \A n \in LabelsOf(TextIn(t)) \cup P : n \in Nat /\ LabelIn(s) <= n /\ n < LabelIn(t)
    /\ LabelsOf(TextIn(t)) \cap P = {}
    /\ Aims(TextIn(t)) \subseteq LabelsOf(TextIn(t)) \cup P

LEMMA IrParts ==
    /\ \A text, reg, label, frames :
          LET s == Ir(text, reg, label, frames)
          IN TextIn(s) = text /\ RegIn(s) = reg /\ LabelIn(s) = label
    /\ \A s, v : IrValue(s, v).s = s /\ IrValue(s, v).v = v
  BY DEF Ir, TextIn, RegIn, LabelIn, IrValue

LEMMA NoText ==
    /\ Listed(<< >>) /\ Once(<< >>) /\ Flows(<< >>)
    /\ Regs(<< >>) = {} /\ LabelsOf(<< >>) = {} /\ Aims(<< >>) = {}
<1>1. << >> \in Seq({}) /\ DOMAIN << >> = {}
  OBVIOUS
<1>2. DefinedAt(<< >>) = {} /\ LabelAt(<< >>) = {} /\ BranchAt(<< >>) = {}
  BY <1>1 DEF DefinedAt, LabelAt, BranchAt
<1>3. Listed(<< >>)
  BY <1>1 DEF Listed
<1> QED
  BY <1>2, <1>3 DEF Once, Flows, Regs, LabelsOf, Aims

LEMMA NothingWritten ==
    ASSUME NEW s, Begins(s)
    PROVE  /\ Written(s, Nothing(s), {}) /\ LabelsOf(TextIn(Nothing(s))) = {}
           /\ RegIn(Nothing(s)) = RegIn(s) /\ LabelIn(Nothing(s)) = LabelIn(s)
<1>1. PICK t : t = Nothing(s)
  OBVIOUS
<1>2. TextIn(t) = << >> /\ RegIn(t) = RegIn(s) /\ LabelIn(t) = LabelIn(s)
  BY <1>1, IrParts DEF Nothing, RegIn, LabelIn
<1> QED
  BY <1>1, <1>2, NoText DEF Written, Begins

\* Labels are taken.
LEMMA LabelsWritten ==
    ASSUME NEW s, NEW t, NEW P, Written(s, t, P), NEW n \in Nat, NEW Q,
           Q = LabelIn(t) .. LabelIn(t) + n - 1
    PROVE  /\ Written(s, Labels(t, n), P \cup Q) /\ LabelsOf(TextIn(Labels(t, n))) = LabelsOf(TextIn(t))
           /\ LabelIn(Labels(t, n)) = LabelIn(t) + n
<1>1. PICK u : u = Labels(t, n)
  OBVIOUS
<1>2. TextIn(u) = TextIn(t) /\ RegIn(u) = RegIn(t) /\ LabelIn(u) = LabelIn(t) + n
  BY <1>1, IrParts DEF Labels, TextIn, RegIn, LabelIn
<1>3. LabelIn(t) \in Nat /\ LabelIn(s) \in Nat /\ LabelIn(s) <= LabelIn(t)
  BY DEF Written, Begins
<1>4. Begins(u) /\ LabelIn(s) <= LabelIn(u)
  BY <1>2, <1>3 DEF Written, Begins
<1>5. \A m \in Q : m \in Nat /\ LabelIn(s) <= m /\ m < LabelIn(u) /\ ~(m < LabelIn(t))
  BY <1>2, <1>3
<1>6. \A m \in LabelsOf(TextIn(t)) \cup P : m \in Nat /\ LabelIn(s) <= m /\ m < LabelIn(t)
  BY DEF Written
<1>7. \A m \in LabelsOf(TextIn(t)) \cup P : m < LabelIn(u)
  BY <1>2, <1>3, <1>6
<1>8. LabelsOf(TextIn(t)) \cap Q = {}
  BY <1>5, <1>6
<1>9. \A m \in LabelsOf(TextIn(u)) \cup (P \cup Q) : m \in Nat /\ LabelIn(s) <= m /\ m < LabelIn(u)
  BY <1>2, <1>5, <1>6, <1>7
<1>10. LabelsOf(TextIn(u)) \cap (P \cup Q) = {}
  BY <1>2, <1>8 DEF Written
<1>11. Written(s, u, P \cup Q)
  BY <1>2, <1>4, <1>9, <1>10 DEF Written
<1> QED
  BY <1>1, <1>2, <1>11

\* One piece after another.
LEMMA WrittenOn ==
    ASSUME NEW s, NEW t, NEW P, Written(s, t, P), NEW u, Written(t, u, {})
    PROVE  /\ Written(s, Continued(t, u), P)
           /\ LabelsOf(TextIn(t)) \subseteq LabelsOf(TextIn(Continued(t, u)))
<1>1. PICK v : v = Continued(t, u)
  OBVIOUS
<1>2. TextIn(v) = TextIn(t) \o TextIn(u) /\ RegIn(v) = RegIn(u) /\ LabelIn(v) = LabelIn(u)
  <2>1. PICK text, reg, label, frames : text = t.text \o u.text /\ reg = u.reg /\ label = u.label /\ frames = u.frames
    OBVIOUS
  <2>2. v = Ir(text, reg, label, frames)
    BY <1>1, <2>1 DEF Continued
  <2>3. TextIn(v) = text /\ RegIn(v) = reg /\ LabelIn(v) = label
    BY <2>2, IrParts
  <2> QED
    BY <2>1, <2>3 DEF TextIn, RegIn, LabelIn
<1>3. PICK a, b : a = TextIn(t) /\ b = TextIn(u)
  OBVIOUS
<1>4. PICK w : w = a \o b
  OBVIOUS
<1>5. TextIn(v) = w
  BY <1>2, <1>3, <1>4
<1>6. Listed(a) /\ Listed(b) /\ Once(a) /\ Once(b) /\ Flows(a) /\ Flows(b)
  BY <1>3 DEF Written
<1>7. /\ Begins(s) /\ Begins(t) /\ Begins(u) /\ RegIn(s) <= RegIn(t) /\ RegIn(t) <= RegIn(u)
      /\ LabelIn(s) <= LabelIn(t) /\ LabelIn(t) <= LabelIn(u)
  BY DEF Written
<1>8. /\ RegIn(s) \in Nat /\ RegIn(t) \in Nat /\ RegIn(u) \in Nat
      /\ LabelIn(s) \in Nat /\ LabelIn(t) \in Nat /\ LabelIn(u) \in Nat
  BY <1>7 DEF Begins
<1>9. /\ \A d \in Regs(a) : \E n \in Nat : RegIn(s) <= n /\ n < RegIn(t) /\ d = Reg(n)
      /\ \A d \in Regs(b) : \E n \in Nat : RegIn(t) <= n /\ n < RegIn(u) /\ d = Reg(n)
  BY <1>3 DEF Written
<1>10. /\ \A n \in LabelsOf(a) \cup P : n \in Nat /\ LabelIn(s) <= n /\ n < LabelIn(t)
       /\ \A n \in LabelsOf(b) : n \in Nat /\ LabelIn(t) <= n /\ n < LabelIn(u)
  BY <1>3 DEF Written
<1>11. Regs(a) \cap Regs(b) = {}
  <2> SUFFICES ASSUME NEW d \in Regs(a), d \in Regs(b) PROVE FALSE
    OBVIOUS
  <2>1. PICK m \in Nat : RegIn(s) <= m /\ m < RegIn(t) /\ d = Reg(m)
    BY <1>9
  <2>2. PICK n \in Nat : RegIn(t) <= n /\ n < RegIn(u) /\ d = Reg(n)
    BY <1>9
  <2>3. m = n
    BY <2>1, <2>2 DEF Reg
  <2> QED
    BY <1>8, <2>1, <2>2, <2>3
<1>12. LabelsOf(a) \cap LabelsOf(b) = {} /\ P \cap LabelsOf(b) = {}
  <2> SUFFICES ASSUME NEW n \in LabelsOf(a) \cup P, n \in LabelsOf(b) PROVE FALSE
    OBVIOUS
  <2> QED
    BY <1>8, <1>10
<1>13. Listed(w) /\ Once(w) /\ Flows(w)
  BY <1>4, <1>6, <1>11, <1>12, CatPieces
<1>14. /\ Regs(w) = Regs(a) \cup Regs(b) /\ LabelsOf(w) = LabelsOf(a) \cup LabelsOf(b)
       /\ Aims(w) = Aims(a) \cup Aims(b)
  BY <1>4, <1>6, CatPieces, ZenonT(40)
<1>15. \A d \in Regs(w) : \E n \in Nat : RegIn(s) <= n /\ n < RegIn(v) /\ d = Reg(n)
  <2>1. ASSUME NEW d \in Regs(a) PROVE \E n \in Nat : RegIn(s) <= n /\ n < RegIn(u) /\ d = Reg(n)
    <3>1. PICK n \in Nat : RegIn(s) <= n /\ n < RegIn(t) /\ d = Reg(n)
      BY <1>9, <2>1
    <3>2. n < RegIn(u)
      BY <1>7, <1>8, <3>1
    <3> QED
      BY <3>1, <3>2
  <2>2. ASSUME NEW d \in Regs(b) PROVE \E n \in Nat : RegIn(s) <= n /\ n < RegIn(u) /\ d = Reg(n)
    <3>1. PICK n \in Nat : RegIn(t) <= n /\ n < RegIn(u) /\ d = Reg(n)
      BY <1>9, <2>2
    <3>2. RegIn(s) <= n
      BY <1>7, <1>8, <3>1
    <3> QED
      BY <3>1, <3>2
  <2> QED
    BY <1>2, <1>14, <2>1, <2>2
<1>16. \A n \in LabelsOf(w) \cup P : n \in Nat /\ LabelIn(s) <= n /\ n < LabelIn(v)
  <2>1. ASSUME NEW n \in LabelsOf(a) \cup P PROVE n \in Nat /\ LabelIn(s) <= n /\ n < LabelIn(u)
    BY <1>7, <1>8, <1>10, <2>1
  <2>2. ASSUME NEW n \in LabelsOf(b) PROVE n \in Nat /\ LabelIn(s) <= n /\ n < LabelIn(u)
    BY <1>7, <1>8, <1>10, <2>2
  <2> QED
    BY <1>2, <1>14, <2>1, <2>2
<1>17. LabelsOf(w) \cap P = {} /\ Aims(w) \subseteq LabelsOf(w) \cup P
  <2>1. LabelsOf(a) \cap P = {} /\ Aims(a) \subseteq LabelsOf(a) \cup P /\ Aims(b) \subseteq LabelsOf(b)
    BY <1>3 DEF Written
  <2> QED
    BY <1>12, <1>14, <2>1
<1>18. Begins(v) /\ RegIn(s) <= RegIn(v) /\ LabelIn(s) <= LabelIn(v)
  BY <1>2, <1>7, <1>8 DEF Begins
<1>19. Written(s, v, P)
  BY <1>5, <1>7, <1>13, <1>15, <1>16, <1>17, <1>18 DEF Written
<1> QED
  BY <1>1, <1>3, <1>5, <1>14, <1>19

\* A piece whose labels were taken before.
Adds(t, P, b, v) ==
    /\ Listed(b) /\ Once(b) /\ Flows(b)
    /\ TextIn(v) = TextIn(t) \o b /\ LabelIn(v) = LabelIn(t)
    /\ RegIn(v) \in Nat /\ RegIn(t) <= RegIn(v)
    /\ \A d \in Regs(b) : \E n \in Nat : RegIn(t) <= n /\ n < RegIn(v) /\ d = Reg(n)
    /\ LabelsOf(b) \subseteq P /\ Aims(b) \subseteq LabelsOf(TextIn(t)) \cup P

LEMMA PieceWritten ==
    ASSUME NEW s, NEW t, NEW P, Written(s, t, P), NEW b, NEW v, Adds(t, P, b, v)
    PROVE  /\ Written(s, v, P \ LabelsOf(b))
           /\ LabelsOf(TextIn(v)) = LabelsOf(TextIn(t)) \cup LabelsOf(b)
<1>0. /\ Listed(b) /\ Once(b) /\ Flows(b)
      /\ TextIn(v) = TextIn(t) \o b /\ LabelIn(v) = LabelIn(t)
      /\ RegIn(v) \in Nat /\ RegIn(t) <= RegIn(v)
      /\ \A d \in Regs(b) : \E n \in Nat : RegIn(t) <= n /\ n < RegIn(v) /\ d = Reg(n)
      /\ LabelsOf(b) \subseteq P /\ Aims(b) \subseteq LabelsOf(TextIn(t)) \cup P
  BY DEF Adds
<1>1. PICK a : a = TextIn(t)
  OBVIOUS
<1>2. PICK w : w = a \o b
  OBVIOUS
<1>3. TextIn(v) = w /\ Listed(a) /\ Once(a) /\ Flows(a)
  BY <1>0, <1>1, <1>2 DEF Written
<1>4. /\ Begins(s) /\ Begins(t) /\ RegIn(s) <= RegIn(t) /\ LabelIn(s) <= LabelIn(t)
      /\ RegIn(s) \in Nat /\ RegIn(t) \in Nat /\ LabelIn(s) \in Nat /\ LabelIn(t) \in Nat
  BY DEF Written, Begins
<1>5. \A d \in Regs(a) : \E n \in Nat : RegIn(s) <= n /\ n < RegIn(t) /\ d = Reg(n)
  BY <1>1 DEF Written
<1>6. /\ \A n \in LabelsOf(a) \cup P : n \in Nat /\ LabelIn(s) <= n /\ n < LabelIn(t)
      /\ LabelsOf(a) \cap P = {} /\ Aims(a) \subseteq LabelsOf(a) \cup P
  BY <1>1 DEF Written
<1>7. Regs(a) \cap Regs(b) = {}
  <2> SUFFICES ASSUME NEW d \in Regs(a), d \in Regs(b) PROVE FALSE
    OBVIOUS
  <2>1. PICK m \in Nat : RegIn(s) <= m /\ m < RegIn(t) /\ d = Reg(m)
    BY <1>5
  <2>2. PICK n \in Nat : RegIn(t) <= n /\ n < RegIn(v) /\ d = Reg(n)
    BY <1>0
  <2>3. m = n
    BY <2>1, <2>2 DEF Reg
  <2> QED
    BY <1>4, <2>1, <2>2, <2>3
<1>8. LabelsOf(a) \cap LabelsOf(b) = {}
  BY <1>0, <1>6
<1>9. Listed(w) /\ Once(w) /\ Flows(w)
  BY <1>0, <1>2, <1>3, <1>7, <1>8, CatPieces
<1>10. /\ Regs(w) = Regs(a) \cup Regs(b) /\ LabelsOf(w) = LabelsOf(a) \cup LabelsOf(b)
       /\ Aims(w) = Aims(a) \cup Aims(b)
  <2>1. Listed(a) /\ Listed(b) /\ w = a \o b
    BY <1>0, <1>2, <1>3
  <2> QED
    BY ONLY <2>1, CatPieces, ZenonT(40)
<1>11. \A d \in Regs(w) : \E n \in Nat : RegIn(s) <= n /\ n < RegIn(v) /\ d = Reg(n)
  <2>1. ASSUME NEW d \in Regs(a) PROVE \E n \in Nat : RegIn(s) <= n /\ n < RegIn(v) /\ d = Reg(n)
    <3>1. PICK n \in Nat : RegIn(s) <= n /\ n < RegIn(t) /\ d = Reg(n)
      BY <1>5, <2>1
    <3>2. n < RegIn(v)
      BY <1>0, <1>4, <3>1
    <3> QED
      BY <3>1, <3>2
  <2>2. ASSUME NEW d \in Regs(b) PROVE \E n \in Nat : RegIn(s) <= n /\ n < RegIn(v) /\ d = Reg(n)
    <3>1. PICK n \in Nat : RegIn(t) <= n /\ n < RegIn(v) /\ d = Reg(n)
      BY <1>0, <2>2
    <3>2. RegIn(s) <= n
      BY <1>0, <1>4, <3>1
    <3> QED
      BY <3>1, <3>2
  <2> QED
    BY <1>10, <2>1, <2>2
<1>12. PICK R : R = P \ LabelsOf(b)
  OBVIOUS
<1>13. /\ \A n \in LabelsOf(w) \cup R : n \in Nat /\ LabelIn(s) <= n /\ n < LabelIn(v)
       /\ LabelsOf(w) \cap R = {} /\ Aims(w) \subseteq LabelsOf(w) \cup R
  <2>1. LabelsOf(w) \cup R = LabelsOf(a) \cup P
    BY <1>0, <1>10, <1>12
  <2>2. Aims(b) \subseteq LabelsOf(a) \cup P
    BY <1>0, <1>1
  <2> QED
    BY <1>0, <1>6, <1>10, <1>12, <2>1, <2>2
<1>14. Begins(v) /\ RegIn(s) <= RegIn(v) /\ LabelIn(s) <= LabelIn(v)
  BY <1>0, <1>4 DEF Begins
<1>15. Written(s, v, R)
  <2>1. \A d \in Regs(TextIn(v)) : \E n \in Nat : RegIn(s) <= n /\ n < RegIn(v) /\ d = Reg(n)
    BY ONLY <1>3, <1>11
  <2>2. Listed(TextIn(v)) /\ Once(TextIn(v)) /\ Flows(TextIn(v))
    BY ONLY <1>3, <1>9
  <2>3. /\ \A n \in LabelsOf(TextIn(v)) \cup R : n \in Nat /\ LabelIn(s) <= n /\ n < LabelIn(v)
        /\ LabelsOf(TextIn(v)) \cap R = {} /\ Aims(TextIn(v)) \subseteq LabelsOf(TextIn(v)) \cup R
    BY ONLY <1>3, <1>13
  <2> QED
    BY ONLY <1>4, <1>14, <2>1, <2>2, <2>3 DEF Written
<1> QED
  BY <1>1, <1>3, <1>10, <1>12, <1>15

LEMMA EmitParts ==
    ASSUME NEW t, NEW op, NEW l, NEW r
    PROVE  /\ TextIn(Emit(t, op, l, r)) = Append(TextIn(t), Line3(op, None, l, r))
           /\ RegIn(Emit(t, op, l, r)) = RegIn(t) /\ LabelIn(Emit(t, op, l, r)) = LabelIn(t)
           /\ TextIn(Define(t, op, l, r)) = Append(TextIn(t), Line3(op, Reg(RegIn(t)), l, r))
           /\ RegIn(Define(t, op, l, r)) = RegIn(t) + 1 /\ LabelIn(Define(t, op, l, r)) = LabelIn(t)
<1>1. PICK text, reg, label, frames : text = TextIn(t) /\ reg = RegIn(t) /\ label = LabelIn(t) /\ frames = t.frames
  OBVIOUS
<1>2. PICK x, y : x = Append(text, Line3(op, None, l, r)) /\ y = Append(text, Line3(op, Reg(reg), l, r))
  OBVIOUS
<1>3. Emit(t, op, l, r) = Ir(x, reg, label, frames) /\ Define(t, op, l, r) = Ir(y, reg + 1, label, frames)
  BY <1>1, <1>2 DEF Emit, Define, TextIn, RegIn, LabelIn
<1>4. /\ TextIn(Emit(t, op, l, r)) = x /\ RegIn(Emit(t, op, l, r)) = reg /\ LabelIn(Emit(t, op, l, r)) = label
      /\ TextIn(Define(t, op, l, r)) = y /\ RegIn(Define(t, op, l, r)) = reg + 1
      /\ LabelIn(Define(t, op, l, r)) = label
  BY <1>3, IrParts
<1> QED
  BY <1>1, <1>2, <1>4

\* One instruction.
LEMMA LineWritten ==
    ASSUME NEW s, NEW t, NEW P, Written(s, t, P), NEW op, op \notin {"jmp", "br", "label"}, NEW l, NEW r
    PROVE  Written(s, Emit(t, op, l, r), P) /\ Written(s, Define(t, op, l, r), P)
<1>1. ASSUME NEW dst, NEW v, TextIn(v) = Append(TextIn(t), Line3(op, dst, l, r)), LabelIn(v) = LabelIn(t),
             \/ dst = None /\ RegIn(v) = RegIn(t)
             \/ dst = Reg(RegIn(t)) /\ RegIn(v) = RegIn(t) + 1
      PROVE  Written(s, v, P)
  <2>0. PICK x : x = Line3(op, dst, l, r)
    OBVIOUS
  <2>1. PICK b : b = << x >>
    OBVIOUS
  <2>2. /\ Listed(b) /\ Once(b) /\ Flows(b) /\ LabelsOf(b) = {} /\ Aims(b) = {}
        /\ Regs(b) = IF dst = None THEN {} ELSE {dst}
    <3>1. x.op = op /\ x.dst = dst
      BY <2>0 DEF Line3
    <3>2. x.op \notin {"jmp", "br", "label"}
      BY <3>1
    <3> QED
      BY <2>1, <3>1, <3>2, OneLine
  <2>3. RegIn(t) \in Nat /\ Listed(TextIn(t))
    BY DEF Written, Begins
  <2>4. TextIn(v) = TextIn(t) \o b
    <3>1. Append(TextIn(t), x) = TextIn(t) \o << x >>
      BY <2>3, AppendText
    <3> QED
      BY <1>1, <2>0, <2>1, <3>1
  <2>5. RegIn(v) \in Nat /\ RegIn(t) <= RegIn(v)
    BY <1>1, <2>3
  <2>6. \A d \in Regs(b) : \E n \in Nat : RegIn(t) <= n /\ n < RegIn(v) /\ d = Reg(n)
    <3> SUFFICES ASSUME NEW d \in Regs(b) PROVE RegIn(v) = RegIn(t) + 1 /\ d = Reg(RegIn(t))
      BY <2>3
    <3> QED
      BY <1>1, <2>2
  <2>7. LabelsOf(b) \subseteq P /\ Aims(b) \subseteq LabelsOf(TextIn(t)) \cup P /\ P \ LabelsOf(b) = P
    BY <2>2
  <2>8. Written(s, v, P \ LabelsOf(b))
    <3>1. Adds(t, P, b, v)
      BY <1>1, <2>2, <2>4, <2>5, <2>6, <2>7 DEF Adds
    <3> QED
      BY <3>1, PieceWritten
  <2> QED
    BY <2>7, <2>8
<1>2. Written(s, Emit(t, op, l, r), P)
  BY <1>1, EmitParts
<1>3. Written(s, Define(t, op, l, r), P)
  BY <1>1, EmitParts
<1> QED
  BY <1>2, <1>3

\* A branch and the label after it, which is no longer to come.
LEMMA PartWritten ==
    ASSUME NEW s, NEW t, NEW P, Written(s, t, P), NEW op \in {"jmp", "br"}, NEW l, NEW r, NEW label \in P,
           op = "jmp" => l \in LabelsOf(TextIn(t)) \cup P,
           op = "br" => {r[1], r[2]} \subseteq LabelsOf(TextIn(t)) \cup P
    PROVE  /\ Written(s, Part(t, op, l, r, label), P \ {label})
           /\ LabelsOf(TextIn(Part(t, op, l, r, label))) = LabelsOf(TextIn(t)) \cup {label}
           /\ LabelIn(Part(t, op, l, r, label)) = LabelIn(t)
<1>1. PICK v : v = Part(t, op, l, r, label)
  OBVIOUS
<1>2. PICK x, y : x = Line3(op, None, l, r) /\ y = Line3("label", None, label, None)
  OBVIOUS
<1>3. TextIn(v) = Append(Append(TextIn(t), x), y) /\ RegIn(v) = RegIn(t) /\ LabelIn(v) = LabelIn(t)
  <2>1. PICK u : u = Emit(t, op, l, r)
    OBVIOUS
  <2>2. TextIn(u) = Append(TextIn(t), x) /\ RegIn(u) = RegIn(t) /\ LabelIn(u) = LabelIn(t)
    BY <1>2, <2>1, EmitParts
  <2>3. v = Emit(u, "label", label, None)
    BY <1>1, <2>1 DEF Part
  <2>4. TextIn(v) = Append(TextIn(u), y) /\ RegIn(v) = RegIn(u) /\ LabelIn(v) = LabelIn(u)
    BY <1>2, <2>3, EmitParts
  <2> QED
    BY <2>2, <2>4
<1>4. PICK b : b = << x, y >>
  OBVIOUS
<1>5. /\ Listed(b) /\ Once(b) /\ Flows(b) /\ LabelsOf(b) = {label} /\ Regs(b) = {}
      /\ Aims(b) = IF op = "jmp" THEN {l} ELSE {r[1], r[2]}
  BY <1>2, <1>4, PartLines
<1>6. RegIn(t) \in Nat /\ Listed(TextIn(t))
  BY DEF Written, Begins
<1>7. TextIn(v) = TextIn(t) \o b
  BY <1>3, <1>4, <1>6, AppendText
<1>8. LabelsOf(b) \subseteq P /\ Aims(b) \subseteq LabelsOf(TextIn(t)) \cup P
  <2>1. CASE op = "jmp"
    BY <1>5, <2>1
  <2>2. CASE op = "br"
    BY <1>5, <2>2
  <2> QED
    BY <2>1, <2>2
<1>9. RegIn(v) \in Nat /\ RegIn(t) <= RegIn(v)
  BY <1>3, <1>6
<1>10. /\ Written(s, v, P \ LabelsOf(b))
       /\ LabelsOf(TextIn(v)) = LabelsOf(TextIn(t)) \cup LabelsOf(b)
  <2>1. \A d \in Regs(b) : \E n \in Nat : RegIn(t) <= n /\ n < RegIn(v) /\ d = Reg(n)
    BY <1>5
  <2>2. Adds(t, P, b, v)
    BY <1>3, <1>5, <1>7, <1>8, <1>9, <2>1 DEF Adds
  <2> QED
    BY <2>2, PieceWritten
<1> QED
  BY <1>1, <1>3, <1>5, <1>10

\* What is written does not depend on the names in scope.
LEMMA SameWritten ==
    ASSUME NEW s, NEW t, NEW P, Written(s, t, P),
           NEW u, RegIn(u) = RegIn(s), LabelIn(u) = LabelIn(s),
           NEW v, TextIn(v) = TextIn(t), RegIn(v) = RegIn(t), LabelIn(v) = LabelIn(t)
    PROVE  Written(u, v, P)
  BY DEF Written, Begins

-----------------------------------------------------------------------------
(***************************************************************************)
(* LLVM IR.                                                                *)
(***************************************************************************)
\* What is emitted for an expression, for a statement and for a sequence of them
\* follows from what is for their parts.
NodeIr(s, st) ==
    LET v    == IrExpr(IrHead(s, st), OwnExpr(st))
        into == IrInto(s, v, st)
    IN IrStmtOf(v, IrLeft(into, IrStmts(IrEntered(into), st.body)), s, st)
IrOf(e) == \A s : IrExpr(s, e) = IrExprOf(IrExpr(s, e.l), IrExpr(IrExpr(s, e.l).s, e.r), s, e)
IrOfBlock(q) ==
    \A s : IrStmts(s, q) = IrOneByOne(NodeIr(s, Head(q)), IrStmts(NodeIr(s, Head(q)), Tail(q)), s, q)

\* The programs of a file, one after the other.
Main(s, q) == IrLeft(s, IrStmts(IrEntered(s), q))
IrOfPrograms(ps) ==
    \A s : IrPrograms(s, ps) =
              IrOneByOne(Main(s, Head(ps)), IrPrograms(Main(s, Head(ps)), Tail(ps)), s, ps)

ComesOut(e)      == \A s : Begins(s) => Written(s, IrExpr(s, e).s, {})
BlockComesOut(q) == \A s : Begins(s) => Written(s, IrStmts(s, q), {})
AllComeOut(ps)   == \A s : Begins(s) => Written(s, IrPrograms(s, ps), {})

LEMMA IrExprForm ==
    ASSUME NEW a, NEW b, NEW s, NEW e
    PROVE  /\ e.k = "lit" => IrExprOf(a, b, s, e).s = Nothing(s)
           /\ e.k = "var" =>
                 \E y : IrExprOf(a, b, s, e).s = Define(Nothing(s), "load", y, None)
           /\ e.k \in {"add", "cmp"} =>
                 \E op, y, z : /\ op \notin {"jmp", "br", "label"}
                              /\ IrExprOf(a, b, s, e).s = Define(Continued(a.s, b.s), op, y, z)
<1>1. CASE e.k = "lit"
  <2>1. PICK t, v : t = Nothing(s) /\ v = Const32(e.v)
    OBVIOUS
  <2>2. IrExprOf(a, b, s, e) = IrValue(t, v)
    BY <1>1, <2>1 DEF IrExprOf
  <2>3. IrValue(t, v).s = t
    BY IrParts
  <2> QED
    BY <1>1, <2>1, <2>2, <2>3
<1>2. CASE e.k = "var"
  <2>1. PICK y : y = LookedUp(s.frames, e.name)
    OBVIOUS
  <2>2. PICK t, v : t = Define(Nothing(s), "load", y, None) /\ v = Reg(s.reg)
    OBVIOUS
  <2>3. IrExprOf(a, b, s, e) = IrValue(t, v)
    BY <1>2, <2>1, <2>2 DEF IrExprOf
  <2>4. IrValue(t, v).s = t
    BY IrParts
  <2>5. IrExprOf(a, b, s, e).s = Define(Nothing(s), "load", y, None)
    BY <2>2, <2>3, <2>4
  <2> QED
    BY <1>2, <2>5
<1>3. CASE e.k \in {"add", "cmp"}
  <2>1. PICK op : op = IF e.k = "add" THEN "add" ELSE IF e.op = "==" THEN "eq" ELSE "ne"
    OBVIOUS
  <2>2. PICK t, v : t = Define(Continued(a.s, b.s), op, a.v, b.v) /\ v = Reg(b.s.reg)
    OBVIOUS
  <2>3. IrExprOf(a, b, s, e) = IrValue(t, v)
    BY <1>3, <2>1, <2>2 DEF IrExprOf
  <2>4. IrValue(t, v).s = t
    BY IrParts
  <2>5. IrExprOf(a, b, s, e).s = Define(Continued(a.s, b.s), op, a.v, b.v)
    BY <2>2, <2>3, <2>4
  <2>6. op \notin {"jmp", "br", "label"}
    BY <2>1
  <2> QED
    BY <1>3, <2>5, <2>6
<1> QED
  BY <1>1, <1>2, <1>3

LEMMA NodeComesOut ==
    ASSUME NEW T, NEW Rank, NEW Inside, AllExpressions(T, Rank, Inside), \A e \in T : IrOf(e),
           NEW e \in T, \A d \in T : Rank[d] < Rank[e] => ComesOut(d)
    PROVE  ComesOut(e)
<1> SUFFICES ASSUME NEW s, Begins(s) PROVE Written(s, IrExpr(s, e).s, {})
  BY DEF ComesOut
<1>1. PICK x : x = IrExpr(s, e)
  OBVIOUS
<1>2. PICK a : a = IrExpr(s, e.l)
  OBVIOUS
<1>3. PICK b : b = IrExpr(a.s, e.r)
  OBVIOUS
<1>4. x = IrExprOf(a, b, s, e)
  BY <1>1, <1>2, <1>3 DEF IrOf
<1>5. CASE \E kind \in Kinds, v \in Nat : e = Lit(kind, v)
  <2>1. e.k = "lit"
    BY <1>5, KindsApart
  <2>2. x.s = Nothing(s)
    BY <1>4, <2>1, IrExprForm
  <2> QED
    BY <1>1, <2>2, NothingWritten
<1>6. CASE \E n \in Names, id \in Nat : e = Var(n, id)
  <2>0. e.k = "var"
    BY <1>6, KindsApart
  <2>1. PICK y : x.s = Define(Nothing(s), "load", y, None)
    BY <1>4, <2>0, IrExprForm
  <2>2. Written(s, Nothing(s), {})
    BY NothingWritten
  <2> QED
    BY <1>1, <2>1, <2>2, LineWritten
<1>7. CASE \E l, r \in T :
              /\ Rank[l] < Rank[e] /\ Rank[r] < Rank[e]
              /\ e = Add(l, r) \/ \E op \in {"==", "!="} : e = Compare(op, l, r)
  <2>1. PICK l \in T, r \in T :
              /\ Rank[l] < Rank[e] /\ Rank[r] < Rank[e]
              /\ e = Add(l, r) \/ \E op \in {"==", "!="} : e = Compare(op, l, r)
    BY <1>7
  <2>2. e.l = l /\ e.r = r /\ e.k \in {"add", "cmp"}
    BY <2>1, KindsApart
  <2>3. PICK op, y, z : op \notin {"jmp", "br", "label"} /\ x.s = Define(Continued(a.s, b.s), op, y, z)
    BY <1>4, <2>2, IrExprForm
  <2>4. Written(s, a.s, {})
    BY <1>2, <2>1, <2>2 DEF ComesOut
  <2>5. Written(a.s, b.s, {})
    <3>1. Begins(a.s)
      BY <2>4 DEF Written
    <3> QED
      BY <1>3, <2>1, <2>2, <3>1 DEF ComesOut
  <2>6. Written(s, Continued(a.s, b.s), {})
    BY <2>4, <2>5, WrittenOn
  <2> QED
    BY <1>1, <2>3, <2>6, LineWritten
<1>8. Built(T, Rank, e)
  BY DEF AllExpressions
<1> QED
  BY <1>5, <1>6, <1>7, <1>8 DEF Built

LEMMA ExpressionsComeOut ==
    ASSUME NEW T, NEW Rank, NEW Inside, AllExpressions(T, Rank, Inside), \A e \in T : IrOf(e)
    PROVE  \A e \in T : ComesOut(e)
<1>1. PICK W : W = {e \in T : ComesOut(e)}
  OBVIOUS
<1>2. Rank \in [T -> Nat]
  BY DEF AllExpressions
<1>3. \A e \in T : (\A d \in T : Rank[d] < Rank[e] => d \in W) => e \in W
  BY <1>1, NodeComesOut
<1>4. T \subseteq W
  BY <1>2, <1>3, EveryMember
<1> QED
  BY <1>1, <1>4

\* IfStatement and WhileStatement: the labels that are still to come after each part.
LEMMA IfComesOut ==
    ASSUME NEW s, NEW c, Written(s, c.s, {}),
           NEW body, Begins(IrThen(c)) => Written(IrThen(c), body, {})
    PROVE  Written(s, IrEndIf(c, body), {})
<1>1. PICK k : k = LabelIn(c.s)
  OBVIOUS
<1>2. k \in Nat
  BY <1>1 DEF Written, Begins
<1>3. PICK t : t = Labels(c.s, 2)
  OBVIOUS
<1>4. Written(s, t, {k, k + 1})
  <2>1. PICK Q : Q = LabelIn(c.s) .. LabelIn(c.s) + 2 - 1
    OBVIOUS
  <2>2. Written(s, t, {} \cup Q)
    BY <1>3, <2>1, LabelsWritten
  <2>3. {} \cup Q = {k, k + 1}
    BY <1>1, <1>2, <2>1
  <2> QED
    BY <2>2, <2>3
<1>5. PICK pair : pair = << k, k + 1 >>
  OBVIOUS
<1>6. IrThen(c) = Part(t, "br", c.v, pair, k)
  BY <1>1, <1>3, <1>5 DEF IrThen, LabelIn
<1>7. Written(s, IrThen(c), {k + 1})
  <2>1. {pair[1], pair[2]} \subseteq LabelsOf(TextIn(t)) \cup {k, k + 1}
    BY <1>5
  <2>2. Written(s, Part(t, "br", c.v, pair, k), {k, k + 1} \ {k})
    BY <1>4, <2>1, PartWritten
  <2>3. {k, k + 1} \ {k} = {k + 1}
    BY <1>2
  <2> QED
    BY <1>6, <2>2, <2>3
<1>8. PICK u : u = Continued(IrThen(c), body)
  OBVIOUS
<1>9. Written(s, u, {k + 1})
  <2>1. Written(IrThen(c), body, {})
    BY <1>7 DEF Written
  <2> QED
    BY <1>7, <1>8, <2>1, WrittenOn
<1>10. IrEndIf(c, body) = Part(u, "jmp", k + 1, None, k + 1)
  BY <1>1, <1>8 DEF IrEndIf, LabelIn
<1>11. Written(s, Part(u, "jmp", k + 1, None, k + 1), {k + 1} \ {k + 1})
  BY <1>9, PartWritten
<1>12. {k + 1} \ {k + 1} = {}
  OBVIOUS
<1> QED
  BY <1>10, <1>11, <1>12

LEMMA TurnComesOut ==
    ASSUME NEW s, Begins(s), NEW k, k = LabelIn(s)
    PROVE  /\ k \in Nat /\ Begins(IrTurn(s)) /\ Written(s, IrTurn(s), {k + 1, k + 2})
           /\ k \in LabelsOf(TextIn(IrTurn(s)))
<1>1. k \in Nat
  BY DEF Begins
<1>2. PICK n : n = Nothing(s)
  OBVIOUS
<1>3. Written(s, n, {}) /\ LabelIn(n) = k
  BY <1>2, NothingWritten
<1>4. PICK t : t = Labels(n, 3)
  OBVIOUS
<1>5. Written(s, t, {k, k + 1, k + 2})
  <2>1. PICK Q : Q = LabelIn(n) .. LabelIn(n) + 3 - 1
    OBVIOUS
  <2>2. Written(s, t, {} \cup Q)
    BY <1>3, <1>4, <2>1, LabelsWritten
  <2>3. {} \cup Q = {k, k + 1, k + 2}
    BY <1>1, <1>3, <2>1
  <2> QED
    BY <2>2, <2>3
<1>6. IrTurn(s) = Part(t, "jmp", k, None, k)
  BY <1>2, <1>4 DEF IrTurn, LabelIn
<1>7. /\ Written(s, Part(t, "jmp", k, None, k), {k, k + 1, k + 2} \ {k})
      /\ LabelsOf(TextIn(Part(t, "jmp", k, None, k))) = LabelsOf(TextIn(t)) \cup {k}
  BY <1>5, PartWritten
<1>8. {k, k + 1, k + 2} \ {k} = {k + 1, k + 2}
  BY <1>1
<1>9. Written(s, IrTurn(s), {k + 1, k + 2}) /\ k \in LabelsOf(TextIn(IrTurn(s)))
  BY <1>6, <1>7, <1>8
<1> QED
  BY <1>1, <1>9 DEF Written

LEMMA WhileComesOut ==
    ASSUME NEW s, Begins(s), NEW c, Written(IrTurn(s), c.s, {}),
           NEW body, Begins(IrDo(s, c)) => Written(IrDo(s, c), body, {})
    PROVE  Written(s, IrEndWhile(s, c, body), {})
<1>1. PICK k : k = LabelIn(s)
  OBVIOUS
<1>2. /\ k \in Nat /\ Written(s, IrTurn(s), {k + 1, k + 2})
      /\ k \in LabelsOf(TextIn(IrTurn(s)))
  BY <1>1, TurnComesOut
<1>3. PICK t : t = Continued(IrTurn(s), c.s)
  OBVIOUS
<1>4. Written(s, t, {k + 1, k + 2}) /\ k \in LabelsOf(TextIn(t))
  BY <1>2, <1>3, WrittenOn
<1>5. PICK pair : pair = << k + 1, (k + 1) + 1 >>
  OBVIOUS
<1>6. PICK d : d = IrDo(s, c)
  OBVIOUS
<1>7. d = Part(t, "br", c.v, pair, k + 1)
  BY <1>1, <1>3, <1>5, <1>6 DEF IrDo, LabelIn
<1>8. Written(s, d, {k + 2}) /\ k \in LabelsOf(TextIn(d))
  <2>1. {pair[1], pair[2]} \subseteq LabelsOf(TextIn(t)) \cup {k + 1, k + 2}
    BY <1>2, <1>5
  <2>2. /\ Written(s, Part(t, "br", c.v, pair, k + 1), {k + 1, k + 2} \ {k + 1})
        /\ LabelsOf(TextIn(Part(t, "br", c.v, pair, k + 1))) = LabelsOf(TextIn(t)) \cup {k + 1}
    BY <1>4, <2>1, PartWritten
  <2>3. {k + 1, k + 2} \ {k + 1} = {k + 2}
    BY <1>2
  <2> QED
    BY <1>4, <1>7, <2>2, <2>3
<1>9. Begins(d)
  BY <1>8 DEF Written
<1>10. PICK u : u = Continued(d, body)
  OBVIOUS
<1>11. Written(s, u, {k + 2}) /\ k \in LabelsOf(TextIn(u))
  <2>1. Written(d, body, {})
    BY <1>6, <1>9
  <2>2. Written(s, u, {k + 2}) /\ LabelsOf(TextIn(d)) \subseteq LabelsOf(TextIn(u))
    BY <1>8, <1>10, <2>1, WrittenOn
  <2> QED
    BY <1>8, <2>2
<1>12. IrEndWhile(s, c, body) = Part(u, "jmp", k, None, k + 2)
  BY <1>1, <1>6, <1>10 DEF IrEndWhile, LabelIn
<1>13. Written(s, Part(u, "jmp", k, None, k + 2), {k + 2} \ {k + 2})
  BY <1>11, PartWritten
<1>14. {k + 2} \ {k + 2} = {}
  OBVIOUS
<1> QED
  BY <1>12, <1>13, <1>14

\* A variable: its alloca takes a number, too.
LEMMA DeclComesOut ==
    ASSUME NEW s, Begins(s), NEW st, st.k = "decl", NEW v, NEW body
    PROVE  Written(s, IrStmtOf(v, body, s, st), {})
<1>1. PICK ptr : ptr = << st.name, s.reg >>
  OBVIOUS
<1>2. PICK m : m = Emit(Nothing(s), "alloca", ptr, None)
  OBVIOUS
<1>3. PICK t : t = Emit(m, "store", Const32(0), ptr)
  OBVIOUS
<1>4. Written(s, m, {})
  BY <1>2, NothingWritten, LineWritten
<1>5. Written(s, t, {})
  BY <1>3, <1>4, LineWritten
<1>6. PICK w, reg, label, frames :
         w = TextIn(t) /\ reg = RegIn(s) + 1 /\ label = LabelIn(s) /\ frames = DeclareAs(s.frames, st.name, ptr)
  OBVIOUS
<1>7. PICK r : r = Ir(w, reg, label, frames)
  OBVIOUS
<1>8. IrStmtOf(v, body, s, st) = r
  BY <1>1, <1>2, <1>3, <1>6, <1>7 DEF IrStmtOf, TextIn, RegIn, LabelIn
<1>9. TextIn(r) = TextIn(t) /\ RegIn(r) = RegIn(s) + 1 /\ LabelIn(r) = LabelIn(s)
  BY <1>6, <1>7, IrParts
<1>10. RegIn(t) = RegIn(s) /\ LabelIn(t) = LabelIn(s) /\ RegIn(s) \in Nat /\ Listed(TextIn(t))
  <2>1. RegIn(m) = RegIn(s) /\ LabelIn(m) = LabelIn(s)
    BY <1>2, NothingWritten, EmitParts
  <2>2. RegIn(t) = RegIn(m) /\ LabelIn(t) = LabelIn(m)
    BY <1>3, EmitParts
  <2> QED
    BY <1>5, <2>1, <2>2 DEF Begins, Written
<1>11. PICK b : b = << >>
  OBVIOUS
<1>12. TextIn(t) \o b = TextIn(t)
  BY <1>10, <1>11 DEF Listed
<1>13. /\ Listed(b) /\ Once(b) /\ Flows(b) /\ Regs(b) = {} /\ LabelsOf(b) = {} /\ Aims(b) = {}
  BY <1>11, NoText
<1>14. RegIn(r) \in Nat /\ RegIn(t) <= RegIn(r)
  BY <1>9, <1>10
<1>15. Adds(t, {}, b, r)
  BY <1>9, <1>10, <1>12, <1>13, <1>14 DEF Adds
<1>16. Written(s, r, {} \ LabelsOf(b))
  BY <1>5, <1>15, PieceWritten
<1>17. {} \ LabelsOf(b) = {}
  OBVIOUS
<1> QED
  BY <1>8, <1>16, <1>17

\* A block: the names in it are its own.
LEMMA BlockWritten ==
    ASSUME NEW s, Begins(s), NEW q, BlockComesOut(q)
    PROVE  Written(s, IrLeft(s, IrStmts(IrEntered(s), q)), {})
<1>1. PICK u : u = IrEntered(s)
  OBVIOUS
<1>2. RegIn(u) = RegIn(s) /\ LabelIn(u) = LabelIn(s)
  <2>1. PICK w, reg, label, frames : w = << >> /\ reg = RegIn(s) /\ label = LabelIn(s) /\ frames = EnterScope(s.frames)
    OBVIOUS
  <2>2. u = Ir(w, reg, label, frames)
    BY <1>1, <2>1 DEF IrEntered, RegIn, LabelIn
  <2> QED
    BY <2>1, <2>2, IrParts
<1>3. Begins(u)
  BY <1>2 DEF Begins
<1>4. PICK t : t = IrStmts(u, q)
  OBVIOUS
<1>5. Written(u, t, {})
  BY <1>3, <1>4 DEF BlockComesOut
<1>6. PICK v : v = IrLeft(s, t)
  OBVIOUS
<1>7. TextIn(v) = TextIn(t) /\ RegIn(v) = RegIn(t) /\ LabelIn(v) = LabelIn(t)
  <2>1. PICK w, reg, label, frames : w = TextIn(t) /\ reg = RegIn(t) /\ label = LabelIn(t) /\ frames = s.frames
    OBVIOUS
  <2>2. v = Ir(w, reg, label, frames)
    BY <1>6, <2>1 DEF IrLeft, TextIn, RegIn, LabelIn
  <2> QED
    BY <2>1, <2>2, IrParts
<1>8. Written(s, v, {})
  BY <1>2, <1>5, <1>7, SameWritten
<1> QED
  BY <1>1, <1>4, <1>6, <1>8

LEMMA StatementComesOut ==
    ASSUME NEW T, NEW S, NEW Rank, AllStatements(T, S, Rank), \A e \in T : ComesOut(e),
           NEW s, Begins(s), NEW st \in S, \A b \in Seq(S) : BodyOf(st, b) => BlockComesOut(b)
    PROVE  Written(s, NodeIr(s, st), {})
<1>1. PICK c : c = IrExpr(IrHead(s, st), OwnExpr(st))
  OBVIOUS
<1>2. PICK into : into = IrInto(s, c, st)
  OBVIOUS
<1>3. PICK body : body = IrLeft(into, IrStmts(IrEntered(into), st.body))
  OBVIOUS
<1>4. NodeIr(s, st) = IrStmtOf(c, body, s, st)
  BY <1>1, <1>2, <1>3 DEF NodeIr
<1>5. ASSUME BlockComesOut(st.body), Begins(into) PROVE Written(into, body, {})
  BY <1>3, <1>5, BlockWritten
<1>6. CASE \E n \in Names, id \in Nat : st = Decl(n, id)
  <2>1. st.k = "decl"
    BY <1>6, StatementKinds
  <2> QED
    BY <1>4, <2>1, DeclComesOut
<1>7. CASE \E n \in Names, id \in Nat, e \in T : st = Assign(n, id, e)
  <2>1. PICK e \in T : st.k = "assign" /\ st.e = e
    BY <1>7, StatementKinds
  <2>2. c = IrExpr(s, e)
    BY <1>1, <2>1 DEF IrHead, OwnExpr, HasBody
  <2>3. Written(s, c.s, {})
    BY <2>2 DEF ComesOut
  <2>4. PICK z : z = LookedUp(s.frames, st.name)
    OBVIOUS
  <2>5. IrStmtOf(c, body, s, st) = Emit(c.s, "store", c.v, z)
    BY <2>1, <2>4 DEF IrStmtOf
  <2> QED
    BY <1>4, <2>3, <2>5, LineWritten
<1>8. CASE \E e \in T : st = PrintOf(e)
  <2>1. PICK e \in T : st.k = "print" /\ st.e = e
    BY <1>8, StatementKinds
  <2>2. c = IrExpr(s, e)
    BY <1>1, <2>1 DEF IrHead, OwnExpr, HasBody
  <2>3. Written(s, c.s, {})
    BY <2>2 DEF ComesOut
  <2>4. IrStmtOf(c, body, s, st) = Emit(c.s, "print", c.v, None)
    BY <2>1 DEF IrStmtOf
  <2> QED
    BY <1>4, <2>3, <2>4, LineWritten
<1>9. CASE \E b \in Seq(S) : st = Block(b)
  <2>1. st.k = "block" /\ BlockComesOut(st.body)
    BY <1>9, StatementKinds DEF BodyOf
  <2>2. into = s /\ IrStmtOf(c, body, s, st) = body
    BY <1>2, <2>1 DEF IrInto, IrStmtOf
  <2> QED
    BY <1>4, <1>5, <2>1, <2>2
<1>10. CASE \E e \in T, b \in Seq(S) : st = If(e, b)
  <2>1. PICK e \in T : st.k = "if" /\ st.cond = e /\ BlockComesOut(st.body)
    BY <1>10, StatementKinds DEF BodyOf
  <2>2. c = IrExpr(s, e)
    BY <1>1, <2>1 DEF IrHead, OwnExpr, HasBody
  <2>3. into = IrThen(c) /\ IrStmtOf(c, body, s, st) = IrEndIf(c, body)
    BY <1>2, <2>1 DEF IrInto, IrStmtOf
  <2>4. Written(s, c.s, {})
    BY <2>2 DEF ComesOut
  <2>5. Begins(IrThen(c)) => Written(IrThen(c), body, {})
    BY <1>5, <2>1, <2>3
  <2> QED
    BY <1>4, <2>3, <2>4, <2>5, IfComesOut
<1>11. CASE \E e \in T, b \in Seq(S) : st = While(e, b)
  <2>1. PICK e \in T : st.k = "while" /\ st.cond = e /\ BlockComesOut(st.body)
    BY <1>11, StatementKinds DEF BodyOf
  <2>2. c = IrExpr(IrTurn(s), e)
    BY <1>1, <2>1 DEF IrHead, OwnExpr, HasBody
  <2>3. into = IrDo(s, c) /\ IrStmtOf(c, body, s, st) = IrEndWhile(s, c, body)
    BY <1>2, <2>1 DEF IrInto, IrStmtOf
  <2>4. Written(IrTurn(s), c.s, {})
    <3>1. Begins(IrTurn(s))
      BY TurnComesOut
    <3> QED
      BY <2>2, <3>1 DEF ComesOut
  <2>5. Begins(IrDo(s, c)) => Written(IrDo(s, c), body, {})
    BY <1>5, <2>1, <2>3
  <2>6. Written(s, IrEndWhile(s, c, body), {})
    BY <2>4, <2>5, WhileComesOut
  <2> QED
    BY <1>4, <2>3, <2>6
<1>12. StatementOver(T, S, st)
  BY DEF AllStatements
<1> QED
  BY <1>6, <1>7, <1>8, <1>9, <1>10, <1>11, <1>12 DEF StatementOver

\* One after the other.
LEMMA TwoComeOut ==
    ASSUME NEW s, NEW first, Written(s, first, {}), NEW rest, Written(first, rest, {}), NEW q, q # << >>
    PROVE  Written(s, IrOneByOne(first, rest, s, q), {})
<1>1. IrOneByOne(first, rest, s, q) = Continued(first, rest)
  BY DEF IrOneByOne
<1> QED
  BY <1>1, WrittenOn

LEMMA NoneComeOut ==
    ASSUME NEW s, Begins(s), NEW first, NEW rest
    PROVE  Written(s, IrOneByOne(first, rest, s, << >>), {})
<1>1. IrOneByOne(first, rest, s, << >>) = Nothing(s)
  BY DEF IrOneByOne
<1> QED
  BY <1>1, NothingWritten

LEMMA BlocksComeOut ==
    ASSUME NEW T, NEW S, NEW RankS, AllStatements(T, S, RankS), \A e \in T : ComesOut(e),
           \A q \in Seq(S) : IrOfBlock(q)
    PROVE  \A q \in Seq(S) : BlockComesOut(q)
<1>1. RankS \in [Seq(S) -> Nat]
  BY DEF AllStatements
<1>2. PICK Q : Q = Seq(S)
  OBVIOUS
<1>3. PICK W : W = {q \in Q : BlockComesOut(q)}
  OBVIOUS
<1>4. ASSUME NEW q \in Q, \A b \in Q : RankS[b] < RankS[q] => b \in W PROVE q \in W
  <2> SUFFICES ASSUME NEW s, Begins(s) PROVE Written(s, IrStmts(s, q), {})
    BY <1>3 DEF BlockComesOut
  <2>1. PICK first : first = NodeIr(s, Head(q))
    OBVIOUS
  <2>2. PICK rest : rest = IrStmts(first, Tail(q))
    OBVIOUS
  <2>3. IrStmts(s, q) = IrOneByOne(first, rest, s, q)
    BY <1>2, <2>1, <2>2 DEF IrOfBlock
  <2>4. CASE q = << >>
    BY <2>3, <2>4, NoneComeOut
  <2>5. CASE q # << >>
    <3>1. /\ Head(q) \in S /\ Tail(q) \in Seq(S) /\ RankS[Tail(q)] < RankS[q]
          /\ \A b : BodyOf(Head(q), b) => RankS[b] < RankS[q]
      BY <1>2, <2>5, ListParts
    <3>2. \A b \in Seq(S) : BodyOf(Head(q), b) => BlockComesOut(b)
      BY <1>2, <1>3, <1>4, <3>1
    <3>3. Written(s, first, {})
      BY <2>1, <3>1, <3>2, StatementComesOut
    <3>4. Written(first, rest, {})
      <4>1. BlockComesOut(Tail(q)) /\ Begins(first)
        BY <1>2, <1>3, <1>4, <3>1, <3>3 DEF Written
      <4> QED
        BY <2>2, <4>1 DEF BlockComesOut
    <3> QED
      BY <2>3, <2>5, <3>3, <3>4, TwoComeOut
  <2> QED
    BY <2>4, <2>5
<1>5. Q \subseteq W
  <2>1. RankS \in [Q -> Nat] /\ \A q \in Q : (\A b \in Q : RankS[b] < RankS[q] => b \in W) => q \in W
    BY <1>1, <1>2, <1>4
  <2> QED
    BY ONLY <2>1, EveryMember
<1> QED
  BY <1>2, <1>3, <1>5

LEMMA ProgramsComeOut ==
    ASSUME NEW S, \A q \in Seq(S) : BlockComesOut(q), \A ps \in Seq(Seq(S)) : IrOfPrograms(ps)
    PROVE  \A ps \in Seq(Seq(S)) : AllComeOut(ps)
<1>1. PICK Q : Q = Seq(S)
  OBVIOUS
<1>2. PICK W : W = {n \in Nat : \A ps \in Seq(Q) : Len(ps) = n => AllComeOut(ps)}
  OBVIOUS
<1>3. ASSUME NEW n \in Nat, NEW ps \in Seq(Q), Len(ps) = n, n > 0 => n - 1 \in W PROVE AllComeOut(ps)
  <2> SUFFICES ASSUME NEW s, Begins(s) PROVE Written(s, IrPrograms(s, ps), {})
    BY DEF AllComeOut
  <2>1. PICK first : first = Main(s, Head(ps))
    OBVIOUS
  <2>2. PICK rest : rest = IrPrograms(first, Tail(ps))
    OBVIOUS
  <2>3. IrPrograms(s, ps) = IrOneByOne(first, rest, s, ps)
    BY <1>1, <2>1, <2>2 DEF IrOfPrograms
  <2>4. CASE ps = << >>
    BY <2>3, <2>4, NoneComeOut
  <2>5. CASE ps # << >>
    <3>1. Head(ps) \in Q /\ Tail(ps) \in Seq(Q) /\ Len(Tail(ps)) = n - 1 /\ n > 0
      BY <1>3, <2>5
    <3>2. Written(s, first, {})
      <4>1. BlockComesOut(Head(ps))
        BY <1>1, <3>1
      <4> QED
        BY <2>1, <4>1, BlockWritten DEF Main
    <3>3. AllComeOut(Tail(ps)) /\ Begins(first)
      BY <1>2, <1>3, <3>1, <3>2 DEF Written
    <3>4. Written(first, rest, {})
      BY <2>2, <3>3 DEF AllComeOut
    <3> QED
      BY <2>3, <2>5, <3>2, <3>4, TwoComeOut
  <2> QED
    BY <2>4, <2>5
<1>4. 0 \in W
  <2>1. ASSUME NEW ps \in Seq(Q), Len(ps) = 0 PROVE AllComeOut(ps)
    <3>1. 0 \in Nat /\ ~(0 > 0)
      OBVIOUS
    <3>2. PICK n \in Nat : n = 0
      BY <3>1
    <3> QED
      BY <1>3, <2>1, <3>1, <3>2
  <2> QED
    BY <1>2, <2>1
<1>5. ASSUME NEW n \in Nat, n \in W PROVE n + 1 \in W
  <2>1. n + 1 \in Nat /\ (n + 1) - 1 = n
    OBVIOUS
  <2>2. \A ps \in Seq(Q) : Len(ps) = n + 1 => AllComeOut(ps)
    BY <1>3, <1>5, <2>1
  <2> QED
    BY <1>2, <2>1, <2>2
<1>6. Nat \subseteq W
  BY <1>4, <1>5, EveryNumber
<1> SUFFICES ASSUME NEW ps \in Seq(Q) PROVE AllComeOut(ps)
  BY <1>1
<1>7. Len(ps) \in Nat
  OBVIOUS
<1> QED
  BY <1>2, <1>6, <1>7

\* What LlvmEmitter::emit writes is what LLVM takes: a register is defined once, a
\* label stands once, every branch leads to a label that is there, and the code is
\* in basic blocks, so a label comes after a branch and nothing else does; whatever
\* the programs of the file.
THEOREM IrIsWellFormed ==
    ASSUME NEW T, NEW S, NEW RankT, NEW RankS, NEW Inside,
           AllExpressions(T, RankT, Inside), AllStatements(T, S, RankS),
           \A e \in T : IrOf(e), \A q \in Seq(S) : IrOfBlock(q), \A ps \in Seq(Seq(S)) : IrOfPrograms(ps),
           NEW programs \in Seq(Seq(S))
    PROVE  WellFormed(IrEnded(IrPrograms(IrBegun, programs)))
<1>1. AllComeOut(programs)
  <2>1. \A e \in T : ComesOut(e)
    BY ExpressionsComeOut
  <2>2. \A q \in Seq(S) : BlockComesOut(q)
    BY <2>1, BlocksComeOut
  <2> QED
    BY <2>2, ProgramsComeOut
<1>2. Begins(IrBegun)
  <2>1. PICK w, frames : w = << >> /\ frames = << NoScope >>
    OBVIOUS
  <2>2. IrBegun = Ir(w, 0, 0, frames)
    BY <2>1 DEF IrBegun
  <2>3. RegIn(IrBegun) = 0 /\ LabelIn(IrBegun) = 0
    BY <2>2, IrParts
  <2> QED
    BY <2>3 DEF Begins
<1>3. PICK t : t = Emit(IrPrograms(IrBegun, programs), "ret", None, None)
  OBVIOUS
<1>4. Written(IrBegun, t, {})
  <2>1. Written(IrBegun, IrPrograms(IrBegun, programs), {})
    BY <1>1, <1>2 DEF AllComeOut
  <2> QED
    BY <1>3, <2>1, LineWritten
<1>5. PICK w : w = TextIn(t)
  OBVIOUS
<1>6. Once(w) /\ Flows(w) /\ Aims(w) \subseteq LabelsOf(w)
  BY <1>4, <1>5 DEF Written
<1>7. \A i \in BranchAt(w) : Targets(w[i]) \subseteq {w[j].l : j \in LabelAt(w)}
  BY <1>6 DEF Aims, LabelsOf
<1>8. WellFormed(w)
  BY <1>6, <1>7 DEF WellFormed, Once, Flows
<1> QED
  BY <1>3, <1>5, <1>8 DEF IrEnded, TextIn

-----------------------------------------------------------------------------
(***************************************************************************)
(* Aliases.                                                                *)
(***************************************************************************)
Aliases == Names \X Nat

\* The scopes of the emitter next to those of the names: what stands for a name that
\* is visible is in seen, and the numbers from id on are new.
Framed(frames, sc, seen, id) ==
    /\ IsScopes(sc) /\ Listed(frames) /\ Len(frames) = Depth(sc)
    /\ \A i \in 1 .. Depth(sc), n \in Names : Has(sc, i, n) <=> n \in DOMAIN frames[i]
    /\ \A i \in 1 .. Depth(sc), n \in Names : Has(sc, i, n) => frames[i][n] \in seen
    /\ id \in Nat /\ seen \subseteq Aliases /\ \A a \in seen : a[2] < id

LEMMA AliasParts ==
    /\ \A n \in Names, id \in Nat : Alias(n, id) \in Aliases /\ Alias(n, id)[2] = id
    /\ \A a \in Aliases : a[2] \in Nat
  BY DEF Aliases, Alias

LEMMA EnterScopeParts ==
    ASSUME NEW frames, Listed(frames), NEW d, d = Len(frames)
    PROVE  /\ d \in Nat /\ Listed(EnterScope(frames)) /\ Len(EnterScope(frames)) = d + 1
           /\ \A i \in 1 .. d : EnterScope(frames)[i] = frames[i]
           /\ DOMAIN EnterScope(frames)[d + 1] = {}
<1>1. PICK A : frames \in Seq(A)
  BY DEF Listed
<1>2. PICK B : B = A \cup {NoScope}
  OBVIOUS
<1>3. frames \in Seq(B) /\ NoScope \in B /\ d \in Nat
  BY <1>1, <1>2
<1>4. PICK g : g = EnterScope(frames)
  OBVIOUS
<1>5. /\ g \in Seq(B) /\ Len(g) = d + 1 /\ g[d + 1] = NoScope
      /\ \A i \in 1 .. d : g[i] = frames[i]
  BY <1>3, <1>4 DEF EnterScope
<1>6. DOMAIN NoScope = {}
  BY DEF NoScope
<1> QED
  BY <1>3, <1>4, <1>5, <1>6 DEF Listed

LEMMA DeclareAsParts ==
    ASSUME NEW frames, Listed(frames), NEW d, d = Len(frames), d > 0, NEW n, NEW v,
           NEW g, g = DeclareAs(frames, n, v)
    PROVE  /\ Listed(g) /\ Len(g) = d
           /\ \A i \in 1 .. d : i # d => g[i] = frames[i]
           /\ DOMAIN g[d] = DOMAIN frames[d] \cup {n}
           /\ g[d][n] = v /\ \A m \in DOMAIN frames[d] : m # n => g[d][m] = frames[d][m]
<1>1. PICK A : frames \in Seq(A)
  BY DEF Listed
<1>2. PICK top : top = frames[d]
  OBVIOUS
<1>3. PICK f : f = [m \in DOMAIN top \cup {n} |-> IF m = n THEN v ELSE top[m]]
  OBVIOUS
<1>4. PICK B : B = A \cup {f}
  OBVIOUS
<1>5. frames \in Seq(B) /\ f \in B /\ d \in Nat /\ DOMAIN frames = 1 .. d /\ d \in 1 .. d
  BY <1>1, <1>4
<1>6. g = [frames EXCEPT ![d] = f]
  BY <1>2, <1>3 DEF DeclareAs
<1>7. g \in Seq(B) /\ Len(g) = d
  BY <1>5, <1>6
<1>8. g[d] = f /\ \A i \in 1 .. d : i # d => g[i] = frames[i]
  BY <1>5, <1>6
<1>9. DOMAIN f = DOMAIN top \cup {n} /\ f[n] = v /\ \A m \in DOMAIN top : m # n => f[m] = top[m]
  BY <1>3
<1>10. Listed(g)
  BY <1>7 DEF Listed
<1> QED
  BY <1>2, <1>7, <1>8, <1>9, <1>10

LEMMA FramedEntered ==
    ASSUME NEW frames, NEW sc, NEW seen, NEW id, Framed(frames, sc, seen, id)
    PROVE  Framed(EnterScope(frames), Enter(sc), seen, id)
<1>1. PICK d : d = Depth(sc)
  OBVIOUS
<1>2. IsScopes(sc) /\ Listed(frames) /\ Len(frames) = d
  BY <1>1 DEF Framed
<1>3. PICK g : g = EnterScope(frames)
  OBVIOUS
<1>4. /\ d \in Nat /\ Listed(g) /\ Len(g) = d + 1
      /\ \A i \in 1 .. d : g[i] = frames[i]
      /\ DOMAIN g[d + 1] = {}
  BY <1>2, <1>3, EnterScopeParts
<1>5. PICK e : e = Enter(sc)
  OBVIOUS
<1>6. /\ IsScopes(e) /\ Depth(e) = d + 1
      /\ \A i \in 1 .. d, n \in Names : Held(e, i, n) = Held(sc, i, n)
      /\ \A n \in Names : Held(e, d + 1, n) = Absent
  BY <1>1, <1>2, <1>5, EnterParts, EntryKinds DEF IsScopes
<1>7. \A i \in 1 .. d + 1 : i \in 1 .. d \/ i = d + 1
  BY <1>4
<1>8. /\ \A i \in 1 .. d, n \in Names : Has(sc, i, n) <=> n \in DOMAIN frames[i]
      /\ \A i \in 1 .. d, n \in Names : Has(sc, i, n) => frames[i][n] \in seen
      /\ id \in Nat /\ seen \subseteq Aliases /\ \A a \in seen : a[2] < id
  BY <1>1 DEF Framed
<1>9. ASSUME NEW i \in 1 .. d + 1, NEW n \in Names
      PROVE  (Has(e, i, n) <=> n \in DOMAIN g[i]) /\ (Has(e, i, n) => g[i][n] \in seen)
  <2>1. CASE i \in 1 .. d
    BY <1>4, <1>6, <1>8, <2>1 DEF Has
  <2>2. CASE i = d + 1
    BY <1>4, <1>6, <2>2 DEF Has
  <2> QED
    BY <1>7, <2>1, <2>2
<1>10. Framed(g, e, seen, id)
  BY <1>4, <1>6, <1>8, <1>9 DEF Framed
<1> QED
  BY <1>3, <1>5, <1>10

LEMMA FramedDeclared ==
    ASSUME NEW frames, NEW sc, NEW seen, NEW id, Framed(frames, sc, seen, id), Depth(sc) > 0,
           NEW n \in Names, NEW scope \in Nat
    PROVE  /\ Framed(DeclareAs(frames, n, Alias(n, id)), Declared(sc, n, scope), seen \cup {Alias(n, id)}, id + 1)
           /\ Alias(n, id) \in Aliases /\ Alias(n, id) \notin seen
<1>1. PICK d : d = Depth(sc)
  OBVIOUS
<1>2. IsScopes(sc) /\ Listed(frames) /\ Len(frames) = d /\ d > 0 /\ d \in Nat
  <2>1. IsScopes(sc) /\ Listed(frames) /\ Len(frames) = d
    BY <1>1 DEF Framed
  <2> QED
    BY <1>1, <2>1, StackParts DEF IsScopes
<1>3. PICK v : v = Alias(n, id)
  OBVIOUS
<1>4. /\ \A i \in 1 .. d, m \in Names : Has(sc, i, m) <=> m \in DOMAIN frames[i]
      /\ \A i \in 1 .. d, m \in Names : Has(sc, i, m) => frames[i][m] \in seen
      /\ id \in Nat /\ seen \subseteq Aliases /\ \A a \in seen : a[2] < id
  BY <1>1 DEF Framed
<1>5. v \in Aliases /\ v[2] = id /\ v \notin seen
  BY <1>3, <1>4, AliasParts
<1>6. PICK g : g = DeclareAs(frames, n, v)
  OBVIOUS
<1>7. /\ Listed(g) /\ Len(g) = d
      /\ \A i \in 1 .. d : i # d => g[i] = frames[i]
      /\ DOMAIN g[d] = DOMAIN frames[d] \cup {n}
      /\ g[d][n] = v /\ \A m \in DOMAIN frames[d] : m # n => g[d][m] = frames[d][m]
  BY <1>2, <1>6, DeclareAsParts
<1>8. PICK e : e = Declared(sc, n, scope)
  OBVIOUS
<1>9. /\ IsScopes(e) /\ Depth(e) = d
      /\ \A i \in 1 .. d, m \in Names : Held(e, i, m) = IF i = d /\ m = n THEN Meaning(scope) ELSE Held(sc, i, m)
  <2>1. PICK c : c = Meaning(scope)
    OBVIOUS
  <2>2. c \in Bindings /\ d \in 1 .. d
    BY <1>2, <2>1, EntryKinds
  <2>3. e = SetIn(sc, d, n, c)
    BY <1>1, <1>8, <2>1 DEF Declared
  <2>4. /\ Stack(e, Bindings) /\ Depth(e) = d
        /\ \A i \in 1 .. d, m \in Names : Held(e, i, m) = IF i = d /\ m = n THEN c ELSE Held(sc, i, m)
    BY <1>1, <1>2, <2>2, <2>3, SetParts DEF IsScopes
  <2> QED
    BY <2>1, <2>4 DEF IsScopes
<1>10. ASSUME NEW i \in 1 .. d, NEW m \in Names
       PROVE  (Has(e, i, m) <=> m \in DOMAIN g[i]) /\ (Has(e, i, m) => g[i][m] \in seen \cup {v})
  <2>1. CASE i # d
    BY <1>4, <1>7, <1>9, <2>1 DEF Has
  <2>2. CASE i = d /\ m # n
    BY <1>4, <1>7, <1>9, <2>2 DEF Has
  <2>3. CASE i = d /\ m = n
    BY <1>7, <1>9, <2>3, EntryKinds DEF Has
  <2> QED
    BY <2>1, <2>2, <2>3
<1>11. id + 1 \in Nat /\ \A a \in seen \cup {v} : a[2] < id + 1
  <2>1. \A a \in seen : a[2] \in Nat /\ a[2] < id
    BY <1>4, AliasParts
  <2> QED
    BY <1>4, <1>5, <2>1
<1>12. Framed(g, e, seen \cup {v}, id + 1)
  BY <1>4, <1>5, <1>7, <1>9, <1>10, <1>11 DEF Framed
<1> QED
  BY <1>3, <1>5, <1>6, <1>8, <1>12

LEMMA FramedLater ==
    ASSUME NEW frames, NEW sc, NEW seen, NEW id, Framed(frames, sc, seen, id), NEW j \in Nat, id <= j
    PROVE  Framed(frames, sc, seen, j)
<1>1. id \in Nat /\ \A a \in seen : a[2] \in Nat /\ a[2] < id
  BY AliasParts DEF Framed
<1>2. \A a \in seen : a[2] < j
  BY <1>1
<1> QED
  BY <1>2 DEF Framed

\* A name is looked up where the innermost declaration of it is.
LEMMA LookedUpIs ==
    ASSUME NEW frames, NEW sc, NEW seen, NEW id, Framed(frames, sc, seen, id),
           NEW n \in Names, Frame(sc, n) # 0
    PROVE  /\ LookedUp(frames, n) = frames[Frame(sc, n)][n] /\ LookedUp(frames, n) \in seen
           /\ Frame(sc, n) \in 1 .. Depth(sc) /\ Has(sc, Frame(sc, n), n)
<1>1. PICK d : d = Depth(sc)
  OBVIOUS
<1>2. IsScopes(sc) /\ DOMAIN frames = 1 .. d /\ DOMAIN sc = 1 .. d /\ d \in Nat
  <2>1. IsScopes(sc) /\ Listed(frames) /\ Len(frames) = d
    BY <1>1 DEF Framed
  <2>2. DOMAIN frames = 1 .. d
    BY <2>1 DEF Listed
  <2>3. DOMAIN sc = 1 .. d /\ d \in Nat
    BY <1>1, <2>1, StackParts DEF IsScopes
  <2> QED
    BY <2>1, <2>2, <2>3
<1>3. /\ \A i \in 1 .. d, m \in Names : Has(sc, i, m) <=> m \in DOMAIN frames[i]
      /\ \A i \in 1 .. d, m \in Names : Has(sc, i, m) => frames[i][m] \in seen
  BY <1>1 DEF Framed
<1>4. PICK H : H = {i \in 1 .. d : Has(sc, i, n)}
  OBVIOUS
<1>5. {i \in DOMAIN frames : n \in DOMAIN frames[i]} = H
  BY <1>2, <1>3, <1>4
<1>6. {i \in DOMAIN sc : sc[i][n] # Absent} = H
  BY <1>2, <1>4 DEF Has, Held
<1>7. H # {} /\ Frame(sc, n) = Max(H)
  BY <1>6 DEF Frame
<1>8. LookedUp(frames, n) = frames[Max(H)][n]
  BY <1>5 DEF LookedUp
<1>9. Max(H) \in H
  <2>1. H \in SUBSET (0 .. d)
    BY <1>2, <1>4
  <2> QED
    BY <1>2, <1>7, <2>1, GreatestNumber
<1> QED
  BY <1>1, <1>3, <1>4, <1>7, <1>8, <1>9

\* X are expressions and E statements over aliases, ExprVars are the identifiers in
\* an expression, and N are the sequences of statements, each with the aliases that
\* are visible where it stands, that obey the rules of javac.
AliasTrees(X, E) ==
    /\ \A kind \in Kinds, v \in Nat : Lit(kind, v) \in X
    /\ \A a \in Aliases : Var(a, 0) \in X /\ Decl(a, 0) \in E
    /\ \A l, r \in X : Add(l, r) \in X /\ \A op \in {"==", "!="} : Compare(op, l, r) \in X
    /\ \A x \in X : PrintOf(x) \in E /\ \A a \in Aliases : Assign(a, 0, x) \in E
    /\ \A b \in Seq(E) : Block(b) \in E /\ \A x \in X : If(x, b) \in E /\ While(x, b) \in E
    /\ \A x \in X : ExprVars(x) = VarsOf(ExprVars(x.l), ExprVars(x.r), x)
Obeys(N, E) ==
    \A q \in Seq(E), seen \in SUBSET Aliases :
        << q, seen >> \in N <=>
            NoClashOf(ExprVars(OwnExpr(Head(q))), << Head(q).body, seen >> \in N,
                      << Tail(q), SeenAfter(Head(q), seen) >> \in N, q, seen)

\* What is emitted for an expression, a statement, a sequence of them and the
\* programs of a file follows from what is for their parts.
NodeEmitted(st, id, frames) ==
    EmittedStmtOf(Spelled(OwnExpr(st), frames), Emitted(st.body, id, EnterScope(frames)), st, id, frames)
SpelledByParts(e) ==
    \A frames : Spelled(e, frames) = SpelledOf(Spelled(e.l, frames), Spelled(e.r, frames), e, frames)
EmittedByParts(q) ==
    \A id, frames :
        LET first == NodeEmitted(Head(q), id, frames)
        IN Emitted(q, id, frames) = EmittedOf(first, Emitted(Tail(q), first.id, first.frames), q, id, frames)
Method(q, id) == Emitted(q, id, EnterScope(<< >>))
ModuleByParts(ps) ==
    \A id : Module(ps, id) = ModuleOf(Method(Head(ps), id), Module(Tail(ps), Method(Head(ps), id).id), ps)

\* What is emitted for e and for q obeys them, wherever it stands.
NamesOf(x) == {y.name : y \in ExprVars(x)}
SpellsOut(X, Inside, e) ==
    \A frames, sc, seen, id : Framed(frames, sc, seen, id) /\ InScope(Inside, e, sc) =>
        Spelled(e, frames) \in X /\ NamesOf(Spelled(e, frames)) \subseteq seen
IdIn(r)     == r.id
FramesIn(r) == r.frames
EmitsWell(C, E, N, q) ==
    \A frames, sc, seen, id : Framed(frames, sc, seen, id) /\ Standing(sc) /\ << q, sc >> \in C =>
        LET r == Emitted(q, id, frames)
        IN /\ StmtsIn(r) \in Seq(E) /\ << StmtsIn(r), seen >> \in N
           /\ IdIn(r) \in Nat /\ id <= IdIn(r)

LEMMA SpelledForm ==
    ASSUME NEW a, NEW b, NEW frames
    PROVE  /\ \A kind, v : SpelledOf(a, b, Lit(kind, v), frames) = Lit(kind, v)
           /\ \A n, id : SpelledOf(a, b, Var(n, id), frames) = Var(LookedUp(frames, n), 0)
           /\ \A l, r : SpelledOf(a, b, Add(l, r), frames) = Add(a, b)
           /\ \A op, l, r : SpelledOf(a, b, Compare(op, l, r), frames) = Compare(op, a, b)
<1>1. ASSUME NEW kind, NEW v PROVE SpelledOf(a, b, Lit(kind, v), frames) = Lit(kind, v)
  <2>1. PICK e : e = Lit(kind, v)
    OBVIOUS
  <2>2. e.k = "lit"
    BY <2>1, KindsApart
  <2> QED
    BY <2>1, <2>2 DEF SpelledOf
<1>2. ASSUME NEW n, NEW id PROVE SpelledOf(a, b, Var(n, id), frames) = Var(LookedUp(frames, n), 0)
  <2>1. PICK e : e = Var(n, id)
    OBVIOUS
  <2>2. e.k = "var" /\ e.name = n
    BY <2>1, KindsApart
  <2> QED
    BY <2>1, <2>2 DEF SpelledOf
<1>3. ASSUME NEW l, NEW r PROVE SpelledOf(a, b, Add(l, r), frames) = Add(a, b)
  <2>1. PICK e : e = Add(l, r)
    OBVIOUS
  <2>2. e.k = "add"
    BY <2>1, KindsApart
  <2> QED
    BY <2>1, <2>2 DEF SpelledOf
<1>4. ASSUME NEW op, NEW l, NEW r PROVE SpelledOf(a, b, Compare(op, l, r), frames) = Compare(op, a, b)
  <2>1. PICK e : e = Compare(op, l, r)
    OBVIOUS
  <2>2. e.k = "cmp" /\ e.op = op
    BY <2>1, KindsApart
  <2> QED
    BY <2>1, <2>2 DEF SpelledOf
<1> QED
  BY <1>1, <1>2, <1>3, <1>4

LEMMA NamesOfParts ==
    ASSUME NEW X, NEW E, AliasTrees(X, E)
    PROVE  /\ \A kind \in Kinds, v \in Nat : NamesOf(Lit(kind, v)) = {}
           /\ \A a \in Aliases : NamesOf(Var(a, 0)) = {a}
           /\ \A l, r \in X : NamesOf(Add(l, r)) = NamesOf(l) \cup NamesOf(r)
           /\ \A l, r \in X : \A op \in {"==", "!="} : NamesOf(Compare(op, l, r)) = NamesOf(l) \cup NamesOf(r)
<1>1. ASSUME NEW kind \in Kinds, NEW v \in Nat PROVE NamesOf(Lit(kind, v)) = {}
  <2>1. PICK e : e = Lit(kind, v)
    OBVIOUS
  <2>2. e.k = "lit" /\ e \in X
    BY <2>1, KindsApart DEF AliasTrees
  <2>3. ExprVars(e) = {}
    BY <2>2 DEF AliasTrees, VarsOf
  <2> QED
    BY <2>1, <2>3 DEF NamesOf
<1>2. ASSUME NEW a \in Aliases PROVE NamesOf(Var(a, 0)) = {a}
  <2>1. PICK e : e = Var(a, 0)
    OBVIOUS
  <2>2. e.k = "var" /\ e.name = a /\ e \in X
    BY <2>1, KindsApart DEF AliasTrees
  <2>3. ExprVars(e) = {e}
    BY <2>2 DEF AliasTrees, VarsOf
  <2> QED
    BY <2>1, <2>2, <2>3 DEF NamesOf
<1>3. ASSUME NEW e \in X, e.k \notin {"lit", "var"} PROVE NamesOf(e) = NamesOf(e.l) \cup NamesOf(e.r)
  <2>1. ExprVars(e) = ExprVars(e.l) \cup ExprVars(e.r)
    BY <1>3 DEF AliasTrees, VarsOf
  <2> QED
    BY <2>1 DEF NamesOf
<1>4. ASSUME NEW l \in X, NEW r \in X PROVE NamesOf(Add(l, r)) = NamesOf(l) \cup NamesOf(r)
  <2>1. PICK e : e = Add(l, r)
    OBVIOUS
  <2>2. e.k = "add" /\ e.l = l /\ e.r = r /\ e \in X
    BY <2>1, KindsApart DEF AliasTrees
  <2> QED
    BY <1>3, <2>1, <2>2
<1>5. ASSUME NEW l \in X, NEW r \in X, NEW op \in {"==", "!="}
      PROVE  NamesOf(Compare(op, l, r)) = NamesOf(l) \cup NamesOf(r)
  <2>1. PICK e : e = Compare(op, l, r)
    OBVIOUS
  <2>2. e.k = "cmp" /\ e.l = l /\ e.r = r /\ e \in X
    BY <2>1, KindsApart DEF AliasTrees
  <2> QED
    BY <1>3, <2>1, <2>2
<1> QED
  BY <1>1, <1>2, <1>4, <1>5

LEMMA NodeSpellsOut ==
    ASSUME NEW T, NEW Rank, NEW Inside, AllExpressions(T, Rank, Inside), \A e \in T : SpelledByParts(e),
           NEW X, NEW E, AliasTrees(X, E),
           NEW e \in T, \A d \in T : Rank[d] < Rank[e] => SpellsOut(X, Inside, d)
    PROVE  SpellsOut(X, Inside, e)
<1> SUFFICES ASSUME NEW frames, NEW sc, NEW seen, NEW id, Framed(frames, sc, seen, id), InScope(Inside, e, sc)
             PROVE  Spelled(e, frames) \in X /\ NamesOf(Spelled(e, frames)) \subseteq seen
  BY DEF SpellsOut
<1>1. PICK x : x = Spelled(e, frames)
  OBVIOUS
<1>2. PICK a, b : a = Spelled(e.l, frames) /\ b = Spelled(e.r, frames)
  OBVIOUS
<1>3. x = SpelledOf(a, b, e, frames)
  BY <1>1, <1>2 DEF SpelledByParts
<1>4. Inside[e] = {e} \cup IF e.k \in {"add", "cmp"} THEN Inside[e.l] \cup Inside[e.r] ELSE {}
  BY DEF AllExpressions
<1>5. CASE \E kind \in Kinds, v \in Nat : e = Lit(kind, v)
  <2>1. PICK kind \in Kinds, v \in Nat : e = Lit(kind, v)
    BY <1>5
  <2>2. x = Lit(kind, v)
    BY <1>3, <2>1, SpelledForm
  <2>3. x \in X
    BY <2>2 DEF AliasTrees
  <2> QED
    BY <1>1, <2>2, <2>3, NamesOfParts
<1>6. CASE \E n \in Names, k \in Nat : e = Var(n, k)
  <2>1. PICK n \in Names, k \in Nat : e = Var(n, k)
    BY <1>6
  <2>2. e.k = "var" /\ e.name = n /\ e.scope = k
    BY <2>1, KindsApart
  <2>3. Resolved(sc, n, k)
    BY <1>4, <2>2 DEF InScope
  <2>4. PICK v : v = LookedUp(frames, n)
    OBVIOUS
  <2>5. v \in seen
    BY <2>3, <2>4, LookedUpIs DEF Resolved
  <2>6. v \in Aliases
    BY <2>5 DEF Framed
  <2>7. x = Var(v, 0)
    BY <1>3, <2>1, <2>4, SpelledForm
  <2>8. x \in X
    BY <2>6, <2>7 DEF AliasTrees
  <2> QED
    BY <1>1, <2>5, <2>6, <2>7, <2>8, NamesOfParts
<1>7. CASE \E l, r \in T :
              /\ Rank[l] < Rank[e] /\ Rank[r] < Rank[e]
              /\ e = Add(l, r) \/ \E op \in {"==", "!="} : e = Compare(op, l, r)
  <2>1. PICK l \in T, r \in T :
              /\ Rank[l] < Rank[e] /\ Rank[r] < Rank[e]
              /\ e = Add(l, r) \/ \E op \in {"==", "!="} : e = Compare(op, l, r)
    BY <1>7
  <2>2. e.l = l /\ e.r = r /\ e.k \in {"add", "cmp"}
    BY <2>1, KindsApart
  <2>3. InScope(Inside, l, sc) /\ InScope(Inside, r, sc)
    BY <1>4, <2>2 DEF InScope
  <2>4. a \in X /\ NamesOf(a) \subseteq seen
    BY <1>2, <2>1, <2>2, <2>3 DEF SpellsOut
  <2>5. b \in X /\ NamesOf(b) \subseteq seen
    BY <1>2, <2>1, <2>2, <2>3 DEF SpellsOut
  <2>6. ASSUME e = Add(l, r) PROVE x \in X /\ NamesOf(x) \subseteq seen
    <3>1. x = Add(a, b)
      BY <1>3, <2>6, SpelledForm
    <3>2. x \in X
      BY <2>4, <2>5, <3>1 DEF AliasTrees
    <3> QED
      BY <2>4, <2>5, <3>1, <3>2, NamesOfParts
  <2>7. ASSUME NEW op \in {"==", "!="}, e = Compare(op, l, r) PROVE x \in X /\ NamesOf(x) \subseteq seen
    <3>1. x = Compare(op, a, b)
      BY <1>3, <2>7, SpelledForm
    <3>2. x \in X
      BY <2>4, <2>5, <3>1 DEF AliasTrees
    <3> QED
      BY <2>4, <2>5, <3>1, <3>2, NamesOfParts
  <2> QED
    BY <1>1, <2>1, <2>6, <2>7
<1>8. Built(T, Rank, e)
  BY DEF AllExpressions
<1> QED
  BY <1>5, <1>6, <1>7, <1>8 DEF Built

LEMMA AllSpellOut ==
    ASSUME NEW T, NEW Rank, NEW Inside, AllExpressions(T, Rank, Inside), \A e \in T : SpelledByParts(e),
           NEW X, NEW E, AliasTrees(X, E)
    PROVE  \A e \in T : SpellsOut(X, Inside, e)
<1>1. PICK W : W = {e \in T : SpellsOut(X, Inside, e)}
  OBVIOUS
<1>2. Rank \in [T -> Nat]
  BY DEF AllExpressions
<1>3. \A e \in T : (\A d \in T : Rank[d] < Rank[e] => d \in W) => e \in W
  BY <1>1, NodeSpellsOut
<1>4. T \subseteq W
  BY <1>2, <1>3, EveryMember
<1> QED
  BY <1>1, <1>4

\* A statement that obeys the rules but for those after it.
Decent(N, y, seen) ==
    /\ OwnExprs(y) # {} => NamesOf(OwnExpr(y)) \subseteq seen
    /\ y.k = "assign" => y.name \in seen
    /\ y.k = "decl" => y.name \notin seen
    /\ HasBody(y) => << y.body, seen >> \in N

LEMMA DecentFirst ==
    ASSUME NEW E, NEW N, Obeys(N, E), NEW y \in E, NEW r \in Seq(E), NEW seen \in SUBSET Aliases,
           Decent(N, y, seen), << r, SeenAfter(y, seen) >> \in N
    PROVE  << y >> \o r \in Seq(E) /\ << << y >> \o r, seen >> \in N
<1>1. PICK p : p = << y >>
  OBVIOUS
<1>2. p \in Seq(E) /\ p # << >> /\ Head(p) = y /\ Tail(p) = << >>
  BY <1>1
<1>3. PICK q : q = p \o r
  OBVIOUS
<1>4. q # << >> /\ Head(q) = Head(p) /\ Tail(q) = Tail(p) \o r /\ << >> \o r = r
  BY <1>2, <1>3, ConcatParts
<1>5. q \in Seq(E) /\ Head(q) = y /\ Tail(q) = r
  <2>1. q \in Seq(E)
    BY <1>2, <1>3
  <2>2. PICK none : none = << >>
    OBVIOUS
  <2>3. Tail(q) = none \o r /\ none \o r = r
    BY <1>2, <1>4, <2>2
  <2> QED
    BY <1>2, <1>4, <2>1, <2>3
<1>6. NoClashOf(ExprVars(OwnExpr(y)), << y.body, seen >> \in N, << r, SeenAfter(y, seen) >> \in N, q, seen)
  <2>1. PICK vars : vars = ExprVars(OwnExpr(y))
    OBVIOUS
  <2>2. /\ OwnExprs(y) # {} => {x.name : x \in vars} \subseteq seen
        /\ y.k = "assign" => y.name \in seen
        /\ y.k = "decl" => y.name \notin seen
        /\ HasBody(y) => << y.body, seen >> \in N
    BY <2>1 DEF Decent, NamesOf
  <2>3. NoClashOf(vars, << y.body, seen >> \in N, << r, SeenAfter(y, seen) >> \in N, q, seen)
    BY <1>5, <2>2, Zenon DEF NoClashOf
  <2> QED
    BY <2>1, <2>3
<1>7. << q, seen >> \in N
  BY <1>5, <1>6 DEF Obeys
<1> QED
  BY <1>1, <1>3, <1>5, <1>7

\* What may stand where seen is visible.
Allows(X, E, N, seen) ==
    /\ \A a \in Aliases : a \notin seen =>
          /\ Decl(a, 0) \in E /\ Decent(N, Decl(a, 0), seen)
          /\ SeenAfter(Decl(a, 0), seen) = seen \cup {a}
    /\ \A a \in seen, x \in X : NamesOf(x) \subseteq seen =>
          /\ Assign(a, 0, x) \in E /\ Decent(N, Assign(a, 0, x), seen)
          /\ SeenAfter(Assign(a, 0, x), seen) = seen
    /\ \A x \in X : NamesOf(x) \subseteq seen =>
          /\ PrintOf(x) \in E /\ Decent(N, PrintOf(x), seen) /\ SeenAfter(PrintOf(x), seen) = seen
    /\ \A b \in Seq(E) : << b, seen >> \in N =>
          /\ Block(b) \in E /\ Decent(N, Block(b), seen) /\ SeenAfter(Block(b), seen) = seen
    /\ \A x \in X, b \in Seq(E) : NamesOf(x) \subseteq seen /\ << b, seen >> \in N =>
          /\ If(x, b) \in E /\ Decent(N, If(x, b), seen) /\ SeenAfter(If(x, b), seen) = seen
          /\ While(x, b) \in E /\ Decent(N, While(x, b), seen) /\ SeenAfter(While(x, b), seen) = seen

LEMMA DecentKinds ==
    ASSUME NEW X, NEW E, AliasTrees(X, E), NEW N, NEW seen \in SUBSET Aliases
    PROVE  Allows(X, E, N, seen)
<1>1. ASSUME NEW a \in Aliases, a \notin seen
      PROVE  /\ Decl(a, 0) \in E /\ Decent(N, Decl(a, 0), seen)
             /\ SeenAfter(Decl(a, 0), seen) = seen \cup {a}
  <2>1. PICK y : y = Decl(a, 0)
    OBVIOUS
  <2>2. y \in E /\ y.k = "decl" /\ y.name = a
    BY <2>1 DEF AliasTrees, Decl
  <2> QED
    BY <1>1, <2>1, <2>2 DEF Decent, SeenAfter, OwnExprs, HasBody
<1>2. ASSUME NEW a \in seen, NEW x \in X, NamesOf(x) \subseteq seen
      PROVE  /\ Assign(a, 0, x) \in E /\ Decent(N, Assign(a, 0, x), seen)
             /\ SeenAfter(Assign(a, 0, x), seen) = seen
  <2>1. PICK y : y = Assign(a, 0, x)
    OBVIOUS
  <2>2. y \in E /\ y.k = "assign" /\ y.name = a /\ y.e = x
    BY <2>1, StatementKinds DEF AliasTrees
  <2> QED
    BY <1>2, <2>1, <2>2 DEF Decent, SeenAfter, OwnExprs, OwnExpr, HasBody
<1>3. ASSUME NEW x \in X, NamesOf(x) \subseteq seen
      PROVE  PrintOf(x) \in E /\ Decent(N, PrintOf(x), seen) /\ SeenAfter(PrintOf(x), seen) = seen
  <2>1. PICK y : y = PrintOf(x)
    OBVIOUS
  <2>2. y \in E /\ y.k = "print" /\ y.e = x
    BY <2>1, StatementKinds DEF AliasTrees
  <2> QED
    BY <1>3, <2>1, <2>2 DEF Decent, SeenAfter, OwnExprs, OwnExpr, HasBody
<1>4. ASSUME NEW b \in Seq(E), << b, seen >> \in N
      PROVE  Block(b) \in E /\ Decent(N, Block(b), seen) /\ SeenAfter(Block(b), seen) = seen
  <2>1. PICK y : y = Block(b)
    OBVIOUS
  <2>2. y \in E /\ y.k = "block" /\ y.body = b
    BY <2>1, StatementKinds DEF AliasTrees
  <2> QED
    BY <1>4, <2>1, <2>2 DEF Decent, SeenAfter, OwnExprs
<1>5. ASSUME NEW x \in X, NEW b \in Seq(E), NamesOf(x) \subseteq seen, << b, seen >> \in N,
             NEW y, y = If(x, b) \/ y = While(x, b)
      PROVE  y \in E /\ Decent(N, y, seen) /\ SeenAfter(y, seen) = seen
  <2>1. y \in E /\ y.k \in {"if", "while"} /\ y.cond = x /\ y.body = b
    BY <1>5, StatementKinds DEF AliasTrees
  <2> QED
    BY <1>5, <2>1 DEF Decent, SeenAfter, OwnExprs, OwnExpr, HasBody
<1> QED
  BY <1>1, <1>2, <1>3, <1>4, <1>5 DEF Allows

\* What is emitted for a statement: one statement, and where the next one is.
OneEmitted(E, N, seen, id, r, after) ==
    \E y \in E :
        /\ StmtsIn(r) = << y >> /\ Decent(N, y, seen)
        /\ IdIn(r) \in Nat /\ id <= IdIn(r)
        /\ Framed(FramesIn(r), after, SeenAfter(y, seen), IdIn(r))

LEMMA EmitterParts ==
    \A stmts, id, frames : LET r == Emitter(stmts, id, frames)
                           IN StmtsIn(r) = stmts /\ IdIn(r) = id /\ FramesIn(r) = frames
  BY DEF Emitter, StmtsIn, IdIn, FramesIn

\* A statement other than a declaration.
LEMMA OtherEmitted ==
    ASSUME NEW sc, NEW seen, NEW id, NEW frames, Framed(frames, sc, seen, id),
           NEW E, NEW N, NEW y \in E, Decent(N, y, seen), SeenAfter(y, seen) = seen,
           NEW r, StmtsIn(r) = << y >>, IdIn(r) \in Nat, id <= IdIn(r), FramesIn(r) = frames
    PROVE  OneEmitted(E, N, seen, id, r, sc)
<1>1. Framed(frames, sc, seen, IdIn(r))
  BY FramedLater
<1> QED
  BY <1>1 DEF OneEmitted

LEMMA HeadEmits ==
    ASSUME NEW T, NEW S, NEW RankS, AllStatements(T, S, RankS), NEW Inside,
           NEW X, NEW E, AliasTrees(X, E), NEW N, NEW C,
           \A e \in T : SpellsOut(X, Inside, e),
           NEW frames, NEW sc, NEW seen, NEW id, Framed(frames, sc, seen, id), Standing(sc),
           NEW st \in S, MeansWell(C, Inside, st, sc),
           \A b \in Seq(S) : BodyOf(st, b) => EmitsWell(C, E, N, b)
    PROVE  OneEmitted(E, N, seen, id, NodeEmitted(st, id, frames), After(st, sc))
<1>1. PICK x : x = Spelled(OwnExpr(st), frames)
  OBVIOUS
<1>2. PICK body : body = Emitted(st.body, id, EnterScope(frames))
  OBVIOUS
<1>3. PICK r : r = NodeEmitted(st, id, frames)
  OBVIOUS
<1>4. r = EmittedStmtOf(x, body, st, id, frames)
  BY <1>1, <1>2, <1>3 DEF NodeEmitted
<1>5. seen \in SUBSET Aliases /\ id \in Nat /\ id <= id
  BY DEF Framed
<1>6. Allows(X, E, N, seen)
  BY <1>5, DecentKinds
<1>7. ASSUME NEW e \in T, OwnExpr(st) = e, InScope(Inside, e, sc) PROVE x \in X /\ NamesOf(x) \subseteq seen
  BY <1>1, <1>7 DEF SpellsOut
<1>8. ASSUME NEW b \in Seq(S), BodyOf(st, b), st.body = b
      PROVE  /\ StmtsIn(body) \in Seq(E) /\ << StmtsIn(body), seen >> \in N
             /\ IdIn(body) \in Nat /\ id <= IdIn(body)
  <2>1. PICK e : e = Enter(sc)
    OBVIOUS
  <2>2. << b, e >> \in C /\ EmitsWell(C, E, N, b)
    BY <1>8, <2>1 DEF MeansWell
  <2>3. Framed(EnterScope(frames), e, seen, id)
    BY <2>1, FramedEntered
  <2>4. Standing(e)
    BY <2>1, AfterStands
  <2> QED
    BY <1>2, <1>8, <2>2, <2>3, <2>4 DEF EmitsWell
<1>9. ASSUME NEW y \in E, Decent(N, y, seen), SeenAfter(y, seen) = seen,
              NEW q, q = << y >>, NEW j \in Nat, id <= j, r = Emitter(q, j, frames)
       PROVE  OneEmitted(E, N, seen, id, r, sc)
  <2>1. StmtsIn(r) = q /\ IdIn(r) = j /\ FramesIn(r) = frames
    BY <1>9, EmitterParts
  <2> QED
    BY <1>9, <2>1, OtherEmitted
<1>10. CASE \E n \in Names, k \in Nat : st = Decl(n, k)
  <2>1. PICK n \in Names, k \in Nat : st = Decl(n, k)
    BY <1>10
  <2>2. st.k = "decl" /\ st.name = n /\ st.scope = k
    BY <2>1 DEF Decl
  <2>3. PICK a : a = Alias(n, id)
    OBVIOUS
  <2>4. Depth(sc) > 0
    BY DEF Standing
  <2>5. /\ Framed(DeclareAs(frames, n, a), Declared(sc, n, k), seen \cup {a}, id + 1)
        /\ a \in Aliases /\ a \notin seen
    BY <2>3, <2>4, FramedDeclared
  <2>6. PICK y : y = Decl(a, 0)
    OBVIOUS
  <2>7. y \in E /\ Decent(N, y, seen) /\ SeenAfter(y, seen) = seen \cup {a}
    BY <1>6, <2>5, <2>6 DEF Allows
  <2>8. PICK q, j, g : q = << y >> /\ j = id + 1 /\ g = DeclareAs(frames, n, a)
    OBVIOUS
  <2>9. r = Emitter(q, j, g)
    BY <1>4, <2>2, <2>3, <2>6, <2>8 DEF EmittedStmtOf
  <2>10. StmtsIn(r) = q /\ IdIn(r) = j /\ FramesIn(r) = g
    BY <2>9, EmitterParts
  <2>11. j \in Nat /\ id <= j
    BY <1>5, <2>8
  <2>12. After(st, sc) = Declared(sc, n, k)
    BY <2>2 DEF After
  <2> QED
    BY <1>3, <2>5, <2>7, <2>8, <2>10, <2>11, <2>12 DEF OneEmitted
<1>11. CASE \E n \in Names, k \in Nat, e \in T : st = Assign(n, k, e)
  <2>1. PICK n \in Names, k \in Nat, e \in T : st = Assign(n, k, e)
    BY <1>11
  <2>2. st.k = "assign" /\ st.name = n /\ st.e = e
    BY <2>1, StatementKinds
  <2>3. OwnExpr(st) = e /\ InScope(Inside, e, sc) /\ Resolved(sc, n, k)
    BY <2>1, <2>2 DEF OwnExpr, HasBody, MeansWell, OwnExprs
  <2>4. x \in X /\ NamesOf(x) \subseteq seen
    BY <1>7, <2>3
  <2>5. PICK a : a = LookedUp(frames, n)
    OBVIOUS
  <2>6. a \in seen
    BY <2>3, <2>5, LookedUpIs DEF Resolved
  <2>7. PICK y : y = Assign(a, 0, x)
    OBVIOUS
  <2>8. y \in E /\ Decent(N, y, seen) /\ SeenAfter(y, seen) = seen
    BY <1>6, <2>4, <2>6, <2>7 DEF Allows
  <2>9. PICK q : q = << y >>
    OBVIOUS
  <2>10. r = Emitter(q, id, frames) /\ After(st, sc) = sc
    BY <1>4, <2>2, <2>5, <2>7, <2>9 DEF EmittedStmtOf, After
  <2> QED
    BY <1>3, <1>5, <1>9, <2>8, <2>9, <2>10
<1>12. CASE \E e \in T : st = PrintOf(e)
  <2>1. PICK e \in T : st = PrintOf(e)
    BY <1>12
  <2>2. st.k = "print" /\ st.e = e
    BY <2>1, StatementKinds
  <2>3. OwnExpr(st) = e /\ InScope(Inside, e, sc)
    BY <2>2 DEF OwnExpr, HasBody, MeansWell, OwnExprs
  <2>4. x \in X /\ NamesOf(x) \subseteq seen
    BY <1>7, <2>3
  <2>5. PICK y : y = PrintOf(x)
    OBVIOUS
  <2>6. y \in E /\ Decent(N, y, seen) /\ SeenAfter(y, seen) = seen
    BY <1>6, <2>4, <2>5 DEF Allows
  <2>7. PICK q : q = << y >>
    OBVIOUS
  <2>8. r = Emitter(q, id, frames) /\ After(st, sc) = sc
    BY <1>4, <2>2, <2>5, <2>7 DEF EmittedStmtOf, After
  <2> QED
    BY <1>3, <1>5, <1>9, <2>6, <2>7, <2>8
<1>13. CASE \E b \in Seq(S) : st = Block(b)
  <2>1. PICK b \in Seq(S) : st = Block(b)
    BY <1>13
  <2>2. st.k = "block" /\ st.body = b /\ BodyOf(st, b)
    BY <2>1, StatementKinds DEF BodyOf
  <2>3. /\ StmtsIn(body) \in Seq(E) /\ << StmtsIn(body), seen >> \in N
        /\ IdIn(body) \in Nat /\ id <= IdIn(body)
    BY <1>8, <2>2
  <2>4. PICK p, j : p = StmtsIn(body) /\ j = IdIn(body)
    OBVIOUS
  <2>5. PICK y : y = Block(p)
    OBVIOUS
  <2>6. y \in E /\ Decent(N, y, seen) /\ SeenAfter(y, seen) = seen
    BY <1>6, <2>3, <2>4, <2>5 DEF Allows
  <2>7. PICK q : q = << y >>
    OBVIOUS
  <2>8. r = Emitter(q, j, frames) /\ After(st, sc) = sc
    BY <1>4, <2>2, <2>4, <2>5, <2>7 DEF EmittedStmtOf, After, StmtsIn, IdIn
  <2> QED
    BY <1>3, <1>9, <2>3, <2>4, <2>6, <2>7, <2>8
<1>14. CASE \E c \in T, b \in Seq(S) : st = If(c, b) \/ st = While(c, b)
  <2>1. PICK c \in T, b \in Seq(S) : st = If(c, b) \/ st = While(c, b)
    BY <1>14
  <2>2. st.k \in {"if", "while"} /\ st.cond = c /\ st.body = b /\ BodyOf(st, b)
    BY <2>1, StatementKinds DEF BodyOf
  <2>3. OwnExpr(st) = c /\ InScope(Inside, c, sc)
    BY <2>2 DEF OwnExpr, HasBody, MeansWell, OwnExprs
  <2>4. x \in X /\ NamesOf(x) \subseteq seen
    BY <1>7, <2>3
  <2>5. /\ StmtsIn(body) \in Seq(E) /\ << StmtsIn(body), seen >> \in N
        /\ IdIn(body) \in Nat /\ id <= IdIn(body)
    BY <1>8, <2>2
  <2>6. PICK p, j : p = StmtsIn(body) /\ j = IdIn(body)
    OBVIOUS
  <2>7. PICK y : y = IF st.k = "if" THEN If(x, p) ELSE While(x, p)
    OBVIOUS
  <2>8. y \in E /\ Decent(N, y, seen) /\ SeenAfter(y, seen) = seen
    BY <1>6, <2>4, <2>5, <2>6, <2>7 DEF Allows
  <2>9. PICK q : q = << y >>
    OBVIOUS
  <2>10. r = Emitter(q, j, frames) /\ After(st, sc) = sc
    BY <1>4, <2>2, <2>6, <2>7, <2>9 DEF EmittedStmtOf, After, StmtsIn, IdIn
  <2> QED
    BY <1>3, <1>9, <2>5, <2>6, <2>8, <2>9, <2>10
<1>15. StatementOver(T, S, st)
  BY DEF AllStatements
<1> QED
  BY <1>10, <1>11, <1>12, <1>13, <1>14, <1>15 DEF StatementOver

LEMMA EmittedForm ==
    ASSUME NEW first, NEW rest, NEW q, NEW id, NEW frames
    PROVE  /\ q = << >> => /\ StmtsIn(EmittedOf(first, rest, q, id, frames)) = << >>
                           /\ IdIn(EmittedOf(first, rest, q, id, frames)) = id
           /\ q # << >> => /\ StmtsIn(EmittedOf(first, rest, q, id, frames)) = StmtsIn(first) \o StmtsIn(rest)
                           /\ IdIn(EmittedOf(first, rest, q, id, frames)) = IdIn(rest)
<1>1. ASSUME q = << >>
      PROVE  /\ StmtsIn(EmittedOf(first, rest, q, id, frames)) = << >>
             /\ IdIn(EmittedOf(first, rest, q, id, frames)) = id
  <2>1. PICK none : none = << >>
    OBVIOUS
  <2>2. EmittedOf(first, rest, q, id, frames) = Emitter(none, id, frames)
    BY <1>1, <2>1 DEF EmittedOf
  <2>3. PICK r : r = Emitter(none, id, frames)
    OBVIOUS
  <2>4. StmtsIn(r) = none /\ IdIn(r) = id
    BY <2>3, EmitterParts
  <2> QED
    BY <2>1, <2>2, <2>3, <2>4
<1>2. ASSUME q # << >>
      PROVE  /\ StmtsIn(EmittedOf(first, rest, q, id, frames)) = StmtsIn(first) \o StmtsIn(rest)
             /\ IdIn(EmittedOf(first, rest, q, id, frames)) = IdIn(rest)
  <2>1. PICK p, j, g : p = StmtsIn(first) \o StmtsIn(rest) /\ j = IdIn(rest) /\ g = rest.frames
    OBVIOUS
  <2>2. EmittedOf(first, rest, q, id, frames) = Emitter(p, j, g)
    BY <1>2, <2>1 DEF EmittedOf, StmtsIn, IdIn
  <2>3. PICK r : r = Emitter(p, j, g)
    OBVIOUS
  <2>4. StmtsIn(r) = p /\ IdIn(r) = j
    BY <2>3, EmitterParts
  <2> QED
    BY <2>1, <2>2, <2>3, <2>4
<1> QED
  BY <1>1, <1>2

LEMMA NothingObeys ==
    ASSUME NEW E, NEW N, Obeys(N, E), NEW seen \in SUBSET Aliases
    PROVE  << >> \in Seq(E) /\ << << >>, seen >> \in N
<1>1. PICK q : q = << >>
  OBVIOUS
<1>2. q \in Seq(E)
  BY <1>1
<1>3. NoClashOf(ExprVars(OwnExpr(Head(q))), << Head(q).body, seen >> \in N,
                << Tail(q), SeenAfter(Head(q), seen) >> \in N, q, seen)
  BY <1>1 DEF NoClashOf
<1>4. << q, seen >> \in N
  BY <1>2, <1>3 DEF Obeys
<1> QED
  BY <1>1, <1>2, <1>4

LEMMA AllEmitWell ==
    ASSUME NEW T, NEW S, NEW RankS, AllStatements(T, S, RankS), NEW Inside, NEW C, Lexical(C, S, Inside),
           NEW X, NEW E, AliasTrees(X, E), NEW N, Obeys(N, E),
           \A e \in T : SpellsOut(X, Inside, e), \A q \in Seq(S) : EmittedByParts(q)
    PROVE  \A q \in Seq(S) : EmitsWell(C, E, N, q)
<1>1. RankS \in [Seq(S) -> Nat]
  BY DEF AllStatements
<1>2. PICK Q : Q = Seq(S)
  OBVIOUS
<1>3. PICK W : W = {q \in Q : EmitsWell(C, E, N, q)}
  OBVIOUS
<1>4. ASSUME NEW q \in Q, \A b \in Q : RankS[b] < RankS[q] => b \in W PROVE q \in W
  <2> SUFFICES ASSUME NEW frames, NEW sc, NEW seen, NEW id,
                      Framed(frames, sc, seen, id), Standing(sc), << q, sc >> \in C,
                      NEW r, r = Emitted(q, id, frames)
               PROVE  /\ StmtsIn(r) \in Seq(E) /\ << StmtsIn(r), seen >> \in N
                      /\ IdIn(r) \in Nat /\ id <= IdIn(r)
    BY <1>3 DEF EmitsWell
  <2>1. PICK first : first = NodeEmitted(Head(q), id, frames)
    OBVIOUS
  <2>2. PICK rest : rest = Emitted(Tail(q), IdIn(first), FramesIn(first))
    OBVIOUS
  <2>3. r = EmittedOf(first, rest, q, id, frames)
    BY <1>2, <2>1, <2>2 DEF EmittedByParts, IdIn, FramesIn
  <2>4. seen \in SUBSET Aliases /\ id \in Nat /\ id <= id
    BY DEF Framed
  <2>5. CASE q = << >>
    <3>1. StmtsIn(r) = << >> /\ IdIn(r) = id
      BY <2>3, <2>5, EmittedForm
    <3>2. << >> \in Seq(E) /\ << << >>, seen >> \in N
      BY <2>4, NothingObeys
    <3> QED
      BY <2>4, <3>1, <3>2
  <2>6. CASE q # << >>
    <3>1. PICK st : st = Head(q)
      OBVIOUS
    <3>2. /\ st \in S /\ Tail(q) \in Seq(S) /\ RankS[Tail(q)] < RankS[q]
          /\ \A b : BodyOf(st, b) => RankS[b] < RankS[q]
      BY <1>2, <2>6, <3>1, ListParts
    <3>3. MeansWell(C, Inside, st, sc) /\ << Tail(q), After(st, sc) >> \in C
      BY <1>2, <2>6, <3>1 DEF Lexical
    <3>4. \A b \in Seq(S) : BodyOf(st, b) => EmitsWell(C, E, N, b)
      BY <1>2, <1>3, <1>4, <3>2
    <3>5. OneEmitted(E, N, seen, id, first, After(st, sc))
      BY <2>1, <3>1, <3>2, <3>3, <3>4, HeadEmits
    <3>6. PICK y \in E :
             /\ StmtsIn(first) = << y >> /\ Decent(N, y, seen)
             /\ IdIn(first) \in Nat /\ id <= IdIn(first)
             /\ Framed(FramesIn(first), After(st, sc), SeenAfter(y, seen), IdIn(first))
      BY <3>5 DEF OneEmitted
    <3>7. Standing(After(st, sc)) /\ EmitsWell(C, E, N, Tail(q))
      <4>1. EmitsWell(C, E, N, Tail(q))
        BY <1>2, <1>3, <1>4, <3>2
      <4> QED
        BY <3>2, <4>1, AfterStands
    <3>8. /\ StmtsIn(rest) \in Seq(E) /\ << StmtsIn(rest), SeenAfter(y, seen) >> \in N
          /\ IdIn(rest) \in Nat /\ IdIn(first) <= IdIn(rest)
      BY <2>2, <3>3, <3>6, <3>7 DEF EmitsWell
    <3>9. PICK p, u : p = StmtsIn(first) /\ u = StmtsIn(rest)
      OBVIOUS
    <3>10. p = << y >> /\ StmtsIn(r) = p \o u /\ IdIn(r) = IdIn(rest)
      <4>1. StmtsIn(r) = StmtsIn(first) \o StmtsIn(rest) /\ IdIn(r) = IdIn(rest)
        BY <2>3, <2>6, EmittedForm
      <4> QED
        BY <3>6, <3>9, <4>1
    <3>11. << y >> \o u \in Seq(E) /\ << << y >> \o u, seen >> \in N
      BY <2>4, <3>6, <3>8, <3>9, DecentFirst
    <3>12. p \o u \in Seq(E) /\ << p \o u, seen >> \in N
      BY <3>10, <3>11
    <3>13. id <= IdIn(rest)
      BY <2>4, <3>6, <3>8
    <3> QED
      BY <3>8, <3>10, <3>12, <3>13
  <2> QED
    BY <2>5, <2>6
<1>5. Q \subseteq W
  <2>1. RankS \in [Q -> Nat] /\ \A q \in Q : (\A b \in Q : RankS[b] < RankS[q] => b \in W) => q \in W
    BY <1>1, <1>2, <1>4
  <2> QED
    BY ONLY <2>1, EveryMember
<1> QED
  BY <1>2, <1>3, <1>5

LEMMA FramedOutside == \A id \in Nat : Framed(EnterScope(<< >>), Enter(<< >>), {}, id) /\ Standing(Enter(<< >>))
<1>1. PICK none : none = << >>
  OBVIOUS
<1>2. Listed(none) /\ Len(none) = 0 /\ Depth(none) = 0
  BY <1>1, NoText DEF Depth
<1>3. IsScopes(none) /\ Standing(Enter(none))
  BY <1>1, Outside DEF Standing
<1>4. ASSUME NEW id \in Nat PROVE Framed(none, none, {}, id)
  BY <1>2, <1>3 DEF Framed
<1> QED
  BY <1>1, <1>3, <1>4, FramedEntered

LEMMA ModuleObeys ==
    ASSUME NEW X, NEW E, AliasTrees(X, E), NEW N, Obeys(N, E), NEW S, NEW C,
           \A q \in Seq(S) : EmitsWell(C, E, N, q), \A ps \in Seq(Seq(S)) : ModuleByParts(ps)
    PROVE  \A ps \in Seq(Seq(S)), id \in Nat :
              (\A i \in DOMAIN ps : << ps[i], Enter(<< >>) >> \in C) => << Module(ps, id), {} >> \in N
<1>1. PICK Q : Q = {q \in Seq(S) : << q, Enter(<< >>) >> \in C}
  OBVIOUS
<1>2. PICK W : W = {n \in Nat : \A ps \in Seq(Q), id \in Nat :
                       Len(ps) = n => Module(ps, id) \in Seq(E) /\ << Module(ps, id), {} >> \in N}
  OBVIOUS
<1>3. ASSUME NEW n \in Nat, NEW ps \in Seq(Q), NEW id \in Nat, Len(ps) = n, n > 0 => n - 1 \in W
      PROVE  Module(ps, id) \in Seq(E) /\ << Module(ps, id), {} >> \in N
  <2>1. PICK r : r = Method(Head(ps), id)
    OBVIOUS
  <2>2. PICK rest : rest = Module(Tail(ps), IdIn(r))
    OBVIOUS
  <2>3. Module(ps, id) = ModuleOf(r, rest, ps)
    <3>1. Q \subseteq Seq(S)
      BY <1>1
    <3>2. ps \in Seq(Seq(S))
      BY <3>1
    <3> QED
      BY <2>1, <2>2, <3>2 DEF ModuleByParts, IdIn
  <2>4. {} \in SUBSET Aliases
    OBVIOUS
  <2>5. CASE ps = << >>
    <3>1. Module(ps, id) = << >>
      BY <2>3, <2>5 DEF ModuleOf
    <3> QED
      BY <2>4, <3>1, NothingObeys
  <2>6. CASE ps # << >>
    <3>1. Head(ps) \in Q /\ Tail(ps) \in Seq(Q) /\ Len(Tail(ps)) = n - 1 /\ n > 0
      BY <1>3, <2>6
    <3>2. PICK q : q = Head(ps)
      OBVIOUS
    <3>3. q \in Seq(S) /\ << q, Enter(<< >>) >> \in C /\ EmitsWell(C, E, N, q)
      BY <1>1, <3>1, <3>2
    <3>4. StmtsIn(r) \in Seq(E) /\ << StmtsIn(r), {} >> \in N /\ IdIn(r) \in Nat
      <4>1. PICK frames, sc, seen : frames = EnterScope(<< >>) /\ sc = Enter(<< >>) /\ seen = {}
        OBVIOUS
      <4>2. Framed(frames, sc, seen, id) /\ Standing(sc) /\ << q, sc >> \in C
        BY <3>3, <4>1, FramedOutside
      <4>3. r = Emitted(q, id, frames)
        BY <2>1, <3>2, <4>1 DEF Method
      <4> QED
        BY <3>3, <4>1, <4>2, <4>3 DEF EmitsWell
    <3>5. rest \in Seq(E) /\ << rest, {} >> \in N
      BY <1>2, <1>3, <2>2, <3>1, <3>4
    <3>6. PICK y : y = Block(StmtsIn(r))
      OBVIOUS
    <3>7. y \in E /\ Decent(N, y, {}) /\ SeenAfter(y, {}) = {}
      <4>1. Allows(X, E, N, {})
        BY <2>4, DecentKinds
      <4> QED
        BY <3>4, <3>6, <4>1 DEF Allows
    <3>8. << y >> \o rest \in Seq(E) /\ << << y >> \o rest, {} >> \in N
      BY <2>4, <3>5, <3>7, DecentFirst
    <3>9. Module(ps, id) = << y >> \o rest
      BY <2>3, <2>6, <3>6 DEF ModuleOf, StmtsIn
    <3> QED
      BY <3>8, <3>9
  <2> QED
    BY <2>5, <2>6
<1>4. 0 \in W
  <2>1. ASSUME NEW ps \in Seq(Q), NEW id \in Nat, Len(ps) = 0
        PROVE  Module(ps, id) \in Seq(E) /\ << Module(ps, id), {} >> \in N
    <3>1. 0 \in Nat /\ ~(0 > 0)
      OBVIOUS
    <3>2. PICK n \in Nat : n = 0
      BY <3>1
    <3> QED
      BY <1>3, <2>1, <3>1, <3>2
  <2> QED
    BY <1>2, <2>1
<1>5. ASSUME NEW n \in Nat, n \in W PROVE n + 1 \in W
  <2>1. n + 1 \in Nat /\ (n + 1) - 1 = n
    OBVIOUS
  <2>2. \A ps \in Seq(Q), id \in Nat : Len(ps) = n + 1 => Module(ps, id) \in Seq(E) /\ << Module(ps, id), {} >> \in N
    BY <1>3, <1>5, <2>1
  <2> QED
    BY <1>2, <2>1, <2>2
<1>6. Nat \subseteq W
  BY <1>4, <1>5, EveryNumber
<1> SUFFICES ASSUME NEW ps \in Seq(Seq(S)), NEW id \in Nat, \A i \in DOMAIN ps : << ps[i], Enter(<< >>) >> \in C
             PROVE  << Module(ps, id), {} >> \in N
  OBVIOUS
<1>7. ps \in Seq(Q) /\ Len(ps) \in Nat
  <2>1. \A i \in DOMAIN ps : ps[i] \in Q
    BY <1>1
  <2>2. PICK R : R = Seq(S)
    OBVIOUS
  <2>3. ps \in Seq(R)
    BY <2>2
  <2> QED
    BY ONLY <2>1, <2>3, AllMembers
<1> QED
  BY <1>2, <1>6, <1>7

\* Java names (JavaEmitter::emit, nextAliasId_): no variable of the module that is
\* emitted is declared where one of its name is visible, and only visible ones are
\* used, whatever shadows what in the source.  javac refuses the one and the other.
THEOREM NamesNeverClash ==
    ASSUME NEW T, NEW S, NEW RankT, NEW RankS, NEW Inside,
           AllExpressions(T, RankT, Inside), AllStatements(T, S, RankS),
           \A e \in T : SpelledByParts(e), \A q \in Seq(S) : EmittedByParts(q),
           \A ps \in Seq(Seq(S)) : ModuleByParts(ps),
           NEW C, Lexical(C, S, Inside),
           NEW X, NEW E, AliasTrees(X, E), NEW N, Obeys(N, E),
           NEW programs \in Seq(Seq(S)), \A i \in DOMAIN programs : << programs[i], Enter(<< >>) >> \in C
    PROVE  << Module(programs, 0), {} >> \in N
<1>1. \A e \in T : SpellsOut(X, Inside, e)
  BY AllSpellOut
<1>2. \A q \in Seq(S) : EmitsWell(C, E, N, q)
  BY <1>1, AllEmitWell
<1>3. \A ps \in Seq(Seq(S)), id \in Nat :
         (\A i \in DOMAIN ps : << ps[i], Enter(<< >>) >> \in C) => << Module(ps, id), {} >> \in N
  BY <1>2, ModuleObeys
<1> QED
  BY <1>3

\* The same for the programs of a file as they come from the optimizer, given that
\* the names of the source are in scope: nothing that is unrolled or takes the place
\* of a branch brings two declarations of one name together.
THEOREM OptimizedNames ==
    ASSUME NEW T, NEW S, NEW RankT, NEW RankS, NEW Inside, Language(T, S, RankT, RankS, Inside),
           \A e \in T : SpelledByParts(e), \A q \in Seq(S) : EmittedByParts(q),
           \A ps \in Seq(Seq(S)) : ModuleByParts(ps),
           NEW C, Lexical(C, S, Inside),
           NEW X, NEW E, AliasTrees(X, E), NEW N, Obeys(N, E),
           NEW sources \in Seq(Seq(S)), \A i \in DOMAIN sources : << sources[i], Enter(<< >>) >> \in C,
           NEW programs, programs = [i \in DOMAIN sources |-> StmtsIn(OptBlock(sources[i], << >>))]
    PROVE  << Module(programs, 0), {} >> \in N
<1>1. AllExpressions(T, RankT, Inside) /\ AllStatements(T, S, RankS)
  BY DEF Language
<1>2. ASSUME NEW q \in Seq(S), << q, Enter(<< >>) >> \in C
      PROVE  /\ StmtsIn(OptBlock(q, << >>)) \in Seq(S)
             /\ << StmtsIn(OptBlock(q, << >>)), Enter(<< >>) >> \in C
  <2>1. WalksOn(S, q)
    BY AllWalk
  <2>2. IsEnv(Enter(<< >>)) /\ Depth(Enter(<< >>)) > 0
    BY Outside
  <2>3. StmtsIn(OptStmts(q, Enter(<< >>))) \in Seq(S)
    BY <2>1, <2>2 DEF WalksOn, Walks
  <2>4. StmtsIn(OptBlock(q, << >>)) = StmtsIn(OptStmts(q, Enter(<< >>)))
    BY ResultParts DEF OptBlock, Becomes
  <2>5. << StmtsIn(OptBlock(q, << >>)), Enter(<< >>) >> \in C
    BY <1>2, ScopesStay
  <2> QED
    BY <2>3, <2>4, <2>5
<1>3. PICK Q : Q = Seq(S)
  OBVIOUS
<1>4. Len(sources) \in Nat /\ DOMAIN sources = 1 .. Len(sources) /\ \A i \in DOMAIN sources : sources[i] \in Q
  BY <1>3
<1>5. \A i \in DOMAIN sources : /\ StmtsIn(OptBlock(sources[i], << >>)) \in Q
                                /\ << StmtsIn(OptBlock(sources[i], << >>)), Enter(<< >>) >> \in C
  BY <1>2, <1>3, <1>4
<1>6. DOMAIN programs = DOMAIN sources /\ \A i \in DOMAIN programs : programs[i] = StmtsIn(OptBlock(sources[i], << >>))
  OBVIOUS
<1>7. programs \in [1 .. Len(sources) -> Q]
  BY <1>4, <1>5
<1>8. programs \in Seq(Q)
  BY <1>4, <1>7
<1>9. \A i \in DOMAIN programs : << programs[i], Enter(<< >>) >> \in C
  BY <1>5, <1>6
<1> QED
  BY <1>1, <1>3, <1>8, <1>9, NamesNeverClash

-----------------------------------------------------------------------------
(***************************************************************************)
(* What Java runs.                                                         *)
(***************************************************************************)
\* What a visible name holds in the store a, its alias holds in b.
Mirrored(sc, frames, a, b) ==
    \A i \in 1 .. Depth(sc), n \in Names : Has(sc, i, n) =>
        Val(a, Key(sc, i, n)) = Val(b, << frames[i][n], 0 >>)
\* No two variables are one, and no two have the same alias.
Renames(frames, sc) ==
    /\ Apart(sc)
    /\ \A i, j \in 1 .. Depth(sc), n, m \in Names :
          Has(sc, i, n) /\ Has(sc, j, m) /\ frames[i][n] = frames[j][m] => i = j /\ n = m
\* The run of the source is in s where that of what is emitted is in t.
Paired(sc, frames, s, t) ==
    /\ Going(s) /\ Going(t) /\ FuelIn(s) = FuelIn(t) /\ OutIn(s) = OutIn(t)
    /\ FuelIn(s) # 0 => Mirrored(sc, frames, StoreIn(s), StoreIn(t))

LEMMA MirroredEntered ==
    ASSUME NEW frames, NEW sc, NEW seen, NEW id, Framed(frames, sc, seen, id)
    PROVE  /\ \A a, b : Mirrored(Enter(sc), EnterScope(frames), a, b) <=> Mirrored(sc, frames, a, b)
           /\ Renames(frames, sc) => Renames(EnterScope(frames), Enter(sc))
<1>1. PICK d : d = Depth(sc)
  OBVIOUS
<1>2. IsScopes(sc) /\ Listed(frames) /\ Len(frames) = d
  BY <1>1 DEF Framed
<1>3. PICK g, e : g = EnterScope(frames) /\ e = Enter(sc)
  OBVIOUS
<1>4. d \in Nat /\ \A i \in 1 .. d : g[i] = frames[i]
  BY <1>2, <1>3, EnterScopeParts
<1>5. /\ Depth(e) = d + 1
      /\ \A i \in 1 .. d, n \in Names : Held(e, i, n) = Held(sc, i, n)
      /\ \A n \in Names : Held(e, d + 1, n) = Absent
  BY <1>1, <1>2, <1>3, EnterParts, EntryKinds DEF IsScopes
<1>6. /\ \A i \in 1 .. d + 1, n \in Names : Has(e, i, n) => i \in 1 .. d
      /\ \A i \in 1 .. d, n \in Names : Has(e, i, n) <=> Has(sc, i, n)
      /\ \A i \in 1 .. d, n \in Names : Key(e, i, n) = Key(sc, i, n)
      /\ \A i \in 1 .. d : i \in 1 .. d + 1
  BY <1>4, <1>5 DEF Has, Key
<1>7. ASSUME NEW a, NEW b PROVE Mirrored(e, g, a, b) <=> Mirrored(sc, frames, a, b)
  BY <1>1, <1>4, <1>5, <1>6 DEF Mirrored
<1>8. ASSUME Renames(frames, sc) PROVE Renames(g, e)
  <2>1. Apart(e)
    BY <1>2, <1>3, <1>8, ApartEntered DEF Renames
  <2>2. ASSUME NEW i \in 1 .. d + 1, NEW j \in 1 .. d + 1, NEW n \in Names, NEW m \in Names,
               Has(e, i, n), Has(e, j, m), g[i][n] = g[j][m]
        PROVE  i = j /\ n = m
    BY <1>1, <1>4, <1>6, <1>8, <2>2 DEF Renames
  <2> QED
    BY <1>5, <2>1, <2>2 DEF Renames
<1> QED
  BY <1>3, <1>7, <1>8

\* A declaration, whose alias is new.
LEMMA MirroredDeclared ==
    ASSUME NEW frames, NEW sc, NEW seen, NEW id, Framed(frames, sc, seen, id), Depth(sc) > 0,
           NEW n \in Names, NEW k \in Nat, Anew(sc, n, k)
    PROVE  LET v == Alias(n, id)
               e == Declared(sc, n, k)
               g == DeclareAs(frames, n, v)
           IN /\ \A a, b : Mirrored(sc, frames, a, b) => Mirrored(e, g, Put(a, << n, k >>, 0), Put(b, << v, 0 >>, 0))
              /\ \A a, b : Mirrored(e, g, a, b) => Mirrored(sc, frames, a, b)
              /\ Renames(frames, sc) => Renames(g, e)
<1>1. PICK v, e, g : v = Alias(n, id) /\ e = Declared(sc, n, k) /\ g = DeclareAs(frames, n, v)
  OBVIOUS
<1>2. PICK d : d = Depth(sc)
  OBVIOUS
<1>3. IsScopes(sc) /\ Listed(frames) /\ Len(frames) = d /\ d > 0 /\ d \in Nat
  <2>1. IsScopes(sc) /\ Listed(frames) /\ Len(frames) = d
    BY <1>2 DEF Framed
  <2> QED
    BY <1>2, <2>1, StackParts DEF IsScopes
<1>4. /\ \A i \in 1 .. d, m \in Names : Has(sc, i, m) <=> m \in DOMAIN frames[i]
      /\ \A i \in 1 .. d, m \in Names : Has(sc, i, m) => frames[i][m] \in seen
  BY <1>2 DEF Framed
<1>5. v \notin seen
  BY <1>1, FramedDeclared
<1>6. /\ \A i \in 1 .. d : i # d => g[i] = frames[i]
      /\ g[d][n] = v /\ \A m \in DOMAIN frames[d] : m # n => g[d][m] = frames[d][m]
  BY <1>3, <1>1, DeclareAsParts
<1>7. /\ IsScopes(e) /\ Depth(e) = d /\ d \in 1 .. d
      /\ \A i \in 1 .. d, m \in Names : Held(e, i, m) = IF i = d /\ m = n THEN Meaning(k) ELSE Held(sc, i, m)
  <2>1. PICK c : c = Meaning(k)
    OBVIOUS
  <2>2. c \in Bindings /\ d \in 1 .. d
    BY <1>3, <2>1, EntryKinds
  <2>3. e = SetIn(sc, d, n, c)
    BY <1>2, <1>1, <2>1 DEF Declared
  <2>4. /\ Stack(e, Bindings) /\ Depth(e) = d
        /\ \A i \in 1 .. d, m \in Names : Held(e, i, m) = IF i = d /\ m = n THEN c ELSE Held(sc, i, m)
    BY <1>2, <1>3, <2>2, <2>3, SetParts DEF IsScopes
  <2> QED
    BY <2>1, <2>2, <2>4 DEF IsScopes
<1>8. ~Has(sc, d, n) /\ \A i \in 1 .. d : Has(sc, i, n) => Key(sc, i, n) # << n, k >>
  BY <1>2 DEF Anew
<1>9. Has(e, d, n) /\ Key(e, d, n) = << n, k >>
  BY <1>7, EntryKinds DEF Has, Key
<1>10. ASSUME NEW i \in 1 .. d, NEW m \in Names, ~(i = d /\ m = n)
      PROVE  /\ Has(e, i, m) <=> Has(sc, i, m)
             /\ Key(e, i, m) = Key(sc, i, m)
             /\ Has(sc, i, m) => g[i][m] = frames[i][m] /\ g[i][m] # v /\ Key(sc, i, m) # << n, k >>
  <2>1. (Has(e, i, m) <=> Has(sc, i, m)) /\ Key(e, i, m) = Key(sc, i, m)
    BY <1>7, <1>10 DEF Has, Key
  <2>2. ASSUME Has(sc, i, m) PROVE g[i][m] = frames[i][m]
    BY <1>4, <1>6, <1>10, <2>2
  <2>3. ASSUME Has(sc, i, m) PROVE Key(sc, i, m) # << n, k >>
    <3>1. CASE m = n
      BY <1>8, <2>3, <3>1
    <3>2. CASE m # n
      BY <3>2 DEF Key
    <3> QED
      BY <3>1, <3>2
  <2> QED
    BY <1>4, <1>5, <2>1, <2>2, <2>3
<1>11. ASSUME NEW a, NEW b, Mirrored(sc, frames, a, b),
              NEW w, w = Put(a, << n, k >>, 0), NEW x, x = Put(b, << v, 0 >>, 0)
       PROVE  Mirrored(e, g, w, x)
  <2>1. /\ \A t : Val(w, t) = IF t = << n, k >> THEN 0 ELSE Val(a, t)
        /\ \A t : Val(x, t) = IF t = << v, 0 >> THEN 0 ELSE Val(b, t)
    BY <1>11, ValPut
  <2>2. ASSUME NEW i \in 1 .. d, NEW m \in Names, Has(e, i, m)
        PROVE  Val(w, Key(e, i, m)) = Val(x, << g[i][m], 0 >>)
    <3>1. CASE i = d /\ m = n
      BY <1>6, <1>9, <2>1, <3>1
    <3>2. CASE ~(i = d /\ m = n)
      <4>1. /\ Has(sc, i, m) /\ Key(e, i, m) = Key(sc, i, m)
            /\ g[i][m] = frames[i][m] /\ g[i][m] # v /\ Key(sc, i, m) # << n, k >>
        BY <1>10, <2>2, <3>2
      <4>2. Val(a, Key(sc, i, m)) = Val(b, << frames[i][m], 0 >>)
        BY <1>2, <1>11, <4>1 DEF Mirrored
      <4>3. << g[i][m], 0 >> # << v, 0 >>
        BY <4>1
      <4> QED
        BY <2>1, <4>1, <4>2, <4>3
    <3> QED
      BY <3>1, <3>2
  <2> QED
    BY <1>7, <2>2 DEF Mirrored
<1>12. ASSUME NEW a, NEW b, Mirrored(e, g, a, b) PROVE Mirrored(sc, frames, a, b)
  <2>1. ASSUME NEW i \in 1 .. d, NEW m \in Names, Has(sc, i, m)
        PROVE  Val(a, Key(sc, i, m)) = Val(b, << frames[i][m], 0 >>)
    <3>1. ~(i = d /\ m = n)
      BY <1>8, <2>1
    <3>2. Has(e, i, m) /\ Key(e, i, m) = Key(sc, i, m) /\ g[i][m] = frames[i][m]
      BY <1>10, <2>1, <3>1
    <3>3. Val(a, Key(e, i, m)) = Val(b, << g[i][m], 0 >>)
      BY <1>7, <1>12, <3>2 DEF Mirrored
    <3> QED
      BY <3>2, <3>3
  <2> QED
    BY <1>2, <2>1 DEF Mirrored
<1>13. ASSUME Renames(frames, sc) PROVE Renames(g, e)
  <2>1. Apart(e)
    BY <1>2, <1>3, <1>8, <1>13, <1>1, ApartDeclared DEF Renames
  <2>2. ASSUME NEW i \in 1 .. d, NEW j \in 1 .. d, NEW m \in Names, NEW l \in Names,
               Has(e, i, m), Has(e, j, l), g[i][m] = g[j][l]
        PROVE  i = j /\ m = l
    <3>1. CASE i = d /\ m = n
      <4>1. g[j][l] = v
        BY <1>6, <2>2, <3>1
      <4> QED
        BY <1>10, <2>2, <3>1, <4>1
    <3>2. CASE j = d /\ l = n
      <4>1. g[i][m] = v
        BY <1>6, <2>2, <3>2
      <4> QED
        BY <1>10, <2>2, <3>2, <4>1
    <3>3. CASE ~(i = d /\ m = n) /\ ~(j = d /\ l = n)
      <4>1. Has(sc, i, m) /\ g[i][m] = frames[i][m]
        BY <1>10, <2>2, <3>3
      <4>2. Has(sc, j, l) /\ g[j][l] = frames[j][l]
        BY <1>10, <2>2, <3>3
      <4>3. frames[i][m] = frames[j][l]
        BY <2>2, <4>1, <4>2
      <4> QED
        BY <1>2, <1>13, <4>1, <4>2, <4>3 DEF Renames
    <3> QED
      BY <3>1, <3>2, <3>3
  <2> QED
    BY <1>7, <2>1, <2>2 DEF Renames
<1> QED
  BY <1>11, <1>12, <1>13, <1>1

\* An assignment to what a name means and to what its alias names.
LEMMA MirroredAssigned ==
    ASSUME NEW frames, NEW sc, NEW seen, NEW id, Framed(frames, sc, seen, id), Renames(frames, sc),
           NEW n, NEW k, Resolved(sc, n, k), NEW u, u = LookedUp(frames, n), NEW v
    PROVE  /\ \A a, b : Mirrored(sc, frames, a, b) => Val(a, << n, k >>) = Val(b, << u, 0 >>)
           /\ \A a, b : Mirrored(sc, frames, a, b) => Mirrored(sc, frames, Put(a, << n, k >>, v), Put(b, << u, 0 >>, v))
<1>1. n \in Names /\ Frame(sc, n) # 0 /\ Lookup(sc, n) = Meaning(k) /\ IsScopes(sc)
  BY DEF Resolved, Framed
<1>2. PICK f : f = Frame(sc, n)
  OBVIOUS
<1>3. f \in 1 .. Depth(sc) /\ Has(sc, f, n) /\ Key(sc, f, n) = << n, k >>
  BY <1>1, <1>2, InnerFrame, EntryKinds DEF IsScopes, Key
<1>4. u = frames[f][n]
  BY <1>1, <1>2, LookedUpIs
<1>5. ASSUME NEW a, NEW b, Mirrored(sc, frames, a, b) PROVE Val(a, << n, k >>) = Val(b, << u, 0 >>)
  BY <1>1, <1>3, <1>4, <1>5 DEF Mirrored
<1>6. ASSUME NEW a, NEW b, Mirrored(sc, frames, a, b),
              NEW w, w = Put(a, << n, k >>, v), NEW x, x = Put(b, << u, 0 >>, v)
       PROVE  Mirrored(sc, frames, w, x)
  <2>1. /\ \A t : Val(w, t) = IF t = << n, k >> THEN v ELSE Val(a, t)
        /\ \A t : Val(x, t) = IF t = << u, 0 >> THEN v ELSE Val(b, t)
    BY <1>6, ValPut
  <2>2. ASSUME NEW i \in 1 .. Depth(sc), NEW m \in Names, Has(sc, i, m)
        PROVE  Val(w, Key(sc, i, m)) = Val(x, << frames[i][m], 0 >>)
    <3>1. CASE i = f /\ m = n
      BY <1>3, <1>4, <2>1, <3>1
    <3>2. CASE ~(i = f /\ m = n)
      <4>1. Key(sc, i, m) # << n, k >>
        <5>1. CASE m # n
          BY <5>1 DEF Key
        <5>2. CASE m = n /\ i # f
          BY <1>1, <1>3, <2>2, <5>2 DEF Renames, Apart
        <5> QED
          BY <3>2, <5>1, <5>2
      <4>2. frames[i][m] # u
        BY <1>1, <1>3, <1>4, <2>2, <3>2 DEF Renames
      <4>3. << frames[i][m], 0 >> # << u, 0 >>
        BY <4>2
      <4>4. Val(a, Key(sc, i, m)) = Val(b, << frames[i][m], 0 >>)
        BY <1>6, <2>2 DEF Mirrored
      <4> QED
        BY <2>1, <4>1, <4>3, <4>4
    <3> QED
      BY <3>1, <3>2
  <2> QED
    BY <2>2 DEF Mirrored
<1> QED
  BY <1>5, <1>6

\* What is emitted for an expression is worth what the expression is.
SpellsRight(Inside, e) ==
    \A frames, sc, seen, id, a, b :
        Framed(frames, sc, seen, id) /\ Renames(frames, sc) /\ InScope(Inside, e, sc) /\ Mirrored(sc, frames, a, b) =>
            Eval(Spelled(e, frames), b) = Eval(e, a)

LEMMA NodeSpellsRight ==
    ASSUME NEW T, NEW Rank, NEW Inside, AllExpressions(T, Rank, Inside),
           \A e \in T : Evaluated(e) /\ SpelledByParts(e),
           NEW X, NEW E, AliasTrees(X, E), \A x \in X : Evaluated(x), \A e \in T : SpellsOut(X, Inside, e),
           NEW e \in T, \A d \in T : Rank[d] < Rank[e] => SpellsRight(Inside, d)
    PROVE  SpellsRight(Inside, e)
<1> SUFFICES ASSUME NEW frames, NEW sc, NEW seen, NEW id, Framed(frames, sc, seen, id), Renames(frames, sc),
                    InScope(Inside, e, sc), NEW s, NEW t, Mirrored(sc, frames, s, t)
             PROVE  Eval(Spelled(e, frames), t) = Eval(e, s)
  BY DEF SpellsRight
<1>1. PICK x : x = Spelled(e, frames)
  OBVIOUS
<1>2. PICK a, b : a = Spelled(e.l, frames) /\ b = Spelled(e.r, frames)
  OBVIOUS
<1>3. x = SpelledOf(a, b, e, frames)
  BY <1>1, <1>2 DEF SpelledByParts
<1>4. Inside[e] = {e} \cup IF e.k \in {"add", "cmp"} THEN Inside[e.l] \cup Inside[e.r] ELSE {}
  BY DEF AllExpressions
<1>5. Eval(e, s) = NodeValue(e, s) /\ Eval(x, t) = NodeValue(x, t)
  <2>1. x \in X
    BY <1>1 DEF SpellsOut
  <2> QED
    BY <2>1 DEF Evaluated, Meant
<1>6. CASE \E kind \in Kinds, v \in Nat : e = Lit(kind, v)
  <2>1. PICK kind \in Kinds, v \in Nat : e = Lit(kind, v)
    BY <1>6
  <2>2. x = Lit(kind, v)
    BY <1>3, <2>1, SpelledForm
  <2> QED
    BY <1>1, <1>5, <2>1, <2>2, EvalForm
<1>7. CASE \E n \in Names, k \in Nat : e = Var(n, k)
  <2>1. PICK n \in Names, k \in Nat : e = Var(n, k)
    BY <1>7
  <2>2. e.k = "var" /\ e.name = n /\ e.scope = k
    BY <2>1, KindsApart
  <2>3. Resolved(sc, n, k)
    BY <1>4, <2>2 DEF InScope
  <2>4. PICK v : v = LookedUp(frames, n)
    OBVIOUS
  <2>5. x = Var(v, 0)
    BY <1>3, <2>1, <2>4, SpelledForm
  <2>6. Val(s, << n, k >>) = Val(t, << v, 0 >>)
    BY <2>3, <2>4, MirroredAssigned
  <2>7. NodeValue(e, s) = Val(s, << n, k >>) /\ NodeValue(x, t) = Val(t, << v, 0 >>)
    BY <2>1, <2>5, EvalForm
  <2> QED
    BY <1>1, <1>5, <2>6, <2>7
<1>8. CASE \E l, r \in T :
              /\ Rank[l] < Rank[e] /\ Rank[r] < Rank[e]
              /\ e = Add(l, r) \/ \E op \in {"==", "!="} : e = Compare(op, l, r)
  <2>1. PICK l \in T, r \in T :
              /\ Rank[l] < Rank[e] /\ Rank[r] < Rank[e]
              /\ e = Add(l, r) \/ \E op \in {"==", "!="} : e = Compare(op, l, r)
    BY <1>8
  <2>2. e.l = l /\ e.r = r /\ e.k \in {"add", "cmp"}
    BY <2>1, KindsApart
  <2>3. InScope(Inside, l, sc) /\ InScope(Inside, r, sc)
    BY <1>4, <2>2 DEF InScope
  <2>4. Eval(a, t) = Eval(l, s)
    BY <1>2, <2>1, <2>2, <2>3 DEF SpellsRight
  <2>5. Eval(b, t) = Eval(r, s)
    BY <1>2, <2>1, <2>2, <2>3 DEF SpellsRight
  <2>6. ASSUME e = Add(l, r) PROVE NodeValue(x, t) = NodeValue(e, s)
    <3>1. x = Add(a, b)
      BY <1>3, <2>6, SpelledForm
    <3>2. NodeValue(x, t) = (Eval(a, t) + Eval(b, t)) % IntMod
      BY <3>1, EvalForm
    <3>3. NodeValue(e, s) = (Eval(l, s) + Eval(r, s)) % IntMod
      BY <2>6, EvalForm
    <3> QED
      BY <2>4, <2>5, <3>2, <3>3
  <2>7. ASSUME NEW op \in {"==", "!="}, e = Compare(op, l, r) PROVE NodeValue(x, t) = NodeValue(e, s)
    <3>1. x = Compare(op, a, b)
      BY <1>3, <2>7, SpelledForm
    <3>2. NodeValue(x, t) = IF op = "==" THEN SameBit(Eval(a, t), Eval(b, t)) ELSE 1 - SameBit(Eval(a, t), Eval(b, t))
      BY <2>7, <3>1, EvalForm, ZenonT(40)
    <3>3. NodeValue(e, s) = IF op = "==" THEN SameBit(Eval(l, s), Eval(r, s)) ELSE 1 - SameBit(Eval(l, s), Eval(r, s))
      BY <2>7, EvalForm, ZenonT(40)
    <3> QED
      BY <2>4, <2>5, <3>2, <3>3
  <2> QED
    BY <1>1, <1>5, <2>1, <2>6, <2>7
<1>9. Built(T, Rank, e)
  BY DEF AllExpressions
<1> QED
  BY <1>6, <1>7, <1>8, <1>9 DEF Built

LEMMA AllSpellRight ==
    ASSUME NEW T, NEW Rank, NEW Inside, AllExpressions(T, Rank, Inside),
           \A e \in T : Evaluated(e) /\ SpelledByParts(e),
           NEW X, NEW E, AliasTrees(X, E), \A x \in X : Evaluated(x)
    PROVE  \A e \in T : SpellsRight(Inside, e)
<1>1. PICK W : W = {e \in T : SpellsRight(Inside, e)}
  OBVIOUS
<1>2. Rank \in [T -> Nat] /\ \A e \in T : SpellsOut(X, Inside, e)
  BY AllSpellOut DEF AllExpressions
<1>3. \A e \in T : (\A d \in T : Rank[d] < Rank[e] => d \in W) => e \in W
  BY <1>1, <1>2, NodeSpellsRight
<1>4. T \subseteq W
  BY <1>2, <1>3, EveryMember
<1> QED
  BY <1>1, <1>4

\* What is emitted for a loop takes the turns the loop takes.
LEMMA LoopsPaired ==
    ASSUME NEW sc, NEW frames, NEW c, NEW b, NEW w, w = While(c, b), NEW x, NEW p, NEW y, y = While(x, p),
           \A s : \A k \in Nat : Loop(w, s, k) = NodeLoop(w, s, k),
           \A t : \A k \in Nat : Loop(y, t, k) = NodeLoop(y, t, k),
           \A s, t : Paired(sc, frames, s, t) => Paired(sc, frames, ExecBlock(b, s), ExecBlock(p, t)),
           \A s, t : Paired(sc, frames, s, t) /\ FuelIn(s) # 0 => Eval(c, StoreIn(s)) = Eval(x, StoreIn(t))
    PROVE  \A k \in Nat : \A s, t : Paired(sc, frames, s, t) => Paired(sc, frames, Loop(w, s, k), Loop(y, t, k))
<1>1. /\ \A s : \A k \in Nat : FuelIn(s) = 0 => Loop(w, s, k) = s
      /\ \A s : \A k \in Nat : Eval(c, StoreIn(s)) # 1 => Loop(w, s, k) = s
      /\ \A s : FuelIn(s) # 0 /\ Eval(c, StoreIn(s)) = 1 =>
            /\ Loop(w, s, 0) = ExecBlock(b, Burn(s))
            /\ \A k \in Nat : Loop(w, s, k + 1) = Loop(w, Loop(w, s, k), k)
  BY LoopIs
<1>2. /\ \A t : \A k \in Nat : FuelIn(t) = 0 => Loop(y, t, k) = t
      /\ \A t : \A k \in Nat : Eval(x, StoreIn(t)) # 1 => Loop(y, t, k) = t
      /\ \A t : FuelIn(t) # 0 /\ Eval(x, StoreIn(t)) = 1 =>
            /\ Loop(y, t, 0) = ExecBlock(p, Burn(t))
            /\ \A k \in Nat : Loop(y, t, k + 1) = Loop(y, Loop(y, t, k), k)
  BY LoopIs
<1>3. PICK K : K = {k \in Nat : \A s, t : Paired(sc, frames, s, t) => Paired(sc, frames, Loop(w, s, k), Loop(y, t, k))}
  OBVIOUS
<1>4. ASSUME NEW k \in Nat, NEW s, NEW t, Paired(sc, frames, s, t), FuelIn(s) = 0 \/ Eval(c, StoreIn(s)) # 1
      PROVE  Paired(sc, frames, Loop(w, s, k), Loop(y, t, k))
  <2>1. FuelIn(t) = 0 \/ (FuelIn(s) # 0 /\ Eval(x, StoreIn(t)) # 1)
    BY <1>4 DEF Paired
  <2>2. Loop(w, s, k) = s /\ Loop(y, t, k) = t
    BY <1>1, <1>2, <1>4, <2>1
  <2> QED
    BY <1>4, <2>2
<1>5. ASSUME NEW s, NEW t, Paired(sc, frames, s, t), FuelIn(s) # 0, Eval(c, StoreIn(s)) = 1
      PROVE  FuelIn(t) # 0 /\ Eval(x, StoreIn(t)) = 1
  BY <1>5 DEF Paired
<1>6. 0 \in K
  <2> SUFFICES ASSUME NEW s, NEW t, Paired(sc, frames, s, t), FuelIn(s) # 0, Eval(c, StoreIn(s)) = 1
               PROVE  Paired(sc, frames, Loop(w, s, 0), Loop(y, t, 0))
    BY <1>3, <1>4
  <2>1. FuelIn(t) # 0 /\ Eval(x, StoreIn(t)) = 1
    BY <1>5
  <2>2. PICK u, v : u = Burn(s) /\ v = Burn(t)
    OBVIOUS
  <2>3. Going(s) /\ Going(t)
    BY DEF Paired
  <2>4. StoreIn(u) = StoreIn(s) /\ OutIn(u) = OutIn(s) /\ FuelIn(u) = FuelIn(s) - 1 /\ Going(u)
    BY <2>2, <2>3, GoingParts
  <2>5. StoreIn(v) = StoreIn(t) /\ OutIn(v) = OutIn(t) /\ FuelIn(v) = FuelIn(t) - 1 /\ Going(v)
    BY <2>1, <2>2, <2>3, GoingParts
  <2>6. Paired(sc, frames, u, v)
    BY <2>4, <2>5 DEF Paired
  <2>7. Loop(w, s, 0) = ExecBlock(b, u) /\ Loop(y, t, 0) = ExecBlock(p, v)
    BY <1>1, <1>2, <2>1, <2>2
  <2> QED
    BY <2>6, <2>7
<1>7. ASSUME NEW k \in Nat, k \in K PROVE k + 1 \in K
  <2>1. k + 1 \in Nat /\ \A s, t : Paired(sc, frames, s, t) => Paired(sc, frames, Loop(w, s, k), Loop(y, t, k))
    BY <1>3, <1>7
  <2> SUFFICES ASSUME NEW s, NEW t, Paired(sc, frames, s, t), FuelIn(s) # 0, Eval(c, StoreIn(s)) = 1
               PROVE  Paired(sc, frames, Loop(w, s, k + 1), Loop(y, t, k + 1))
    BY <1>3, <1>4, <2>1
  <2>2. FuelIn(t) # 0 /\ Eval(x, StoreIn(t)) = 1
    BY <1>5
  <2>3. PICK u, v : u = Loop(w, s, k) /\ v = Loop(y, t, k)
    OBVIOUS
  <2>4. Loop(w, s, k + 1) = Loop(w, u, k) /\ Loop(y, t, k + 1) = Loop(y, v, k)
    BY <1>1, <1>2, <2>2, <2>3
  <2>5. Paired(sc, frames, u, v)
    BY <2>1, <2>3
  <2> QED
    BY <2>1, <2>4, <2>5
<1>8. Nat \subseteq K
  BY <1>6, <1>7, EveryNumber
<1> QED
  BY <1>3, <1>8

\* Where the names of sc have the aliases of frames, what is emitted for q does what
\* q does.
RunsPaired(C, q) ==
    \A frames, sc, seen, id :
        Framed(frames, sc, seen, id) /\ Renames(frames, sc) /\ Standing(sc) /\ << q, sc >> \in C =>
            \A s, t : Paired(sc, frames, s, t) =>
                Paired(sc, frames, ExecBlock(q, s), ExecBlock(StmtsIn(Emitted(q, id, frames)), t))

LEMMA OwnPaired ==
    ASSUME NEW Inside, NEW e, SpellsRight(Inside, e),
           NEW frames, NEW sc, NEW seen, NEW id, Framed(frames, sc, seen, id), Renames(frames, sc),
           InScope(Inside, e, sc), NEW x, x = Spelled(e, frames)
    PROVE  \A s, t : Paired(sc, frames, s, t) /\ FuelIn(s) # 0 => Eval(e, StoreIn(s)) = Eval(x, StoreIn(t))
  BY DEF SpellsRight, Paired

LEMMA BodyPaired ==
    ASSUME NEW C, NEW b, RunsPaired(C, b),
           NEW frames, NEW sc, NEW seen, NEW id, Framed(frames, sc, seen, id), Renames(frames, sc),
           Standing(Enter(sc)), << b, Enter(sc) >> \in C,
           NEW p, p = StmtsIn(Emitted(b, id, EnterScope(frames)))
    PROVE  \A s, t : Paired(sc, frames, s, t) => Paired(sc, frames, ExecBlock(b, s), ExecBlock(p, t))
<1>1. PICK g, e : g = EnterScope(frames) /\ e = Enter(sc)
  OBVIOUS
<1>2. Framed(g, e, seen, id) /\ Renames(g, e)
  BY <1>1, FramedEntered, MirroredEntered
<1>3. \A s, t : Paired(e, g, s, t) <=> Paired(sc, frames, s, t)
  <2>1. \A a, b1 : Mirrored(e, g, a, b1) <=> Mirrored(sc, frames, a, b1)
    BY <1>1, MirroredEntered
  <2> QED
    BY <2>1 DEF Paired
<1>4. \A s, t : Paired(e, g, s, t) => Paired(e, g, ExecBlock(b, s), ExecBlock(p, t))
  BY <1>1, <1>2 DEF RunsPaired
<1> QED
  BY <1>3, <1>4

\* A declaration makes the variable anew, for the one and for the other.
LEMMA DeclPaired ==
    ASSUME DeclResets = TRUE,
           NEW frames, NEW sc, NEW seen, NEW id, Framed(frames, sc, seen, id), Depth(sc) > 0,
           NEW n \in Names, NEW k \in Nat, Anew(sc, n, k), NEW st, st = Decl(n, k),
           NEW v, v = Alias(n, id), NEW y, y = Decl(v, 0),
           NEW s, NEW t, Paired(sc, frames, s, t), FuelIn(s) # 0
    PROVE  Paired(Declared(sc, n, k), DeclareAs(frames, n, v), NodeExec(st, s), NodeExec(y, t))
<1>1. PICK e, g : e = Declared(sc, n, k) /\ g = DeclareAs(frames, n, v)
  OBVIOUS
<1>2. Going(s) /\ Going(t) /\ FuelIn(t) # 0 /\ FuelIn(t) = FuelIn(s) /\ OutIn(t) = OutIn(s)
  BY DEF Paired
<1>3. PICK u, w : u = Store(s, << n, k >>, 0) /\ w = Store(t, << v, 0 >>, 0)
  OBVIOUS
<1>4. NodeExec(st, s) = u /\ NodeExec(y, t) = w
  BY <1>2, <1>3, ExecIs
<1>5. StoreIn(u) = Put(StoreIn(s), << n, k >>, 0) /\ OutIn(u) = OutIn(s) /\ FuelIn(u) = FuelIn(s) /\ Going(u)
  BY <1>2, <1>3, GoingParts
<1>6. StoreIn(w) = Put(StoreIn(t), << v, 0 >>, 0) /\ OutIn(w) = OutIn(t) /\ FuelIn(w) = FuelIn(t) /\ Going(w)
  BY <1>2, <1>3, GoingParts
<1>7. Mirrored(e, g, StoreIn(u), StoreIn(w))
  <2>1. Mirrored(sc, frames, StoreIn(s), StoreIn(t))
    BY DEF Paired
  <2>2. PICK a, b : a = StoreIn(s) /\ b = StoreIn(t)
    OBVIOUS
  <2>3. Mirrored(e, g, Put(a, << n, k >>, 0), Put(b, << v, 0 >>, 0))
    BY <1>1, <2>1, <2>2, MirroredDeclared
  <2> QED
    BY <1>5, <1>6, <2>2, <2>3
<1>8. Paired(e, g, u, w)
  BY <1>2, <1>5, <1>6, <1>7 DEF Paired
<1> QED
  BY <1>1, <1>4, <1>8

LEMMA AssignPaired ==
    ASSUME NEW frames, NEW sc, NEW seen, NEW id, Framed(frames, sc, seen, id), Renames(frames, sc),
           NEW n, NEW k, Resolved(sc, n, k), NEW e, NEW st, st = Assign(n, k, e),
           NEW v, v = LookedUp(frames, n), NEW x, NEW y, y = Assign(v, 0, x),
           NEW s, NEW t, Paired(sc, frames, s, t), FuelIn(s) # 0, Eval(e, StoreIn(s)) = Eval(x, StoreIn(t))
    PROVE  Paired(sc, frames, NodeExec(st, s), NodeExec(y, t))
<1>1. PICK z : z = Eval(e, StoreIn(s))
  OBVIOUS
<1>2. Going(s) /\ Going(t) /\ FuelIn(t) # 0 /\ FuelIn(t) = FuelIn(s) /\ OutIn(t) = OutIn(s)
  BY DEF Paired
<1>3. PICK u, w : u = Store(s, << n, k >>, z) /\ w = Store(t, << v, 0 >>, z)
  OBVIOUS
<1>4. NodeExec(st, s) = u /\ NodeExec(y, t) = w
  <2>1. NodeExec(st, s) = Store(s, << n, k >>, Eval(e, StoreIn(s)))
    <3>1. FuelIn(s) # 0
      OBVIOUS
    <3>2. \A i, j, d : st = Assign(i, j, d) => NodeExec(st, s) = Store(s, << i, j >>, Eval(d, StoreIn(s)))
      BY ONLY <3>1, ExecIs
    <3> QED
      BY <3>2
  <2>2. NodeExec(y, t) = Store(t, << v, 0 >>, Eval(x, StoreIn(t)))
    <3>1. FuelIn(t) # 0
      BY <1>2
    <3>2. \A i, j, d : y = Assign(i, j, d) => NodeExec(y, t) = Store(t, << i, j >>, Eval(d, StoreIn(t)))
      BY ONLY <3>1, ExecIs
    <3> QED
      BY <3>2
  <2> QED
    BY <1>1, <1>3, <2>1, <2>2
<1>5. StoreIn(u) = Put(StoreIn(s), << n, k >>, z) /\ OutIn(u) = OutIn(s) /\ FuelIn(u) = FuelIn(s) /\ Going(u)
  BY <1>2, <1>3, GoingParts
<1>6. StoreIn(w) = Put(StoreIn(t), << v, 0 >>, z) /\ OutIn(w) = OutIn(t) /\ FuelIn(w) = FuelIn(t) /\ Going(w)
  BY <1>2, <1>3, GoingParts
<1>7. Mirrored(sc, frames, StoreIn(u), StoreIn(w))
  <2>1. Mirrored(sc, frames, StoreIn(s), StoreIn(t))
    BY DEF Paired
  <2>2. PICK a, b : a = StoreIn(s) /\ b = StoreIn(t)
    OBVIOUS
  <2>3. Mirrored(sc, frames, Put(a, << n, k >>, z), Put(b, << v, 0 >>, z))
    BY <2>1, <2>2, MirroredAssigned
  <2> QED
    BY <1>5, <1>6, <2>2, <2>3
<1>8. Paired(sc, frames, u, w)
  BY <1>2, <1>5, <1>6, <1>7 DEF Paired
<1> QED
  BY <1>4, <1>8

LEMMA PrintPaired ==
    ASSUME NEW frames, NEW sc, NEW e, NEW st, st = PrintOf(e), NEW x, NEW y, y = PrintOf(x),
           NEW s, NEW t, Paired(sc, frames, s, t), FuelIn(s) # 0, Eval(e, StoreIn(s)) = Eval(x, StoreIn(t))
    PROVE  Paired(sc, frames, NodeExec(st, s), NodeExec(y, t))
<1>1. PICK z : z = Eval(e, StoreIn(s))
  OBVIOUS
<1>2. Going(s) /\ Going(t) /\ FuelIn(t) # 0 /\ FuelIn(t) = FuelIn(s) /\ OutIn(t) = OutIn(s)
  BY DEF Paired
<1>3. PICK u, w : u = Output(s, z) /\ w = Output(t, z)
  OBVIOUS
<1>4. NodeExec(st, s) = u /\ NodeExec(y, t) = w
  <2>1. NodeExec(st, s) = Output(s, Eval(e, StoreIn(s)))
    BY ExecIs
  <2>2. NodeExec(y, t) = Output(t, Eval(x, StoreIn(t)))
    BY <1>2, ExecIs
  <2> QED
    BY <1>1, <1>3, <2>1, <2>2
<1>5. StoreIn(u) = StoreIn(s) /\ OutIn(u) = Append(OutIn(s), z) /\ FuelIn(u) = FuelIn(s) /\ Going(u)
  BY <1>2, <1>3, GoingParts
<1>6. StoreIn(w) = StoreIn(t) /\ OutIn(w) = Append(OutIn(t), z) /\ FuelIn(w) = FuelIn(t) /\ Going(w)
  BY <1>2, <1>3, GoingParts
<1>7. Paired(sc, frames, u, w)
  BY <1>2, <1>5, <1>6 DEF Paired
<1> QED
  BY <1>4, <1>7

\* A statement with a body, given that the body and the condition go together.
LEMMA BodiesPaired ==
    ASSUME LoopDepth \in Nat, NEW frames, NEW sc, NEW b, NEW p,
           \A s, t : Paired(sc, frames, s, t) => Paired(sc, frames, ExecBlock(b, s), ExecBlock(p, t)),
           NEW s, NEW t, Paired(sc, frames, s, t), FuelIn(s) # 0
    PROVE  /\ \A st, y : st = Block(b) /\ y = Block(p) => Paired(sc, frames, NodeExec(st, s), NodeExec(y, t))
           /\ \A c, x : (\A u, v : Paired(sc, frames, u, v) /\ FuelIn(u) # 0 => Eval(c, StoreIn(u)) = Eval(x, StoreIn(v))) =>
                 /\ \A st, y : st = If(c, b) /\ y = If(x, p) => Paired(sc, frames, NodeExec(st, s), NodeExec(y, t))
                 /\ \A st, y : /\ st = While(c, b) /\ y = While(x, p)
                               /\ \A u : \A k \in Nat : Loop(st, u, k) = NodeLoop(st, u, k)
                               /\ \A u : \A k \in Nat : Loop(y, u, k) = NodeLoop(y, u, k)
                               => Paired(sc, frames, NodeExec(st, s), NodeExec(y, t))
<1>1. FuelIn(t) # 0
  BY DEF Paired
<1>2. ASSUME NEW st, NEW y, st = Block(b), y = Block(p) PROVE Paired(sc, frames, NodeExec(st, s), NodeExec(y, t))
  <2>1. NodeExec(st, s) = ExecBlock(b, s) /\ NodeExec(y, t) = ExecBlock(p, t)
    BY <1>1, <1>2, ExecIs
  <2> QED
    BY <2>1
<1>3. ASSUME NEW c, NEW x,
             \A u, v : Paired(sc, frames, u, v) /\ FuelIn(u) # 0 => Eval(c, StoreIn(u)) = Eval(x, StoreIn(v)),
             NEW st, NEW y, st = If(c, b), y = If(x, p)
      PROVE  Paired(sc, frames, NodeExec(st, s), NodeExec(y, t))
  <2>1. NodeExec(st, s) = IF Eval(c, StoreIn(s)) = 1 THEN ExecBlock(b, s) ELSE s
    BY <1>3, ExecIs
  <2>2. NodeExec(y, t) = IF Eval(x, StoreIn(t)) = 1 THEN ExecBlock(p, t) ELSE t
    BY <1>1, <1>3, ExecIs
  <2>3. Eval(c, StoreIn(s)) = Eval(x, StoreIn(t))
    BY <1>3
  <2> QED
    BY <2>1, <2>2, <2>3
<1>4. ASSUME NEW c, NEW x,
             \A u, v : Paired(sc, frames, u, v) /\ FuelIn(u) # 0 => Eval(c, StoreIn(u)) = Eval(x, StoreIn(v)),
             NEW st, NEW y, st = While(c, b), y = While(x, p),
             \A u : \A k \in Nat : Loop(st, u, k) = NodeLoop(st, u, k),
             \A u : \A k \in Nat : Loop(y, u, k) = NodeLoop(y, u, k)
      PROVE  Paired(sc, frames, NodeExec(st, s), NodeExec(y, t))
  <2>1. PICK u, v : u = Loop(st, s, LoopDepth) /\ v = Loop(y, t, LoopDepth)
    OBVIOUS
  <2>2. Paired(sc, frames, u, v)
    BY <1>4, <2>1, LoopsPaired
  <2>3. NodeExec(st, s) = IF Eval(c, StoreIn(u)) = 1 THEN Stopped(u) ELSE u
    BY <1>4, <2>1, WhileExec
  <2>4. NodeExec(y, t) = IF Eval(x, StoreIn(v)) = 1 THEN Stopped(v) ELSE v
    BY <1>1, <1>4, <2>1, WhileExec
  <2>5. Going(u) /\ Going(v) /\ FuelIn(u) = FuelIn(v) /\ OutIn(u) = OutIn(v)
    BY <2>2 DEF Paired
  <2>6. FuelIn(Stopped(u)) = 0 /\ Going(Stopped(u)) /\ FuelIn(Stopped(v)) = 0 /\ Going(Stopped(v))
    BY <2>5, GoingParts
  <2>7. OutIn(Stopped(u)) = OutIn(u) /\ OutIn(Stopped(v)) = OutIn(v)
    BY <2>5 DEF Stopped, OutIn, Going
  <2>8. CASE FuelIn(u) = 0
    BY <2>3, <2>4, <2>5, <2>6, <2>7, <2>8 DEF Paired
  <2>9. CASE FuelIn(u) # 0
    <3>1. Eval(c, StoreIn(u)) = Eval(x, StoreIn(v))
      BY <1>4, <2>2, <2>9
    <3>2. Paired(sc, frames, Stopped(u), Stopped(v))
      BY <2>5, <2>6, <2>7 DEF Paired
    <3> QED
      BY <2>2, <2>3, <2>4, <3>1, <3>2
  <2> QED
    BY <2>8, <2>9
<1> QED
  BY <1>2, <1>3, <1>4

\* What is emitted for a statement does what the statement does.
LEMMA HeadPaired ==
    ASSUME DeclResets = TRUE,
           NEW T, NEW S, NEW RankT, NEW RankS, NEW Inside, Language(T, S, RankT, RankS, Inside),
           \A e \in T : SpellsRight(Inside, e), NEW C,
           NEW frames, NEW sc, NEW seen, NEW id, Framed(frames, sc, seen, id), Renames(frames, sc), Standing(sc),
           NEW st \in S, MeansWell(C, Inside, st, sc),
           \A b \in Seq(S) : BodyOf(st, b) => RunsPaired(C, b),
           NEW r, r = NodeEmitted(st, id, frames), NEW y, StmtsIn(r) = << y >>,
           \A t : \A k \in Nat : Loop(y, t, k) = NodeLoop(y, t, k),
           NEW s, NEW t, Paired(sc, frames, s, t), FuelIn(s) # 0
    PROVE  Paired(After(st, sc), FramesIn(r), NodeExec(st, s), NodeExec(y, t))
<1>1. PICK x : x = Spelled(OwnExpr(st), frames)
  OBVIOUS
<1>2. PICK body : body = Emitted(st.body, id, EnterScope(frames))
  OBVIOUS
<1>3. r = EmittedStmtOf(x, body, st, id, frames)
  BY <1>1, <1>2 DEF NodeEmitted
<1>4. ASSUME NEW e \in T, OwnExpr(st) = e, InScope(Inside, e, sc)
      PROVE  \A u, v : Paired(sc, frames, u, v) /\ FuelIn(u) # 0 => Eval(e, StoreIn(u)) = Eval(x, StoreIn(v))
  <2>1. SpellsRight(Inside, e)
    OBVIOUS
  <2>2. x = Spelled(e, frames)
    BY <1>1, <1>4
  <2> QED
    BY <1>4, <2>1, <2>2, OwnPaired
<1>5. PICK p : p = StmtsIn(body)
  OBVIOUS
<1>6. ASSUME NEW b \in Seq(S), BodyOf(st, b), st.body = b
      PROVE  \A u, v : Paired(sc, frames, u, v) => Paired(sc, frames, ExecBlock(b, u), ExecBlock(p, v))
  <2>1. << b, Enter(sc) >> \in C /\ RunsPaired(C, b)
    BY <1>6 DEF MeansWell
  <2>2. Standing(Enter(sc))
    BY AfterStands DEF Language
  <2>3. p = StmtsIn(Emitted(b, id, EnterScope(frames)))
    BY <1>2, <1>5, <1>6
  <2> QED
    BY <2>1, <2>2, <2>3, BodyPaired
<1>7. ASSUME NEW z, NEW q, q = << z >>, NEW j, NEW g, r = Emitter(q, j, g)
      PROVE  y = z /\ FramesIn(r) = g
  <2>1. StmtsIn(r) = q /\ FramesIn(r) = g
    BY <1>7, EmitterParts
  <2>2. << y >> = << z >>
    BY <1>7, <2>1
  <2>3. y = << y >>[1] /\ z = << z >>[1]
    OBVIOUS
  <2> QED
    BY <2>1, <2>2, <2>3
<1>8. CASE \E n \in Names, k \in Nat : st = Decl(n, k)
  <2>1. PICK n \in Names, k \in Nat : st = Decl(n, k)
    BY <1>8
  <2>2. st.k = "decl" /\ st.name = n /\ st.scope = k
    BY <2>1 DEF Decl
  <2>3. PICK a : a = Alias(n, id)
    OBVIOUS
  <2>4. Depth(sc) > 0 /\ Anew(sc, n, k)
    BY <2>1 DEF Standing, MeansWell
  <2>5. PICK z : z = Decl(a, 0)
    OBVIOUS
  <2>6. PICK q, j, g : q = << z >> /\ j = id + 1 /\ g = DeclareAs(frames, n, a)
    OBVIOUS
  <2>7. r = Emitter(q, j, g)
    BY <1>3, <2>2, <2>3, <2>5, <2>6 DEF EmittedStmtOf
  <2>8. y = z /\ FramesIn(r) = g
    BY <1>7, <2>6, <2>7
  <2>9. After(st, sc) = Declared(sc, n, k)
    BY <2>2 DEF After
  <2>10. Paired(Declared(sc, n, k), g, NodeExec(st, s), NodeExec(z, t))
    BY <2>1, <2>3, <2>4, <2>5, <2>6, DeclPaired
  <2> QED
    BY <2>8, <2>9, <2>10
<1>9. CASE \E n \in Names, k \in Nat, e \in T : st = Assign(n, k, e)
  <2>1. PICK n \in Names, k \in Nat, e \in T : st = Assign(n, k, e)
    BY <1>9
  <2>2. st.k = "assign" /\ st.name = n /\ st.e = e
    BY <2>1, StatementKinds
  <2>3. OwnExpr(st) = e /\ InScope(Inside, e, sc) /\ Resolved(sc, n, k)
    BY <2>1, <2>2 DEF OwnExpr, HasBody, MeansWell, OwnExprs
  <2>4. Eval(e, StoreIn(s)) = Eval(x, StoreIn(t))
    BY <1>4, <2>3
  <2>5. PICK a : a = LookedUp(frames, n)
    OBVIOUS
  <2>6. PICK z : z = Assign(a, 0, x)
    OBVIOUS
  <2>7. PICK q : q = << z >>
    OBVIOUS
  <2>8. r = Emitter(q, id, frames) /\ After(st, sc) = sc
    BY <1>3, <2>2, <2>5, <2>6, <2>7 DEF EmittedStmtOf, After
  <2>9. y = z /\ FramesIn(r) = frames
    BY <1>7, <2>7, <2>8
  <2>10. Paired(sc, frames, NodeExec(st, s), NodeExec(z, t))
    BY <2>1, <2>3, <2>4, <2>5, <2>6, AssignPaired
  <2> QED
    BY <2>8, <2>9, <2>10
<1>10. CASE \E e \in T : st = PrintOf(e)
  <2>1. PICK e \in T : st = PrintOf(e)
    BY <1>10
  <2>2. st.k = "print" /\ st.e = e
    BY <2>1, StatementKinds
  <2>3. OwnExpr(st) = e /\ InScope(Inside, e, sc)
    BY <2>2 DEF OwnExpr, HasBody, MeansWell, OwnExprs
  <2>4. Eval(e, StoreIn(s)) = Eval(x, StoreIn(t))
    BY <1>4, <2>3
  <2>5. PICK z : z = PrintOf(x)
    OBVIOUS
  <2>6. PICK q : q = << z >>
    OBVIOUS
  <2>7. r = Emitter(q, id, frames) /\ After(st, sc) = sc
    BY <1>3, <2>2, <2>5, <2>6 DEF EmittedStmtOf, After
  <2>8. y = z /\ FramesIn(r) = frames
    BY <1>7, <2>6, <2>7
  <2>9. Paired(sc, frames, NodeExec(st, s), NodeExec(z, t))
    BY <2>1, <2>4, <2>5, PrintPaired
  <2> QED
    BY <2>7, <2>8, <2>9
<1>11. CASE \E b \in Seq(S) : st = Block(b)
  <2>1. PICK b \in Seq(S) : st = Block(b)
    BY <1>11
  <2>2. st.k = "block" /\ st.body = b /\ BodyOf(st, b)
    BY <2>1, StatementKinds DEF BodyOf
  <2>3. \A u, v : Paired(sc, frames, u, v) => Paired(sc, frames, ExecBlock(b, u), ExecBlock(p, v))
    BY <1>6, <2>2
  <2>4. PICK z, j : z = Block(p) /\ j = IdIn(body)
    OBVIOUS
  <2>5. PICK q : q = << z >>
    OBVIOUS
  <2>6. r = Emitter(q, j, frames) /\ After(st, sc) = sc
    BY <1>3, <1>5, <2>2, <2>4, <2>5 DEF EmittedStmtOf, After, StmtsIn, IdIn
  <2>7. y = z /\ FramesIn(r) = frames
    BY <1>7, <2>5, <2>6
  <2>8. Paired(sc, frames, NodeExec(st, s), NodeExec(z, t))
    BY <2>1, <2>3, <2>4, LoopDepthAssumption, BodiesPaired
  <2> QED
    BY <2>6, <2>7, <2>8
<1>12. CASE \E c \in T, b \in Seq(S) : st = If(c, b) \/ st = While(c, b)
  <2>1. PICK c \in T, b \in Seq(S) : st = If(c, b) \/ st = While(c, b)
    BY <1>12
  <2>2. st.k \in {"if", "while"} /\ st.cond = c /\ st.body = b /\ BodyOf(st, b)
    BY <2>1, StatementKinds DEF BodyOf
  <2>3. OwnExpr(st) = c /\ InScope(Inside, c, sc)
    BY <2>2 DEF OwnExpr, HasBody, MeansWell, OwnExprs
  <2>4. \A u, v : Paired(sc, frames, u, v) /\ FuelIn(u) # 0 => Eval(c, StoreIn(u)) = Eval(x, StoreIn(v))
    BY <1>4, <2>3
  <2>5. \A u, v : Paired(sc, frames, u, v) => Paired(sc, frames, ExecBlock(b, u), ExecBlock(p, v))
    BY <1>6, <2>2
  <2>6. PICK j : j = IdIn(body)
    OBVIOUS
  <2>7. CASE st = If(c, b)
    <3>1. st.k = "if"
      BY <2>7, StatementKinds
    <3>2. PICK z : z = If(x, p)
      OBVIOUS
    <3>3. PICK q : q = << z >>
      OBVIOUS
    <3>4. r = Emitter(q, j, frames) /\ After(st, sc) = sc
      BY <1>3, <1>5, <2>6, <3>1, <3>2, <3>3 DEF EmittedStmtOf, After, StmtsIn, IdIn
    <3>5. y = z /\ FramesIn(r) = frames
      BY <1>7, <3>3, <3>4
    <3>6. Paired(sc, frames, NodeExec(st, s), NodeExec(z, t))
      BY <2>4, <2>5, <2>7, <3>2, LoopDepthAssumption, BodiesPaired
    <3> QED
      BY <3>4, <3>5, <3>6
  <2>8. CASE st = While(c, b)
    <3>1. st.k = "while"
      BY <2>8, StatementKinds
    <3>2. PICK z : z = While(x, p)
      OBVIOUS
    <3>3. PICK q : q = << z >>
      OBVIOUS
    <3>4. r = Emitter(q, j, frames) /\ After(st, sc) = sc
      BY <1>3, <1>5, <2>6, <3>1, <3>2, <3>3 DEF EmittedStmtOf, After, StmtsIn, IdIn
    <3>5. y = z /\ FramesIn(r) = frames
      BY <1>7, <3>3, <3>4
    <3>6. \A u : \A k \in Nat : Loop(st, u, k) = NodeLoop(st, u, k)
      BY HeadRuns
    <3>7. Paired(sc, frames, NodeExec(st, s), NodeExec(z, t))
      BY <2>4, <2>5, <2>8, <3>2, <3>5, <3>6, LoopDepthAssumption, BodiesPaired
    <3> QED
      BY <3>4, <3>5, <3>7
  <2> QED
    BY <2>1, <2>7, <2>8
<1>13. StatementOver(T, S, st)
  BY DEF AllStatements, Language
<1> QED
  BY <1>8, <1>9, <1>10, <1>11, <1>12, <1>13 DEF StatementOver

\* What holds of the scopes after a statement holds of those before it, and a
\* statement leaves names and aliases apart.
LEMMA PairedBefore ==
    ASSUME NEW T, NEW S, NEW RankS, AllStatements(T, S, RankS), NEW Inside, NEW C,
           NEW frames, NEW sc, NEW seen, NEW id, Framed(frames, sc, seen, id), Renames(frames, sc), Standing(sc),
           NEW st \in S, MeansWell(C, Inside, st, sc), NEW r, r = NodeEmitted(st, id, frames)
    PROVE  /\ \A s, t : Paired(After(st, sc), FramesIn(r), s, t) => Paired(sc, frames, s, t)
           /\ Renames(FramesIn(r), After(st, sc))
<1>1. PICK x : x = Spelled(OwnExpr(st), frames)
  OBVIOUS
<1>2. PICK body : body = Emitted(st.body, id, EnterScope(frames))
  OBVIOUS
<1>3. r = EmittedStmtOf(x, body, st, id, frames)
  BY <1>1, <1>2 DEF NodeEmitted
<1>4. CASE st.k = "decl"
  <2>1. PICK n \in Names, k \in Nat : st = Decl(n, k)
    BY <1>4, StatementKinds DEF AllStatements, StatementOver
  <2>2. st.name = n /\ st.scope = k
    BY <2>1 DEF Decl
  <2>3. PICK a, e, g : a = Alias(n, id) /\ e = Declared(sc, n, k) /\ g = DeclareAs(frames, n, a)
    OBVIOUS
  <2>4. PICK q, j : q = << Decl(a, 0) >> /\ j = id + 1
    OBVIOUS
  <2>5. r = Emitter(q, j, g)
    BY <1>3, <1>4, <2>2, <2>3, <2>4 DEF EmittedStmtOf
  <2>6. FramesIn(r) = g /\ After(st, sc) = e
    BY <1>4, <2>2, <2>3, <2>5, EmitterParts DEF After
  <2>7. Depth(sc) > 0 /\ Anew(sc, n, k)
    BY <2>1 DEF Standing, MeansWell
  <2>8. (\A b, c : Mirrored(e, g, b, c) => Mirrored(sc, frames, b, c)) /\ Renames(g, e)
    BY <2>3, <2>7, MirroredDeclared
  <2>9. \A s, t : Paired(e, g, s, t) => Paired(sc, frames, s, t)
    BY <2>8 DEF Paired
  <2> QED
    BY <2>6, <2>8, <2>9
<1>5. CASE st.k # "decl"
  <2>1. After(st, sc) = sc
    BY <1>5 DEF After
  <2>2. \E q, j : r = Emitter(q, j, frames)
    BY <1>3, <1>5 DEF EmittedStmtOf
  <2>3. PICK q, j : r = Emitter(q, j, frames)
    BY <2>2
  <2>4. FramesIn(r) = frames
    BY <2>3, EmitterParts
  <2> QED
    BY <2>1, <2>4
<1> QED
  BY <1>4, <1>5

\* Running a statement over aliases before others.
LEMMA AliasRuns ==
    ASSUME NEW E, \A q \in Seq(E) : MeantBlock(q)
    PROVE  /\ \A t : ExecBlock(<< >>, t) = t
           /\ \A y \in E, r \in Seq(E) : \A t : ExecBlock(<< y >> \o r, t) = ExecBlock(r, NodeExec(y, t))
           /\ \A y \in E : \A t : \A k \in Nat : Loop(y, t, k) = NodeLoop(y, t, k)
<1>1. ASSUME NEW t PROVE ExecBlock(<< >>, t) = t
  <2>1. PICK q : q = << >>
    OBVIOUS
  <2>2. q \in Seq(E)
    BY <2>1
  <2>3. MeantBlock(q)
    BY <2>2
  <2> QED
    BY <2>1, <2>3, RunForm DEF MeantBlock
<1>2. ASSUME NEW y \in E, NEW r \in Seq(E)
      PROVE  /\ \A t : ExecBlock(<< y >> \o r, t) = ExecBlock(r, NodeExec(y, t))
             /\ \A t : \A k \in Nat : Loop(y, t, k) = NodeLoop(y, t, k)
  <2>1. PICK p : p = << y >>
    OBVIOUS
  <2>2. p \in Seq(E) /\ p # << >> /\ Head(p) = y /\ Tail(p) = << >>
    BY <2>1
  <2>3. PICK q : q = p \o r
    OBVIOUS
  <2>4. q # << >> /\ Head(q) = y /\ Tail(q) = Tail(p) \o r /\ << >> \o r = r /\ q \in Seq(E)
    BY <2>2, <2>3, ConcatParts
  <2>5. Tail(q) = r
    <3>1. PICK none : none = << >>
      OBVIOUS
    <3>2. Tail(q) = none \o r /\ none \o r = r
      BY <2>2, <2>4, <3>1
    <3> QED
      BY <3>2
  <2>6. MeantBlock(q)
    BY <2>4
  <2>7. ASSUME NEW t PROVE ExecBlock(q, t) = ExecBlock(r, NodeExec(y, t))
    <3>1. ExecBlock(q, t) = NodeRun(q, t) /\ ExecStmt(y, t) = NodeExec(y, t)
      BY <2>4, <2>6 DEF MeantBlock
    <3>2. NodeRun(q, t) = ExecBlock(r, ExecStmt(y, t))
      BY <2>4, <2>5, RunForm
    <3> QED
      BY <3>1, <3>2
  <2>8. \A t : \A k \in Nat : Loop(y, t, k) = NodeLoop(y, t, k)
    BY <2>4, <2>6 DEF MeantBlock
  <2> QED
    BY <2>1, <2>3, <2>7, <2>8
<1>3. << >> \in Seq(E)
  OBVIOUS
<1> QED
  BY <1>1, <1>2, <1>3

\* The induction over the statements.
LEMMA AllRunPaired ==
    ASSUME DeclResets = TRUE,
           NEW T, NEW S, NEW RankT, NEW RankS, NEW Inside, Language(T, S, RankT, RankS, Inside),
           \A e \in T : SpelledByParts(e), \A q \in Seq(S) : EmittedByParts(q),
           NEW C, Lexical(C, S, Inside),
           NEW X, NEW E, AliasTrees(X, E), NEW N, Obeys(N, E),
           \A x \in X : Evaluated(x), \A q \in Seq(E) : MeantBlock(q)
    PROVE  \A q \in Seq(S) : RunsPaired(C, q)
<1>1. RankS \in [Seq(S) -> Nat] /\ AllExpressions(T, RankT, Inside) /\ AllStatements(T, S, RankS)
  BY DEF Language, AllStatements
<1>2. \A e \in T : SpellsOut(X, Inside, e)
  BY <1>1, AllSpellOut
<1>3. \A e \in T : SpellsRight(Inside, e)
  <2>1. \A e \in T : Evaluated(e) /\ SpelledByParts(e)
    BY DEF Language
  <2> QED
    BY <1>1, <2>1, AllSpellRight
<1>4. \A q \in Seq(S) : EmitsWell(C, E, N, q)
  BY <1>1, <1>2, AllEmitWell
<1>5. PICK Q : Q = Seq(S)
  OBVIOUS
<1>6. PICK W : W = {q \in Q : RunsPaired(C, q)}
  OBVIOUS
<1>7. ASSUME NEW q \in Q, \A b \in Q : RankS[b] < RankS[q] => b \in W PROVE q \in W
  <2> SUFFICES ASSUME NEW frames, NEW sc, NEW seen, NEW id,
                      Framed(frames, sc, seen, id), Renames(frames, sc), Standing(sc), << q, sc >> \in C,
                      NEW s, NEW t, Paired(sc, frames, s, t), NEW r, r = Emitted(q, id, frames)
               PROVE  Paired(sc, frames, ExecBlock(q, s), ExecBlock(StmtsIn(r), t))
    BY <1>6 DEF RunsPaired
  <2>1. PICK first : first = NodeEmitted(Head(q), id, frames)
    OBVIOUS
  <2>2. PICK rest : rest = Emitted(Tail(q), IdIn(first), FramesIn(first))
    OBVIOUS
  <2>3. r = EmittedOf(first, rest, q, id, frames)
    BY <1>5, <2>1, <2>2 DEF EmittedByParts, IdIn, FramesIn
  <2>4. CASE q = << >>
    <3>1. StmtsIn(r) = << >>
      BY <2>3, <2>4, EmittedForm
    <3>2. ExecBlock(<< >>, s) = s /\ ExecBlock(<< >>, t) = t
      BY HeadRuns, AliasRuns
    <3> QED
      BY <2>4, <3>1, <3>2
  <2>5. CASE q # << >>
    <3>1. PICK st : st = Head(q)
      OBVIOUS
    <3>2. /\ st \in S /\ Tail(q) \in Seq(S) /\ RankS[Tail(q)] < RankS[q]
          /\ \A b : BodyOf(st, b) => RankS[b] < RankS[q]
      BY <1>1, <1>5, <2>5, <3>1, ListParts
    <3>3. PICK after, g, a : after = After(st, sc) /\ g = FramesIn(first) /\ a = NodeExec(st, s)
      OBVIOUS
    <3>4. MeansWell(C, Inside, st, sc) /\ << Tail(q), after >> \in C
      BY <1>5, <2>5, <3>1, <3>3 DEF Lexical
    <3>5. \A b \in Seq(S) : BodyOf(st, b) => EmitsWell(C, E, N, b) /\ RunsPaired(C, b)
      BY <1>4, <1>5, <1>6, <1>7, <3>2
    <3>6. first = NodeEmitted(st, id, frames)
      BY <2>1, <3>1
    <3>7. OneEmitted(E, N, seen, id, first, after)
      BY <1>1, <1>2, <3>2, <3>3, <3>4, <3>5, <3>6, HeadEmits
    <3>8. PICK y \in E : /\ StmtsIn(first) = << y >> /\ IdIn(first) \in Nat
                         /\ Framed(g, after, SeenAfter(y, seen), IdIn(first))
      BY <3>3, <3>7 DEF OneEmitted
    <3>9. Standing(after)
      BY <1>1, <3>2, <3>3, AfterStands
    <3>10. PICK u : u = StmtsIn(rest)
      OBVIOUS
    <3>11. u \in Seq(E)
      <4>1. EmitsWell(C, E, N, Tail(q))
        BY <1>4, <3>2
      <4> QED
        BY <2>2, <3>3, <3>4, <3>8, <3>9, <3>10, <4>1 DEF EmitsWell
    <3>12. PICK b : b = NodeExec(y, t)
      OBVIOUS
    <3>13. ExecBlock(StmtsIn(r), t) = ExecBlock(u, b)
      <4>1. StmtsIn(r) = StmtsIn(first) \o StmtsIn(rest)
        BY <2>3, <2>5, EmittedForm
      <4>2. StmtsIn(r) = << y >> \o u
        BY <3>8, <3>10, <4>1
      <4>3. ExecBlock(<< y >> \o u, t) = ExecBlock(u, NodeExec(y, t))
        BY <3>11, AliasRuns
      <4> QED
        BY <3>12, <4>2, <4>3
    <3>14. ExecBlock(q, s) = ExecBlock(Tail(q), a)
      <4>1. q \in Seq(S)
        BY <1>5
      <4> QED
        BY <2>5, <3>1, <3>3, <4>1, HeadRuns
    <3>15. Paired(after, g, a, b)
      <4>1. CASE FuelIn(s) = 0
        <5>1. FuelIn(t) = 0
          BY <4>1 DEF Paired
        <5>2. a = s /\ b = t
          BY <3>3, <3>12, <4>1, <5>1, RunForm
        <5> QED
          BY <4>1, <5>2 DEF Paired
      <4>2. CASE FuelIn(s) # 0
        <5>1. \A v : \A k \in Nat : Loop(y, v, k) = NodeLoop(y, v, k)
          BY AliasRuns
        <5> QED
          BY <1>3, <3>2, <3>3, <3>4, <3>5, <3>6, <3>8, <3>12, <4>2, <5>1, HeadPaired
      <4> QED
        BY <4>1, <4>2
    <3>16. /\ \A c, d : Paired(after, g, c, d) => Paired(sc, frames, c, d)
           /\ Renames(g, after)
      BY <1>1, <3>2, <3>3, <3>4, <3>6, PairedBefore
    <3>17. Paired(after, g, ExecBlock(Tail(q), a), ExecBlock(u, b))
      <4>1. RunsPaired(C, Tail(q))
        BY <1>5, <1>6, <1>7, <3>2
      <4>2. u = StmtsIn(Emitted(Tail(q), IdIn(first), g))
        BY <2>2, <3>3, <3>10
      <4> QED
        BY <3>4, <3>8, <3>9, <3>15, <3>16, <4>1, <4>2 DEF RunsPaired
    <3> QED
      BY <3>13, <3>14, <3>16, <3>17
  <2> QED
    BY <2>4, <2>5
<1>8. Q \subseteq W
  <2>1. RankS \in [Q -> Nat] /\ \A q \in Q : (\A b \in Q : RankS[b] < RankS[q] => b \in W) => q \in W
    BY <1>1, <1>5, <1>7
  <2> QED
    BY ONLY <2>1, EveryMember
<1> QED
  BY <1>5, <1>6, <1>8

-----------------------------------------------------------------------------
(***************************************************************************)
(* What Java runs of a file.                                               *)
(***************************************************************************)
\* A program begins with no variable set, wherever the one before it ended.
Fresh(s) == [s EXCEPT !.store = << >>]
Alike(s, t) == Going(s) /\ Going(t) /\ FuelIn(s) = FuelIn(t) /\ OutIn(s) = OutIn(t)
LEMMA FreshParts ==
    ASSUME NEW s, Going(s)
    PROVE  Going(Fresh(s)) /\ FuelIn(Fresh(s)) = FuelIn(s) /\ OutIn(Fresh(s)) = OutIn(s)
<1>1. PICK a, b, c : a = StoreIn(s) /\ b = OutIn(s) /\ c = FuelIn(s)
  OBVIOUS
<1>2. s = [store |-> a, out |-> b, fuel |-> c] /\ c \in Nat
  BY <1>1 DEF Going
<1>3. Fresh(s) = [store |-> << >>, out |-> b, fuel |-> c]
  BY <1>2 DEF Fresh
<1>4. PICK t : t = Fresh(s)
  OBVIOUS
<1>5. StoreIn(t) = << >> /\ OutIn(t) = b /\ FuelIn(t) = c
  BY <1>3, <1>4 DEF StoreIn, OutIn, FuelIn
<1>6. Going(t)
  BY <1>2, <1>3, <1>4, <1>5 DEF Going
<1> QED
  BY <1>1, <1>4, <1>5, <1>6

\* No name is visible there.
LEMMA PairedOutside ==
    /\ Renames(EnterScope(<< >>), Enter(<< >>))
    /\ \A a, b : Mirrored(Enter(<< >>), EnterScope(<< >>), a, b)
    /\ \A s, t : Alike(s, t) => Paired(Enter(<< >>), EnterScope(<< >>), s, t)
<1>1. Depth(<< >>) = 0
  BY DEF Depth
<1>2. PICK none : none = << >>
  OBVIOUS
<1>3. (\A a, b : Mirrored(none, none, a, b)) /\ Renames(none, none)
  BY <1>1, <1>2 DEF Mirrored, Renames, Apart
<1>4. Framed(none, none, {}, 0)
  BY <1>1, <1>2, NoText, Outside DEF Framed
<1>5. PICK sc, frames : sc = Enter(none) /\ frames = EnterScope(none)
  OBVIOUS
<1>6. (\A a, b : Mirrored(sc, frames, a, b)) /\ Renames(frames, sc)
  BY <1>3, <1>4, <1>5, MirroredEntered
<1>7. \A s, t : Alike(s, t) => Paired(sc, frames, s, t)
  BY <1>6 DEF Paired, Alike
<1> QED
  BY <1>2, <1>5, <1>6, <1>7

\* A program and the method that is emitted for it.
LEMMA MethodPaired ==
    ASSUME NEW T, NEW S, NEW RankT, NEW RankS, NEW Inside, Language(T, S, RankT, RankS, Inside),
           NEW C, NEW q \in Seq(S), << q, Enter(<< >>) >> \in C, RunsPaired(C, q),
           NEW s, NEW t, Alike(s, t), NEW id \in Nat, NEW y, y = Block(StmtsIn(Method(q, id)))
    PROVE  Alike(ExecBlock(q, Fresh(s)), NodeExec(y, t))
<1>1. PICK sc, frames : sc = Enter(<< >>) /\ frames = EnterScope(<< >>)
  OBVIOUS
<1>2. PICK u : u = Fresh(s)
  OBVIOUS
<1>3. Alike(u, t)
  BY <1>2, FreshParts DEF Alike
<1>4. PICK p : p = StmtsIn(Emitted(q, id, frames))
  OBVIOUS
<1>5. y = Block(p)
  BY <1>1, <1>4 DEF Method
<1>6. CASE FuelIn(t) = 0
  <2>1. FuelIn(u) = 0 /\ NodeExec(y, t) = t
    BY <1>3, <1>6, RunForm DEF Alike
  <2>2. ExecBlock(q, u) = u
    BY <2>1, AllLast DEF Lasts
  <2> QED
    BY <1>2, <1>3, <2>1, <2>2
<1>7. CASE FuelIn(t) # 0
  <2>1. NodeExec(y, t) = ExecBlock(p, t)
    BY <1>5, <1>7, ExecIs
  <2>2. Renames(frames, sc) /\ Paired(sc, frames, u, t)
    BY <1>1, <1>3, PairedOutside
  <2>3. Framed(frames, sc, {}, id) /\ Standing(sc)
    BY <1>1, FramedOutside
  <2>4. Paired(sc, frames, ExecBlock(q, u), ExecBlock(p, t))
    BY <1>1, <1>4, <2>2, <2>3 DEF RunsPaired
  <2> QED
    BY <1>2, <2>1, <2>4 DEF Paired, Alike
<1> QED
  BY <1>6, <1>7

\* The methods of a module run one after the other.
Turn(q, s, t) == \E id \in Nat : t = NodeExec(Block(StmtsIn(Method(q, id))), s)
Methods(E, ps, m, t) ==
    m \in Seq(E) /\ \E f : /\ f[0] = t /\ f[Len(ps)] = ExecBlock(m, t)
                           /\ \A i \in 1 .. Len(ps) : Turn(ps[i], f[i - 1], f[i])
LEMMA ModuleTurns ==
    ASSUME NEW X, NEW E, AliasTrees(X, E), \A q \in Seq(E) : MeantBlock(q), NEW N, NEW S, NEW C,
           \A q \in Seq(S) : EmitsWell(C, E, N, q), \A ps \in Seq(Seq(S)) : ModuleByParts(ps)
    PROVE  \A ps \in Seq(Seq(S)), id \in Nat : \A t :
              (\A i \in DOMAIN ps : << ps[i], Enter(<< >>) >> \in C) => Methods(E, ps, Module(ps, id), t)
<1>1. PICK Q : Q = {q \in Seq(S) : << q, Enter(<< >>) >> \in C}
  OBVIOUS
<1>2. PICK W : W = {n \in Nat : \A ps \in Seq(Q), id \in Nat : \A t : Len(ps) = n => Methods(E, ps, Module(ps, id), t)}
  OBVIOUS
<1>3. ASSUME NEW n \in Nat, NEW ps \in Seq(Q), NEW id \in Nat, NEW t, Len(ps) = n, n > 0 => n - 1 \in W
      PROVE  Methods(E, ps, Module(ps, id), t)
  <2>1. PICK r : r = Method(Head(ps), id)
    OBVIOUS
  <2>2. PICK rest : rest = Module(Tail(ps), IdIn(r))
    OBVIOUS
  <2>3. Module(ps, id) = ModuleOf(r, rest, ps)
    <3>1. Q \subseteq Seq(S)
      BY <1>1
    <3>2. ps \in Seq(Seq(S))
      BY <3>1
    <3> QED
      BY <2>1, <2>2, <3>2 DEF ModuleByParts, IdIn
  <2>4. CASE ps = << >>
    <3>1. PICK m : m = << >>
      OBVIOUS
    <3>2. Module(ps, id) = m /\ m \in Seq(E) /\ Len(ps) = 0
      BY <2>3, <2>4, <3>1 DEF ModuleOf
    <3>3. ExecBlock(m, t) = t
      BY <3>1, AliasRuns
    <3>4. PICK f : f = [i \in {0} |-> t]
      OBVIOUS
    <3>5. f[0] = t
      BY <3>4
    <3>6. f[0] = t /\ f[Len(ps)] = ExecBlock(m, t) /\ \A i \in 1 .. Len(ps) : Turn(ps[i], f[i - 1], f[i])
      BY <3>2, <3>3, <3>5
    <3> QED
      BY <3>2, <3>6 DEF Methods
  <2>5. CASE ps # << >>
    <3>1. Head(ps) \in Q /\ Tail(ps) \in Seq(Q) /\ Len(Tail(ps)) = n - 1 /\ n > 0 /\ Head(ps) = ps[1]
      BY <1>3, <2>5
    <3>2. PICK q, tail, k : q = Head(ps) /\ tail = Tail(ps) /\ k = n - 1
      OBVIOUS
    <3>3. q \in Seq(S) /\ << q, Enter(<< >>) >> \in C /\ EmitsWell(C, E, N, q)
      BY <1>1, <3>1, <3>2
    <3>4. StmtsIn(r) \in Seq(E) /\ IdIn(r) \in Nat
      <4>1. PICK frames, sc, seen : frames = EnterScope(<< >>) /\ sc = Enter(<< >>) /\ seen = {}
        OBVIOUS
      <4>2. Framed(frames, sc, seen, id) /\ Standing(sc) /\ << q, sc >> \in C
        BY <3>3, <4>1, FramedOutside
      <4>3. r = Emitted(q, id, frames)
        BY <2>1, <3>2, <4>1 DEF Method
      <4> QED
        BY <3>3, <4>1, <4>2, <4>3 DEF EmitsWell
    <3>5. PICK y, u : y = Block(StmtsIn(r)) /\ u = NodeExec(y, t)
      OBVIOUS
    <3>6. y \in E
      BY <3>4, <3>5 DEF AliasTrees
    <3>7. Methods(E, tail, rest, u)
      BY <1>2, <1>3, <2>2, <3>1, <3>2, <3>4
    <3>8. rest \in Seq(E)
      BY <3>7 DEF Methods
    <3>9. PICK g : /\ g[0] = u /\ g[Len(tail)] = ExecBlock(rest, u)
                   /\ \A i \in 1 .. Len(tail) : Turn(tail[i], g[i - 1], g[i])
      BY <3>7 DEF Methods
    <3>10. Module(ps, id) = << y >> \o rest
      BY <2>3, <2>5, <3>5 DEF ModuleOf, StmtsIn
    <3>11. Module(ps, id) \in Seq(E) /\ ExecBlock(Module(ps, id), t) = ExecBlock(rest, u)
      <4>1. ExecBlock(<< y >> \o rest, t) = ExecBlock(rest, u)
        BY <3>5, <3>6, <3>8, AliasRuns
      <4>2. PICK one : one = << y >>
        OBVIOUS
      <4>3. one \in Seq(E)
        BY <3>6, <4>2
      <4>4. one \o rest \in Seq(E)
        BY <3>8, <4>3
      <4> QED
        BY <3>10, <4>1, <4>2, <4>4
    <3>12. PICK f : f = [i \in 0 .. n |-> IF i = 0 THEN t ELSE g[i - 1]]
      OBVIOUS
    <3>13. f[0] = t /\ \A i \in 1 .. n : f[i] = g[i - 1]
      BY <3>12
    <3>14. f[1] = u /\ f[n] = ExecBlock(rest, u)
      BY <3>1, <3>2, <3>9, <3>13
    <3>15. ASSUME NEW i \in 1 .. n PROVE Turn(ps[i], f[i - 1], f[i])
      <4>1. CASE i = 1
        <5>1. ps[i] = q /\ f[i - 1] = t /\ f[i] = u
          BY <3>1, <3>2, <3>13, <3>14, <4>1
        <5>2. Turn(q, t, u)
          BY <2>1, <3>2, <3>5 DEF Turn
        <5> QED
          BY <5>1, <5>2
      <4>2. CASE i # 1
        <5>1. PICK j : j = i - 1
          OBVIOUS
        <5>2. j \in 1 .. Len(tail) /\ i = j + 1 /\ j \in 1 .. n
          BY <3>1, <3>2, <4>2, <5>1
        <5>3. ps[i] = tail[j]
          BY <1>3, <2>5, <3>2, <5>2
        <5>4. f[i] = g[j] /\ f[i - 1] = g[j - 1]
          BY <3>13, <5>1, <5>2
        <5>5. Turn(tail[j], g[j - 1], g[j])
          BY <3>9, <5>2
        <5> QED
          BY <5>3, <5>4, <5>5
      <4> QED
        BY <4>1, <4>2
    <3>16. f[0] = t /\ f[Len(ps)] = ExecBlock(Module(ps, id), t) /\ \A i \in 1 .. Len(ps) : Turn(ps[i], f[i - 1], f[i])
      BY <1>3, <3>11, <3>13, <3>14, <3>15
    <3> QED
      BY <3>11, <3>16 DEF Methods
  <2> QED
    BY <2>4, <2>5
<1>4. 0 \in W
  <2>1. ASSUME NEW ps \in Seq(Q), NEW id \in Nat, NEW t, Len(ps) = 0
        PROVE  Methods(E, ps, Module(ps, id), t)
    <3>1. PICK n \in Nat : n = 0
      OBVIOUS
    <3>2. Len(ps) = n /\ (n > 0 => n - 1 \in W)
      BY <2>1, <3>1
    <3> QED
      BY ONLY <1>3, <3>2
  <2> QED
    BY <1>2, <2>1
<1>5. ASSUME NEW n \in Nat, n \in W PROVE n + 1 \in W
  <2>1. n + 1 \in Nat /\ (n + 1) - 1 = n
    OBVIOUS
  <2>2. \A ps \in Seq(Q), id \in Nat : \A t : Len(ps) = n + 1 => Methods(E, ps, Module(ps, id), t)
    BY <1>3, <1>5, <2>1
  <2> QED
    BY <1>2, <2>1, <2>2
<1>6. Nat \subseteq W
  BY <1>4, <1>5, EveryNumber
<1> SUFFICES ASSUME NEW ps \in Seq(Seq(S)), NEW id \in Nat, NEW t, \A i \in DOMAIN ps : << ps[i], Enter(<< >>) >> \in C
             PROVE  Methods(E, ps, Module(ps, id), t)
  OBVIOUS
<1>7. ps \in Seq(Q) /\ Len(ps) \in Nat
  <2>1. \A i \in DOMAIN ps : ps[i] \in Q
    BY <1>1
  <2>2. PICK R : R = Seq(S)
    OBVIOUS
  <2>3. ps \in Seq(R)
    BY <2>2
  <2> QED
    BY ONLY <2>1, <2>3, AllMembers
<1> QED
  BY <1>2, <1>6, <1>7

\* The languages of the tree and of what is emitted for it, with the equations that
\* define what is emitted and what it does.
JavaOf(T, S, X, E, N) ==
    /\ \A e \in T : SpelledByParts(e)
    /\ \A q \in Seq(S) : EmittedByParts(q)
    /\ \A ps \in Seq(Seq(S)) : ModuleByParts(ps)
    /\ AliasTrees(X, E) /\ Obeys(N, E)
    /\ \A x \in X : Evaluated(x)
    /\ \A q \in Seq(E) : MeantBlock(q)
\* The programs of a file run one after the other.
InTurn(ps, runs, fuel) ==
    /\ runs[0] = Started(fuel)
    /\ \A i \in 1 .. Len(ps) : runs[i] = ExecBlock(ps[i], Fresh(runs[i - 1]))
LEMMA JavaSteps ==
    ASSUME DeclResets = TRUE,
           NEW T, NEW S, NEW RankT, NEW RankS, NEW Inside, Language(T, S, RankT, RankS, Inside),
           NEW C, Lexical(C, S, Inside), NEW X, NEW E, NEW N, JavaOf(T, S, X, E, N)
    PROVE  /\ \A q \in Seq(S) : RunsPaired(C, q)
           /\ \A ps \in Seq(Seq(S)) : \A t :
                 (\A i \in DOMAIN ps : << ps[i], Enter(<< >>) >> \in C) => Methods(E, ps, Module(ps, 0), t)
<1>1. /\ \A e \in T : SpelledByParts(e)
      /\ \A q \in Seq(S) : EmittedByParts(q)
      /\ \A ps \in Seq(Seq(S)) : ModuleByParts(ps)
      /\ AliasTrees(X, E) /\ Obeys(N, E)
      /\ \A x \in X : Evaluated(x)
      /\ \A q \in Seq(E) : MeantBlock(q)
  BY DEF JavaOf
<1>2. AllExpressions(T, RankT, Inside) /\ AllStatements(T, S, RankS)
  BY DEF Language
<1>3. \A e \in T : SpellsOut(X, Inside, e)
  BY <1>1, <1>2, AllSpellOut
<1>4. \A q \in Seq(S) : EmitsWell(C, E, N, q)
  BY <1>1, <1>2, <1>3, AllEmitWell
<1>5. \A q \in Seq(S) : RunsPaired(C, q)
  BY <1>1, AllRunPaired
<1>6. \A ps \in Seq(Seq(S)), id \in Nat : \A t :
         (\A i \in DOMAIN ps : << ps[i], Enter(<< >>) >> \in C) => Methods(E, ps, Module(ps, id), t)
  BY <1>1, <1>4, ModuleTurns
<1> QED
  BY <1>5, <1>6

\* The Java text of a file does what its programs do, one after the other
\* (JavaEmitter::emit; README.md:153: "source generation backends that consume the
\* same optimized AST"): it prints the same and takes as many turns of loops, however
\* names are shadowed and whether or not the programs come to an end.
THEOREM JavaRuns ==
    ASSUME DeclResets = TRUE,
           NEW T, NEW S, NEW RankT, NEW RankS, NEW Inside, Language(T, S, RankT, RankS, Inside),
           NEW C, Lexical(C, S, Inside), NEW X, NEW E, NEW N, JavaOf(T, S, X, E, N),
           NEW programs \in Seq(Seq(S)), \A i \in DOMAIN programs : << programs[i], Enter(<< >>) >> \in C,
           NEW fuel \in Nat, NEW runs, InTurn(programs, runs, fuel),
           NEW t, t = ExecBlock(Module(programs, 0), Started(fuel)),
           NEW s, s = runs[Len(programs)]
    PROVE  OutIn(t) = OutIn(s) /\ FuelIn(t) = FuelIn(s)
<1>1. PICK Q : Q = Seq(S)
  OBVIOUS
<1>2. PICK n : n = Len(programs)
  OBVIOUS
<1>3. n \in Nat /\ \A i \in 1 .. n : programs[i] \in Q /\ << programs[i], Enter(<< >>) >> \in C
  <2>1. n \in Nat /\ DOMAIN programs = 1 .. n /\ \A i \in DOMAIN programs : programs[i] \in Q
    BY <1>1, <1>2
  <2> QED
    BY <2>1
<1>4. PICK start : start = Started(fuel)
  OBVIOUS
<1>5. Methods(E, programs, Module(programs, 0), start)
  BY JavaSteps
<1>6. PICK f : f[0] = start /\ f[n] = t /\ \A i \in 1 .. n : Turn(programs[i], f[i - 1], f[i])
  BY <1>2, <1>4, <1>5 DEF Methods
<1>7. runs[0] = start /\ runs[n] = s /\ \A i \in 1 .. n : runs[i] = ExecBlock(programs[i], Fresh(runs[i - 1]))
  BY <1>2, <1>4 DEF InTurn
<1>8. PICK W : W = {i \in Nat : i <= n => Alike(runs[i], f[i])}
  OBVIOUS
<1>9. 0 \in W
  <2>1. Going(start)
    BY <1>4 DEF Going, Started, StoreIn, OutIn, FuelIn
  <2>2. Alike(start, start)
    BY <2>1 DEF Alike
  <2> QED
    BY <1>6, <1>7, <1>8, <2>2
<1>10. ASSUME NEW i \in Nat, i \in W PROVE i + 1 \in W
  <2> SUFFICES ASSUME i + 1 <= n PROVE Alike(runs[i + 1], f[i + 1])
    BY <1>8
  <2>1. PICK j : j = i + 1
    OBVIOUS
  <2>2. j \in 1 .. n /\ j - 1 = i
    BY <1>3, <2>1
  <2>3. Alike(runs[i], f[i])
    BY <1>3, <1>8, <1>10
  <2>4. PICK q : q = programs[j]
    OBVIOUS
  <2>5. q \in Seq(S) /\ << q, Enter(<< >>) >> \in C
    BY <1>1, <1>3, <2>2, <2>4
  <2>6. Turn(q, f[i], f[j]) /\ runs[j] = ExecBlock(q, Fresh(runs[i]))
    BY <1>6, <1>7, <2>2, <2>4
  <2>7. PICK id \in Nat : f[j] = NodeExec(Block(StmtsIn(Method(q, id))), f[i])
    BY <2>6 DEF Turn
  <2>8. RunsPaired(C, q)
    BY <2>5, JavaSteps
  <2>9. Alike(runs[j], f[j])
    BY <2>3, <2>5, <2>6, <2>7, <2>8, MethodPaired
  <2> QED
    BY <2>1, <2>9
<1>11. Nat \subseteq W
  BY <1>9, <1>10, EveryNumber
<1>12. Alike(s, t)
  BY <1>3, <1>6, <1>7, <1>8, <1>11
<1> QED
  BY <1>12 DEF Alike

\* A program and what the optimizer makes of it.
Outlasts(s, t) == Going(s) /\ Going(t) /\ FuelIn(t) >= FuelIn(s) /\ OutIn(t) = OutIn(s)
LEMMA OptimizedTurn ==
    ASSUME NEW T, NEW S, NEW RankT, NEW RankS, NEW Inside, Language(T, S, RankT, RankS, Inside),
           NEW C, WellScoped(C, Inside), NEW W, NEW V, WalkFits(W, V, Inside),
           NEW q \in Seq(S), << q, Enter(<< >>) >> \in C, << q, Enter(<< >>) >> \in W,
           NEW p, p = StmtsIn(OptBlock(q, << >>)),
           NEW s, NEW t, Outlasts(s, t), NEW u, u = ExecBlock(q, Fresh(s)), FuelIn(u) # 0
    PROVE  Outlasts(u, ExecBlock(p, Fresh(t)))
<1>1. PICK a, b : a = Fresh(s) /\ b = Fresh(t)
  OBVIOUS
<1>2. Going(a) /\ Going(b) /\ FuelIn(a) = FuelIn(s) /\ FuelIn(b) = FuelIn(t) /\ OutIn(a) = OutIn(b)
  BY <1>1, FreshParts DEF Outlasts
<1>3. StoreIn(a) = StoreIn(b)
  <2>1. Going(s) /\ Going(t)
    BY DEF Outlasts
  <2>2. StoreIn(a) = << >>
    BY <1>1, <2>1 DEF Going, Fresh, StoreIn
  <2>3. StoreIn(b) = << >>
    BY <1>1, <2>1 DEF Going, Fresh, StoreIn
  <2> QED
    BY <2>2, <2>3
<1>4. Better(a, b)
  BY <1>2, <1>3 DEF Better, Outlasts
<1>5. Going(u) /\ Does(p, a, u)
  BY <1>1, <1>2, OptimizedFrom
<1>6. Better(u, ExecBlock(p, b))
  BY <1>4, <1>5 DEF Does
<1> QED
  BY <1>1, <1>5, <1>6 DEF Outlasts, Better

LEMMA TurnsThere ==
    ASSUME NEW ps, NEW n \in Nat, n = Len(ps), NEW fuel PROVE \E runs : InTurn(ps, runs, fuel)
<1>1. PICK W : W = {k \in Nat : \E f : /\ f[0] = Started(fuel)
                                       /\ \A i \in 1 .. k : f[i] = ExecBlock(ps[i], Fresh(f[i - 1]))}
  OBVIOUS
<1>2. 0 \in W
  <2>1. PICK f : f = [i \in {0} |-> Started(fuel)]
    OBVIOUS
  <2>2. f[0] = Started(fuel) /\ \A i \in 1 .. 0 : f[i] = ExecBlock(ps[i], Fresh(f[i - 1]))
    BY <2>1
  <2> QED
    BY <1>1, <2>2
<1>3. ASSUME NEW k \in Nat, k \in W PROVE k + 1 \in W
  <2>1. PICK f : f[0] = Started(fuel) /\ \A i \in 1 .. k : f[i] = ExecBlock(ps[i], Fresh(f[i - 1]))
    BY <1>1, <1>3
  <2>2. PICK j : j = k + 1
    OBVIOUS
  <2>3. PICK x : x = ExecBlock(ps[j], Fresh(f[k]))
    OBVIOUS
  <2>4. PICK g : g = [i \in 0 .. j |-> IF i = j THEN x ELSE f[i]]
    OBVIOUS
  <2>5. g[j] = x /\ g[0] = f[0] /\ \A i \in 0 .. k : g[i] = f[i]
    BY <2>2, <2>4
  <2>6. ASSUME NEW i \in 1 .. j PROVE g[i] = ExecBlock(ps[i], Fresh(g[i - 1]))
    <3>1. CASE i = j
      <4>1. i - 1 = k /\ k \in 0 .. k
        BY <2>2, <3>1
      <4>2. g[i - 1] = f[k]
        BY <2>5, <4>1
      <4> QED
        BY <2>3, <2>5, <3>1, <4>2
    <3>2. CASE i # j
      <4>1. i \in 1 .. k /\ i \in 0 .. k /\ i - 1 \in 0 .. k
        BY <2>2, <3>2
      <4> QED
        BY <2>1, <2>5, <4>1
    <3> QED
      BY <3>1, <3>2
  <2>7. j \in Nat
    BY <2>2
  <2> QED
    BY <1>1, <2>1, <2>2, <2>5, <2>6, <2>7
<1>4. n \in W
  BY <1>2, <1>3, EveryNumber
<1> QED
  BY <1>1, <1>4 DEF InTurn

\* The programs of a file, and those the optimizer makes of them.
Optimized(sources) == [i \in DOMAIN sources |-> StmtsIn(OptBlock(sources[i], << >>))]
EndsAs(ps, fuel, s) ==
    \E runs : InTurn(ps, runs, fuel) /\ OutIn(runs[Len(ps)]) = OutIn(s) /\ FuelIn(runs[Len(ps)]) # 0
LEMMA OptimizedFile ==
    ASSUME NEW T, NEW S, NEW RankT, NEW RankS, NEW Inside, Language(T, S, RankT, RankS, Inside),
           NEW D, Lexical(D, S, Inside), NEW C, WellScoped(C, Inside), NEW W, NEW V, WalkFits(W, V, Inside),
           NEW sources \in Seq(Seq(S)), \A i \in DOMAIN sources : << sources[i], Enter(<< >>) >> \in D \cap C \cap W,
           NEW programs, programs = Optimized(sources),
           NEW fuel \in Nat, NEW runs, InTurn(sources, runs, fuel), FuelIn(runs[Len(sources)]) # 0
    PROVE  /\ programs \in Seq(Seq(S)) /\ \A i \in DOMAIN programs : << programs[i], Enter(<< >>) >> \in D
           /\ EndsAs(programs, fuel, runs[Len(sources)])
<1>1. PICK Q : Q = Seq(S)
  OBVIOUS
<1>2. PICK n : n = Len(sources)
  OBVIOUS
<1>3. n \in Nat /\ DOMAIN sources = 1 .. n
      /\ \A i \in 1 .. n : sources[i] \in Q /\ << sources[i], Enter(<< >>) >> \in D \cap C \cap W
  <2>1. n \in Nat /\ DOMAIN sources = 1 .. n /\ \A i \in DOMAIN sources : sources[i] \in Q
    BY <1>1, <1>2
  <2> QED
    BY <2>1
<1>4. ASSUME NEW q \in Seq(S), << q, Enter(<< >>) >> \in D
      PROVE  /\ StmtsIn(OptBlock(q, << >>)) \in Seq(S)
             /\ << StmtsIn(OptBlock(q, << >>)), Enter(<< >>) >> \in D
  <2>1. WalksOn(S, q)
    BY AllWalk
  <2>2. IsEnv(Enter(<< >>)) /\ Depth(Enter(<< >>)) > 0
    BY Outside
  <2>3. StmtsIn(OptStmts(q, Enter(<< >>))) \in Seq(S)
    BY <2>1, <2>2 DEF WalksOn, Walks
  <2>4. StmtsIn(OptBlock(q, << >>)) = StmtsIn(OptStmts(q, Enter(<< >>)))
    BY ResultParts DEF OptBlock, Becomes
  <2>5. << StmtsIn(OptBlock(q, << >>)), Enter(<< >>) >> \in D
    BY <1>4, ScopesStay
  <2> QED
    BY <2>3, <2>4, <2>5
<1>5. \A i \in 1 .. n : /\ StmtsIn(OptBlock(sources[i], << >>)) \in Q
                        /\ << StmtsIn(OptBlock(sources[i], << >>)), Enter(<< >>) >> \in D
  BY <1>1, <1>3, <1>4
<1>6. DOMAIN programs = 1 .. n /\ \A i \in 1 .. n : programs[i] = StmtsIn(OptBlock(sources[i], << >>))
  BY <1>3 DEF Optimized
<1>7. programs \in Seq(Q) /\ Len(programs) = n
  <2>1. programs \in [1 .. n -> Q]
    BY <1>3, <1>5 DEF Optimized
  <2> QED
    BY <1>3, <1>6, <2>1
<1>8. \A i \in DOMAIN programs : << programs[i], Enter(<< >>) >> \in D
  BY <1>5, <1>6
<1>9. PICK start : start = Started(fuel)
  OBVIOUS
<1>10. PICK f : InTurn(programs, f, fuel)
  BY <1>3, <1>7, TurnsThere
<1>11. f[0] = start /\ \A i \in 1 .. n : f[i] = ExecBlock(programs[i], Fresh(f[i - 1]))
  BY <1>7, <1>9, <1>10 DEF InTurn
<1>12. runs[0] = start /\ \A i \in 1 .. n : runs[i] = ExecBlock(sources[i], Fresh(runs[i - 1]))
  BY <1>2, <1>9 DEF InTurn
<1>13. PICK K : K = {i \in Nat : i <= n => Going(runs[i]) /\ (FuelIn(runs[i]) # 0 => Outlasts(runs[i], f[i]))}
  OBVIOUS
<1>14. 0 \in K
  <2>1. Going(start)
    BY <1>9 DEF Going, Started, StoreIn, OutIn, FuelIn
  <2>2. Outlasts(start, start)
    BY <2>1 DEF Outlasts, Going
  <2> QED
    BY <1>11, <1>12, <1>13, <2>1, <2>2
<1>15. ASSUME NEW i \in Nat, i \in K PROVE i + 1 \in K
  <2> SUFFICES ASSUME i + 1 <= n
               PROVE  Going(runs[i + 1]) /\ (FuelIn(runs[i + 1]) # 0 => Outlasts(runs[i + 1], f[i + 1]))
    BY <1>13
  <2>1. PICK j : j = i + 1
    OBVIOUS
  <2>2. j \in 1 .. n /\ j - 1 = i
    BY <1>3, <2>1
  <2>3. Going(runs[i]) /\ (FuelIn(runs[i]) # 0 => Outlasts(runs[i], f[i]))
    BY <1>3, <1>13, <1>15
  <2>4. PICK q, p : q = sources[j] /\ p = programs[j]
    OBVIOUS
  <2>5. q \in Seq(S) /\ << q, Enter(<< >>) >> \in C /\ << q, Enter(<< >>) >> \in W
    BY <1>1, <1>3, <2>2, <2>4
  <2>6. p = StmtsIn(OptBlock(q, << >>))
    BY <1>6, <2>2, <2>4
  <2>7. PICK s, u : s = runs[i] /\ u = runs[j]
    OBVIOUS
  <2>8. f[j] = ExecBlock(p, Fresh(f[i])) /\ u = ExecBlock(q, Fresh(s))
    BY <1>11, <1>12, <2>2, <2>4, <2>7
  <2>9. Going(Fresh(s)) /\ FuelIn(Fresh(s)) = FuelIn(s)
    BY <2>3, <2>7, FreshParts
  <2>10. Lasts(q)
    BY <2>5, AllLast
  <2>11. Going(u) /\ (FuelIn(u) # 0 => FuelIn(s) # 0)
    BY <2>8, <2>9, <2>10 DEF Lasts
  <2>12. ASSUME FuelIn(u) # 0 PROVE Outlasts(u, f[j])
    <3>1. PICK t : t = f[i]
      OBVIOUS
    <3>2. Outlasts(s, t)
      BY <2>3, <2>7, <2>11, <2>12, <3>1
    <3>3. Outlasts(u, ExecBlock(p, Fresh(t)))
      BY <2>5, <2>6, <2>8, <2>12, <3>2, OptimizedTurn
    <3> QED
      BY <2>8, <3>1, <3>3
  <2> QED
    BY <2>1, <2>7, <2>11, <2>12
<1>16. Nat \subseteq K
  BY <1>14, <1>15, EveryNumber
<1>17. Outlasts(runs[n], f[n])
  BY <1>2, <1>3, <1>13, <1>16
<1>18. OutIn(f[n]) = OutIn(runs[n]) /\ FuelIn(f[n]) # 0
  BY <1>2, <1>17 DEF Outlasts, Going
<1> QED
  BY <1>1, <1>2, <1>7, <1>8, <1>10, <1>18 DEF EndsAs

\* Optimizer and Java emitter together: where the programs of a file end, the Java
\* text of the optimized file ends and prints what they print, one after the other
\* (README.md:168: "fully integrated and runnable").
THEOREM JavaOutput ==
    ASSUME DeclResets = TRUE,
           NEW T, NEW S, NEW RankT, NEW RankS, NEW Inside, Language(T, S, RankT, RankS, Inside),
           NEW D, Lexical(D, S, Inside), NEW X, NEW E, NEW N, JavaOf(T, S, X, E, N),
           NEW C, WellScoped(C, Inside), NEW W, NEW V, WalkFits(W, V, Inside),
           NEW sources \in Seq(Seq(S)), \A i \in DOMAIN sources : << sources[i], Enter(<< >>) >> \in D \cap C \cap W,
           NEW programs, programs = Optimized(sources),
           NEW fuel \in Nat, NEW runs, InTurn(sources, runs, fuel), FuelIn(runs[Len(sources)]) # 0,
           NEW t, t = ExecBlock(Module(programs, 0), Started(fuel))
    PROVE  OutIn(t) = OutIn(runs[Len(sources)]) /\ FuelIn(t) # 0
<1>1. /\ programs \in Seq(Seq(S)) /\ \A i \in DOMAIN programs : << programs[i], Enter(<< >>) >> \in D
      /\ EndsAs(programs, fuel, runs[Len(sources)])
  BY OptimizedFile
<1>2. PICK opt : /\ InTurn(programs, opt, fuel)
                 /\ OutIn(opt[Len(programs)]) = OutIn(runs[Len(sources)]) /\ FuelIn(opt[Len(programs)]) # 0
  BY <1>1 DEF EndsAs
<1>3. OutIn(t) = OutIn(opt[Len(programs)]) /\ FuelIn(t) = FuelIn(opt[Len(programs)])
  BY <1>1, <1>2, JavaRuns
<1> QED
  BY <1>2, <1>3

-----------------------------------------------------------------------------
(***************************************************************************)
(* What LLVM runs: instructions.                                           *)
(***************************************************************************)
\* The first n instructions of a run, which has not returned; and r is one of the
\* states m goes through.
IrTrace(w, t, n)   == \A i \in 1 .. n : ~IrReturns(w, t[i - 1]) /\ t[i] = IrStep(w, t[i - 1], IntMod)
IrReaches(w, m, r) == \E n \in Nat : \E t : t[0] = m /\ t[n] = r /\ IrTrace(w, t, n)
LEMMA IrStays == \A w, m : IrReaches(w, m, m)
<1> SUFFICES ASSUME NEW w, NEW m PROVE IrReaches(w, m, m)
  OBVIOUS
<1>1. PICK t : t = [i \in {0} |-> m]
  OBVIOUS
<1>2. t[0] = m /\ IrTrace(w, t, 0)
  BY <1>1 DEF IrTrace
<1> QED
  BY <1>2 DEF IrReaches

LEMMA IrOneStep == ASSUME NEW w, NEW m, ~IrReturns(w, m), NEW r, r = IrStep(w, m, IntMod) PROVE IrReaches(w, m, r)
<1>1. PICK t : t = [i \in {0, 1} |-> IF i = 0 THEN m ELSE r]
  OBVIOUS
<1>2. t[0] = m /\ t[1] = r /\ \A i \in 1 .. 1 : i = 1 /\ i - 1 = 0
  BY <1>1
<1>3. IrTrace(w, t, 1)
  BY <1>2 DEF IrTrace
<1> QED
  BY <1>2, <1>3 DEF IrReaches

LEMMA IrAndThen ==
    ASSUME NEW w, NEW l, NEW m, NEW n, IrReaches(w, l, m), IrReaches(w, m, n)
    PROVE  IrReaches(w, l, n)
<1>1. PICK a \in Nat : \E f : f[0] = l /\ f[a] = m /\ IrTrace(w, f, a)
  BY DEF IrReaches
<1>2. PICK f : f[0] = l /\ f[a] = m /\ IrTrace(w, f, a)
  BY <1>1
<1>3. PICK b \in Nat : \E g : g[0] = m /\ g[b] = n /\ IrTrace(w, g, b)
  BY DEF IrReaches
<1>4. PICK g : g[0] = m /\ g[b] = n /\ IrTrace(w, g, b)
  BY <1>3
<1>5. PICK t : t = [i \in 0 .. a + b |-> IF i <= a THEN f[i] ELSE g[i - a]]
  OBVIOUS
<1>6. \A i \in 0 .. a : t[i] = f[i]
  BY <1>5
<1>7. \A i \in 0 .. b : t[a + i] = g[i]
  BY <1>2, <1>4, <1>5
<1>8. ASSUME NEW i \in 1 .. a + b PROVE ~IrReturns(w, t[i - 1]) /\ t[i] = IrStep(w, t[i - 1], IntMod)
  <2>1. CASE i <= a
    <3>1. i \in 1 .. a /\ i \in 0 .. a /\ i - 1 \in 0 .. a
      BY <2>1
    <3>2. ~IrReturns(w, f[i - 1]) /\ f[i] = IrStep(w, f[i - 1], IntMod)
      BY <1>2, <3>1 DEF IrTrace
    <3> QED
      BY <1>6, <3>1, <3>2
  <2>2. CASE i > a
    <3>1. PICK j \in 1 .. b : j = i - a /\ i = a + j /\ i - 1 = a + (j - 1) /\ j \in 0 .. b /\ j - 1 \in 0 .. b
      BY <2>2
    <3>2. ~IrReturns(w, g[j - 1]) /\ g[j] = IrStep(w, g[j - 1], IntMod)
      BY <1>4 DEF IrTrace
    <3>3. t[a + j] = g[j] /\ t[a + (j - 1)] = g[j - 1]
      BY <1>7, <3>1
    <3> QED
      BY <3>1, <3>2, <3>3
  <2> QED
    BY <2>1, <2>2
<1>9. t[0] = l /\ t[a + b] = n
  <2>1. 0 \in 0 .. a /\ b \in 0 .. b
    OBVIOUS
  <2> QED
    BY <1>2, <1>4, <1>6, <1>7, <2>1
<1>10. a + b \in Nat /\ IrTrace(w, t, a + b)
  BY <1>8 DEF IrTrace
<1> QED
  BY <1>9, <1>10 DEF IrReaches

\* A run that is at p where b is stored and o was printed comes to q with c and d.
Gets(w, p, b, o, q, c, d) == \A j : \E i : IrReaches(w, IrState(p, b, o, j), IrState(q, c, d, i))
LEMMA GetsNow == \A w, p, b, o : Gets(w, p, b, o, p, b, o)
  BY IrStays DEF Gets

LEMMA GetsOn ==
    ASSUME NEW w, NEW p, NEW b, NEW o, NEW q, NEW c, NEW d, Gets(w, p, b, o, q, c, d),
           NEW r, NEW e, NEW f, Gets(w, q, c, d, r, e, f)
    PROVE  Gets(w, p, b, o, r, e, f)
<1> SUFFICES ASSUME NEW j PROVE \E i : IrReaches(w, IrState(p, b, o, j), IrState(r, e, f, i))
  BY DEF Gets
<1>1. PICK l, m, n : l = IrState(p, b, o, j) /\ IrReaches(w, l, m) /\ m = IrState(q, c, d, n)
  BY DEF Gets
<1>2. PICK i : IrReaches(w, m, IrState(r, e, f, i))
  BY <1>1 DEF Gets
<1>3. PICK k : k = IrState(r, e, f, i)
  OBVIOUS
<1>4. IrReaches(w, l, m) /\ IrReaches(w, m, k)
  BY <1>1, <1>2, <1>3
<1>5. IrReaches(w, l, k)
  BY ONLY <1>4, IrAndThen
<1> QED
  BY <1>1, <1>3, <1>5

LEMMA IrStateParts ==
    \A p, b, o, j : LET m == IrState(p, b, o, j)
                    IN m.pc = p /\ m.store = b /\ m.out = o /\ m.jumps = j
  BY DEF IrState

\* The value of an operand; and the only place with label l.
ValueIn(b, v) == IF v[1] = "const" THEN v[2] ELSE b[v]
LandsAt(w, l, q) == q \in LabelAt(w) /\ w[q].l = l /\ \A r \in LabelAt(w) : w[r].l = l => r = q
LEMMA GetsStep ==
    ASSUME NEW w, NEW p, w[p].op # "ret", NEW b, NEW o, NEW q, NEW c, NEW d,
           \A j : \E i : IrStep(w, IrState(p, b, o, j), IntMod) = IrState(q, c, d, i)
    PROVE  Gets(w, p, b, o, q, c, d)
<1> SUFFICES ASSUME NEW j PROVE \E i : IrReaches(w, IrState(p, b, o, j), IrState(q, c, d, i))
  BY DEF Gets
<1>1. PICK m : m = IrState(p, b, o, j)
  OBVIOUS
<1>2. ~IrReturns(w, m)
  BY <1>1, IrStateParts DEF IrReturns
<1>3. PICK i, r : r = IrState(q, c, d, i) /\ r = IrStep(w, m, IntMod)
  BY <1>1
<1> QED
  BY <1>1, <1>2, <1>3, IrOneStep

\* One instruction x, by its kind.
LEMMA IrStepIs ==
    ASSUME NEW w, NEW p, NEW x, x = w[p], NEW b, NEW o, NEW j, NEW r, r = IrStep(w, IrState(p, b, o, j), IntMod)
    PROVE  /\ x.op = "load" => r = IrState(p + 1, Put(b, x.dst, b[x.l]), o, j)
           /\ x.op = "store" => r = IrState(p + 1, Put(b, x.r, ValueIn(b, x.l)), o, j)
           /\ x.op = "add" => r = IrState(p + 1, Put(b, x.dst, (ValueIn(b, x.l) + ValueIn(b, x.r)) % IntMod), o, j)
           /\ x.op = "eq" => r = IrState(p + 1, Put(b, x.dst, SameBit(ValueIn(b, x.l), ValueIn(b, x.r))), o, j)
           /\ x.op = "ne" => r = IrState(p + 1, Put(b, x.dst, 1 - SameBit(ValueIn(b, x.l), ValueIn(b, x.r))), o, j)
           /\ x.op = "print" => r = IrState(p + 1, b, Append(o, ValueIn(b, x.l)), j)
           /\ x.op \in {"alloca", "label"} => r = IrState(p + 1, b, o, j)
           /\ x.op = "jmp" => \A q : LandsAt(w, x.l, q) => r = IrState(q, b, o, j + 1)
           /\ x.op = "br" =>
                 \A q : LandsAt(w, x.r[IF ValueIn(b, x.l) = 1 THEN 1 ELSE 2], q) => r = IrState(q, b, o, j + 1)
<1>1. PICK m : m = IrState(p, b, o, j)
  OBVIOUS
<1>2. m.pc = p /\ m.store = b /\ m.out = o /\ m.jumps = j /\ w[m.pc] = x /\ r = IrStep(w, m, IntMod)
  BY <1>1, IrStateParts
<1>3. ASSUME NEW k, NEW v, r = IrState(m.pc + 1, [i \in DOMAIN m.store \cup {k} |-> IF i = k THEN v ELSE m.store[i]], m.out, m.jumps)
      PROVE  r = IrState(p + 1, Put(b, k, v), o, j)
  BY <1>2, <1>3 DEF Put
<1>4. ASSUME x.op = "load" PROVE r = IrState(p + 1, Put(b, x.dst, b[x.l]), o, j)
  <2>1. r = IrState(m.pc + 1, [i \in DOMAIN m.store \cup {x.dst} |-> IF i = x.dst THEN m.store[x.l] ELSE m.store[i]], m.out, m.jumps)
    BY <1>2, <1>4 DEF IrStep
  <2> QED
    BY <1>2, <1>3, <1>4, <2>1
<1>5. ASSUME x.op = "store" PROVE r = IrState(p + 1, Put(b, x.r, ValueIn(b, x.l)), o, j)
  <2>1. r = IrState(m.pc + 1, [i \in DOMAIN m.store \cup {x.r} |-> IF i = x.r THEN ValueIn(m.store, x.l) ELSE m.store[i]], m.out, m.jumps)
    BY <1>2, <1>5 DEF IrStep, ValueIn
  <2> QED
    BY <1>2, <1>3, <1>5, <2>1
<1>6. ASSUME x.op \in {"add", "eq", "ne"}
      PROVE  /\ x.op = "add" => r = IrState(p + 1, Put(b, x.dst, (ValueIn(b, x.l) + ValueIn(b, x.r)) % IntMod), o, j)
             /\ x.op = "eq" => r = IrState(p + 1, Put(b, x.dst, SameBit(ValueIn(b, x.l), ValueIn(b, x.r))), o, j)
             /\ x.op = "ne" => r = IrState(p + 1, Put(b, x.dst, 1 - SameBit(ValueIn(b, x.l), ValueIn(b, x.r))), o, j)
  <2>1. PICK a, c : a = ValueIn(m.store, x.l) /\ c = ValueIn(m.store, x.r)
    OBVIOUS
  <2>2. PICK v : /\ x.op = "add" => v = (a + c) % IntMod
                 /\ x.op = "eq" => v = IF a = c THEN 1 ELSE 0
                 /\ x.op = "ne" => v = IF a = c THEN 0 ELSE 1
    BY <1>6
  <2>3. r = IrState(m.pc + 1, [i \in DOMAIN m.store \cup {x.dst} |-> IF i = x.dst THEN v ELSE m.store[i]], m.out, m.jumps)
    <3>1. CASE x.op = "add"
      BY <1>2, <2>1, <2>2, <3>1 DEF IrStep, ValueIn
    <3>2. CASE x.op = "eq"
      BY <1>2, <2>1, <2>2, <3>2 DEF IrStep, ValueIn
    <3>3. CASE x.op = "ne"
      BY <1>2, <2>1, <2>2, <3>3 DEF IrStep, ValueIn
    <3> QED
      BY <1>6, <3>1, <3>2, <3>3
  <2>4. r = IrState(p + 1, Put(b, x.dst, v), o, j)
    BY <1>3, <2>3
  <2>5. a = ValueIn(b, x.l) /\ c = ValueIn(b, x.r)
    BY <1>2, <2>1
  <2>6. /\ x.op = "eq" => v = SameBit(a, c)
        /\ x.op = "ne" => v = 1 - SameBit(a, c)
    BY <2>2 DEF SameBit, Bit
  <2> QED
    BY <1>6, <2>2, <2>4, <2>5, <2>6
<1>7. ASSUME x.op = "print" PROVE r = IrState(p + 1, b, Append(o, ValueIn(b, x.l)), j)
  BY <1>2, <1>7 DEF IrStep, ValueIn
<1>8. ASSUME x.op \in {"alloca", "label"} PROVE r = IrState(p + 1, b, o, j)
  BY <1>2, <1>8 DEF IrStep
<1>9. ASSUME NEW l, NEW q, LandsAt(w, l, q)
      PROVE  (CHOOSE i \in DOMAIN w : w[i].op = "label" /\ w[i].l = l) = q
  BY <1>9 DEF LandsAt, LabelAt
<1>10. ASSUME x.op = "jmp" PROVE \A q : LandsAt(w, x.l, q) => r = IrState(q, b, o, j + 1)
  <2>1. r = IrState(CHOOSE i \in DOMAIN w : w[i].op = "label" /\ w[i].l = x.l, m.store, m.out, m.jumps + 1)
    BY <1>2, <1>10 DEF IrStep
  <2> QED
    BY <1>2, <1>9, <1>10, <2>1
<1>11. ASSUME x.op = "br"
       PROVE  \A q : LandsAt(w, x.r[IF ValueIn(b, x.l) = 1 THEN 1 ELSE 2], q) => r = IrState(q, b, o, j + 1)
  <2>1. PICK l : l = x.r[IF ValueIn(b, x.l) = 1 THEN 1 ELSE 2]
    OBVIOUS
  <2>2. r = IrState(CHOOSE i \in DOMAIN w : w[i].op = "label" /\ w[i].l = l, m.store, m.out, m.jumps + 1)
    BY <1>2, <1>11, <2>1 DEF IrStep, ValueIn
  <2>3. \A q : LandsAt(w, l, q) => r = IrState(q, b, o, j + 1)
    BY <1>2, <1>9, <2>2
  <2> QED
    BY ONLY <2>1, <2>3
<1> QED
  BY ONLY <1>4, <1>5, <1>6, <1>7, <1>8, <1>10, <1>11

\* What each instruction does.
LEMMA LineRuns ==
    ASSUME NEW w, NEW p, NEW x, x = w[p], NEW b, NEW o
    PROVE  /\ x.op = "load" => Gets(w, p, b, o, p + 1, Put(b, x.dst, b[x.l]), o)
           /\ x.op = "store" => Gets(w, p, b, o, p + 1, Put(b, x.r, ValueIn(b, x.l)), o)
           /\ x.op = "add" => Gets(w, p, b, o, p + 1, Put(b, x.dst, (ValueIn(b, x.l) + ValueIn(b, x.r)) % IntMod), o)
           /\ x.op = "eq" => Gets(w, p, b, o, p + 1, Put(b, x.dst, SameBit(ValueIn(b, x.l), ValueIn(b, x.r))), o)
           /\ x.op = "ne" => Gets(w, p, b, o, p + 1, Put(b, x.dst, 1 - SameBit(ValueIn(b, x.l), ValueIn(b, x.r))), o)
           /\ x.op = "print" => Gets(w, p, b, o, p + 1, b, Append(o, ValueIn(b, x.l)))
           /\ x.op \in {"alloca", "label"} => Gets(w, p, b, o, p + 1, b, o)
           /\ x.op = "jmp" => \A q : LandsAt(w, x.l, q) => Gets(w, p, b, o, q, b, o)
           /\ x.op = "br" => \A q : LandsAt(w, x.r[IF ValueIn(b, x.l) = 1 THEN 1 ELSE 2], q) => Gets(w, p, b, o, q, b, o)
<1>1. ASSUME NEW q, NEW c, NEW d, x.op # "ret", \A j : \E i : IrStep(w, IrState(p, b, o, j), IntMod) = IrState(q, c, d, i)
      PROVE  Gets(w, p, b, o, q, c, d)
  BY <1>1, GetsStep
<1>2. CASE x.op = "load"
  <2>1. \A j : IrStep(w, IrState(p, b, o, j), IntMod) = IrState(p + 1, Put(b, x.dst, b[x.l]), o, j)
    BY <1>2, IrStepIs
  <2> QED
    BY <1>1, <1>2, <2>1
<1>3. CASE x.op = "store"
  <2>1. \A j : IrStep(w, IrState(p, b, o, j), IntMod) = IrState(p + 1, Put(b, x.r, ValueIn(b, x.l)), o, j)
    BY <1>3, IrStepIs
  <2> QED
    BY <1>1, <1>3, <2>1
<1>4. CASE x.op = "add"
  <2>1. \A j : IrStep(w, IrState(p, b, o, j), IntMod) = IrState(p + 1, Put(b, x.dst, (ValueIn(b, x.l) + ValueIn(b, x.r)) % IntMod), o, j)
    BY <1>4, IrStepIs
  <2> QED
    BY <1>1, <1>4, <2>1
<1>5. CASE x.op = "eq"
  <2>1. \A j : IrStep(w, IrState(p, b, o, j), IntMod) = IrState(p + 1, Put(b, x.dst, SameBit(ValueIn(b, x.l), ValueIn(b, x.r))), o, j)
    BY <1>5, IrStepIs
  <2> QED
    BY <1>1, <1>5, <2>1
<1>6. CASE x.op = "ne"
  <2>1. \A j : IrStep(w, IrState(p, b, o, j), IntMod) = IrState(p + 1, Put(b, x.dst, 1 - SameBit(ValueIn(b, x.l), ValueIn(b, x.r))), o, j)
    BY <1>6, IrStepIs
  <2> QED
    BY <1>1, <1>6, <2>1
<1>7. CASE x.op = "print"
  <2>1. \A j : IrStep(w, IrState(p, b, o, j), IntMod) = IrState(p + 1, b, Append(o, ValueIn(b, x.l)), j)
    BY <1>7, IrStepIs
  <2> QED
    BY <1>1, <1>7, <2>1
<1>8. CASE x.op \in {"alloca", "label"}
  <2>1. \A j : IrStep(w, IrState(p, b, o, j), IntMod) = IrState(p + 1, b, o, j)
    BY <1>8, IrStepIs
  <2> QED
    BY <1>1, <1>8, <2>1
<1>9. CASE x.op \in {"jmp", "br"}
  <2> SUFFICES ASSUME NEW q, LandsAt(w, IF x.op = "jmp" THEN x.l ELSE x.r[IF ValueIn(b, x.l) = 1 THEN 1 ELSE 2], q)
               PROVE  Gets(w, p, b, o, q, b, o)
    BY <1>9
  <2>1. \A j : IrStep(w, IrState(p, b, o, j), IntMod) = IrState(q, b, o, j + 1)
    BY <1>9, IrStepIs
  <2> QED
    BY <1>1, <1>9, <2>1
<1> QED
  BY <1>2, <1>3, <1>4, <1>5, <1>6, <1>7, <1>8, <1>9

-----------------------------------------------------------------------------
(***************************************************************************)
(* What LLVM runs: expressions.                                            *)
(***************************************************************************)
\* The piece f stands in w from p on.
Stands(w, p, f) ==
    Listed(f) /\ p \in Nat /\ \A i \in 1 .. Len(f) : p + i - 1 \in DOMAIN w /\ w[p + i - 1] = f[i]
\* The piece t is u and then v.
Joins(u, v, t) == Listed(u) /\ Listed(v) /\ t = u \o v
LEMMA StandsParts ==
    ASSUME NEW u, NEW v, NEW t, Joins(u, v, t), NEW w, NEW p, Stands(w, p, t)
    PROVE  /\ Stands(w, p, u) /\ Stands(w, p + Len(u), v)
           /\ Len(u) \in Nat /\ Len(v) \in Nat /\ p + Len(t) = (p + Len(u)) + Len(v)
<1>0. Listed(u) /\ Listed(v) /\ t = u \o v
  BY DEF Joins
<1>1. PICK k : k = Len(u)
  OBVIOUS
<1>2. Listed(t) /\ Strung(u, v, t, k)
  BY <1>0, <1>1, TextAt
<1>3. /\ k \in Nat /\ DOMAIN u = 1 .. k /\ DOMAIN v = 1 .. Len(v) /\ Len(v) \in Nat
      /\ \A i \in DOMAIN u : i \in DOMAIN t /\ t[i] = u[i]
      /\ \A i \in DOMAIN v : i + k \in DOMAIN t /\ t[i + k] = v[i]
      /\ \A j \in DOMAIN t : j \in DOMAIN u \/ \E i \in DOMAIN v : j = i + k
  BY <1>2 DEF Strung
<1>4. Len(t) \in Nat /\ DOMAIN t = 1 .. Len(t)
  BY <1>2 DEF Listed
<1>5. p \in Nat /\ \A i \in DOMAIN t : p + i - 1 \in DOMAIN w /\ w[p + i - 1] = t[i]
  BY <1>4 DEF Stands
<1>6. Len(t) = k + Len(v)
  <2>1. PICK A : u \in Seq(A)
    BY <1>0 DEF Listed
  <2>2. PICK B : v \in Seq(B)
    BY <1>0 DEF Listed
  <2>3. PICK D : D = A \cup B
    OBVIOUS
  <2>4. u \in Seq(D) /\ v \in Seq(D)
    BY <2>1, <2>2, <2>3
  <2> QED
    BY <1>0, <1>1, <2>4
<1>7. Stands(w, p, u)
  BY <1>0, <1>1, <1>3, <1>5 DEF Stands
<1>8. Stands(w, p + k, v)
  <2>1. ASSUME NEW i \in 1 .. Len(v) PROVE (p + k) + i - 1 \in DOMAIN w /\ w[(p + k) + i - 1] = v[i]
    <3>1. i + k \in DOMAIN t /\ t[i + k] = v[i]
      BY <1>3
    <3>2. p + (i + k) - 1 = (p + k) + i - 1
      BY <1>3, <1>5
    <3> QED
      BY <1>5, <3>1, <3>2
  <2> QED
    BY <1>0, <1>3, <1>5, <2>1 DEF Stands
<1> QED
  BY <1>1, <1>3, <1>5, <1>6, <1>7, <1>8

LEMMA StandsLines ==
    ASSUME NEW w, NEW p
    PROVE  /\ \A x : Stands(w, p, << x >>) => p \in Nat /\ p \in DOMAIN w /\ w[p] = x
           /\ \A x, y : Stands(w, p, << x, y >>) =>
                 p \in Nat /\ p \in DOMAIN w /\ w[p] = x /\ p + 1 \in DOMAIN w /\ w[p + 1] = y
           /\ \A x : Listed(<< x >>) /\ Len(<< x >>) = 1
           /\ \A x, y : Listed(<< x, y >>) /\ Len(<< x, y >>) = 2
<1>1. ASSUME NEW x, Stands(w, p, << x >>) PROVE p \in Nat /\ p \in DOMAIN w /\ w[p] = x
  <2>0. PICK f : f = << x >>
    OBVIOUS
  <2>1. f = << x >> /\ Len(f) = 1 /\ f[1] = x
    BY <2>0
  <2>2. p \in Nat /\ 1 \in 1 .. Len(f) /\ p + 1 - 1 = p
    BY <1>1, <2>1 DEF Stands
  <2> QED
    BY <1>1, <2>1, <2>2 DEF Stands
<1>2. ASSUME NEW x, NEW y, Stands(w, p, << x, y >>)
      PROVE  p \in Nat /\ p \in DOMAIN w /\ w[p] = x /\ p + 1 \in DOMAIN w /\ w[p + 1] = y
  <2>0. PICK f : f = << x, y >>
    OBVIOUS
  <2>1. f = << x, y >> /\ Len(f) = 2 /\ f[1] = x /\ f[2] = y
    BY <2>0
  <2>2. p \in Nat /\ 1 \in 1 .. Len(f) /\ 2 \in 1 .. Len(f) /\ p + 1 - 1 = p /\ p + 2 - 1 = p + 1
    BY <1>2, <2>1 DEF Stands
  <2> QED
    BY <1>2, <2>1, <2>2 DEF Stands
<1>3. \A x : Listed(<< x >>) /\ Len(<< x >>) = 1
  <2>1. ASSUME NEW x PROVE Listed(<< x >>) /\ Len(<< x >>) = 1
    <3>1. << x >> \in Seq({x})
      OBVIOUS
    <3> QED
      BY <3>1 DEF Listed
  <2> QED
    BY <2>1
<1>4. \A x, y : Listed(<< x, y >>) /\ Len(<< x, y >>) = 2
  <2>1. ASSUME NEW x, NEW y PROVE Listed(<< x, y >>) /\ Len(<< x, y >>) = 2
    <3>1. << x, y >> \in Seq({x, y})
      OBVIOUS
    <3> QED
      BY <3>1 DEF Listed
  <2> QED
    BY <2>1
<1> QED
  BY <1>1, <1>2, <1>3, <1>4

\* What is stored under the numbers below k stays.
Keeps(b, c, k) ==
    \A x : \A n \in Nat : n < k /\ << x, n >> \in DOMAIN b =>
        << x, n >> \in DOMAIN c /\ c[<< x, n >>] = b[<< x, n >>]
LEMMA KeepsParts ==
    /\ \A b, k : Keeps(b, b, k)
    /\ \A b, c, d : \A k, l \in Nat : k <= l /\ Keeps(b, c, k) /\ Keeps(c, d, l) => Keeps(b, d, k)
    /\ \A b, x, v : \A n, k \in Nat : k <= n => Keeps(b, Put(b, << x, n >>, v), k)
<1>1. ASSUME NEW b, NEW c, NEW d, NEW k \in Nat, NEW l \in Nat, k <= l, Keeps(b, c, k), Keeps(c, d, l)
      PROVE  Keeps(b, d, k)
  BY <1>1 DEF Keeps
<1>2. ASSUME NEW b, NEW x, NEW v, NEW n \in Nat, NEW k \in Nat, k <= n PROVE Keeps(b, Put(b, << x, n >>, v), k)
  <2> SUFFICES ASSUME NEW y, NEW m \in Nat, m < k, << y, m >> \in DOMAIN b, NEW c, c = Put(b, << x, n >>, v)
               PROVE  << y, m >> \in DOMAIN c /\ c[<< y, m >>] = b[<< y, m >>]
    BY DEF Keeps
  <2>1. << y, m >> # << x, n >>
    BY <1>2
  <2> QED
    BY <2>1 DEF Put
<1> QED
  BY <1>1, <1>2 DEF Keeps

\* A value that can be used as long as what has a number below k stays.
Usable(b, v, k) == v[1] = "const" \/ (v \in DOMAIN b /\ \E n \in Nat : n < k /\ v = Reg(n))
LEMMA UsableKept ==
    ASSUME NEW b, NEW v, NEW k \in Nat, Usable(b, v, k), NEW l \in Nat, k <= l, NEW c, Keeps(b, c, l)
    PROVE  ValueIn(c, v) = ValueIn(b, v) /\ Usable(c, v, k)
<1>1. CASE v[1] = "const"
  BY <1>1 DEF Usable, ValueIn
<1>2. CASE v[1] # "const"
  <2>1. PICK n \in Nat : n < k /\ v = Reg(n) /\ v \in DOMAIN b
    BY <1>2 DEF Usable
  <2>2. v \in DOMAIN c /\ c[v] = b[v]
    BY <2>1 DEF Keeps, Reg
  <2> QED
    BY <1>2, <2>1, <2>2 DEF Usable, ValueIn
<1> QED
  BY <1>1, <1>2

LEMMA UsableForms ==
    /\ \A b, x, k : Usable(b, Const32(x), k) /\ ValueIn(b, Const32(x)) = x
    /\ \A b, x : \A n \in Nat : Usable(Put(b, Reg(n), x), Reg(n), n + 1) /\ ValueIn(Put(b, Reg(n), x), Reg(n)) = x
<1>1. \A b, x, k : Usable(b, Const32(x), k) /\ ValueIn(b, Const32(x)) = x
  BY DEF Usable, ValueIn, Const32
<1>2. ASSUME NEW b, NEW x, NEW n \in Nat, NEW v, v = Reg(n), NEW c, c = Put(b, v, x)
      PROVE  Usable(c, v, n + 1) /\ ValueIn(c, v) = x
  <2>1. v[1] # "const"
    BY <1>2 DEF Reg
  <2>2. v \in DOMAIN c /\ c[v] = x
    BY <1>2 DEF Put
  <2> QED
    BY <1>2, <2>1, <2>2 DEF Usable, ValueIn
<1> QED
  BY <1>1, <1>2

\* A place in the tree: the scopes of the names there, those of the emitter, and the
\* pointers in them.
View(sc, frames, seen) == [sc |-> sc, frames |-> frames, seen |-> seen]
\* Something is emitted there from s on.
Sits(s, K) ==
    /\ Begins(s) /\ FramesIn(s) = K.frames /\ Framed(K.frames, K.sc, K.seen, RegIn(s))
    /\ Renames(K.frames, K.sc) /\ Standing(K.sc)
\* What pointers point at, as a store over aliases; it is what the names mean.
Vars(b) == [x \in {<< a, 0 >> : a \in DOMAIN b} |-> b[x[1]]]
Reflects(K, a, b) == K.seen \subseteq DOMAIN b /\ Mirrored(K.sc, K.frames, a, Vars(b))
LEMMA VarsAre == \A b, a : Val(Vars(b), << a, 0 >>) = Val(b, a)
<1> SUFFICES ASSUME NEW b, NEW a, NEW c, c = Vars(b) PROVE Val(c, << a, 0 >>) = Val(b, a)
  OBVIOUS
<1>1. DOMAIN c = {<< x, 0 >> : x \in DOMAIN b} /\ \A x \in DOMAIN b : c[<< x, 0 >>] = b[x]
  BY DEF Vars
<1>2. << a, 0 >> \in DOMAIN c <=> a \in DOMAIN b
  BY <1>1
<1> QED
  BY <1>1, <1>2 DEF Val

LEMMA MirroredSame ==
    ASSUME NEW sc, NEW frames, NEW a, NEW c, NEW d, Mirrored(sc, frames, a, c),
           \A i \in 1 .. Depth(sc), n \in Names :
              Has(sc, i, n) => Val(d, << frames[i][n], 0 >>) = Val(c, << frames[i][n], 0 >>)
    PROVE  Mirrored(sc, frames, a, d)
  BY DEF Mirrored

LEMMA ReflectsKept ==
    ASSUME NEW s, NEW K, Sits(s, K), NEW a, NEW b, Reflects(K, a, b), NEW c, Keeps(b, c, RegIn(s))
    PROVE  Reflects(K, a, c)
<1>1. ASSUME NEW x \in K.seen PROVE x \in DOMAIN c /\ c[x] = b[x] /\ x \in DOMAIN b
  <2>1. x \in Aliases /\ x[2] < RegIn(s) /\ x \in DOMAIN b
    BY DEF Sits, Framed, Reflects
  <2>2. x = << x[1], x[2] >> /\ x[2] \in Nat
    BY <2>1 DEF Aliases
  <2> QED
    BY <2>1, <2>2 DEF Keeps
<1>2. ASSUME NEW i \in 1 .. Depth(K.sc), NEW n \in Names, Has(K.sc, i, n), NEW x, x = K.frames[i][n]
      PROVE  Val(Vars(c), << x, 0 >>) = Val(Vars(b), << x, 0 >>)
  <2>1. x \in K.seen
    BY <1>2 DEF Sits, Framed
  <2>2. Val(c, x) = Val(b, x)
    BY <1>1, <2>1 DEF Val
  <2> QED
    BY <2>2, VarsAre
<1>3. Mirrored(K.sc, K.frames, a, Vars(c))
  BY <1>2, MirroredSame DEF Reflects
<1> QED
  BY <1>1, <1>3 DEF Reflects

\* A name means what its pointer points at, before and after an assignment to it.
LEMMA ReflectsName ==
    ASSUME NEW s, NEW K, Sits(s, K), NEW n, NEW k, Resolved(K.sc, n, k), NEW u, u = LookedUp(FramesIn(s), n),
           NEW a, NEW b, Reflects(K, a, b)
    PROVE  /\ u \in DOMAIN b /\ b[u] = Val(a, << n, k >>)
           /\ \A v : Reflects(K, Put(a, << n, k >>, v), Put(b, u, v))
<1>1. PICK sc, frames : sc = K.sc /\ frames = K.frames
  OBVIOUS
<1>2. Framed(frames, sc, K.seen, RegIn(s)) /\ Renames(frames, sc) /\ u = LookedUp(frames, n)
  BY <1>1 DEF Sits
<1>3. n \in Names /\ Frame(sc, n) # 0
  BY <1>1 DEF Resolved
<1>4. u \in K.seen /\ u \in DOMAIN b
  BY <1>2, <1>3, LookedUpIs DEF Reflects
<1>5. Mirrored(sc, frames, a, Vars(b)) /\ Resolved(sc, n, k)
  BY <1>1 DEF Reflects
<1>6. Val(a, << n, k >>) = Val(Vars(b), << u, 0 >>)
  BY ONLY <1>2, <1>5, MirroredAssigned
<1>7. b[u] = Val(a, << n, k >>)
  BY <1>4, <1>6, VarsAre DEF Val
<1>8. ASSUME NEW v PROVE Reflects(K, Put(a, << n, k >>, v), Put(b, u, v))
  <2>1. Mirrored(sc, frames, Put(a, << n, k >>, v), Put(Vars(b), << u, 0 >>, v))
    BY ONLY <1>2, <1>5, MirroredAssigned
  <2>2. PICK c, d : c = Put(Vars(b), << u, 0 >>, v) /\ d = Put(b, u, v)
    OBVIOUS
  <2>3. ASSUME NEW x PROVE Val(Vars(d), << x, 0 >>) = Val(c, << x, 0 >>)
    <3>1. << x, 0 >> = << u, 0 >> <=> x = u
      OBVIOUS
    <3>2. Val(c, << x, 0 >>) = IF x = u THEN v ELSE Val(b, x)
      BY <2>2, <3>1, ValPut, VarsAre
    <3>3. Val(d, x) = IF x = u THEN v ELSE Val(b, x)
      BY <2>2, ValPut
    <3> QED
      BY <3>2, <3>3, VarsAre
  <2>4. Mirrored(sc, frames, Put(a, << n, k >>, v), Vars(d))
    BY <2>1, <2>2, <2>3, MirroredSame
  <2>5. K.seen \subseteq DOMAIN d
    BY <2>2 DEF Put, Reflects
  <2> QED
    BY <1>1, <2>2, <2>4, <2>5 DEF Reflects
<1> QED
  BY <1>4, <1>7, <1>8

\* A run of what is emitted for an expression, worth x.
IrYields(w, p, r, b, o, k, x) ==
    \E c : /\ Gets(w, p, b, o, p + Len(TextIn(r.s)), c, o) /\ Keeps(b, c, k)
           /\ Usable(c, r.v, RegIn(r.s)) /\ ValueIn(c, r.v) = x
LoadsRight(Inside, e) ==
    /\ \A s : FramesIn(IrExpr(s, e).s) = FramesIn(s)
    /\ \A s, K : Sits(s, K) /\ InScope(Inside, e, K.sc) =>
          \A w, p : Stands(w, p, TextIn(IrExpr(s, e).s)) =>
              \A a, b, o : Reflects(K, a, b) => IrYields(w, p, IrExpr(s, e), b, o, RegIn(s), Eval(e, a))
LEMMA IrFrames ==
    /\ \A text, reg, label, frames : FramesIn(Ir(text, reg, label, frames)) = frames
    /\ \A s : FramesIn(Nothing(s)) = FramesIn(s)
    /\ \A s, t : FramesIn(Continued(s, t)) = FramesIn(t)
    /\ \A s, op, l, r : FramesIn(Emit(s, op, l, r)) = FramesIn(s) /\ FramesIn(Define(s, op, l, r)) = FramesIn(s)
    /\ \A s, n : FramesIn(Labels(s, n)) = FramesIn(s)
  BY DEF FramesIn, Ir, Nothing, Continued, Emit, Define, Labels

LEMMA IrTexts ==
    /\ \A s : TextIn(Nothing(s)) = << >> /\ RegIn(Nothing(s)) = RegIn(s)
    /\ \A s, t : TextIn(Continued(s, t)) = TextIn(s) \o TextIn(t) /\ RegIn(Continued(s, t)) = RegIn(t)
    /\ \A s, n : TextIn(Labels(s, n)) = TextIn(s) /\ RegIn(Labels(s, n)) = RegIn(s)
  BY DEF TextIn, RegIn, Ir, Nothing, Continued, Labels

IrIsA(r, text, reg, frames, v) == TextIn(r.s) = text /\ RegIn(r.s) = reg /\ FramesIn(r.s) = frames /\ r.v = v
LEMMA IrDefines ==
    ASSUME NEW t, NEW op, NEW l, NEW r, NEW q, q = IrValue(Define(t, op, l, r), Reg(RegIn(t)))
    PROVE  IrIsA(q, Append(TextIn(t), Line3(op, Reg(RegIn(t)), l, r)), RegIn(t) + 1, FramesIn(t), Reg(RegIn(t)))
<1>1. PICK u : u = Define(t, op, l, r)
  OBVIOUS
<1>2. q.s = u /\ q.v = Reg(RegIn(t))
  BY <1>1, IrParts
<1>3. /\ TextIn(u) = Append(TextIn(t), Line3(op, Reg(RegIn(t)), l, r)) /\ RegIn(u) = RegIn(t) + 1
      /\ FramesIn(u) = FramesIn(t)
  BY <1>1, EmitParts, IrFrames
<1> QED
  BY <1>2, <1>3 DEF IrIsA

LEMMA IrExprIs ==
    ASSUME NEW x, NEW y, NEW s
    PROVE  /\ \A kind, v : IrIsA(IrExprOf(x, y, s, Lit(kind, v)), << >>, RegIn(s), FramesIn(s), Const32(v))
           /\ \A n, k : IrIsA(IrExprOf(x, y, s, Var(n, k)),
                              << Line3("load", Reg(RegIn(s)), LookedUp(FramesIn(s), n), None) >>,
                              RegIn(s) + 1, FramesIn(s), Reg(RegIn(s)))
           /\ \A l, r : IrIsA(IrExprOf(x, y, s, Add(l, r)),
                              Append(TextIn(x.s) \o TextIn(y.s), Line3("add", Reg(RegIn(y.s)), x.v, y.v)),
                              RegIn(y.s) + 1, FramesIn(y.s), Reg(RegIn(y.s)))
           /\ \A op, l, r : IrIsA(IrExprOf(x, y, s, Compare(op, l, r)),
                              Append(TextIn(x.s) \o TextIn(y.s),
                                     Line3(IF op = "==" THEN "eq" ELSE "ne", Reg(RegIn(y.s)), x.v, y.v)),
                              RegIn(y.s) + 1, FramesIn(y.s), Reg(RegIn(y.s)))
<1>1. ASSUME NEW kind, NEW v
      PROVE  IrIsA(IrExprOf(x, y, s, Lit(kind, v)), << >>, RegIn(s), FramesIn(s), Const32(v))
  <2>1. PICK e, r : e = Lit(kind, v) /\ r = IrExprOf(x, y, s, e)
    OBVIOUS
  <2>2. e.k = "lit" /\ e.v = v
    BY <2>1 DEF Lit
  <2>3. r = IrValue(Nothing(s), Const32(v))
    BY <2>1, <2>2 DEF IrExprOf
  <2>4. r.s = Nothing(s) /\ r.v = Const32(v)
    BY <2>3, IrParts
  <2> QED
    BY <2>1, <2>4, IrTexts, IrFrames DEF IrIsA
<1>2. ASSUME NEW n, NEW k
      PROVE  IrIsA(IrExprOf(x, y, s, Var(n, k)), << Line3("load", Reg(RegIn(s)), LookedUp(FramesIn(s), n), None) >>,
                   RegIn(s) + 1, FramesIn(s), Reg(RegIn(s)))
  <2>1. PICK e, r : e = Var(n, k) /\ r = IrExprOf(x, y, s, e)
    OBVIOUS
  <2>2. e.k = "var" /\ e.name = n
    BY <2>1 DEF Var
  <2>3. PICK t : t = Nothing(s)
    OBVIOUS
  <2>4. TextIn(t) = << >> /\ RegIn(t) = RegIn(s) /\ FramesIn(t) = FramesIn(s)
    BY <2>3, IrTexts, IrFrames
  <2>5. r = IrValue(Define(t, "load", LookedUp(FramesIn(s), n), None), Reg(RegIn(t)))
    BY <2>1, <2>2, <2>3, <2>4 DEF IrExprOf, RegIn, FramesIn
  <2>6. IrIsA(r, Append(TextIn(t), Line3("load", Reg(RegIn(t)), LookedUp(FramesIn(s), n), None)), RegIn(t) + 1,
              FramesIn(t), Reg(RegIn(t)))
    BY <2>5, IrDefines
  <2>7. \A z : Append(TextIn(t), z) = << z >>
    BY <2>4
  <2> QED
    BY <2>1, <2>4, <2>6, <2>7
<1>3. ASSUME NEW e, e.k \notin {"lit", "var"},
             NEW op, op = IF e.k = "add" THEN "add" ELSE IF e.op = "==" THEN "eq" ELSE "ne"
      PROVE  IrIsA(IrExprOf(x, y, s, e), Append(TextIn(x.s) \o TextIn(y.s), Line3(op, Reg(RegIn(y.s)), x.v, y.v)),
                   RegIn(y.s) + 1, FramesIn(y.s), Reg(RegIn(y.s)))
  <2>1. PICK t : t = Continued(x.s, y.s)
    OBVIOUS
  <2>2. TextIn(t) = TextIn(x.s) \o TextIn(y.s) /\ RegIn(t) = RegIn(y.s) /\ FramesIn(t) = FramesIn(y.s)
    BY <2>1, IrTexts, IrFrames
  <2>3. IrExprOf(x, y, s, e) = IrValue(Define(t, op, x.v, y.v), Reg(RegIn(t)))
    <3>1. y.s.reg = RegIn(t)
      BY <2>2 DEF RegIn
    <3> QED
      BY <1>3, <2>1, <3>1 DEF IrExprOf
  <2> QED
    BY <2>2, <2>3, IrDefines
<1>4. ASSUME NEW l, NEW r
      PROVE  IrIsA(IrExprOf(x, y, s, Add(l, r)),
                   Append(TextIn(x.s) \o TextIn(y.s), Line3("add", Reg(RegIn(y.s)), x.v, y.v)),
                   RegIn(y.s) + 1, FramesIn(y.s), Reg(RegIn(y.s)))
  <2>1. PICK e : e = Add(l, r)
    OBVIOUS
  <2>2. e.k = "add"
    BY <2>1 DEF Add
  <2> QED
    BY <1>3, <2>1, <2>2
<1>5. ASSUME NEW op, NEW l, NEW r, NEW o, o = IF op = "==" THEN "eq" ELSE "ne"
      PROVE  IrIsA(IrExprOf(x, y, s, Compare(op, l, r)),
                   Append(TextIn(x.s) \o TextIn(y.s), Line3(o, Reg(RegIn(y.s)), x.v, y.v)),
                   RegIn(y.s) + 1, FramesIn(y.s), Reg(RegIn(y.s)))
  <2>1. PICK e : e = Compare(op, l, r)
    OBVIOUS
  <2>2. e.k = "cmp" /\ e.op = op
    BY <2>1 DEF Compare
  <2> QED
    BY <1>3, <1>5, <2>1, <2>2
<1> QED
  BY <1>1, <1>2, <1>4, <1>5

\* The operands, one after the other, and what is done to them.
LEMMA OperandsYield ==
    ASSUME NEW s, NEW K, Sits(s, K), NEW x, NEW y, Written(s, x.s, {}), Written(x.s, y.s, {}),
           NEW op, NEW r, IrIsA(r, Append(TextIn(x.s) \o TextIn(y.s), Line3(op, Reg(RegIn(y.s)), x.v, y.v)),
                                RegIn(y.s) + 1, FramesIn(y.s), Reg(RegIn(y.s))),
           NEW w, NEW p, Stands(w, p, TextIn(r.s)), NEW a, NEW b, NEW o, Reflects(K, a, b), NEW u, NEW v,
           Stands(w, p, TextIn(x.s)) => IrYields(w, p, x, b, o, RegIn(s), u),
           \A q : \A c : Stands(w, q, TextIn(y.s)) /\ Reflects(K, a, c) => IrYields(w, q, y, c, o, RegIn(x.s), v)
    PROVE  /\ op = "add" => IrYields(w, p, r, b, o, RegIn(s), (u + v) % IntMod)
           /\ op = "eq" => IrYields(w, p, r, b, o, RegIn(s), SameBit(u, v))
           /\ op = "ne" => IrYields(w, p, r, b, o, RegIn(s), 1 - SameBit(u, v))
<1>1. PICK i, j, k : i = RegIn(s) /\ j = RegIn(x.s) /\ k = RegIn(y.s)
  OBVIOUS
<1>2. i \in Nat /\ j \in Nat /\ k \in Nat /\ i <= j /\ j <= k /\ Listed(TextIn(x.s)) /\ Listed(TextIn(y.s))
  BY <1>1 DEF Written, Begins
<1>3. PICK f, g, z, d : f = TextIn(x.s) /\ g = TextIn(y.s) /\ z = Line3(op, Reg(k), x.v, y.v) /\ d = << z >>
  OBVIOUS
<1>4. TextIn(r.s) = (f \o g) \o d /\ r.v = Reg(k) /\ RegIn(r.s) = k + 1
  <2>1. Listed(f \o g)
    BY <1>2, <1>3, TextAt
  <2>2. Append(f \o g, z) = (f \o g) \o << z >>
    BY <2>1, AppendText
  <2> QED
    BY <1>1, <1>3, <2>2 DEF IrIsA
<1>5. Listed(f) /\ Listed(g) /\ Listed(d) /\ Listed(f \o g) /\ Len(d) = 1
  BY <1>2, <1>3, TextAt, StandsLines
<1>6. PICK fg, q, e, l : fg = f \o g /\ q = p + Len(f) /\ e = q + Len(g) /\ l = p + Len(TextIn(r.s))
  OBVIOUS
<1>7. Stands(w, p, fg) /\ Stands(w, p + Len(fg), d) /\ l = (p + Len(fg)) + 1
  <2>1. PICK t : t = TextIn(r.s)
    OBVIOUS
  <2>2. Stands(w, p, t) /\ Joins(fg, d, t)
    BY <1>4, <1>5, <1>6, <2>1 DEF Joins
  <2>3. Stands(w, p, fg) /\ Stands(w, p + Len(fg), d) /\ p + Len(t) = (p + Len(fg)) + Len(d)
    BY ONLY <2>2, StandsParts
  <2> QED
    BY <1>5, <1>6, <2>1, <2>3
<1>8. Stands(w, p, f) /\ Stands(w, q, g) /\ p + Len(fg) = e
  <2>1. Stands(w, p, fg) /\ Joins(f, g, fg)
    BY <1>5, <1>6, <1>7 DEF Joins
  <2>2. Stands(w, p, f) /\ Stands(w, p + Len(f), g) /\ p + Len(fg) = (p + Len(f)) + Len(g)
    BY ONLY <2>1, StandsParts
  <2> QED
    BY <1>6, <2>2
<1>9. w[e] = z /\ e \in Nat /\ l = e + 1
  <2>1. Stands(w, e, << z >>)
    BY <1>3, <1>7, <1>8
  <2>2. e \in Nat /\ w[e] = z
    BY ONLY <2>1, StandsLines
  <2> QED
    BY <1>7, <1>8, <2>2
<1>10. PICK c : Gets(w, p, b, o, q, c, o) /\ Keeps(b, c, i) /\ Usable(c, x.v, j) /\ ValueIn(c, x.v) = u
  BY <1>1, <1>3, <1>6, <1>8 DEF IrYields
<1>11. Reflects(K, a, c)
  BY <1>1, <1>10, ReflectsKept
<1>12. PICK h : Gets(w, q, c, o, e, h, o) /\ Keeps(c, h, j) /\ ValueIn(h, y.v) = v
  BY <1>1, <1>3, <1>6, <1>8, <1>11 DEF IrYields
<1>13. ValueIn(h, x.v) = u
  BY <1>2, <1>10, <1>12, UsableKept
<1>14. Gets(w, p, b, o, e, h, o) /\ Keeps(b, h, i)
  BY <1>2, <1>10, <1>12, GetsOn, KeepsParts
<1>15. ASSUME NEW n, Gets(w, e, h, o, e + 1, Put(h, Reg(k), n), o) PROVE IrYields(w, p, r, b, o, i, n)
  <2>1. PICK m : m = Put(h, Reg(k), n)
    OBVIOUS
  <2>2. Gets(w, p, b, o, l, m, o)
    BY <1>9, <1>14, <1>15, <2>1, GetsOn
  <2>3. Keeps(b, m, i)
    <3>1. i <= k /\ Keeps(h, m, i)
      BY <1>2, <2>1, KeepsParts DEF Reg
    <3> QED
      BY <1>2, <1>14, <3>1, KeepsParts
  <2>4. Usable(m, Reg(k), k + 1) /\ ValueIn(m, Reg(k)) = n
    BY <1>2, <2>1, UsableForms
  <2> QED
    BY <1>4, <1>6, <2>2, <2>3, <2>4 DEF IrYields
<1>16. z.op = op /\ z.dst = Reg(k) /\ z.l = x.v /\ z.r = y.v
  BY <1>3 DEF Line3
<1>17. ASSUME op = "add" PROVE Gets(w, e, h, o, e + 1, Put(h, Reg(k), (u + v) % IntMod), o)
  BY <1>9, <1>12, <1>13, <1>16, <1>17, LineRuns
<1>18. ASSUME op = "eq" PROVE Gets(w, e, h, o, e + 1, Put(h, Reg(k), SameBit(u, v)), o)
  BY <1>9, <1>12, <1>13, <1>16, <1>18, LineRuns
<1>19. ASSUME op = "ne" PROVE Gets(w, e, h, o, e + 1, Put(h, Reg(k), 1 - SameBit(u, v)), o)
  BY <1>9, <1>12, <1>13, <1>16, <1>19, LineRuns
<1> QED
  BY <1>1, <1>15, <1>17, <1>18, <1>19

LEMMA NodeLoadsRight ==
    ASSUME NEW T, NEW Rank, NEW Inside, AllExpressions(T, Rank, Inside), \A e \in T : Evaluated(e) /\ IrOf(e),
           \A e \in T : ComesOut(e), NEW e \in T, \A d \in T : Rank[d] < Rank[e] => LoadsRight(Inside, d)
    PROVE  LoadsRight(Inside, e)
<1>1. Inside[e] = {e} \cup IF e.k \in {"add", "cmp"} THEN Inside[e.l] \cup Inside[e.r] ELSE {}
  BY DEF AllExpressions
<1>2. \A s : IrExpr(s, e) = IrExprOf(IrExpr(s, e.l), IrExpr(IrExpr(s, e.l).s, e.r), s, e)
  BY DEF IrOf
<1>3. \A a : Eval(e, a) = NodeValue(e, a)
  BY DEF Evaluated, Meant
<1>4. CASE \E kind \in Kinds, v \in Nat : e = Lit(kind, v)
  <2>1. PICK kind \in Kinds, v \in Nat : e = Lit(kind, v)
    BY <1>4
  <2>2. ASSUME NEW s PROVE IrIsA(IrExpr(s, e), << >>, RegIn(s), FramesIn(s), Const32(v))
    <3>1. PICK x, y : IrExpr(s, e) = IrExprOf(x, y, s, e)
      BY <1>2
    <3> QED
      BY <2>1, <3>1, IrExprIs
  <2>3. \A s : FramesIn(IrExpr(s, e).s) = FramesIn(s)
    BY <2>2 DEF IrIsA
  <2>4. ASSUME NEW s, NEW K, Sits(s, K), NEW w, NEW p, NEW r, r = IrExpr(s, e), Stands(w, p, TextIn(r.s)), NEW a, NEW b, NEW o
        PROVE  IrYields(w, p, r, b, o, RegIn(s), Eval(e, a))
    <3>1. TextIn(r.s) = << >> /\ r.v = Const32(v)
      BY <2>2, <2>4 DEF IrIsA
    <3>2. Len(TextIn(r.s)) = 0 /\ p \in Nat
      BY <2>4, <3>1 DEF Stands
    <3>3. p + Len(TextIn(r.s)) = p
      BY <3>2
    <3>4. Gets(w, p, b, o, p, b, o) /\ Keeps(b, b, RegIn(s))
      BY GetsNow, KeepsParts
    <3>5. Usable(b, r.v, RegIn(r.s)) /\ ValueIn(b, r.v) = v
      BY <3>1, UsableForms
    <3>6. Eval(e, a) = v
      BY <1>3, <2>1, EvalForm
    <3> QED
      BY <3>3, <3>4, <3>5, <3>6 DEF IrYields
  <2> QED
    BY <2>3, <2>4 DEF LoadsRight
<1>5. CASE \E n \in Names, k \in Nat : e = Var(n, k)
  <2>1. PICK n \in Names, k \in Nat : e = Var(n, k)
    BY <1>5
  <2>2. e.k = "var" /\ e.name = n /\ e.scope = k
    BY <2>1, KindsApart
  <2>3. ASSUME NEW s
        PROVE  IrIsA(IrExpr(s, e), << Line3("load", Reg(RegIn(s)), LookedUp(FramesIn(s), n), None) >>, RegIn(s) + 1,
                     FramesIn(s), Reg(RegIn(s)))
    <3>1. PICK x, y : IrExpr(s, e) = IrExprOf(x, y, s, e)
      BY <1>2
    <3> QED
      BY <2>1, <3>1, IrExprIs
  <2>4. \A s : FramesIn(IrExpr(s, e).s) = FramesIn(s)
    BY <2>3 DEF IrIsA
  <2>5. ASSUME NEW s, NEW K, Sits(s, K), InScope(Inside, e, K.sc),
               NEW w, NEW p, NEW r, r = IrExpr(s, e), Stands(w, p, TextIn(r.s)), NEW a, NEW b, NEW o, Reflects(K, a, b)
        PROVE  IrYields(w, p, r, b, o, RegIn(s), Eval(e, a))
    <3>1. PICK i, u, z : i = RegIn(s) /\ u = LookedUp(FramesIn(s), n) /\ z = Line3("load", Reg(i), u, None)
      OBVIOUS
    <3>2. TextIn(r.s) = << z >> /\ r.v = Reg(i) /\ RegIn(r.s) = i + 1
      BY <2>3, <2>5, <3>1 DEF IrIsA
    <3>3. p \in Nat /\ w[p] = z /\ Len(TextIn(r.s)) = 1 /\ i \in Nat
      BY <2>5, <3>1, <3>2, StandsLines DEF Sits, Begins
    <3>4. Resolved(K.sc, n, k)
      BY <1>1, <2>2, <2>5 DEF InScope
    <3>5. b[u] = Val(a, << n, k >>)
      BY <2>5, <3>1, <3>4, ReflectsName
    <3>6. z.op = "load" /\ z.dst = Reg(i) /\ z.l = u
      BY <3>1 DEF Line3
    <3>7. PICK c : c = Put(b, Reg(i), b[u])
      OBVIOUS
    <3>8. Gets(w, p, b, o, p + 1, c, o)
      BY <3>3, <3>6, <3>7, LineRuns
    <3>9. Keeps(b, c, i)
      BY <3>3, <3>7, KeepsParts DEF Reg
    <3>10. Usable(c, Reg(i), i + 1) /\ ValueIn(c, Reg(i)) = b[u]
      BY <3>3, <3>7, UsableForms
    <3>11. Eval(e, a) = b[u]
      BY <1>3, <2>1, <3>5, EvalForm
    <3> QED
      BY <3>1, <3>2, <3>3, <3>8, <3>9, <3>10, <3>11 DEF IrYields
  <2> QED
    BY <2>4, <2>5 DEF LoadsRight
<1>6. CASE \E l, r \in T :
              /\ Rank[l] < Rank[e] /\ Rank[r] < Rank[e]
              /\ e = Add(l, r) \/ \E op \in {"==", "!="} : e = Compare(op, l, r)
  <2>1. PICK l \in T, r \in T :
              /\ Rank[l] < Rank[e] /\ Rank[r] < Rank[e]
              /\ e = Add(l, r) \/ \E op \in {"==", "!="} : e = Compare(op, l, r)
    BY <1>6
  <2>2. e.l = l /\ e.r = r /\ e.k \in {"add", "cmp"}
    BY <2>1, KindsApart
  <2>3. LoadsRight(Inside, l) /\ LoadsRight(Inside, r) /\ ComesOut(l) /\ ComesOut(r)
    BY <2>1
  <2>4. PICK op : /\ op \in {"add", "eq", "ne"}
                  /\ e = Add(l, r) => op = "add"
                  /\ e # Add(l, r) => (e = Compare("==", l, r) /\ op = "eq") \/ (e = Compare("!=", l, r) /\ op = "ne")
    BY <2>1
  <2>5. ASSUME NEW s, NEW x, x = IrExpr(s, l), NEW y, y = IrExpr(x.s, r)
        PROVE  IrIsA(IrExpr(s, e), Append(TextIn(x.s) \o TextIn(y.s), Line3(op, Reg(RegIn(y.s)), x.v, y.v)),
                     RegIn(y.s) + 1, FramesIn(y.s), Reg(RegIn(y.s)))
    <3>1. IrExpr(s, e) = IrExprOf(x, y, s, e)
      BY <1>2, <2>2, <2>5
    <3> QED
      BY <2>4, <3>1, IrExprIs
  <2>6. \A s : FramesIn(IrExpr(s, e).s) = FramesIn(s)
    <3> SUFFICES ASSUME NEW s PROVE FramesIn(IrExpr(s, e).s) = FramesIn(s)
      OBVIOUS
    <3>1. PICK x, y : x = IrExpr(s, l) /\ y = IrExpr(x.s, r)
      OBVIOUS
    <3>2. FramesIn(IrExpr(s, e).s) = FramesIn(y.s)
      BY <2>5, <3>1 DEF IrIsA
    <3> QED
      BY <2>3, <3>1, <3>2 DEF LoadsRight
  <2>7. ASSUME NEW s, NEW K, Sits(s, K), InScope(Inside, e, K.sc),
               NEW w, NEW p, NEW q, q = IrExpr(s, e), Stands(w, p, TextIn(q.s)), NEW a, NEW b, NEW o, Reflects(K, a, b)
        PROVE  IrYields(w, p, q, b, o, RegIn(s), Eval(e, a))
    <3>1. PICK x, y : x = IrExpr(s, l) /\ y = IrExpr(x.s, r)
      OBVIOUS
    <3>2. IrIsA(q, Append(TextIn(x.s) \o TextIn(y.s), Line3(op, Reg(RegIn(y.s)), x.v, y.v)),
                RegIn(y.s) + 1, FramesIn(y.s), Reg(RegIn(y.s)))
      BY <2>5, <2>7, <3>1
    <3>3. InScope(Inside, l, K.sc) /\ InScope(Inside, r, K.sc)
      BY <1>1, <2>2, <2>7 DEF InScope
    <3>4. Written(s, x.s, {})
      BY <2>3, <2>7, <3>1 DEF ComesOut, Sits
    <3>5. Written(x.s, y.s, {})
      <4>1. Begins(x.s)
        BY <3>4 DEF Written
      <4> QED
        BY <2>3, <3>1, <4>1 DEF ComesOut
    <3>6. Sits(x.s, K)
      <4>1. Begins(x.s) /\ RegIn(x.s) \in Nat /\ RegIn(s) <= RegIn(x.s)
        BY <3>4 DEF Written, Begins
      <4>2. FramesIn(x.s) = FramesIn(s)
        BY <2>3, <3>1 DEF LoadsRight
      <4>3. Framed(K.frames, K.sc, K.seen, RegIn(x.s))
        BY <2>7, <4>1, FramedLater DEF Sits
      <4> QED
        BY <2>7, <4>1, <4>2, <4>3 DEF Sits
    <3>7. Stands(w, p, TextIn(x.s)) => IrYields(w, p, x, b, o, RegIn(s), Eval(l, a))
      BY <2>3, <2>7, <3>1, <3>3 DEF LoadsRight
    <3>8. \A i : \A c : Stands(w, i, TextIn(y.s)) /\ Reflects(K, a, c) => IrYields(w, i, y, c, o, RegIn(x.s), Eval(r, a))
      BY <2>3, <3>1, <3>3, <3>6 DEF LoadsRight
    <3>9. /\ op = "add" => IrYields(w, p, q, b, o, RegIn(s), (Eval(l, a) + Eval(r, a)) % IntMod)
          /\ op = "eq" => IrYields(w, p, q, b, o, RegIn(s), SameBit(Eval(l, a), Eval(r, a)))
          /\ op = "ne" => IrYields(w, p, q, b, o, RegIn(s), 1 - SameBit(Eval(l, a), Eval(r, a)))
      BY <2>7, <3>2, <3>4, <3>5, <3>7, <3>8, OperandsYield
    <3>10. /\ op = "add" => Eval(e, a) = (Eval(l, a) + Eval(r, a)) % IntMod
           /\ op = "eq" => Eval(e, a) = SameBit(Eval(l, a), Eval(r, a))
           /\ op = "ne" => Eval(e, a) = 1 - SameBit(Eval(l, a), Eval(r, a))
      <4>1. /\ op = "add" => e = Add(l, r)
            /\ op = "eq" => e = Compare("==", l, r)
            /\ op = "ne" => e = Compare("!=", l, r)
        BY <2>4
      <4>2. ASSUME op = "add" PROVE Eval(e, a) = (Eval(l, a) + Eval(r, a)) % IntMod
        <5>1. NodeValue(Add(l, r), a) = (Eval(l, a) + Eval(r, a)) % IntMod
          BY EvalForm
        <5> QED
          BY <1>3, <4>1, <4>2, <5>1
      <4>3. ASSUME op = "eq" PROVE Eval(e, a) = SameBit(Eval(l, a), Eval(r, a))
        <5>1. NodeValue(Compare("==", l, r), a) = SameBit(Eval(l, a), Eval(r, a))
          BY EvalForm
        <5> QED
          BY <1>3, <4>1, <4>3, <5>1
      <4>4. ASSUME op = "ne" PROVE Eval(e, a) = 1 - SameBit(Eval(l, a), Eval(r, a))
        <5>1. NodeValue(Compare("!=", l, r), a) = 1 - SameBit(Eval(l, a), Eval(r, a))
          BY EvalForm
        <5> QED
          BY <1>3, <4>1, <4>4, <5>1
      <4> QED
        BY <4>2, <4>3, <4>4
    <3> QED
      BY <2>4, <3>9, <3>10
  <2> QED
    BY <2>6, <2>7 DEF LoadsRight
<1>7. Built(T, Rank, e)
  BY DEF AllExpressions
<1> QED
  BY <1>4, <1>5, <1>6, <1>7 DEF Built

LEMMA AllLoadRight ==
    ASSUME NEW T, NEW Rank, NEW Inside, AllExpressions(T, Rank, Inside), \A e \in T : Evaluated(e) /\ IrOf(e)
    PROVE  \A e \in T : LoadsRight(Inside, e)
<1>1. PICK W : W = {e \in T : LoadsRight(Inside, e)}
  OBVIOUS
<1>2. Rank \in [T -> Nat] /\ \A e \in T : ComesOut(e)
  BY ExpressionsComeOut DEF AllExpressions
<1>3. \A e \in T : (\A d \in T : Rank[d] < Rank[e] => d \in W) => e \in W
  BY <1>1, <1>2, NodeLoadsRight
<1>4. T \subseteq W
  BY <1>2, <1>3, EveryMember
<1> QED
  BY <1>1, <1>4

-----------------------------------------------------------------------------
(***************************************************************************)
(* What LLVM runs: statements.                                             *)
(***************************************************************************)
\* The run of the source is in u where b is stored in that of the text.
Matches(K, u, b) == Going(u) /\ Reflects(K, StoreIn(u), b)
\* The text gets from p to q as the source gets from u to v.
IrFollows(w, p, q, K, L, u, v) ==
    \A b : Matches(K, u, b) => \E c : Gets(w, p, b, OutIn(u), q, c, OutIn(v)) /\ Matches(L, v, c)
LEMMA FollowsOn ==
    ASSUME NEW w, NEW p, NEW q, NEW K, NEW L, NEW u, NEW v, IrFollows(w, p, q, K, L, u, v),
           NEW r, NEW M, NEW x, IrFollows(w, q, r, L, M, v, x)
    PROVE  IrFollows(w, p, r, K, M, u, x)
<1> SUFFICES ASSUME NEW b, Matches(K, u, b) PROVE \E c : Gets(w, p, b, OutIn(u), r, c, OutIn(x)) /\ Matches(M, x, c)
  BY DEF IrFollows
<1>1. PICK c : Gets(w, p, b, OutIn(u), q, c, OutIn(v)) /\ Matches(L, v, c)
  BY DEF IrFollows
<1>2. PICK d : Gets(w, q, c, OutIn(v), r, d, OutIn(x)) /\ Matches(M, x, d)
  BY <1>1 DEF IrFollows
<1> QED
  BY <1>1, <1>2, GetsOn

\* Every label stands once.
Lone(w) == \A i, j \in LabelAt(w) : w[i].l = w[j].l => i = j
LEMMA JumpsFollow ==
    ASSUME NEW w, Lone(w)
    PROVE  /\ \A p, K, u : IrFollows(w, p, p, K, K, u, u)
           /\ \A p, l, K, u : w[p] = Line3("label", None, l, None) => IrFollows(w, p, p + 1, K, K, u, u)
           /\ \A p, q, l, K, u :
                 q \in DOMAIN w /\ w[p] = Line3("jmp", None, l, None) /\ w[q] = Line3("label", None, l, None) =>
                    IrFollows(w, p, q, K, K, u, u)
           /\ \A q, l : q \in DOMAIN w /\ w[q] = Line3("label", None, l, None) => LandsAt(w, l, q)
<1>1. \A p, K, u : IrFollows(w, p, p, K, K, u, u)
  BY GetsNow DEF IrFollows
<1>2. ASSUME NEW p, NEW l, NEW K, NEW u, w[p] = Line3("label", None, l, None) PROVE IrFollows(w, p, p + 1, K, K, u, u)
  <2>1. PICK x : x = w[p] /\ x.op = "label"
    BY <1>2 DEF Line3
  <2>2. \A b, o : Gets(w, p, b, o, p + 1, b, o)
    BY <2>1, LineRuns
  <2> QED
    BY <2>2 DEF IrFollows
<1>3. ASSUME NEW q, NEW l, q \in DOMAIN w, w[q] = Line3("label", None, l, None) PROVE LandsAt(w, l, q)
  <2>1. w[q].op = "label" /\ w[q].l = l
    BY <1>3 DEF Line3
  <2> QED
    BY <1>3, <2>1 DEF LandsAt, LabelAt, Lone
<1>4. ASSUME NEW p, NEW q, NEW l, NEW K, NEW u,
             q \in DOMAIN w, w[p] = Line3("jmp", None, l, None), w[q] = Line3("label", None, l, None)
      PROVE  IrFollows(w, p, q, K, K, u, u)
  <2>1. PICK x : x = w[p] /\ x.op = "jmp" /\ x.l = l
    BY <1>4 DEF Line3
  <2>2. LandsAt(w, l, q)
    BY <1>3, <1>4
  <2>3. \A b, o : Gets(w, p, b, o, q, b, o)
    BY <2>1, <2>2, LineRuns
  <2> QED
    BY <2>3 DEF IrFollows
<1> QED
  BY <1>1, <1>2, <1>3, <1>4

\* A condition, and where it leads.
LEMMA ConditionFollows ==
    ASSUME NEW w, Lone(w), NEW Inside, NEW e, LoadsRight(Inside, e), NEW s, NEW K, Sits(s, K), InScope(Inside, e, K.sc),
           NEW r, r = IrExpr(s, e), NEW p, Stands(w, p, TextIn(r.s)), NEW q, q = p + Len(TextIn(r.s)),
           NEW l, NEW m, w[q] = Line3("br", None, r.v, << l, m >>), NEW i, LandsAt(w, l, i), NEW j, LandsAt(w, m, j), NEW u
    PROVE  /\ Eval(e, StoreIn(u)) = 1 => IrFollows(w, p, i, K, K, u, u)
           /\ Eval(e, StoreIn(u)) # 1 => IrFollows(w, p, j, K, K, u, u)
<1>1. PICK v, g : v = Eval(e, StoreIn(u)) /\ g = IF v = 1 THEN i ELSE j
  OBVIOUS
<1>2. IrFollows(w, p, g, K, K, u, u)
  <2> SUFFICES ASSUME NEW b, Matches(K, u, b), NEW o, o = OutIn(u)
               PROVE  \E c : Gets(w, p, b, o, g, c, o) /\ Matches(K, u, c)
    BY DEF IrFollows
  <2>1. IrYields(w, p, r, b, o, RegIn(s), v)
    BY <1>1 DEF LoadsRight, Matches
  <2>2. PICK c : Gets(w, p, b, o, q, c, o) /\ Keeps(b, c, RegIn(s)) /\ ValueIn(c, r.v) = v
    BY <2>1 DEF IrYields
  <2>3. Matches(K, u, c)
    BY <2>2, ReflectsKept DEF Matches
  <2>4. PICK x : x = w[q] /\ x.op = "br" /\ x.l = r.v /\ x.r[1] = l /\ x.r[2] = m
    BY DEF Line3
  <2>5. LandsAt(w, x.r[IF ValueIn(c, x.l) = 1 THEN 1 ELSE 2], g)
    BY <1>1, <2>2, <2>4
  <2>6. Gets(w, q, c, o, g, c, o)
    BY <2>4, <2>5, LineRuns
  <2> QED
    BY <2>2, <2>3, <2>6, GetsOn
<1> QED
  BY <1>1, <1>2

ViewParts(sc, frames, seen, L) == L.sc = sc /\ L.frames = frames /\ L.seen = seen
LEMMA ViewIs == \A sc, frames, seen : ViewParts(sc, frames, seen, View(sc, frames, seen))
  BY DEF ViewParts, View

\* A variable is made anew.
LEMMA ReflectsAnew ==
    ASSUME NEW s, NEW K, Sits(s, K), NEW n \in Names, NEW k \in Nat, Anew(K.sc, n, k),
           NEW ptr, ptr = Alias(n, RegIn(s)),
           NEW L, L = View(Declared(K.sc, n, k), DeclareAs(K.frames, n, ptr), K.seen \cup {ptr})
    PROVE  /\ \A a, b : Reflects(K, a, b) => Reflects(L, Put(a, << n, k >>, 0), Put(b, ptr, 0))
           /\ \A a, b : Reflects(L, a, b) => Reflects(K, a, b)
           /\ Framed(L.frames, L.sc, L.seen, RegIn(s) + 1) /\ Renames(L.frames, L.sc)
<1>1. PICK sc, frames, seen, id : sc = K.sc /\ frames = K.frames /\ seen = K.seen /\ id = RegIn(s)
  OBVIOUS
<1>2. Framed(frames, sc, seen, id) /\ Renames(frames, sc) /\ Depth(sc) > 0
  BY <1>1 DEF Sits, Standing
<1>3. PICK e, g, j : e = Declared(sc, n, k) /\ g = DeclareAs(frames, n, ptr) /\ j = seen \cup {ptr}
  OBVIOUS
<1>4. L.sc = e /\ L.frames = g /\ L.seen = j
  BY <1>1, <1>3, ViewIs DEF ViewParts
<1>5. /\ \A a, b : Mirrored(sc, frames, a, b) => Mirrored(e, g, Put(a, << n, k >>, 0), Put(b, << ptr, 0 >>, 0))
      /\ \A a, b : Mirrored(e, g, a, b) => Mirrored(sc, frames, a, b)
      /\ Renames(g, e)
  <2>1. ptr = Alias(n, id) /\ Anew(sc, n, k)
    BY <1>1
  <2>2. /\ \A a, b : Mirrored(sc, frames, a, b) =>
              Mirrored(Declared(sc, n, k), DeclareAs(frames, n, Alias(n, id)), Put(a, << n, k >>, 0),
                       Put(b, << Alias(n, id), 0 >>, 0))
        /\ \A a, b : Mirrored(Declared(sc, n, k), DeclareAs(frames, n, Alias(n, id)), a, b) => Mirrored(sc, frames, a, b)
        /\ Renames(frames, sc) => Renames(DeclareAs(frames, n, Alias(n, id)), Declared(sc, n, k))
    BY <1>2, <2>1, MirroredDeclared
  <2> QED
    BY ONLY <1>2, <1>3, <2>1, <2>2
<1>6. Framed(g, e, j, id + 1)
  BY <1>1, <1>2, <1>3, FramedDeclared
<1>7. ASSUME NEW a, NEW b, Reflects(K, a, b), NEW c, c = Put(b, ptr, 0), NEW d, d = Put(a, << n, k >>, 0)
      PROVE  Reflects(L, d, c)
  <2>1. Mirrored(sc, frames, a, Vars(b)) /\ seen \subseteq DOMAIN b
    BY <1>1, <1>7 DEF Reflects
  <2>2. Mirrored(e, g, d, Put(Vars(b), << ptr, 0 >>, 0))
    BY <1>5, <1>7, <2>1
  <2>3. ASSUME NEW x PROVE Val(Vars(c), << x, 0 >>) = Val(Put(Vars(b), << ptr, 0 >>, 0), << x, 0 >>)
    <3>1. Val(Vars(c), << x, 0 >>) = IF x = ptr THEN 0 ELSE Val(b, x)
      BY <1>7, VarsAre, ValPut
    <3>2. Val(Put(Vars(b), << ptr, 0 >>, 0), << x, 0 >>) = IF << x, 0 >> = << ptr, 0 >> THEN 0 ELSE Val(Vars(b), << x, 0 >>)
      BY ValPut
    <3>3. Val(Vars(b), << x, 0 >>) = Val(b, x)
      BY VarsAre
    <3> QED
      BY <3>1, <3>2, <3>3
  <2>4. Mirrored(e, g, d, Vars(c))
    BY <2>2, <2>3, MirroredSame
  <2>5. j \subseteq DOMAIN c
    BY <1>3, <1>7, <2>1 DEF Put
  <2> QED
    BY <1>4, <2>4, <2>5 DEF Reflects
<1>8. ASSUME NEW a, NEW b, Reflects(L, a, b) PROVE Reflects(K, a, b)
  <2>1. Mirrored(e, g, a, Vars(b)) /\ j \subseteq DOMAIN b
    BY <1>4, <1>8 DEF Reflects
  <2> QED
    BY <1>1, <1>3, <1>5, <2>1 DEF Reflects
<1>9. \A a, b : Reflects(K, a, b) => Reflects(L, Put(a, << n, k >>, 0), Put(b, ptr, 0))
  BY <1>7
<1> QED
  BY ONLY <1>1, <1>4, <1>5, <1>6, <1>8, <1>9

LEMMA IrDeclFollows ==
    ASSUME DeclResets = TRUE, NEW s, NEW K, Sits(s, K), NEW n \in Names, NEW k \in Nat, Anew(K.sc, n, k),
           NEW st, st = Decl(n, k), NEW v, NEW body, NEW r, r = IrStmtOf(v, body, s, st),
           NEW ptr, ptr = Alias(n, RegIn(s)),
           NEW L, L = View(Declared(K.sc, n, k), DeclareAs(K.frames, n, ptr), K.seen \cup {ptr})
    PROVE  /\ Sits(r, L)
           /\ \A w, p : Stands(w, p, TextIn(r)) =>
                 \A u : Going(u) /\ FuelIn(u) # 0 => IrFollows(w, p, p + Len(TextIn(r)), K, L, u, NodeExec(st, u))
<1>1. st.k = "decl" /\ st.name = n
  BY DEF Decl
<1>2. PICK m, t : m = Emit(Nothing(s), "alloca", ptr, None) /\ t = Emit(m, "store", Const32(0), ptr)
  OBVIOUS
<1>3. PICK x, y : x = Line3("alloca", None, ptr, None) /\ y = Line3("store", None, Const32(0), ptr)
  OBVIOUS
<1>4. TextIn(t) = << x, y >>
  <2>1. PICK z : z = Nothing(s)
    OBVIOUS
  <2>2. PICK none, two : none = << >> /\ two = << x, y >>
    OBVIOUS
  <2>3. TextIn(z) = none
    BY <2>1, <2>2, IrTexts
  <2>4. TextIn(m) = Append(TextIn(z), x)
    BY <1>2, <1>3, <2>1, EmitParts
  <2>5. TextIn(t) = Append(TextIn(m), y)
    BY <1>2, <1>3, EmitParts
  <2>6. Append(Append(none, x), y) = none \o two
    BY <2>2, NoText, AppendText
  <2>7. none \o two = two
    <3>1. two \in Seq({x, y})
      BY <2>2
    <3> QED
      BY <2>2, <3>1
  <2> QED
    BY <2>2, <2>3, <2>4, <2>5, <2>6, <2>7
<1>5. PICK w0, reg, label, frames :
         w0 = TextIn(t) /\ reg = RegIn(s) + 1 /\ label = LabelIn(s) /\ frames = DeclareAs(FramesIn(s), n, ptr)
  OBVIOUS
<1>6. r = Ir(w0, reg, label, frames)
  <2>1. ptr = << st.name, s.reg >>
    BY <1>1 DEF Alias, RegIn
  <2> QED
    BY <1>1, <1>2, <1>5, <2>1 DEF IrStmtOf, TextIn, RegIn, LabelIn, FramesIn
<1>7. TextIn(r) = << x, y >> /\ RegIn(r) = RegIn(s) + 1 /\ LabelIn(r) = LabelIn(s) /\ FramesIn(r) = DeclareAs(FramesIn(s), n, ptr)
  BY <1>4, <1>5, <1>6, IrParts, IrFrames
<1>8. /\ \A a, b : Reflects(K, a, b) => Reflects(L, Put(a, << n, k >>, 0), Put(b, ptr, 0))
      /\ Framed(L.frames, L.sc, L.seen, RegIn(s) + 1) /\ Renames(L.frames, L.sc)
  <2>1. /\ \A a, b : Reflects(K, a, b) => Reflects(L, Put(a, << n, k >>, 0), Put(b, ptr, 0))
        /\ \A a, b : Reflects(L, a, b) => Reflects(K, a, b)
        /\ Framed(L.frames, L.sc, L.seen, RegIn(s) + 1) /\ Renames(L.frames, L.sc)
    BY ReflectsAnew
  <2> QED
    BY ONLY <2>1
<1>9. L.sc = Declared(K.sc, n, k) /\ L.frames = DeclareAs(K.frames, n, ptr)
  BY ViewIs DEF ViewParts
<1>10. Sits(r, L)
  <2>1. Begins(r)
    BY <1>7 DEF Sits, Begins
  <2>2. FramesIn(r) = L.frames
    BY <1>7, <1>9 DEF Sits
  <2>3. Standing(L.sc)
    <3>1. IsScopes(L.sc)
      BY <1>8 DEF Framed
    <3>2. Depth(L.sc) = Depth(K.sc)
      <4>1. IsScopes(K.sc)
        BY DEF Sits, Standing
      <4>2. PICK sc, d, c : sc = K.sc /\ d = Depth(sc) /\ c = Meaning(k)
        OBVIOUS
      <4>3. d \in Nat /\ d > 0
        BY <4>1, <4>2, StackParts DEF Sits, Standing, IsScopes
      <4>4. L.sc = SetIn(sc, d, n, c)
        BY <1>9, <4>2 DEF Declared
      <4>5. c \in Bindings /\ d \in 1 .. d
        BY <4>2, <4>3, EntryKinds
      <4> QED
        BY <4>1, <4>2, <4>4, <4>5, SetParts DEF IsScopes
    <3> QED
      BY <3>1, <3>2 DEF Sits, Standing
  <2> QED
    BY <1>7, <1>8, <2>1, <2>2, <2>3 DEF Sits
<1>11. ASSUME NEW w, NEW p, Stands(w, p, TextIn(r)), NEW u, Going(u), FuelIn(u) # 0
       PROVE  IrFollows(w, p, p + Len(TextIn(r)), K, L, u, NodeExec(st, u))
  <2>1. p \in Nat /\ w[p] = x /\ w[p + 1] = y /\ p + Len(TextIn(r)) = (p + 1) + 1
    <3>1. Stands(w, p, << x, y >>)
      BY <1>7, <1>11
    <3>2. p \in Nat /\ w[p] = x /\ w[p + 1] = y /\ Len(<< x, y >>) = 2
      BY <3>1, StandsLines
    <3> QED
      BY <1>7, <3>2
  <2>2. PICK z : z = Store(u, << n, k >>, 0)
    OBVIOUS
  <2>3. NodeExec(st, u) = z
    BY <1>11, <2>2, ExecIs
  <2>4. StoreIn(z) = Put(StoreIn(u), << n, k >>, 0) /\ OutIn(z) = OutIn(u) /\ Going(z)
    BY <1>11, <2>2, GoingParts
  <2>5. ASSUME NEW b, Matches(K, u, b), NEW o, o = OutIn(u)
        PROVE  \E c : Gets(w, p, b, o, (p + 1) + 1, c, o) /\ Matches(L, z, c)
    <3>1. x.op = "alloca" /\ y.op = "store" /\ y.r = ptr /\ y.l = Const32(0)
      BY <1>3 DEF Line3
    <3>2. Gets(w, p, b, o, p + 1, b, o)
      BY <2>1, <3>1, LineRuns
    <3>3. PICK c : c = Put(b, ptr, ValueIn(b, y.l))
      OBVIOUS
    <3>4. Gets(w, p + 1, b, o, (p + 1) + 1, c, o)
      BY <2>1, <3>1, <3>3, LineRuns
    <3>5. c = Put(b, ptr, 0)
      BY <3>1, <3>3, UsableForms
    <3>6. Matches(L, z, c)
      BY <1>8, <2>4, <2>5, <3>5 DEF Matches
    <3> QED
      BY <3>2, <3>4, <3>6, GetsOn
  <2> QED
    BY <2>1, <2>3, <2>4, <2>5 DEF IrFollows
<1> QED
  BY ONLY <1>10, <1>11

LEMMA SitsOn ==
    ASSUME NEW s, NEW K, Sits(s, K), NEW t, NEW P, Written(s, t, P), FramesIn(t) = FramesIn(s)
    PROVE  Sits(t, K)
<1>1. Begins(t) /\ RegIn(t) \in Nat /\ RegIn(s) <= RegIn(t)
  BY DEF Written, Begins
<1>2. Framed(K.frames, K.sc, K.seen, RegIn(t))
  BY <1>1, FramedLater DEF Sits
<1> QED
  BY <1>1, <1>2 DEF Sits

\* An expression and the instruction that takes its value.
OwnIr(Inside, e, s, K, c) ==
    LoadsRight(Inside, e) /\ Sits(s, K) /\ InScope(Inside, e, K.sc) /\ c = IrExpr(s, e) /\ Written(s, c.s, {})
Takes(w, q, op, c, z, b, o, p, K, u, v) ==
    /\ w[q] = Line3(op, None, c.v, z)
    /\ \E d : Gets(w, p, b, o, q, d, o) /\ Matches(K, u, d) /\ ValueIn(d, c.v) = v
TakesValue(e, K, r, op, c, z, w, p, q) ==
    /\ p + Len(TextIn(r)) = q + 1
    /\ \A u, b : Matches(K, u, b) => Takes(w, q, op, c, z, b, OutIn(u), p, K, u, Eval(e, StoreIn(u)))
LEMMA ValueFollows ==
    ASSUME NEW Inside, NEW e, NEW s, NEW K, NEW c, OwnIr(Inside, e, s, K, c),
           NEW op, NEW z, NEW r, r = Emit(c.s, op, c.v, z), NEW w, NEW p, Stands(w, p, TextIn(r)),
           NEW q, q = p + Len(TextIn(c.s))
    PROVE  TakesValue(e, K, r, op, c, z, w, p, q)
<1>0. LoadsRight(Inside, e) /\ Sits(s, K) /\ InScope(Inside, e, K.sc) /\ c = IrExpr(s, e) /\ Written(s, c.s, {})
  BY DEF OwnIr
<1>1. PICK t, x : t = TextIn(c.s) /\ x = Line3(op, None, c.v, z)
  OBVIOUS
<1>2. PICK one, f : one = << x >> /\ f = TextIn(r)
  OBVIOUS
<1>3. Listed(t) /\ Listed(one) /\ Len(one) = 1
  BY <1>0, <1>1, <1>2, StandsLines DEF Written
<1>4. Joins(t, one, f)
  <2>1. f = Append(t, x)
    BY <1>1, <1>2, EmitParts
  <2> QED
    BY <1>2, <1>3, <2>1, AppendText DEF Joins
<1>5. Stands(w, p, t) /\ Stands(w, q, one) /\ p + Len(f) = q + 1
  <2>1. Stands(w, p, f)
    BY <1>2
  <2>2. Stands(w, p, t) /\ Stands(w, p + Len(t), one) /\ p + Len(f) = (p + Len(t)) + Len(one)
    BY <1>4, <2>1, StandsParts
  <2> QED
    BY <1>1, <1>3, <2>2
<1>6. w[q] = x
  BY <1>2, <1>5, StandsLines
<1>7. ASSUME NEW u, NEW b, Matches(K, u, b), NEW o, o = OutIn(u), NEW v, v = Eval(e, StoreIn(u))
      PROVE  Takes(w, q, op, c, z, b, o, p, K, u, v)
  <2>1. IrYields(w, p, c, b, o, RegIn(s), v)
    BY <1>0, <1>1, <1>5, <1>7 DEF LoadsRight, Matches
  <2>2. PICK d : Gets(w, p, b, o, q, d, o) /\ Keeps(b, d, RegIn(s)) /\ ValueIn(d, c.v) = v
    BY <2>1 DEF IrYields
  <2>3. Matches(K, u, d)
    BY <1>0, <1>7, <2>2, ReflectsKept DEF Matches
  <2> QED
    BY <1>1, <1>6, <2>2, <2>3 DEF Takes
<1> QED
  BY <1>2, <1>5, <1>7 DEF TakesValue

LEMMA IrAssignFollows ==
    ASSUME NEW Inside, NEW e, NEW s, NEW K, NEW c, OwnIr(Inside, e, s, K, c), NEW n, NEW k, Resolved(K.sc, n, k), NEW st, st = Assign(n, k, e),
           NEW z, z = LookedUp(FramesIn(s), n), NEW r, r = Emit(c.s, "store", c.v, z), NEW w, NEW p, Stands(w, p, TextIn(r)),
           NEW u, Going(u), FuelIn(u) # 0
    PROVE  IrFollows(w, p, p + Len(TextIn(r)), K, K, u, NodeExec(st, u))
<1>1. PICK v : v = Eval(e, StoreIn(u))
  OBVIOUS
<1>2. PICK y : y = Store(u, << n, k >>, v)
  OBVIOUS
<1>3. NodeExec(st, u) = y
  <2>1. FuelIn(u) # 0
    OBVIOUS
  <2>2. \A i, j, d : st = Assign(i, j, d) => NodeExec(st, u) = Store(u, << i, j >>, Eval(d, StoreIn(u)))
    BY ONLY <2>1, ExecIs
  <2> QED
    BY <1>1, <1>2, <2>2
<1>4. StoreIn(y) = Put(StoreIn(u), << n, k >>, v) /\ OutIn(y) = OutIn(u) /\ Going(y)
  BY <1>2, GoingParts
<1>5. PICK q : q = p + Len(TextIn(c.s))
  OBVIOUS
<1>6. /\ p + Len(TextIn(r)) = q + 1
      /\ \A a, b : Matches(K, a, b) => Takes(w, q, "store", c, z, b, OutIn(a), p, K, a, Eval(e, StoreIn(a)))
  <2>1. PICK op, x : op = "store" /\ x = z
    OBVIOUS
  <2>2. OwnIr(Inside, e, s, K, c) /\ r = Emit(c.s, op, c.v, x) /\ Stands(w, p, TextIn(r)) /\ q = p + Len(TextIn(c.s))
    BY <1>5, <2>1
  <2>3. TakesValue(e, K, r, op, c, x, w, p, q)
    BY ONLY <2>2, ValueFollows
  <2> QED
    BY <2>1, <2>3 DEF TakesValue
<1>7. ASSUME NEW b, Matches(K, u, b), NEW o, o = OutIn(u)
      PROVE  \E d : Gets(w, p, b, o, p + Len(TextIn(r)), d, o) /\ Matches(K, y, d)
  <2>1. Takes(w, q, "store", c, z, b, o, p, K, u, v)
    BY <1>1, <1>6, <1>7
  <2>2. PICK d : Gets(w, p, b, o, q, d, o) /\ Matches(K, u, d) /\ ValueIn(d, c.v) = v
    BY <2>1 DEF Takes
  <2>3. PICK x : x = w[q] /\ x.op = "store" /\ x.l = c.v /\ x.r = z
    BY <2>1 DEF Takes, Line3
  <2>4. PICK g : g = Put(d, z, v)
    OBVIOUS
  <2>5. Gets(w, q, d, o, q + 1, g, o)
    BY <2>2, <2>3, <2>4, LineRuns
  <2>6. Reflects(K, Put(StoreIn(u), << n, k >>, v), g)
    BY <2>2, <2>4, ReflectsName DEF Matches, OwnIr
  <2>7. Matches(K, y, g)
    BY <1>4, <2>6 DEF Matches
  <2> QED
    BY <1>6, <2>2, <2>5, <2>7, GetsOn
<1> QED
  BY <1>3, <1>4, <1>7 DEF IrFollows

LEMMA IrPrintFollows ==
    ASSUME NEW Inside, NEW e, NEW s, NEW K, NEW c, OwnIr(Inside, e, s, K, c), NEW st, st = PrintOf(e),
           NEW r, r = Emit(c.s, "print", c.v, None), NEW w, NEW p, Stands(w, p, TextIn(r)),
           NEW u, Going(u), FuelIn(u) # 0
    PROVE  IrFollows(w, p, p + Len(TextIn(r)), K, K, u, NodeExec(st, u))
<1>1. PICK v : v = Eval(e, StoreIn(u))
  OBVIOUS
<1>2. PICK y : y = Output(u, v)
  OBVIOUS
<1>3. NodeExec(st, u) = y
  BY <1>1, <1>2, ExecIs
<1>4. StoreIn(y) = StoreIn(u) /\ OutIn(y) = Append(OutIn(u), v) /\ Going(y)
  BY <1>2, GoingParts
<1>5. PICK q : q = p + Len(TextIn(c.s))
  OBVIOUS
<1>6. /\ p + Len(TextIn(r)) = q + 1
      /\ \A a, b : Matches(K, a, b) => Takes(w, q, "print", c, None, b, OutIn(a), p, K, a, Eval(e, StoreIn(a)))
  <2>1. PICK op, x : op = "print" /\ x = None
    OBVIOUS
  <2>2. OwnIr(Inside, e, s, K, c) /\ r = Emit(c.s, op, c.v, x) /\ Stands(w, p, TextIn(r)) /\ q = p + Len(TextIn(c.s))
    BY <1>5, <2>1
  <2>3. TakesValue(e, K, r, op, c, x, w, p, q)
    BY ONLY <2>2, ValueFollows
  <2> QED
    BY <2>1, <2>3 DEF TakesValue
<1>7. ASSUME NEW b, Matches(K, u, b), NEW o, o = OutIn(u)
      PROVE  \E d : Gets(w, p, b, o, p + Len(TextIn(r)), d, OutIn(y)) /\ Matches(K, y, d)
  <2>1. Takes(w, q, "print", c, None, b, o, p, K, u, v)
    BY <1>1, <1>6, <1>7
  <2>2. PICK d : Gets(w, p, b, o, q, d, o) /\ Matches(K, u, d) /\ ValueIn(d, c.v) = v
    BY <2>1 DEF Takes
  <2>3. PICK x : x = w[q] /\ x.op = "print" /\ x.l = c.v
    BY <2>1 DEF Takes, Line3
  <2>4. Gets(w, q, d, o, q + 1, d, OutIn(y))
    BY <1>4, <1>7, <2>2, <2>3, LineRuns
  <2>5. Matches(K, y, d)
    BY <1>4, <2>2 DEF Matches
  <2> QED
    BY <1>6, <2>2, <2>4, <2>5, GetsOn
<1> QED
  BY <1>3, <1>7 DEF IrFollows

\* A branch and the label after it, behind what is emitted in t.
PartAt(w, p, t, v, op, l, r, label) ==
    LET q == p + Len(TextIn(t))
    IN /\ Stands(w, p, TextIn(t)) /\ w[q] = Line3(op, None, l, r)
       /\ q + 1 \in DOMAIN w /\ w[q + 1] = Line3("label", None, label, None)
       /\ p + Len(TextIn(v)) = (q + 1) + 1
LEMMA PartStands ==
    ASSUME NEW t, Listed(TextIn(t)), NEW op, NEW l, NEW r, NEW label, NEW v, v = Part(t, op, l, r, label)
    PROVE  /\ Listed(TextIn(v)) /\ FramesIn(v) = FramesIn(t)
           /\ \A w, p : Stands(w, p, TextIn(v)) => PartAt(w, p, t, v, op, l, r, label)
<1>1. PICK x, y : x = Line3(op, None, l, r) /\ y = Line3("label", None, label, None)
  OBVIOUS
<1>2. PICK f, two, g : f = TextIn(t) /\ two = << x, y >> /\ g = TextIn(v)
  OBVIOUS
<1>3. PICK m : m = Emit(t, op, l, r)
  OBVIOUS
<1>4. v = Emit(m, "label", label, None)
  BY <1>3 DEF Part
<1>5. TextIn(m) = Append(f, x)
  BY <1>1, <1>2, <1>3, EmitParts
<1>6. g = Append(TextIn(m), y)
  BY <1>1, <1>2, <1>4, EmitParts
<1>7. Listed(f) /\ Listed(two) /\ Len(two) = 2
  BY <1>2, StandsLines
<1>8. g = f \o two
  BY <1>2, <1>5, <1>6, <1>7, AppendText
<1>9. Joins(f, two, g)
  BY <1>7, <1>8 DEF Joins
<1>10. Listed(g)
  BY <1>7, <1>8, CatPieces
<1>11. FramesIn(v) = FramesIn(t)
  BY <1>3, <1>4, IrFrames
<1>12. ASSUME NEW w, NEW p, Stands(w, p, g) PROVE PartAt(w, p, t, v, op, l, r, label)
  <2>1. Stands(w, p, f) /\ Stands(w, p + Len(f), two) /\ p + Len(g) = (p + Len(f)) + Len(two) /\ Len(f) \in Nat
    BY <1>9, <1>12, StandsParts
  <2>2. PICK q : q = p + Len(f)
    OBVIOUS
  <2>3. q \in Nat /\ w[q] = x /\ q + 1 \in DOMAIN w /\ w[q + 1] = y
    BY <1>2, <2>1, <2>2, StandsLines
  <2>4. p + Len(g) = (q + 1) + 1
    BY <1>7, <2>1, <2>2, <2>3
  <2> QED
    BY <1>1, <1>2, <2>1, <2>2, <2>3, <2>4 DEF PartAt
<1> QED
  BY <1>2, <1>10, <1>11, <1>12

\* One piece after another.
LEMMA ContinuedStands ==
    ASSUME NEW t, Listed(TextIn(t)), NEW u, Listed(TextIn(u)), NEW v, v = Continued(t, u)
    PROVE  /\ Listed(TextIn(v)) /\ FramesIn(v) = FramesIn(u)
           /\ \A w, p : Stands(w, p, TextIn(v)) =>
                 /\ Stands(w, p, TextIn(t)) /\ Stands(w, p + Len(TextIn(t)), TextIn(u))
                 /\ p + Len(TextIn(v)) = (p + Len(TextIn(t))) + Len(TextIn(u))
<1>1. PICK f, g, h : f = TextIn(t) /\ g = TextIn(u) /\ h = TextIn(v)
  OBVIOUS
<1>2. h = f \o g
  BY <1>1, IrTexts
<1>3. Joins(f, g, h)
  BY <1>1, <1>2 DEF Joins
<1>4. Listed(h)
  BY <1>1, <1>2, CatPieces
<1>5. FramesIn(v) = FramesIn(u)
  BY IrFrames
<1>6. ASSUME NEW w, NEW p, Stands(w, p, h)
      PROVE  Stands(w, p, f) /\ Stands(w, p + Len(f), g) /\ p + Len(h) = (p + Len(f)) + Len(g)
  BY <1>3, <1>6, StandsParts
<1> QED
  BY <1>1, <1>4, <1>5, <1>6

\* Wherever it stands, what is emitted for a body does what the body does.
BodyRuns(w, K, b, body) ==
    \A p : Stands(w, p, TextIn(body)) =>
        \A u : Going(u) /\ FuelIn(ExecBlock(b, u)) # 0 =>
            IrFollows(w, p, p + Len(TextIn(body)), K, K, u, ExecBlock(b, u))

\* What is emitted in r does what the statement st does.
StatementRuns(w, K, L, st, r) ==
    \A p : Stands(w, p, TextIn(r)) =>
        \A u : Going(u) /\ FuelIn(NodeExec(st, u)) # 0 =>
            IrFollows(w, p, p + Len(TextIn(r)), K, L, u, NodeExec(st, u))

LEMMA IrIfFollows ==
    ASSUME NEW Inside, NEW e, NEW s, NEW K, NEW c, OwnIr(Inside, e, s, K, c), NEW b, NEW st, st = If(e, b),
           NEW body, Listed(TextIn(body)), NEW r, r = IrEndIf(c, body), NEW w, Lone(w), BodyRuns(w, K, b, body)
    PROVE  StatementRuns(w, K, K, st, r)
<1>1. PICK k, pair : k = LabelIn(c.s) /\ pair = << k, k + 1 >>
  OBVIOUS
<1>2. PICK t, d, m : t = Labels(c.s, 2) /\ d = IrThen(c) /\ m = Continued(d, body)
  OBVIOUS
<1>3. TextIn(t) = TextIn(c.s) /\ Listed(TextIn(t))
  BY <1>2, IrTexts DEF OwnIr, Written
<1>4. d = Part(t, "br", c.v, pair, k)
  BY <1>1, <1>2 DEF IrThen, LabelIn
<1>5. r = Part(m, "jmp", k + 1, None, k + 1)
  BY <1>1, <1>2 DEF IrEndIf, LabelIn
<1>6. /\ Listed(TextIn(d))
      /\ \A v, p : Stands(v, p, TextIn(d)) => PartAt(v, p, t, d, "br", c.v, pair, k)
  BY <1>3, <1>4, PartStands
<1>7. /\ Listed(TextIn(m))
      /\ \A v, p : Stands(v, p, TextIn(m)) =>
            /\ Stands(v, p, TextIn(d)) /\ Stands(v, p + Len(TextIn(d)), TextIn(body))
            /\ p + Len(TextIn(m)) = (p + Len(TextIn(d))) + Len(TextIn(body))
  BY <1>2, <1>6, ContinuedStands
<1>8. \A v, p : Stands(v, p, TextIn(r)) => PartAt(v, p, m, r, "jmp", k + 1, None, k + 1)
  BY <1>5, <1>7, PartStands
<1> SUFFICES ASSUME NEW p, Stands(w, p, TextIn(r)), NEW u, Going(u), FuelIn(NodeExec(st, u)) # 0
             PROVE  IrFollows(w, p, p + Len(TextIn(r)), K, K, u, NodeExec(st, u))
  BY DEF StatementRuns
<1>9. PICK q, i, j : q = p + Len(TextIn(c.s)) /\ i = p + Len(TextIn(d)) /\ j = p + Len(TextIn(m))
  OBVIOUS
<1>10. /\ Stands(w, p, TextIn(m)) /\ w[j] = Line3("jmp", None, k + 1, None)
       /\ j + 1 \in DOMAIN w /\ w[j + 1] = Line3("label", None, k + 1, None)
       /\ p + Len(TextIn(r)) = (j + 1) + 1
  BY <1>8, <1>9 DEF PartAt
<1>11. Stands(w, p, TextIn(d)) /\ Stands(w, i, TextIn(body)) /\ j = i + Len(TextIn(body))
  BY <1>7, <1>9, <1>10
<1>12. /\ Stands(w, p, TextIn(c.s)) /\ w[q] = Line3("br", None, c.v, << k, k + 1 >>)
       /\ q + 1 \in DOMAIN w /\ w[q + 1] = Line3("label", None, k, None)
       /\ i = (q + 1) + 1
  BY <1>1, <1>3, <1>6, <1>9, <1>11 DEF PartAt
<1>13. FuelIn(u) # 0
  BY RunForm
<1>14. NodeExec(st, u) = IF Eval(e, StoreIn(u)) = 1 THEN ExecBlock(b, u) ELSE u
  BY <1>13, ExecIs
<1>15. LandsAt(w, k, q + 1) /\ LandsAt(w, k + 1, j + 1)
  BY <1>10, <1>12, JumpsFollow
<1>16. /\ Eval(e, StoreIn(u)) = 1 => IrFollows(w, p, q + 1, K, K, u, u)
       /\ Eval(e, StoreIn(u)) # 1 => IrFollows(w, p, j + 1, K, K, u, u)
  <2>1. LoadsRight(Inside, e) /\ Sits(s, K) /\ InScope(Inside, e, K.sc) /\ c = IrExpr(s, e)
    BY DEF OwnIr
  <2> QED
    BY <1>9, <1>12, <1>15, <2>1, ConditionFollows
<1>17. IrFollows(w, q + 1, i, K, K, u, u)
  BY <1>12, JumpsFollow
<1>18. PICK x, end : x = NodeExec(st, u) /\ end = (j + 1) + 1
  OBVIOUS
<1>19. IrFollows(w, j, j + 1, K, K, x, x) /\ IrFollows(w, j + 1, end, K, K, x, x)
  BY <1>10, <1>18, JumpsFollow
<1>20. CASE Eval(e, StoreIn(u)) = 1
  <2>1. x = ExecBlock(b, u) /\ IrFollows(w, i, j, K, K, u, x)
    BY <1>11, <1>14, <1>18, <1>20 DEF BodyRuns
  <2>2. IrFollows(w, p, i, K, K, u, u)
    BY <1>16, <1>17, <1>20, FollowsOn
  <2>3. IrFollows(w, p, j, K, K, u, x)
    BY <2>1, <2>2, FollowsOn
  <2>4. IrFollows(w, p, j + 1, K, K, u, x)
    BY <1>19, <2>3, FollowsOn
  <2>5. IrFollows(w, p, end, K, K, u, x)
    BY <1>19, <2>4, FollowsOn
  <2> QED
    BY <1>10, <1>18, <2>5
<1>21. CASE Eval(e, StoreIn(u)) # 1
  <2>1. x = u /\ IrFollows(w, p, j + 1, K, K, u, x)
    BY <1>14, <1>16, <1>18, <1>21
  <2>2. IrFollows(w, p, end, K, K, u, x)
    BY <1>19, <2>1, FollowsOn
  <2> QED
    BY <1>10, <1>18, <2>2
<1> QED
  BY <1>20, <1>21

\* The turns of a loop, whose label is at g, body at i and end at end.
LEMMA IrTurnsFollow ==
    ASSUME NEW e, NEW b, NEW st, st = While(e, b), \A u : \A k \in Nat : Loop(st, u, k) = NodeLoop(st, u, k), Lasts(b),
           NEW w, NEW K, NEW g, NEW i, NEW j, NEW end,
           \A u : Eval(e, StoreIn(u)) = 1 => IrFollows(w, g, i, K, K, u, u),
           \A u : Going(u) /\ FuelIn(ExecBlock(b, u)) # 0 => IrFollows(w, i, j, K, K, u, ExecBlock(b, u)),
           \A u : IrFollows(w, j, g, K, K, u, u)
    PROVE  \A k \in Nat : \A u : Going(u) /\ FuelIn(Loop(st, u, k)) # 0 => IrFollows(w, g, g, K, K, u, Loop(st, u, k))
<1>1. /\ \A u : \A k \in Nat : FuelIn(u) = 0 => Loop(st, u, k) = u
      /\ \A u : \A k \in Nat : Eval(e, StoreIn(u)) # 1 => Loop(st, u, k) = u
      /\ \A u : FuelIn(u) # 0 /\ Eval(e, StoreIn(u)) = 1 =>
            /\ Loop(st, u, 0) = ExecBlock(b, Burn(u))
            /\ \A k \in Nat : Loop(st, u, k + 1) = Loop(st, Loop(st, u, k), k)
  BY LoopIs
<1>2. \A k \in Nat : \A u : Going(u) => Going(Loop(st, u, k))
  BY LoopLasts
<1>3. \A u : IrFollows(w, g, g, K, K, u, u)
  BY GetsNow DEF IrFollows
<1>4. PICK R : R = {k \in Nat : \A u : Going(u) /\ FuelIn(Loop(st, u, k)) # 0 => IrFollows(w, g, g, K, K, u, Loop(st, u, k))}
  OBVIOUS
<1>5. 0 \in R
  <2> SUFFICES ASSUME NEW u, Going(u), FuelIn(Loop(st, u, 0)) # 0 PROVE IrFollows(w, g, g, K, K, u, Loop(st, u, 0))
    BY <1>4
  <2>1. PICK x : x = Loop(st, u, 0)
    OBVIOUS
  <2>2. CASE Eval(e, StoreIn(u)) # 1 \/ FuelIn(u) = 0
    <3>1. x = u
      BY <1>1, <2>1, <2>2
    <3> QED
      BY <1>3, <2>1, <3>1
  <2>3. CASE Eval(e, StoreIn(u)) = 1 /\ FuelIn(u) # 0
    <3>1. PICK y : y = Burn(u)
      OBVIOUS
    <3>2. StoreIn(y) = StoreIn(u) /\ OutIn(y) = OutIn(u) /\ Going(y)
      BY <2>3, <3>1, GoingParts
    <3>3. x = ExecBlock(b, y)
      BY <1>1, <2>1, <2>3, <3>1
    <3>4. IrFollows(w, i, j, K, K, y, x)
      BY <2>1, <3>2, <3>3
    <3>5. IrFollows(w, i, j, K, K, u, x)
      <4>1. \A c : Matches(K, u, c) => Matches(K, y, c)
        BY <3>2 DEF Matches
      <4> QED
        BY <3>2, <3>4, <4>1 DEF IrFollows
    <3>6. IrFollows(w, g, i, K, K, u, u) /\ IrFollows(w, j, g, K, K, x, x)
      BY <2>3
    <3>7. IrFollows(w, g, j, K, K, u, x)
      BY <3>5, <3>6, FollowsOn
    <3>8. IrFollows(w, g, g, K, K, u, x)
      BY <3>6, <3>7, FollowsOn
    <3> QED
      BY <2>1, <3>8
  <2> QED
    BY <2>2, <2>3
<1>6. ASSUME NEW k \in Nat, k \in R PROVE k + 1 \in R
  <2> SUFFICES ASSUME NEW u, Going(u), FuelIn(Loop(st, u, k + 1)) # 0
               PROVE  IrFollows(w, g, g, K, K, u, Loop(st, u, k + 1))
    BY <1>4, <1>6
  <2>1. PICK x, y : x = Loop(st, u, k + 1) /\ y = Loop(st, u, k)
    OBVIOUS
  <2>2. k + 1 \in Nat
    OBVIOUS
  <2>3. CASE Eval(e, StoreIn(u)) # 1 \/ FuelIn(u) = 0
    <3>1. x = u
      BY <1>1, <2>1, <2>2, <2>3
    <3> QED
      BY <1>3, <2>1, <3>1
  <2>4. CASE Eval(e, StoreIn(u)) = 1 /\ FuelIn(u) # 0
    <3>1. x = Loop(st, y, k)
      BY <1>1, <2>1, <2>4
    <3>2. FuelIn(y) # 0
      <4>1. FuelIn(y) = 0 => x = y
        BY <1>1, <3>1
      <4> QED
        BY <2>1, <4>1
    <3>3. Going(y)
      BY <1>2, <2>1
    <3>4. IrFollows(w, g, g, K, K, u, y)
      BY <1>4, <1>6, <2>1, <3>2
    <3>5. IrFollows(w, g, g, K, K, y, x)
      BY <1>4, <1>6, <2>1, <3>1, <3>3
    <3>6. IrFollows(w, g, g, K, K, u, x)
      BY <3>4, <3>5, FollowsOn
    <3> QED
      BY <2>1, <3>6
  <2> QED
    BY <2>3, <2>4
<1>7. Nat \subseteq R
  BY <1>5, <1>6, EveryNumber
<1> QED
  BY <1>4, <1>7

LEMMA IrWhileFollows ==
    ASSUME NEW Inside, NEW e, NEW s, Begins(s), Listed(TextIn(IrTurn(s))), NEW K, NEW c, OwnIr(Inside, e, IrTurn(s), K, c),
           NEW b, NEW st, st = While(e, b), \A u : \A k \in Nat : Loop(st, u, k) = NodeLoop(st, u, k), Lasts(b),
           LoopDepth \in Nat,
           NEW body, Listed(TextIn(body)), NEW r, r = IrEndWhile(s, c, body), NEW w, Lone(w), BodyRuns(w, K, b, body)
    PROVE  StatementRuns(w, K, K, st, r)
<1>1. PICK k, pair : k = LabelIn(s) /\ pair = << k + 1, (k + 1) + 1 >>
  OBVIOUS
<1>2. k \in Nat /\ (k + 1) + 1 = k + 2
  BY <1>1 DEF Begins
<1>3. PICK n, t, h : n = Labels(Nothing(s), 3) /\ t = IrTurn(s) /\ h = Continued(t, c.s)
  OBVIOUS
<1>4. PICK d, m : d = IrDo(s, c) /\ m = Continued(d, body)
  OBVIOUS
<1>5. TextIn(n) = << >> /\ Listed(TextIn(n)) /\ Listed(TextIn(c.s)) /\ Listed(TextIn(t))
  <2>1. TextIn(n) = << >>
    BY <1>3, IrTexts
  <2>2. Listed(TextIn(c.s))
    BY DEF OwnIr, Written
  <2> QED
    BY <1>3, <2>1, <2>2, NoText
<1>6. t = Part(n, "jmp", k, None, k)
  BY <1>1, <1>3 DEF IrTurn, LabelIn
<1>7. d = Part(h, "br", c.v, pair, k + 1)
  BY <1>1, <1>3, <1>4 DEF IrDo, LabelIn
<1>8. r = Part(m, "jmp", k, None, k + 2)
  BY <1>1, <1>4 DEF IrEndWhile, LabelIn
<1>9. \A v, p : Stands(v, p, TextIn(t)) => PartAt(v, p, n, t, "jmp", k, None, k)
  BY <1>5, <1>6, PartStands
<1>10. /\ Listed(TextIn(h))
       /\ \A v, p : Stands(v, p, TextIn(h)) =>
             /\ Stands(v, p, TextIn(t)) /\ Stands(v, p + Len(TextIn(t)), TextIn(c.s))
             /\ p + Len(TextIn(h)) = (p + Len(TextIn(t))) + Len(TextIn(c.s))
  BY <1>3, <1>5, ContinuedStands
<1>11. /\ Listed(TextIn(d))
       /\ \A v, p : Stands(v, p, TextIn(d)) => PartAt(v, p, h, d, "br", c.v, pair, k + 1)
  BY <1>7, <1>10, PartStands
<1>12. /\ Listed(TextIn(m))
       /\ \A v, p : Stands(v, p, TextIn(m)) =>
             /\ Stands(v, p, TextIn(d)) /\ Stands(v, p + Len(TextIn(d)), TextIn(body))
             /\ p + Len(TextIn(m)) = (p + Len(TextIn(d))) + Len(TextIn(body))
  BY <1>4, <1>11, ContinuedStands
<1>13. \A v, p : Stands(v, p, TextIn(r)) => PartAt(v, p, m, r, "jmp", k, None, k + 2)
  BY <1>8, <1>12, PartStands
<1> SUFFICES ASSUME NEW p, Stands(w, p, TextIn(r)), NEW u, Going(u), FuelIn(NodeExec(st, u)) # 0
             PROVE  IrFollows(w, p, p + Len(TextIn(r)), K, K, u, NodeExec(st, u))
  BY DEF StatementRuns
<1>14. PICK l, q, i, j : /\ l = p + Len(TextIn(t)) /\ q = p + Len(TextIn(h))
                         /\ i = p + Len(TextIn(d)) /\ j = p + Len(TextIn(m))
  OBVIOUS
<1>15. /\ Stands(w, p, TextIn(m)) /\ w[j] = Line3("jmp", None, k, None)
       /\ j + 1 \in DOMAIN w /\ w[j + 1] = Line3("label", None, k + 2, None)
       /\ p + Len(TextIn(r)) = (j + 1) + 1
  BY <1>13, <1>14 DEF PartAt
<1>16. Stands(w, p, TextIn(d)) /\ Stands(w, i, TextIn(body)) /\ j = i + Len(TextIn(body))
  BY <1>12, <1>14, <1>15
<1>17. /\ Stands(w, p, TextIn(h)) /\ w[q] = Line3("br", None, c.v, << k + 1, k + 2 >>)
       /\ q + 1 \in DOMAIN w /\ w[q + 1] = Line3("label", None, k + 1, None)
       /\ i = (q + 1) + 1
  BY <1>1, <1>2, <1>11, <1>14, <1>16 DEF PartAt
<1>18. Stands(w, p, TextIn(t)) /\ Stands(w, l, TextIn(c.s)) /\ q = l + Len(TextIn(c.s))
  BY <1>10, <1>14, <1>17
<1>19. PICK g : g = p + 1
  OBVIOUS
<1>20. /\ w[p] = Line3("jmp", None, k, None) /\ g \in DOMAIN w /\ w[g] = Line3("label", None, k, None)
       /\ l = g + 1
  <2>1. PartAt(w, p, n, t, "jmp", k, None, k)
    BY <1>9, <1>18
  <2>2. Len(TextIn(n)) = 0 /\ p \in Nat
    BY <1>5 DEF Stands
  <2>3. p + Len(TextIn(n)) = p
    BY <2>2
  <2> QED
    BY <1>14, <1>19, <2>1, <2>3 DEF PartAt
<1>21. LandsAt(w, k + 1, q + 1) /\ LandsAt(w, k + 2, j + 1)
  BY <1>15, <1>17, JumpsFollow
<1>22. PICK end : end = (j + 1) + 1
  OBVIOUS
<1>23. ASSUME NEW a
       PROVE  /\ IrFollows(w, g, l, K, K, a, a) /\ IrFollows(w, q + 1, i, K, K, a, a)
              /\ IrFollows(w, j + 1, end, K, K, a, a) /\ IrFollows(w, j, g, K, K, a, a)
              /\ IrFollows(w, p, g, K, K, a, a)
  BY <1>15, <1>17, <1>20, <1>22, JumpsFollow
<1>24. ASSUME NEW a
       PROVE  /\ Eval(e, StoreIn(a)) = 1 => IrFollows(w, g, i, K, K, a, a)
              /\ Eval(e, StoreIn(a)) # 1 => IrFollows(w, g, end, K, K, a, a)
  <2>1. LoadsRight(Inside, e) /\ Sits(t, K) /\ InScope(Inside, e, K.sc) /\ c = IrExpr(t, e)
    BY <1>3 DEF OwnIr
  <2>2. /\ Eval(e, StoreIn(a)) = 1 => IrFollows(w, l, q + 1, K, K, a, a)
        /\ Eval(e, StoreIn(a)) # 1 => IrFollows(w, l, j + 1, K, K, a, a)
    BY <1>17, <1>18, <1>21, <2>1, ConditionFollows
  <2>3. ASSUME Eval(e, StoreIn(a)) = 1 PROVE IrFollows(w, g, i, K, K, a, a)
    <3>1. IrFollows(w, g, q + 1, K, K, a, a)
      BY <1>23, <2>2, <2>3, FollowsOn
    <3> QED
      BY <1>23, <3>1, FollowsOn
  <2>4. ASSUME Eval(e, StoreIn(a)) # 1 PROVE IrFollows(w, g, end, K, K, a, a)
    <3>1. IrFollows(w, g, j + 1, K, K, a, a)
      BY <1>23, <2>2, <2>4, FollowsOn
    <3> QED
      BY <1>23, <3>1, FollowsOn
  <2> QED
    BY <2>3, <2>4
<1>25. \A a : Going(a) /\ FuelIn(ExecBlock(b, a)) # 0 => IrFollows(w, i, j, K, K, a, ExecBlock(b, a))
  BY <1>16 DEF BodyRuns
<1>26. \A o \in Nat : \A a : Going(a) /\ FuelIn(Loop(st, a, o)) # 0 => IrFollows(w, g, g, K, K, a, Loop(st, a, o))
  BY <1>23, <1>24, <1>25, IrTurnsFollow
<1>27. PICK x, y : x = NodeExec(st, u) /\ y = Loop(st, u, LoopDepth)
  OBVIOUS
<1>28. FuelIn(u) # 0
  BY RunForm
<1>29. x = IF Eval(e, StoreIn(y)) = 1 THEN Stopped(y) ELSE y
  BY <1>27, <1>28, WhileExec
<1>30. Going(y)
  BY <1>27, LoopLasts
<1>31. x = y /\ Eval(e, StoreIn(y)) # 1
  <2>1. FuelIn(Stopped(y)) = 0
    BY <1>30, GoingParts
  <2> QED
    BY <1>27, <1>29, <2>1
<1>32. IrFollows(w, g, g, K, K, u, y)
  BY <1>26, <1>27, <1>31
<1>33. IrFollows(w, p, g, K, K, u, y)
  BY <1>23, <1>32, FollowsOn
<1>34. IrFollows(w, g, end, K, K, y, y)
  BY <1>24, <1>31
<1>35. IrFollows(w, p, end, K, K, u, y)
  BY <1>33, <1>34, FollowsOn
<1> QED
  BY <1>15, <1>22, <1>27, <1>31, <1>35

-----------------------------------------------------------------------------
(***************************************************************************)
(* What LLVM runs: blocks.                                                 *)
(***************************************************************************)
LEMMA SitsLater ==
    ASSUME NEW s, NEW K, Sits(s, K), NEW t, LabelIn(t) \in Nat, RegIn(t) \in Nat, RegIn(s) <= RegIn(t),
           FramesIn(t) = FramesIn(s)
    PROVE  Sits(t, K)
<1>1. Framed(K.frames, K.sc, K.seen, RegIn(t))
  BY FramedLater DEF Sits
<1> QED
  BY <1>1 DEF Sits, Begins

\* The scopes in a block there; no name is declared in it yet.
Inner(K) == View(Enter(K.sc), EnterScope(K.frames), K.seen)
LEMMA InnerView ==
    ASSUME NEW s, NEW K, Sits(s, K), Standing(Enter(K.sc)), NEW L, L = Inner(K)
    PROVE  /\ Sits(IrEntered(s), L) /\ L.sc = Enter(K.sc)
           /\ \A u, b : Matches(L, u, b) <=> Matches(K, u, b)
<1>1. PICK sc, frames, seen, id : sc = K.sc /\ frames = K.frames /\ seen = K.seen /\ id = RegIn(s)
  OBVIOUS
<1>2. Framed(frames, sc, seen, id) /\ Renames(frames, sc) /\ FramesIn(s) = frames
  BY <1>1 DEF Sits
<1>3. PICK e, g : e = Enter(sc) /\ g = EnterScope(frames)
  OBVIOUS
<1>4. L.sc = e /\ L.frames = g /\ L.seen = seen
  BY <1>1, <1>3, ViewIs DEF ViewParts, Inner
<1>5. Framed(g, e, seen, id)
  BY <1>2, <1>3, FramedEntered
<1>6. (\A a, b : Mirrored(e, g, a, b) <=> Mirrored(sc, frames, a, b)) /\ Renames(g, e)
  BY <1>2, <1>3, MirroredEntered
<1>7. PICK t : t = IrEntered(s)
  OBVIOUS
<1>8. RegIn(t) = id /\ LabelIn(t) = LabelIn(s) /\ FramesIn(t) = g
  <2>1. PICK w, label : w = << >> /\ label = LabelIn(s)
    OBVIOUS
  <2>2. t = Ir(w, id, label, g)
    BY <1>1, <1>2, <1>3, <1>7, <2>1 DEF IrEntered, RegIn, LabelIn, FramesIn
  <2> QED
    BY <2>1, <2>2, IrParts, IrFrames
<1>9. Sits(t, L)
  <2>1. Begins(t)
    BY <1>1, <1>8 DEF Begins, Sits
  <2> QED
    BY <1>1, <1>3, <1>4, <1>5, <1>6, <1>8, <2>1 DEF Sits
<1>10. \A a, b : Reflects(L, a, b) <=> Reflects(K, a, b)
  BY <1>1, <1>4, <1>6 DEF Reflects
<1>11. \A u, b : Matches(L, u, b) <=> Matches(K, u, b)
  BY <1>10 DEF Matches
<1> QED
  BY <1>1, <1>3, <1>4, <1>7, <1>9, <1>11

LEMMA LeftParts ==
    \A s, t : TextIn(IrLeft(s, t)) = TextIn(t) /\ FramesIn(IrLeft(s, t)) = FramesIn(s)
<1> SUFFICES ASSUME NEW s, NEW t PROVE TextIn(IrLeft(s, t)) = TextIn(t) /\ FramesIn(IrLeft(s, t)) = FramesIn(s)
  OBVIOUS
<1>1. PICK w, reg, label, frames : w = TextIn(t) /\ reg = RegIn(t) /\ label = LabelIn(t) /\ frames = FramesIn(s)
  OBVIOUS
<1>2. IrLeft(s, t) = Ir(w, reg, label, frames)
  BY <1>1 DEF IrLeft, TextIn, RegIn, LabelIn, FramesIn
<1> QED
  BY <1>1, <1>2, IrParts, IrFrames

\* Where the names have the pointers of the emitter, what is emitted for q does what
\* q does.
IrRuns(C, q) ==
    \A s, K : Sits(s, K) /\ << q, K.sc >> \in C => \A w : Lone(w) => BodyRuns(w, K, q, IrStmts(s, q))

LEMMA IrBodyRuns ==
    ASSUME NEW C, NEW b, IrRuns(C, b), BlockComesOut(b), NEW s, NEW K, Sits(s, K), Standing(Enter(K.sc)),
           << b, Enter(K.sc) >> \in C, NEW body, body = IrLeft(s, IrStmts(IrEntered(s), b))
    PROVE  /\ Written(s, body, {}) /\ Listed(TextIn(body)) /\ FramesIn(body) = FramesIn(s)
           /\ \A w : Lone(w) => BodyRuns(w, K, b, body)
<1>1. PICK L : L = Inner(K)
  OBVIOUS
<1>2. PICK m, t : m = IrEntered(s) /\ t = IrStmts(m, b)
  OBVIOUS
<1>3. Sits(m, L) /\ L.sc = Enter(K.sc) /\ \A u, c : Matches(L, u, c) <=> Matches(K, u, c)
  BY <1>1, <1>2, InnerView
<1>4. TextIn(body) = TextIn(t) /\ FramesIn(body) = FramesIn(s)
  BY <1>2, LeftParts
<1>5. Written(s, body, {})
  BY <1>2, BlockWritten DEF Sits
<1>6. ASSUME NEW w, Lone(w) PROVE BodyRuns(w, K, b, body)
  <2>1. BodyRuns(w, L, b, t)
    BY <1>2, <1>3, <1>6 DEF IrRuns
  <2>2. ASSUME NEW p, NEW q, NEW u, NEW v, IrFollows(w, p, q, L, L, u, v) PROVE IrFollows(w, p, q, K, K, u, v)
    BY <1>3, <2>2 DEF IrFollows
  <2> QED
    BY <1>4, <2>1, <2>2 DEF BodyRuns
<1> QED
  BY <1>4, <1>5, <1>6 DEF Written

\* What is emitted up to the body of a statement.
LEMMA IntoSits ==
    ASSUME NEW Inside, NEW e, NEW s, NEW K, NEW c, OwnIr(Inside, e, s, K, c)
    PROVE  /\ FramesIn(c.s) = FramesIn(s) /\ Sits(c.s, K)
           /\ Sits(IrThen(c), K) /\ FramesIn(IrThen(c)) = FramesIn(s)
           /\ \A t : LabelIn(t) \in Nat => Sits(IrDo(t, c), K) /\ FramesIn(IrDo(t, c)) = FramesIn(s)
<1>1. Sits(s, K) /\ Written(s, c.s, {}) /\ c = IrExpr(s, e) /\ LoadsRight(Inside, e)
  BY DEF OwnIr
<1>2. FramesIn(c.s) = FramesIn(s)
  BY <1>1 DEF LoadsRight
<1>3. Sits(c.s, K)
  BY <1>1, <1>2, SitsOn
<1>4. RegIn(c.s) \in Nat /\ LabelIn(c.s) \in Nat
  BY <1>1 DEF Written, Begins
<1>5. ASSUME NEW t, NEW op, NEW l, NEW r, NEW label
      PROVE  /\ RegIn(Part(t, op, l, r, label)) = RegIn(t) /\ LabelIn(Part(t, op, l, r, label)) = LabelIn(t)
             /\ FramesIn(Part(t, op, l, r, label)) = FramesIn(t)
  <2>1. PICK m, v : m = Emit(t, op, l, r) /\ v = Emit(m, "label", label, None)
    OBVIOUS
  <2>2. Part(t, op, l, r, label) = v
    BY <2>1 DEF Part
  <2> QED
    BY <2>1, <2>2, EmitParts, IrFrames
<1>6. Sits(IrThen(c), K) /\ FramesIn(IrThen(c)) = FramesIn(s)
  <2>1. PICK t : t = Labels(c.s, 2)
    OBVIOUS
  <2>2. RegIn(t) = RegIn(c.s) /\ LabelIn(t) = LabelIn(c.s) + 2 /\ FramesIn(t) = FramesIn(c.s)
    BY <2>1, IrParts, IrFrames DEF Labels, RegIn, LabelIn
  <2>3. PICK d : d = IrThen(c)
    OBVIOUS
  <2>4. \E l, r, label : d = Part(t, "br", l, r, label)
    BY <2>1, <2>3 DEF IrThen
  <2>5. RegIn(d) = RegIn(c.s) /\ LabelIn(d) = LabelIn(c.s) + 2 /\ FramesIn(d) = FramesIn(c.s)
    BY <1>5, <2>2, <2>4
  <2> QED
    BY <1>2, <1>3, <1>4, <2>3, <2>5, SitsLater
<1>7. ASSUME NEW t, LabelIn(t) \in Nat PROVE Sits(IrDo(t, c), K) /\ FramesIn(IrDo(t, c)) = FramesIn(s)
  <2>1. PICK h : h = Continued(IrTurn(t), c.s)
    OBVIOUS
  <2>2. RegIn(h) = RegIn(c.s) /\ LabelIn(h) = LabelIn(c.s) /\ FramesIn(h) = FramesIn(c.s)
    <3>1. PICK z, f : z = c.s /\ f = IrTurn(t).text \o z.text
      OBVIOUS
    <3>2. h = Ir(f, z.reg, z.label, z.frames)
      BY <2>1, <3>1 DEF Continued
    <3> QED
      BY <3>1, <3>2 DEF Ir, RegIn, LabelIn, FramesIn
  <2>3. PICK d : d = IrDo(t, c)
    OBVIOUS
  <2>4. \E l, r, label : d = Part(h, "br", l, r, label)
    BY <2>1, <2>3 DEF IrDo
  <2>5. RegIn(d) = RegIn(c.s) /\ LabelIn(d) = LabelIn(c.s) /\ FramesIn(d) = FramesIn(c.s)
    BY <1>5, <2>2, <2>4
  <2> QED
    BY <1>2, <1>3, <1>4, <2>3, <2>5, SitsLater
<1> QED
  BY <1>2, <1>3, <1>6, <1>7

\* What is emitted in n does what the statement st does, and after it the names have
\* the pointers of the emitter.
OneFollows(K, st, n) ==
    \E L : /\ Sits(n, L) /\ L.sc = After(st, K.sc) /\ \A u, b : Matches(L, u, b) => Matches(K, u, b)
           /\ \A w : Lone(w) => StatementRuns(w, K, L, st, n)
LEMMA IrHeadFollows ==
    ASSUME DeclResets = TRUE,
           NEW T, NEW S, NEW RankT, NEW RankS, NEW Inside, Language(T, S, RankT, RankS, Inside),
           \A e \in T : LoadsRight(Inside, e) /\ ComesOut(e), NEW C, NEW s, NEW K, Sits(s, K),
           NEW st \in S, MeansWell(C, Inside, st, K.sc),
           \A b \in Seq(S) : BodyOf(st, b) => BlockComesOut(b) /\ IrRuns(C, b),
           NEW n, n = NodeIr(s, st), Written(s, n, {})
    PROVE  OneFollows(K, st, n)
<1>1. PICK c : c = IrExpr(IrHead(s, st), OwnExpr(st))
  OBVIOUS
<1>2. PICK into : into = IrInto(s, c, st)
  OBVIOUS
<1>3. PICK body : body = IrLeft(into, IrStmts(IrEntered(into), st.body))
  OBVIOUS
<1>4. n = IrStmtOf(c, body, s, st)
  BY <1>1, <1>2, <1>3 DEF NodeIr
<1>5. Begins(s) /\ Standing(K.sc) /\ Standing(Enter(K.sc))
  BY AfterStands DEF Sits, Language
<1>6. ASSUME After(st, K.sc) = K.sc, FramesIn(n) = FramesIn(s), \A w : Lone(w) => StatementRuns(w, K, K, st, n)
      PROVE  OneFollows(K, st, n)
  <2>1. Sits(n, K)
    BY <1>6, SitsOn
  <2> QED
    BY <1>6, <2>1 DEF OneFollows
<1>7. ASSUME \A w, p : Stands(w, p, TextIn(n)) =>
                \A u : Going(u) /\ FuelIn(u) # 0 => IrFollows(w, p, p + Len(TextIn(n)), K, K, u, NodeExec(st, u))
      PROVE  \A w : Lone(w) => StatementRuns(w, K, K, st, n)
  <2>1. \A u : FuelIn(NodeExec(st, u)) # 0 => FuelIn(u) # 0
    BY RunForm
  <2> QED
    BY <1>7, <2>1 DEF StatementRuns
<1>8. ASSUME NEW t, Sits(t, K), NEW e \in T, InScope(Inside, e, K.sc), c = IrExpr(t, e) PROVE OwnIr(Inside, e, t, K, c)
  <2>1. Written(t, IrExpr(t, e).s, {})
    BY <1>8 DEF ComesOut, Sits
  <2> QED
    BY <1>8, <2>1 DEF OwnIr
<1>9. ASSUME Sits(into, K), NEW b \in Seq(S), BodyOf(st, b), st.body = b
      PROVE  /\ Listed(TextIn(body)) /\ FramesIn(body) = FramesIn(into)
             /\ \A w : Lone(w) => BodyRuns(w, K, b, body)
  <2>1. << b, Enter(K.sc) >> \in C /\ BlockComesOut(b) /\ IrRuns(C, b)
    BY <1>9 DEF MeansWell
  <2> QED
    BY <1>3, <1>5, <1>9, <2>1, IrBodyRuns
<1>10. CASE \E m \in Names, k \in Nat : st = Decl(m, k)
  <2>1. PICK m \in Names, k \in Nat : st = Decl(m, k)
    BY <1>10
  <2>2. st.k = "decl" /\ st.name = m /\ st.scope = k
    BY <2>1 DEF Decl
  <2>3. Anew(K.sc, m, k)
    BY <2>1 DEF MeansWell
  <2>4. PICK ptr, L : /\ ptr = Alias(m, RegIn(s))
                      /\ L = View(Declared(K.sc, m, k), DeclareAs(K.frames, m, ptr), K.seen \cup {ptr})
    OBVIOUS
  <2>5. /\ Sits(n, L)
        /\ \A w, p : Stands(w, p, TextIn(n)) =>
              \A u : Going(u) /\ FuelIn(u) # 0 => IrFollows(w, p, p + Len(TextIn(n)), K, L, u, NodeExec(st, u))
    BY <1>4, <2>1, <2>3, <2>4, IrDeclFollows
  <2>6. \A a, b : Reflects(L, a, b) => Reflects(K, a, b)
    <3>1. /\ \A a, b : Reflects(K, a, b) => Reflects(L, Put(a, << m, k >>, 0), Put(b, ptr, 0))
          /\ \A a, b : Reflects(L, a, b) => Reflects(K, a, b)
          /\ Framed(L.frames, L.sc, L.seen, RegIn(s) + 1) /\ Renames(L.frames, L.sc)
      <4>1. /\ Sits(s, K) /\ m \in Names /\ k \in Nat /\ Anew(K.sc, m, k) /\ ptr = Alias(m, RegIn(s))
            /\ L = View(Declared(K.sc, m, k), DeclareAs(K.frames, m, ptr), K.seen \cup {ptr})
        BY <2>1, <2>3, <2>4
      <4> QED
        BY ONLY <4>1, ReflectsAnew
    <3> QED
      BY ONLY <3>1
  <2>7. \A u, b : Matches(L, u, b) => Matches(K, u, b)
    BY <2>6 DEF Matches
  <2>8. L.sc = After(st, K.sc)
    BY <2>2, <2>4, ViewIs DEF ViewParts, After
  <2>9. \A w : Lone(w) => StatementRuns(w, K, L, st, n)
    <3>1. \A u : FuelIn(NodeExec(st, u)) # 0 => FuelIn(u) # 0
      BY RunForm
    <3> QED
      BY <2>5, <3>1 DEF StatementRuns
  <2> QED
    BY <2>5, <2>7, <2>8, <2>9 DEF OneFollows
<1>11. CASE \E m \in Names, k \in Nat, e \in T : st = Assign(m, k, e)
  <2>1. PICK m \in Names, k \in Nat, e \in T : st = Assign(m, k, e)
    BY <1>11
  <2>2. st.k = "assign" /\ st.name = m /\ st.e = e
    BY <2>1, StatementKinds
  <2>3. OwnExpr(st) = e /\ InScope(Inside, e, K.sc) /\ Resolved(K.sc, m, k)
    BY <2>1, <2>2 DEF OwnExpr, HasBody, MeansWell, OwnExprs
  <2>4. OwnIr(Inside, e, s, K, c)
    <3>1. c = IrExpr(s, e)
      BY <1>1, <2>2, <2>3 DEF IrHead
    <3> QED
      BY <1>8, <2>3, <3>1
  <2>5. PICK z : z = LookedUp(FramesIn(s), m)
    OBVIOUS
  <2>6. n = Emit(c.s, "store", c.v, z) /\ After(st, K.sc) = K.sc
    BY <1>4, <2>2, <2>5 DEF IrStmtOf, After, FramesIn
  <2>7. FramesIn(n) = FramesIn(s)
    BY <2>4, <2>6, IntoSits, IrFrames
  <2>8. \A w, p : Stands(w, p, TextIn(n)) =>
           \A u : Going(u) /\ FuelIn(u) # 0 => IrFollows(w, p, p + Len(TextIn(n)), K, K, u, NodeExec(st, u))
    BY <2>1, <2>3, <2>4, <2>5, <2>6, IrAssignFollows
  <2> QED
    BY <1>6, <1>7, <2>6, <2>7, <2>8
<1>12. CASE \E e \in T : st = PrintOf(e)
  <2>1. PICK e \in T : st = PrintOf(e)
    BY <1>12
  <2>2. st.k = "print" /\ st.e = e
    BY <2>1, StatementKinds
  <2>3. OwnExpr(st) = e /\ InScope(Inside, e, K.sc)
    BY <2>2 DEF OwnExpr, HasBody, MeansWell, OwnExprs
  <2>4. OwnIr(Inside, e, s, K, c)
    <3>1. c = IrExpr(s, e)
      BY <1>1, <2>2, <2>3 DEF IrHead
    <3> QED
      BY <1>8, <2>3, <3>1
  <2>5. n = Emit(c.s, "print", c.v, None) /\ After(st, K.sc) = K.sc
    BY <1>4, <2>2 DEF IrStmtOf, After
  <2>6. FramesIn(n) = FramesIn(s)
    BY <2>4, <2>5, IntoSits, IrFrames
  <2>7. \A w, p : Stands(w, p, TextIn(n)) =>
           \A u : Going(u) /\ FuelIn(u) # 0 => IrFollows(w, p, p + Len(TextIn(n)), K, K, u, NodeExec(st, u))
    BY <2>1, <2>4, <2>5, IrPrintFollows
  <2> QED
    BY <1>6, <1>7, <2>5, <2>6, <2>7
<1>13. CASE \E b \in Seq(S) : st = Block(b)
  <2>1. PICK b \in Seq(S) : st = Block(b)
    BY <1>13
  <2>2. st.k = "block" /\ st.body = b /\ BodyOf(st, b)
    BY <2>1, StatementKinds DEF BodyOf
  <2>3. into = s /\ n = body /\ After(st, K.sc) = K.sc
    BY <1>2, <1>4, <2>2 DEF IrInto, IrStmtOf, After
  <2>4. FramesIn(body) = FramesIn(s) /\ \A w : Lone(w) => BodyRuns(w, K, b, body)
    BY <1>9, <2>2, <2>3
  <2>5. ASSUME NEW w, Lone(w) PROVE StatementRuns(w, K, K, st, n)
    <3>1. BodyRuns(w, K, b, n)
      BY <2>3, <2>4, <2>5
    <3>2. ASSUME NEW u, FuelIn(NodeExec(st, u)) # 0 PROVE NodeExec(st, u) = ExecBlock(b, u)
      <4>1. FuelIn(u) # 0
        BY <3>2, RunForm
      <4> QED
        BY <2>1, <4>1, ExecIs
    <3> QED
      BY <3>1, <3>2 DEF BodyRuns, StatementRuns
  <2> QED
    BY <1>6, <2>3, <2>4, <2>5
<1>14. CASE \E e \in T, b \in Seq(S) : st = If(e, b) \/ st = While(e, b)
  <2>1. PICK e \in T, b \in Seq(S) : st = If(e, b) \/ st = While(e, b)
    BY <1>14
  <2>2. st.k \in {"if", "while"} /\ st.cond = e /\ st.body = b /\ BodyOf(st, b)
    BY <2>1, StatementKinds DEF BodyOf
  <2>3. OwnExpr(st) = e /\ InScope(Inside, e, K.sc) /\ After(st, K.sc) = K.sc
    BY <2>2 DEF OwnExpr, HasBody, MeansWell, OwnExprs, After
  <2>4. CASE st = If(e, b)
    <3>1. st.k = "if"
      BY <2>4, StatementKinds
    <3>2. OwnIr(Inside, e, s, K, c)
      <4>1. c = IrExpr(s, e)
        BY <1>1, <2>3, <3>1 DEF IrHead
      <4> QED
        BY <1>8, <2>3, <4>1
    <3>3. into = IrThen(c) /\ n = IrEndIf(c, body)
      BY <1>2, <1>4, <3>1 DEF IrInto, IrStmtOf
    <3>4. Sits(into, K) /\ FramesIn(into) = FramesIn(s)
      BY <3>2, <3>3, IntoSits
    <3>5. Listed(TextIn(body)) /\ FramesIn(body) = FramesIn(s) /\ \A w : Lone(w) => BodyRuns(w, K, b, body)
      BY <1>9, <2>2, <3>4
    <3>6. FramesIn(n) = FramesIn(body)
      <4>1. PICK m, end : m = Continued(IrThen(c), body) /\ end = c.s.label + 1
        OBVIOUS
      <4>2. n = Part(m, "jmp", end, None, end)
        BY <3>3, <4>1 DEF IrEndIf
      <4> QED
        BY <4>1, <4>2, IrFrames DEF Part
    <3>7. \A w : Lone(w) => StatementRuns(w, K, K, st, n)
      BY <2>4, <3>2, <3>3, <3>5, IrIfFollows
    <3> QED
      BY <1>6, <2>3, <3>5, <3>6, <3>7
  <2>5. CASE st = While(e, b)
    <3>1. st.k = "while"
      BY <2>5, StatementKinds
    <3>2. PICK turn : turn = IrTurn(s)
      OBVIOUS
    <3>3. /\ LabelIn(s) \in Nat /\ Written(s, turn, {LabelIn(s) + 1, LabelIn(s) + 2})
          /\ Listed(TextIn(turn)) /\ FramesIn(turn) = FramesIn(s)
      <4>1. LabelIn(s) \in Nat /\ Written(s, turn, {LabelIn(s) + 1, LabelIn(s) + 2})
        BY <1>5, <3>2, TurnComesOut
      <4>2. PICK m, k : m = Labels(Nothing(s), 3) /\ k = s.label
        OBVIOUS
      <4>3. turn = Part(m, "jmp", k, None, k)
        BY <3>2, <4>2 DEF IrTurn
      <4> QED
        BY <4>1, <4>2, <4>3, IrFrames DEF Part, Written
    <3>4. Sits(turn, K)
      BY <3>3, SitsOn
    <3>5. OwnIr(Inside, e, turn, K, c)
      <4>1. c = IrExpr(turn, e)
        BY <1>1, <2>3, <3>1, <3>2 DEF IrHead
      <4> QED
        BY <1>8, <2>3, <3>4, <4>1
    <3>6. into = IrDo(s, c) /\ n = IrEndWhile(s, c, body)
      BY <1>2, <1>4, <3>1 DEF IrInto, IrStmtOf
    <3>7. Sits(into, K) /\ FramesIn(into) = FramesIn(s)
      BY <3>3, <3>5, <3>6, IntoSits
    <3>8. Listed(TextIn(body)) /\ FramesIn(body) = FramesIn(s) /\ \A w : Lone(w) => BodyRuns(w, K, b, body)
      BY <1>9, <2>2, <3>7
    <3>9. FramesIn(n) = FramesIn(body)
      <4>1. PICK m, k : m = Continued(IrDo(s, c), body) /\ k = s.label
        OBVIOUS
      <4>2. \E l : n = Part(m, "jmp", k, None, l)
        BY <3>6, <4>1 DEF IrEndWhile
      <4> QED
        BY <4>1, <4>2, IrFrames DEF Part
    <3>10. (\A u : \A k \in Nat : Loop(st, u, k) = NodeLoop(st, u, k)) /\ Lasts(b)
      BY HeadRuns, AllLast
    <3>11. \A w : Lone(w) => StatementRuns(w, K, K, st, n)
      BY <1>5, <2>5, <3>2, <3>3, <3>5, <3>6, <3>8, <3>10, LoopDepthAssumption, IrWhileFollows
    <3> QED
      BY <1>6, <2>3, <3>8, <3>9, <3>11
  <2> QED
    BY <2>1, <2>4, <2>5
<1>15. StatementOver(T, S, st)
  BY DEF AllStatements, Language
<1> QED
  BY <1>10, <1>11, <1>12, <1>13, <1>14, <1>15 DEF StatementOver

\* The induction over the statements.
LEMMA AllIrRuns ==
    ASSUME DeclResets = TRUE,
           NEW T, NEW S, NEW RankT, NEW RankS, NEW Inside, Language(T, S, RankT, RankS, Inside),
           \A e \in T : IrOf(e), \A q \in Seq(S) : IrOfBlock(q), NEW C, Lexical(C, S, Inside)
    PROVE  \A q \in Seq(S) : IrRuns(C, q) /\ BlockComesOut(q)
<1>1. RankS \in [Seq(S) -> Nat] /\ AllExpressions(T, RankT, Inside) /\ AllStatements(T, S, RankS)
  BY DEF Language, AllStatements
<1>2. \A e \in T : ComesOut(e)
  BY <1>1, ExpressionsComeOut
<1>3. \A e \in T : LoadsRight(Inside, e)
  <2>1. \A e \in T : Evaluated(e) /\ IrOf(e)
    BY DEF Language
  <2> QED
    BY <1>1, <2>1, AllLoadRight
<1>4. \A q \in Seq(S) : BlockComesOut(q)
  BY <1>1, <1>2, BlocksComeOut
<1>5. PICK Q : Q = Seq(S)
  OBVIOUS
<1>6. PICK W : W = {q \in Q : IrRuns(C, q)}
  OBVIOUS
<1>7. ASSUME NEW q \in Q, \A b \in Q : RankS[b] < RankS[q] => b \in W PROVE q \in W
  <2> SUFFICES ASSUME NEW s, NEW K, Sits(s, K), << q, K.sc >> \in C, NEW w, Lone(w), NEW r, r = IrStmts(s, q)
               PROVE  BodyRuns(w, K, q, r)
    BY <1>6 DEF IrRuns
  <2>1. PICK st, n : st = Head(q) /\ n = NodeIr(s, st)
    OBVIOUS
  <2>2. PICK rest : rest = IrStmts(n, Tail(q))
    OBVIOUS
  <2>3. r = IrOneByOne(n, rest, s, q)
    BY <1>5, <2>1, <2>2 DEF IrOfBlock
  <2>4. CASE q = << >>
    <3>1. TextIn(r) = << >>
      BY <2>3, <2>4, IrTexts DEF IrOneByOne
    <3>2. \A u : ExecBlock(q, u) = u
      BY <2>4, HeadRuns
    <3>3. ASSUME NEW p, Stands(w, p, TextIn(r)), NEW u
          PROVE  IrFollows(w, p, p + Len(TextIn(r)), K, K, u, ExecBlock(q, u))
      <4>1. p \in Nat /\ Len(TextIn(r)) = 0
        BY <3>1, <3>3 DEF Stands
      <4>2. p + Len(TextIn(r)) = p
        BY <4>1
      <4>3. IrFollows(w, p, p, K, K, u, u)
        BY JumpsFollow
      <4> QED
        BY <3>2, <4>2, <4>3
    <3> QED
      BY <3>3 DEF BodyRuns
  <2>5. CASE q # << >>
    <3>1. /\ st \in S /\ Tail(q) \in Seq(S) /\ RankS[Tail(q)] < RankS[q]
          /\ \A b : BodyOf(st, b) => RankS[b] < RankS[q]
      BY <1>1, <1>5, <2>1, <2>5, ListParts
    <3>2. PICK tail : tail = Tail(q)
      OBVIOUS
    <3>3. Standing(K.sc) /\ Begins(s)
      BY DEF Sits
    <3>4. MeansWell(C, Inside, st, K.sc) /\ << tail, After(st, K.sc) >> \in C
      BY <1>5, <2>1, <2>5, <3>2, <3>3 DEF Lexical
    <3>5. \A b \in Seq(S) : BodyOf(st, b) => BlockComesOut(b) /\ IrRuns(C, b)
      BY <1>4, <1>5, <1>6, <1>7, <3>1
    <3>6. Written(s, n, {})
      BY <1>1, <1>2, <2>1, <3>1, <3>3, <3>5, StatementComesOut
    <3>7. OneFollows(K, st, n)
      <4>1. \A e \in T : LoadsRight(Inside, e) /\ ComesOut(e)
        BY <1>2, <1>3
      <4> QED
        BY <2>1, <3>1, <3>4, <3>5, <3>6, <4>1, IrHeadFollows
    <3>8. PICK L : /\ Sits(n, L) /\ L.sc = After(st, K.sc) /\ \A u, b : Matches(L, u, b) => Matches(K, u, b)
                   /\ StatementRuns(w, K, L, st, n)
      BY <3>7 DEF OneFollows
    <3>9. BodyRuns(w, L, tail, rest)
      <4>1. IrRuns(C, tail)
        BY <1>5, <1>6, <1>7, <3>1, <3>2
      <4> QED
        BY <2>2, <3>2, <3>4, <3>8, <4>1 DEF IrRuns
    <3>10. Listed(TextIn(n)) /\ Listed(TextIn(rest))
      <4>1. BlockComesOut(tail) /\ Begins(n)
        BY <1>4, <3>1, <3>2, <3>8 DEF Sits
      <4>2. Written(n, rest, {})
        BY <2>2, <3>2, <4>1 DEF BlockComesOut
      <4> QED
        BY <3>6, <4>2 DEF Written
    <3>11. r = Continued(n, rest)
      BY <2>3, <2>5 DEF IrOneByOne
    <3>12. \A v, p : Stands(v, p, TextIn(r)) =>
              /\ Stands(v, p, TextIn(n)) /\ Stands(v, p + Len(TextIn(n)), TextIn(rest))
              /\ p + Len(TextIn(r)) = (p + Len(TextIn(n))) + Len(TextIn(rest))
      BY <3>10, <3>11, ContinuedStands
    <3>13. ASSUME NEW p, Stands(w, p, TextIn(r)), NEW u, Going(u), FuelIn(ExecBlock(q, u)) # 0
           PROVE  IrFollows(w, p, p + Len(TextIn(r)), K, K, u, ExecBlock(q, u))
      <4>1. PICK v, x : v = NodeExec(st, u) /\ x = ExecBlock(tail, v)
        OBVIOUS
      <4>2. ExecBlock(q, u) = x
        <5>1. q \in Seq(S)
          BY <1>5
        <5> QED
          BY <2>1, <2>5, <3>2, <4>1, <5>1, HeadRuns
      <4>3. Going(v)
        <5>1. PICK one : one = << st >>
          OBVIOUS
        <5>2. one \in Seq(S) /\ ExecBlock(one, u) = v
          BY <3>1, <4>1, <5>1, HeadRuns
        <5> QED
          BY <3>13, <5>2, AllLast DEF Lasts
      <4>4. FuelIn(v) # 0
        <5>1. Lasts(tail)
          BY <3>1, <3>2, AllLast
        <5>2. FuelIn(v) = 0 => x = v
          BY <4>1, <5>1 DEF Lasts
        <5> QED
          BY <3>13, <4>2, <5>2
      <4>5. PICK i, end : i = p + Len(TextIn(n)) /\ end = p + Len(TextIn(r))
        OBVIOUS
      <4>6. Stands(w, p, TextIn(n)) /\ Stands(w, i, TextIn(rest)) /\ end = i + Len(TextIn(rest))
        BY <3>12, <3>13, <4>5
      <4>7. IrFollows(w, p, i, K, L, u, v)
        BY <3>8, <3>13, <4>1, <4>4, <4>5, <4>6 DEF StatementRuns
      <4>8. IrFollows(w, i, end, L, L, v, x)
        BY <3>9, <3>13, <4>1, <4>2, <4>3, <4>6 DEF BodyRuns
      <4>9. IrFollows(w, p, end, K, L, u, x)
        BY <4>7, <4>8, FollowsOn
      <4>10. IrFollows(w, p, end, K, K, u, x)
        BY <3>8, <4>9 DEF IrFollows
      <4> QED
        BY <4>2, <4>5, <4>10
    <3> QED
      BY <3>13 DEF BodyRuns
  <2> QED
    BY <2>4, <2>5
<1>8. Q \subseteq W
  <2>1. RankS \in [Q -> Nat] /\ \A q \in Q : (\A b \in Q : RankS[b] < RankS[q] => b \in W) => q \in W
    BY <1>1, <1>5, <1>7
  <2> QED
    BY ONLY <2>1, EveryMember
<1> QED
  BY <1>4, <1>5, <1>6, <1>8

-----------------------------------------------------------------------------
(***************************************************************************)
(* What LLVM runs of a file.                                               *)
(***************************************************************************)
\* The scopes b are those of a in one more, in which nothing is declared.
Widened(a, b) ==
    /\ IsScopes(a) /\ IsScopes(b) /\ Depth(b) = Depth(a) + 1
    /\ \A i \in 1 .. Depth(a), n \in Names : Held(b, i + 1, n) = Held(a, i, n)
    /\ \A n \in Names : Held(b, 1, n) = Absent

LEMMA WidenedParts ==
    ASSUME NEW a, NEW b, Widened(a, b), NEW d, d = Depth(a)
    PROVE  /\ d \in Nat
           /\ \A i \in 1 .. d : i + 1 \in 1 .. d + 1
           /\ \A i \in 1 .. d, n \in Names : Has(b, i + 1, n) <=> Has(a, i, n)
           /\ \A i \in 1 .. d, n \in Names : Key(b, i + 1, n) = Key(a, i, n)
           /\ \A j \in 1 .. d + 1, n \in Names : Has(b, j, n) => j - 1 \in 1 .. d /\ (j - 1) + 1 = j
<1>1. d \in Nat
  BY StackParts DEF Widened, IsScopes
<1>2. \A i \in 1 .. d : i + 1 \in 1 .. d + 1
  BY <1>1
<1>3. \A i \in 1 .. d, n \in Names : (Has(b, i + 1, n) <=> Has(a, i, n)) /\ Key(b, i + 1, n) = Key(a, i, n)
  BY DEF Widened, Has, Key
<1>4. ASSUME NEW j \in 1 .. d + 1, NEW n \in Names, Has(b, j, n) PROVE j - 1 \in 1 .. d /\ (j - 1) + 1 = j
  <2>1. j # 1
    BY <1>4 DEF Widened, Has
  <2> QED
    BY <1>1, <2>1
<1> QED
  BY <1>1, <1>2, <1>3, <1>4

\* A name has the same meaning there.
LEMMA WidenedNames ==
    ASSUME NEW a, NEW b, Widened(a, b)
    PROVE  /\ \A n, id : Resolved(a, n, id) => Resolved(b, n, id)
           /\ Depth(a) > 0 => \A n \in Names : \A id : Anew(a, n, id) => Anew(b, n, id)
<1>1. PICK d : d = Depth(a)
  OBVIOUS
<1>2. IsScopes(a) /\ IsScopes(b) /\ Depth(b) = d + 1
  BY <1>1 DEF Widened
<1>3. /\ d \in Nat /\ \A i \in 1 .. d : i + 1 \in 1 .. d + 1
      /\ \A i \in 1 .. d, n \in Names : (Has(b, i + 1, n) <=> Has(a, i, n)) /\ Key(b, i + 1, n) = Key(a, i, n)
      /\ \A j \in 1 .. d + 1, n \in Names : Has(b, j, n) => j - 1 \in 1 .. d /\ (j - 1) + 1 = j
  BY <1>1, WidenedParts
<1>4. ASSUME NEW n \in Names, NEW id, Resolved(a, n, id) PROVE Resolved(b, n, id)
  <2>1. PICK i : i = Frame(a, n)
    OBVIOUS
  <2>2. /\ i # 0 /\ i \in 1 .. d /\ Has(a, i, n) /\ \A j \in 1 .. d : j > i => ~Has(a, j, n)
        /\ Lookup(a, n) = Held(a, i, n)
    <3>1. i # 0
      BY <1>4, <2>1 DEF Resolved
    <3>2. Stack(a, Bindings)
      BY <1>2 DEF IsScopes
    <3> QED
      BY <1>1, <2>1, <3>1, <3>2, InnerFrame
  <2>3. PICK k : k = i + 1
    OBVIOUS
  <2>4. k \in 1 .. d + 1 /\ Has(b, k, n) /\ k # 0
    BY <1>3, <2>2, <2>3
  <2>5. ASSUME NEW j \in 1 .. d + 1, j > k PROVE ~Has(b, j, n)
    <3> SUFFICES ASSUME Has(b, j, n) PROVE FALSE
      OBVIOUS
    <3>1. PICK m : m = j - 1
      OBVIOUS
    <3>2. m \in 1 .. d /\ m + 1 = j
      BY <1>3, <3>1
    <3>3. Has(a, m, n)
      BY <1>3, <3>2
    <3>4. m > i
      BY <1>3, <2>2, <2>3, <2>5, <3>2
    <3> QED
      BY <2>2, <3>2, <3>3, <3>4
  <2>6. Frame(b, n) = k
    <3>1. Stack(b, Bindings) /\ k \in 1 .. Depth(b) /\ \A j \in 1 .. Depth(b) : j > k => ~Has(b, j, n)
      BY <1>2, <2>4, <2>5 DEF IsScopes
    <3> QED
      BY ONLY <1>4, <2>4, <3>1, FrameIs
  <2>7. Lookup(b, n) = Held(b, k, n)
    <3>1. Stack(b, Bindings) /\ Frame(b, n) # 0
      BY <1>2, <2>4, <2>6 DEF IsScopes
    <3> QED
      BY <2>6, <3>1, InnerFrame
  <2>8. Held(b, k, n) = Held(a, i, n)
    BY <1>1, <2>2, <2>3 DEF Widened
  <2> QED
    BY <1>4, <2>2, <2>4, <2>6, <2>7, <2>8 DEF Resolved
<1>5. ASSUME d > 0, NEW n \in Names, NEW id, Anew(a, n, id) PROVE Anew(b, n, id)
  <2>1. ~Has(a, d, n) /\ \A i \in 1 .. d : Has(a, i, n) => Key(a, i, n) # << n, id >>
    BY <1>1, <1>5 DEF Anew
  <2>2. d \in 1 .. d
    BY <1>3, <1>5
  <2>3. ~Has(b, d + 1, n)
    BY <1>3, <2>1, <2>2
  <2>4. ASSUME NEW j \in 1 .. d + 1, Has(b, j, n) PROVE Key(b, j, n) # << n, id >>
    <3>1. PICK i : i = j - 1
      OBVIOUS
    <3>2. i \in 1 .. d /\ i + 1 = j
      BY <1>3, <2>4, <3>1
    <3>3. Has(a, i, n) /\ Key(a, i, n) = Key(b, j, n)
      BY <1>3, <2>4, <3>2
    <3> QED
      BY <2>1, <3>2, <3>3
  <2> QED
    BY <1>2, <2>3, <2>4 DEF Anew
<1>6. \A n, id : Resolved(a, n, id) => Resolved(b, n, id)
  BY <1>4 DEF Resolved
<1> QED
  BY <1>1, <1>5, <1>6

LEMMA WidenedOn ==
    ASSUME NEW a, NEW b, Widened(a, b)
    PROVE  /\ Widened(Enter(a), Enter(b))
           /\ Depth(a) > 0 => \A n \in Names, id \in Nat : Widened(Declared(a, n, id), Declared(b, n, id))
<1>1. PICK d : d = Depth(a)
  OBVIOUS
<1>2. /\ IsScopes(a) /\ IsScopes(b) /\ Depth(b) = d + 1
      /\ \A i \in 1 .. d, n \in Names : Held(b, i + 1, n) = Held(a, i, n)
      /\ \A n \in Names : Held(b, 1, n) = Absent
  BY <1>1 DEF Widened
<1>3. d \in Nat
  BY <1>1, WidenedParts
<1>4. Widened(Enter(a), Enter(b))
  <2>1. PICK x, y : x = Enter(a) /\ y = Enter(b)
    OBVIOUS
  <2>2. /\ IsScopes(x) /\ Depth(x) = d + 1
        /\ \A i \in 1 .. d, n \in Names : Held(x, i, n) = Held(a, i, n)
        /\ \A n \in Names : Held(x, d + 1, n) = Absent
    BY <1>1, <1>2, <2>1, EnterParts, EntryKinds DEF IsScopes
  <2>3. /\ IsScopes(y) /\ Depth(y) = (d + 1) + 1
        /\ \A i \in 1 .. d + 1, n \in Names : Held(y, i, n) = Held(b, i, n)
        /\ \A n \in Names : Held(y, (d + 1) + 1, n) = Absent
    BY <1>2, <2>1, EnterParts, EntryKinds DEF IsScopes
  <2>4. ASSUME NEW i \in 1 .. d + 1, NEW n \in Names PROVE Held(y, i + 1, n) = Held(x, i, n)
    <3>1. CASE i = d + 1
      BY <2>2, <2>3, <3>1
    <3>2. CASE i # d + 1
      <4>1. i \in 1 .. d /\ i + 1 \in 1 .. d + 1
        BY <1>3, <3>2
      <4> QED
        BY <1>2, <2>2, <2>3, <4>1
    <3> QED
      BY <3>1, <3>2
  <2>5. ASSUME NEW n \in Names PROVE Held(y, 1, n) = Absent
    <3>1. 1 \in 1 .. d + 1
      BY <1>3
    <3>2. Held(y, 1, n) = Held(b, 1, n)
      BY ONLY <2>3, <3>1
    <3> QED
      BY <1>2, <3>2
  <2> QED
    BY <2>1, <2>2, <2>3, <2>4, <2>5 DEF Widened
<1>5. ASSUME d > 0, NEW n \in Names, NEW id \in Nat PROVE Widened(Declared(a, n, id), Declared(b, n, id))
  <2>1. PICK x, y, c : x = Declared(a, n, id) /\ y = Declared(b, n, id) /\ c = Meaning(id)
    OBVIOUS
  <2>2. c \in Bindings /\ d \in 1 .. d /\ d + 1 \in 1 .. d + 1 /\ Stack(a, Bindings) /\ Stack(b, Bindings)
    BY <1>2, <1>3, <1>5, <2>1, EntryKinds DEF IsScopes
  <2>3. x = SetIn(a, d, n, c) /\ y = SetIn(b, d + 1, n, c)
    BY <1>1, <1>2, <2>1 DEF Declared
  <2>4. /\ IsScopes(x) /\ Depth(x) = d
        /\ \A i \in 1 .. d, m \in Names : Held(x, i, m) = IF i = d /\ m = n THEN c ELSE Held(a, i, m)
    BY <1>1, <1>5, <2>2, <2>3, SetParts DEF IsScopes
  <2>5. /\ IsScopes(y) /\ Depth(y) = d + 1
        /\ \A i \in 1 .. d + 1, m \in Names : Held(y, i, m) = IF i = d + 1 /\ m = n THEN c ELSE Held(b, i, m)
    BY <1>2, <1>5, <2>2, <2>3, SetParts DEF IsScopes
  <2>6. ASSUME NEW i \in 1 .. d, NEW m \in Names PROVE Held(y, i + 1, m) = Held(x, i, m)
    <3>1. i + 1 \in 1 .. d + 1 /\ (i + 1 = d + 1 <=> i = d)
      BY <1>3
    <3>2. Held(b, i + 1, m) = Held(a, i, m)
      BY <1>2
    <3> QED
      BY <2>4, <2>5, <3>1, <3>2
  <2>7. ASSUME NEW m \in Names PROVE Held(y, 1, m) = Absent
    <3>1. 1 \in 1 .. d + 1 /\ 1 # d + 1
      BY <1>3, <1>5
    <3> QED
      BY <1>2, <2>5, <3>1
  <2> QED
    BY <2>1, <2>4, <2>5, <2>6, <2>7 DEF Widened
<1> QED
  BY <1>1, <1>4, <1>5

\* What means well in a means well there.
LEMMA WidenedMeaning ==
    ASSUME NEW T, NEW S, NEW RankS, AllStatements(T, S, RankS), NEW Inside, NEW C, Lexical(C, S, Inside)
    PROVE  \A q \in Seq(S) : \A a, b : Widened(a, b) /\ Depth(a) > 0 /\ << q, a >> \in C => << q, b >> \in C
<1>1. PICK Q : Q = Seq(S)
  OBVIOUS
<1>2. PICK W : W = {q \in Q : \A a, b : Widened(a, b) /\ Depth(a) > 0 /\ << q, a >> \in C => << q, b >> \in C}
  OBVIOUS
<1>3. RankS \in [Q -> Nat]
  BY <1>1 DEF AllStatements
<1>4. ASSUME NEW q \in Q, \A b \in Q : RankS[b] < RankS[q] => b \in W PROVE q \in W
  <2> SUFFICES ASSUME NEW a, NEW b, Widened(a, b), Depth(a) > 0, << q, a >> \in C PROVE << q, b >> \in C
    BY <1>2
  <2>1. Standing(a) /\ Standing(b)
    <3>1. Depth(a) \in Nat
      BY WidenedParts
    <3> QED
      BY <3>1 DEF Widened, Standing
  <2>2. CASE q = << >>
    BY <1>1, <2>1, <2>2 DEF Lexical
  <2>3. CASE q # << >>
    <3>1. PICK st, tail : st = Head(q) /\ tail = Tail(q)
      OBVIOUS
    <3>2. /\ st \in S /\ tail \in Seq(S) /\ RankS[tail] < RankS[q]
          /\ \A p : BodyOf(st, p) => RankS[p] < RankS[q]
      BY <1>1, <2>3, <3>1, ListParts
    <3>3. MeansWell(C, Inside, st, a) /\ << tail, After(st, a) >> \in C
      BY <1>1, <2>1, <2>3, <3>1 DEF Lexical
    <3>4. StatementOver(T, S, st)
      BY <3>2 DEF AllStatements
    <3>5. ASSUME NEW n, NEW id, st = Decl(n, id) PROVE n \in Names /\ id \in Nat
      <4>1. st.k = "decl" /\ st.name = n /\ st.scope = id
        BY <3>5 DEF Decl
      <4>2. PICK m \in Names, k \in Nat : st = Decl(m, k)
        BY <3>4, <4>1, StatementKinds DEF StatementOver
      <4>3. st.name = m /\ st.scope = k
        BY <4>2 DEF Decl
      <4> QED
        BY <4>1, <4>2, <4>3
    <3>6. ASSUME NEW p, BodyOf(st, p) PROVE p \in Seq(S)
      <4>1. st.k \in {"block", "if", "while"} /\ st.body = p
        BY <3>6, StatementKinds DEF BodyOf
      <4>2. CASE \E r \in Seq(S) : st = Block(r)
        BY <4>1, <4>2, StatementKinds
      <4>3. CASE \E c \in T, r \in Seq(S) : st = If(c, r) \/ st = While(c, r)
        BY <4>1, <4>3, StatementKinds
      <4> QED
        BY <3>4, <4>1, <4>2, <4>3, StatementKinds DEF StatementOver
    <3>7. Widened(Enter(a), Enter(b)) /\ Depth(Enter(a)) > 0
      <4>1. Standing(Enter(a))
        BY <2>1, <3>2, AfterStands
      <4> QED
        BY <4>1, WidenedOn DEF Standing
    <3>8. MeansWell(C, Inside, st, b)
      <4>1. \A e \in OwnExprs(st) : InScope(Inside, e, b)
        BY <3>3, WidenedNames DEF MeansWell, InScope
      <4>2. \A n, id : st = Decl(n, id) => Anew(b, n, id)
        BY <3>3, <3>5, WidenedNames DEF MeansWell
      <4>3. \A n, id, e : st = Assign(n, id, e) => Resolved(b, n, id)
        BY <3>3, WidenedNames DEF MeansWell
      <4>4. ASSUME NEW p, BodyOf(st, p) PROVE << p, Enter(b) >> \in C
        <5>1. p \in W
          BY <1>1, <1>4, <3>2, <3>6, <4>4
        <5>2. << p, Enter(a) >> \in C
          BY <3>3, <4>4 DEF MeansWell
        <5> QED
          BY <1>2, <3>7, <5>1, <5>2
      <4> QED
        BY <4>1, <4>2, <4>3, <4>4 DEF MeansWell
    <3>9. Widened(After(st, a), After(st, b)) /\ Depth(After(st, a)) > 0
      <4>1. Standing(After(st, a))
        BY <2>1, <3>2, AfterStands
      <4>2. CASE st.k = "decl"
        <5>1. PICK n \in Names, id \in Nat : st = Decl(n, id)
          BY <3>4, <4>2, StatementKinds DEF StatementOver
        <5>2. After(st, a) = Declared(a, n, id) /\ After(st, b) = Declared(b, n, id)
          BY <4>2, <5>1 DEF After, Decl
        <5> QED
          BY <4>1, <5>2, WidenedOn DEF Standing
      <4>3. CASE st.k # "decl"
        BY <4>1, <4>3 DEF After, Standing
      <4> QED
        BY <4>2, <4>3
    <3>10. tail \in W
      BY <1>1, <1>4, <3>2
    <3>11. << tail, After(st, b) >> \in C
      BY <1>2, <3>3, <3>9, <3>10
    <3> QED
      BY <1>1, <2>1, <3>1, <3>8, <3>11 DEF Lexical
  <2> QED
    BY <2>2, <2>3
<1>5. Q \subseteq W
  <2>1. RankS \in [Q -> Nat] /\ \A q \in Q : (\A b \in Q : RankS[b] < RankS[q] => b \in W) => q \in W
    BY <1>3, <1>4
  <2> QED
    BY ONLY <2>1, EveryMember
<1> QED
  BY <1>1, <1>2, <1>5

\* The emitter has a scope of its own around the programs of a file.
LEMMA WidenedOutside == Widened(Enter(<< >>), Enter(Enter(<< >>)))
<1>1. PICK none, one : none = << >> /\ one = Enter(none)
  OBVIOUS
<1>2. IsScopes(none) /\ Depth(none) = 0 /\ IsScopes(one)
  BY <1>1, Outside DEF Depth
<1>3. /\ Depth(one) = 0 + 1 /\ \A n \in Names : Held(one, 0 + 1, n) = Absent
  BY <1>1, <1>2, EnterParts, EntryKinds DEF IsScopes
<1>4. Widened(none, one)
  <2>1. Depth(one) = Depth(none) + 1
    BY <1>2, <1>3
  <2>2. \A n \in Names : Held(one, 1, n) = Absent
    <3>1. 0 + 1 = 1
      OBVIOUS
    <3> QED
      BY ONLY <1>3, <3>1
  <2>3. \A i \in 1 .. Depth(none) : FALSE
    BY <1>2
  <2> QED
    BY <1>2, <2>1, <2>2, <2>3 DEF Widened
<1>5. Widened(Enter(none), Enter(one))
  BY <1>4, WidenedOn
<1> QED
  BY <1>1, <1>5

\* Where the programs of a file stand.
Outmost == View(Enter(<< >>), EnterScope(<< >>), {})
LEMMA OutmostParts ==
    /\ Outmost.sc = Enter(<< >>)
    /\ \A s : Begins(s) /\ FramesIn(s) = EnterScope(<< >>) => Sits(s, Outmost)
    /\ \A u, b : Matches(Outmost, u, b) <=> Going(u)
<1>1. PICK K, sc, frames, seen : K = Outmost /\ sc = Enter(<< >>) /\ frames = EnterScope(<< >>) /\ seen = {}
  OBVIOUS
<1>2. K.sc = sc /\ K.frames = frames /\ K.seen = seen
  BY <1>1, ViewIs DEF ViewParts, Outmost
<1>3. Renames(frames, sc) /\ Standing(sc) /\ (\A a, b : Mirrored(sc, frames, a, b))
      /\ \A id \in Nat : Framed(frames, sc, seen, id)
  BY <1>1, PairedOutside, FramedOutside
<1>4. ASSUME NEW s, Begins(s), FramesIn(s) = frames PROVE Sits(s, K)
  BY <1>2, <1>3, <1>4 DEF Sits, Begins
<1>5. \A a, b : Reflects(K, a, b)
  BY <1>1, <1>2, <1>3 DEF Reflects
<1>6. \A u, b : Matches(K, u, b) <=> Going(u)
  BY <1>5 DEF Matches
<1> QED
  BY <1>1, <1>2, <1>4, <1>6

\* The programs ps run one after the other from u to v.
Successive(ps, u, v) ==
    \E f : /\ f[0] = u /\ f[Len(ps)] = v
           /\ \A i \in 1 .. Len(ps) : f[i] = ExecBlock(ps[i], Fresh(f[i - 1]))
LEMMA SuccessiveParts ==
    ASSUME NEW S, NEW ps \in Seq(Seq(S)), NEW u, NEW v, Successive(ps, u, v)
    PROVE  /\ ps = << >> => u = v
           /\ ps # << >> => Successive(Tail(ps), ExecBlock(Head(ps), Fresh(u)), v)
<1>1. PICK f : /\ f[0] = u /\ f[Len(ps)] = v
               /\ \A i \in 1 .. Len(ps) : f[i] = ExecBlock(ps[i], Fresh(f[i - 1]))
  BY DEF Successive
<1>2. PICK Q : Q = Seq(S)
  OBVIOUS
<1>3. CASE ps = << >>
  <2>1. Len(ps) = 0
    BY <1>3
  <2> QED
    BY <1>1, <1>3, <2>1
<1>4. CASE ps # << >>
  <2>1. PICK tail, n : tail = Tail(ps) /\ n = Len(tail)
    OBVIOUS
  <2>2. /\ n \in Nat /\ Len(ps) = n + 1 /\ Head(ps) = ps[1] /\ DOMAIN tail = 1 .. n
        /\ \A i \in 1 .. n : tail[i] = ps[i + 1]
    BY <1>2, <1>4, <2>1
  <2>3. PICK g : g = [i \in 0 .. n |-> f[i + 1]]
    OBVIOUS
  <2>4. \A i \in 0 .. n : g[i] = f[i + 1]
    BY <2>3
  <2>5. g[0] = f[1] /\ g[n] = v
    <3>1. 0 \in 0 .. n /\ n \in 0 .. n /\ 0 + 1 = 1
      BY <2>2
    <3> QED
      BY <1>1, <2>2, <2>4, <3>1
  <2>6. f[1] = ExecBlock(Head(ps), Fresh(u))
    <3>1. 1 \in 1 .. Len(ps) /\ 1 - 1 = 0
      BY <2>2
    <3> QED
      BY <1>1, <2>2, <3>1
  <2>7. ASSUME NEW i \in 1 .. n PROVE g[i] = ExecBlock(tail[i], Fresh(g[i - 1]))
    <3>1. PICK j : j = i + 1
      OBVIOUS
    <3>2. j \in 1 .. Len(ps) /\ j - 1 = i /\ i \in 0 .. n /\ i - 1 \in 0 .. n /\ (i - 1) + 1 = i
      BY <2>2, <3>1
    <3>3. g[i] = f[j] /\ g[i - 1] = f[i] /\ tail[i] = ps[j]
      BY <2>2, <2>4, <3>1, <3>2
    <3>4. f[j] = ExecBlock(ps[j], Fresh(f[j - 1]))
      BY <1>1, <3>2
    <3> QED
      BY <3>2, <3>3, <3>4
  <2>8. g[0] = ExecBlock(Head(ps), Fresh(u)) /\ g[Len(tail)] = v
    BY <2>1, <2>5, <2>6
  <2>9. Successive(tail, ExecBlock(Head(ps), Fresh(u)), v)
    BY <2>1, <2>7, <2>8 DEF Successive
  <2> QED
    BY <1>4, <2>1, <2>9
<1> QED
  BY <1>3, <1>4

\* What is emitted for a program, wherever it stands.
LEMMA MainFollows ==
    ASSUME DeclResets = TRUE,
           NEW T, NEW S, NEW RankT, NEW RankS, NEW Inside, Language(T, S, RankT, RankS, Inside),
           \A e \in T : IrOf(e), \A q \in Seq(S) : IrOfBlock(q), NEW C, Lexical(C, S, Inside),
           NEW q \in Seq(S), << q, Enter(<< >>) >> \in C, NEW s, Begins(s), FramesIn(s) = EnterScope(<< >>),
           NEW n, n = Main(s, q)
    PROVE  /\ Begins(n) /\ FramesIn(n) = EnterScope(<< >>) /\ Listed(TextIn(n))
           /\ \A w : Lone(w) => BodyRuns(w, Outmost, q, n)
<1>1. PICK K : K = Outmost
  OBVIOUS
<1>2. Sits(s, K) /\ K.sc = Enter(<< >>)
  BY <1>1, OutmostParts
<1>3. IrRuns(C, q) /\ BlockComesOut(q)
  BY AllIrRuns
<1>4. Standing(Enter(K.sc)) /\ << q, Enter(K.sc) >> \in C
  <2>1. PICK a, b : a = Enter(<< >>) /\ b = Enter(Enter(<< >>))
    OBVIOUS
  <2>2. Widened(a, b) /\ Depth(a) > 0 /\ << q, a >> \in C
    BY <2>1, WidenedOutside, Outside
  <2>3. AllStatements(T, S, RankS)
    BY DEF Language
  <2>4. << q, b >> \in C
    BY <2>2, <2>3, WidenedMeaning
  <2>5. Standing(b)
    <3>1. Depth(b) = Depth(a) + 1 /\ IsScopes(b) /\ Depth(a) \in Nat
      BY <2>2, WidenedParts DEF Widened
    <3> QED
      BY <3>1 DEF Standing
  <2> QED
    BY <1>2, <2>1, <2>4, <2>5
<1>5. n = IrLeft(s, IrStmts(IrEntered(s), q))
  BY DEF Main
<1>6. Written(s, n, {}) /\ Listed(TextIn(n)) /\ FramesIn(n) = FramesIn(s)
      /\ \A w : Lone(w) => BodyRuns(w, K, q, n)
  BY <1>2, <1>3, <1>4, <1>5, IrBodyRuns
<1> QED
  BY <1>1, <1>6 DEF Written

\* What is emitted for programs does what they do, one after the other.
FileRuns(w, ps, t) ==
    \A p : Stands(w, p, TextIn(t)) =>
        \A u, v : Going(u) /\ Successive(ps, u, v) /\ FuelIn(v) # 0 =>
            IrFollows(w, p, p + Len(TextIn(t)), Outmost, Outmost, u, v)
FileGoes(ps) ==
    \A s : Begins(s) /\ FramesIn(s) = EnterScope(<< >>) =>
        /\ Listed(TextIn(IrPrograms(s, ps)))
        /\ \A w : Lone(w) => FileRuns(w, ps, IrPrograms(s, ps))
FileLasts(ps) == \A u, v : Going(u) /\ Successive(ps, u, v) => Going(v) /\ (FuelIn(u) = 0 => FuelIn(v) = 0)

LEMMA AllFilesLast ==
    ASSUME NEW T, NEW S, NEW RankT, NEW RankS, NEW Inside, Language(T, S, RankT, RankS, Inside)
    PROVE  \A ps \in Seq(Seq(S)) : FileLasts(ps)
<1> SUFFICES ASSUME NEW ps \in Seq(Seq(S)), NEW u, NEW v, Going(u), Successive(ps, u, v)
             PROVE  Going(v) /\ (FuelIn(u) = 0 => FuelIn(v) = 0)
  BY DEF FileLasts
<1>1. PICK n, Q : n = Len(ps) /\ Q = Seq(S)
  OBVIOUS
<1>2. n \in Nat /\ \A i \in 1 .. n : ps[i] \in Q
  BY <1>1
<1>3. PICK f : /\ f[0] = u /\ f[n] = v
               /\ \A i \in 1 .. n : f[i] = ExecBlock(ps[i], Fresh(f[i - 1]))
  BY <1>1 DEF Successive
<1>4. PICK W : W = {i \in Nat : i <= n => Going(f[i]) /\ (FuelIn(u) = 0 => FuelIn(f[i]) = 0)}
  OBVIOUS
<1>5. 0 \in W
  BY <1>3, <1>4
<1>6. ASSUME NEW i \in Nat, i \in W PROVE i + 1 \in W
  <2> SUFFICES ASSUME i + 1 <= n PROVE Going(f[i + 1]) /\ (FuelIn(u) = 0 => FuelIn(f[i + 1]) = 0)
    BY <1>4
  <2>1. PICK j : j = i + 1
    OBVIOUS
  <2>2. j \in 1 .. n /\ j - 1 = i
    BY <1>2, <2>1
  <2>3. Going(f[i]) /\ (FuelIn(u) = 0 => FuelIn(f[i]) = 0)
    BY <1>2, <1>4, <1>6
  <2>4. PICK q, x : q = ps[j] /\ x = Fresh(f[i])
    OBVIOUS
  <2>5. Going(x) /\ FuelIn(x) = FuelIn(f[i])
    BY <2>3, <2>4, FreshParts
  <2>6. Lasts(q)
    BY <1>1, <1>2, <2>2, <2>4, AllLast
  <2>7. f[j] = ExecBlock(q, x)
    BY <1>3, <2>2, <2>4
  <2>8. Going(f[j]) /\ (FuelIn(x) = 0 => f[j] = x)
    BY <2>5, <2>6, <2>7 DEF Lasts
  <2> QED
    BY <2>1, <2>3, <2>5, <2>8
<1>7. Nat \subseteq W
  BY <1>5, <1>6, EveryNumber
<1> QED
  BY <1>2, <1>3, <1>4, <1>7

LEMMA FilesGo ==
    ASSUME DeclResets = TRUE,
           NEW T, NEW S, NEW RankT, NEW RankS, NEW Inside, Language(T, S, RankT, RankS, Inside),
           \A e \in T : IrOf(e), \A q \in Seq(S) : IrOfBlock(q), \A ps \in Seq(Seq(S)) : IrOfPrograms(ps),
           NEW C, Lexical(C, S, Inside)
    PROVE  \A ps \in Seq(Seq(S)) : (\A i \in DOMAIN ps : << ps[i], Enter(<< >>) >> \in C) => FileGoes(ps)
<1>1. PICK Q : Q = {q \in Seq(S) : << q, Enter(<< >>) >> \in C}
  OBVIOUS
<1>2. PICK W : W = {n \in Nat : \A ps \in Seq(Q) : Len(ps) = n => FileGoes(ps)}
  OBVIOUS
<1>3. ASSUME NEW n \in Nat, NEW ps \in Seq(Q), Len(ps) = n, n > 0 => n - 1 \in W PROVE FileGoes(ps)
  <2>1. ps \in Seq(Seq(S))
    <3>1. Q \subseteq Seq(S)
      BY <1>1
    <3> QED
      BY <3>1
  <2> SUFFICES ASSUME NEW s, Begins(s), FramesIn(s) = EnterScope(<< >>), NEW r, r = IrPrograms(s, ps)
               PROVE  Listed(TextIn(r)) /\ \A w : Lone(w) => FileRuns(w, ps, r)
    BY DEF FileGoes
  <2>2. PICK q, tail, first : q = Head(ps) /\ tail = Tail(ps) /\ first = Main(s, q)
    OBVIOUS
  <2>3. PICK rest : rest = IrPrograms(first, tail)
    OBVIOUS
  <2>4. r = IrOneByOne(first, rest, s, ps)
    BY <2>1, <2>2, <2>3 DEF IrOfPrograms
  <2>5. CASE ps = << >>
    <3>1. TextIn(r) = << >>
      BY <2>4, <2>5, IrTexts DEF IrOneByOne
    <3>2. Listed(TextIn(r)) /\ Len(TextIn(r)) = 0
      BY <3>1, NoText
    <3>3. ASSUME NEW w, Lone(w), NEW p, Stands(w, p, TextIn(r)), NEW u, NEW v, Successive(ps, u, v)
          PROVE  IrFollows(w, p, p + Len(TextIn(r)), Outmost, Outmost, u, v)
      <4>1. u = v
        BY <2>1, <2>5, <3>3, SuccessiveParts
      <4>2. p \in Nat
        BY <3>3 DEF Stands
      <4>3. p + Len(TextIn(r)) = p
        BY <3>2, <4>2
      <4>4. IrFollows(w, p, p, Outmost, Outmost, u, u)
        BY <3>3, JumpsFollow
      <4> QED
        BY <4>1, <4>3, <4>4
    <3> QED
      BY <3>2, <3>3 DEF FileRuns
  <2>6. CASE ps # << >>
    <3>1. q \in Q /\ tail \in Seq(Q) /\ Len(tail) = n - 1 /\ n > 0
      BY <1>3, <2>2, <2>6
    <3>2. q \in Seq(S) /\ << q, Enter(<< >>) >> \in C
      BY <1>1, <3>1
    <3>3. /\ Begins(first) /\ FramesIn(first) = EnterScope(<< >>) /\ Listed(TextIn(first))
          /\ \A w : Lone(w) => BodyRuns(w, Outmost, q, first)
      BY <2>2, <3>2, MainFollows
    <3>4. FileGoes(tail)
      BY <1>2, <1>3, <3>1
    <3>5. Listed(TextIn(rest)) /\ \A w : Lone(w) => FileRuns(w, tail, rest)
      BY <2>3, <3>3, <3>4 DEF FileGoes
    <3>6. r = Continued(first, rest)
      BY <2>4, <2>6 DEF IrOneByOne
    <3>7. /\ Listed(TextIn(r))
          /\ \A w, p : Stands(w, p, TextIn(r)) =>
                /\ Stands(w, p, TextIn(first)) /\ Stands(w, p + Len(TextIn(first)), TextIn(rest))
                /\ p + Len(TextIn(r)) = (p + Len(TextIn(first))) + Len(TextIn(rest))
      BY <3>3, <3>5, <3>6, ContinuedStands
    <3>8. ASSUME NEW w, Lone(w), NEW p, Stands(w, p, TextIn(r)),
                 NEW u, NEW v, Going(u), Successive(ps, u, v), FuelIn(v) # 0
          PROVE  IrFollows(w, p, p + Len(TextIn(r)), Outmost, Outmost, u, v)
      <4>1. PICK a, x : a = Fresh(u) /\ x = ExecBlock(q, a)
        OBVIOUS
      <4>2. Going(a) /\ OutIn(a) = OutIn(u)
        BY <3>8, <4>1, FreshParts
      <4>3. Going(x)
        <5>1. Lasts(q)
          BY <3>2, AllLast
        <5> QED
          BY <4>1, <4>2, <5>1 DEF Lasts
      <4>4. Successive(tail, x, v)
        BY <2>1, <2>2, <2>6, <3>8, <4>1, SuccessiveParts
      <4>5. FuelIn(x) # 0
        <5>1. tail \in Seq(Seq(S))
          BY <2>1, <2>2, <2>6
        <5>2. FileLasts(tail)
          BY <5>1, AllFilesLast
        <5> QED
          BY <3>8, <4>3, <4>4, <5>2 DEF FileLasts
      <4>6. PICK i, end : i = p + Len(TextIn(first)) /\ end = p + Len(TextIn(r))
        OBVIOUS
      <4>7. Stands(w, p, TextIn(first)) /\ Stands(w, i, TextIn(rest)) /\ end = i + Len(TextIn(rest))
        BY <3>7, <3>8, <4>6
      <4>8. IrFollows(w, p, i, Outmost, Outmost, a, x)
        <5>1. BodyRuns(w, Outmost, q, first)
          BY <3>3, <3>8
        <5> QED
          BY <4>1, <4>2, <4>5, <4>6, <4>7, <5>1 DEF BodyRuns
      <4>9. IrFollows(w, p, i, Outmost, Outmost, u, x)
        <5>1. \A b : Matches(Outmost, a, b) <=> Matches(Outmost, u, b)
          BY <3>8, <4>2, OutmostParts
        <5> QED
          BY <4>2, <4>8, <5>1 DEF IrFollows
      <4>10. IrFollows(w, i, end, Outmost, Outmost, x, v)
        <5>1. FileRuns(w, tail, rest)
          BY <3>5, <3>8
        <5> QED
          BY <3>8, <4>3, <4>4, <4>7, <5>1 DEF FileRuns
      <4>11. IrFollows(w, p, end, Outmost, Outmost, u, v)
        BY <4>9, <4>10, FollowsOn
      <4> QED
        BY <4>6, <4>11
    <3> QED
      BY <3>7, <3>8 DEF FileRuns
  <2> QED
    BY <2>5, <2>6
<1>4. 0 \in W
  <2>1. ASSUME NEW ps \in Seq(Q), Len(ps) = 0 PROVE FileGoes(ps)
    <3>1. PICK n \in Nat : n = 0
      OBVIOUS
    <3>2. Len(ps) = n /\ (n > 0 => n - 1 \in W)
      BY <2>1, <3>1
    <3> QED
      BY ONLY <1>3, <3>2
  <2> QED
    BY <1>2, <2>1
<1>5. ASSUME NEW n \in Nat, n \in W PROVE n + 1 \in W
  <2>1. n + 1 \in Nat /\ (n + 1) - 1 = n
    OBVIOUS
  <2>2. \A ps \in Seq(Q) : Len(ps) = n + 1 => FileGoes(ps)
    BY <1>3, <1>5, <2>1
  <2> QED
    BY <1>2, <2>1, <2>2
<1>6. Nat \subseteq W
  BY <1>4, <1>5, EveryNumber
<1> SUFFICES ASSUME NEW ps \in Seq(Seq(S)), \A i \in DOMAIN ps : << ps[i], Enter(<< >>) >> \in C PROVE FileGoes(ps)
  OBVIOUS
<1>7. ps \in Seq(Q) /\ Len(ps) \in Nat
  <2>1. \A i \in DOMAIN ps : ps[i] \in Q
    BY <1>1
  <2>2. PICK R : R = Seq(S)
    OBVIOUS
  <2>3. ps \in Seq(R)
    BY <2>2
  <2> QED
    BY ONLY <2>1, <2>3, AllMembers
<1> QED
  BY <1>2, <1>6, <1>7

\* The run of a text returns, having printed that.
Completes(text, printed) == \E m : IrReaches(text, IrStart, m) /\ IrReturns(text, m) /\ m.out = printed
\* The LLVM text of a file does what its programs do, one after the other
\* (LlvmEmitter::emit; README.md:153: "source generation backends that consume the
\* same optimized AST"): where they end, the text returns, and has printed what they
\* print, whatever variables, scopes and loops there are.
THEOREM LlvmRuns ==
    ASSUME DeclResets = TRUE,
           NEW T, NEW S, NEW RankT, NEW RankS, NEW Inside, Language(T, S, RankT, RankS, Inside),
           \A e \in T : IrOf(e), \A q \in Seq(S) : IrOfBlock(q), \A ps \in Seq(Seq(S)) : IrOfPrograms(ps),
           NEW C, Lexical(C, S, Inside),
           NEW programs \in Seq(Seq(S)), \A i \in DOMAIN programs : << programs[i], Enter(<< >>) >> \in C,
           NEW fuel \in Nat, NEW runs, InTurn(programs, runs, fuel),
           NEW s, s = runs[Len(programs)], FuelIn(s) # 0,
           NEW text, text = IrEnded(IrPrograms(IrBegun, programs))
    PROVE  Completes(text, OutIn(s))
<1>1. PICK t, body : t = IrPrograms(IrBegun, programs) /\ body = TextIn(t)
  OBVIOUS
<1>2. PICK ret : ret = Line3("ret", None, None, None)
  OBVIOUS
<1>3. text = Append(body, ret)
  BY <1>1, <1>2, EmitParts DEF IrEnded, TextIn
<1>4. Begins(IrBegun) /\ FramesIn(IrBegun) = EnterScope(<< >>)
  <2>1. PICK none, frames : none = << >> /\ frames = << NoScope >>
    OBVIOUS
  <2>2. IrBegun = Ir(none, 0, 0, frames)
    BY <2>1 DEF IrBegun
  <2>3. RegIn(IrBegun) = 0 /\ LabelIn(IrBegun) = 0 /\ FramesIn(IrBegun) = frames
    BY <2>2, IrParts, IrFrames
  <2>4. frames = EnterScope(none)
    BY <2>1 DEF EnterScope
  <2> QED
    BY <2>1, <2>3, <2>4 DEF Begins
<1>5. Lone(text)
  <2>1. AllExpressions(T, RankT, Inside) /\ AllStatements(T, S, RankS)
    BY DEF Language
  <2>2. WellFormed(text)
    BY <2>1, IrIsWellFormed
  <2> QED
    BY <2>2 DEF WellFormed, Lone
<1>6. Listed(body) /\ FileRuns(text, programs, t)
  <2>1. FileGoes(programs)
    BY FilesGo
  <2> QED
    BY <1>1, <1>4, <1>5, <2>1 DEF FileGoes
<1>7. PICK end : end = 1 + Len(body)
  OBVIOUS
<1>8. Stands(text, 1, body) /\ text[end] = ret
  <2>1. PICK A : body \in Seq(A)
    BY <1>6 DEF Listed
  <2>2. PICK B : B = A \cup {ret}
    OBVIOUS
  <2>3. body \in Seq(B) /\ ret \in B
    BY <2>1, <2>2
  <2>4. /\ Len(body) \in Nat /\ DOMAIN text = 1 .. Len(body) + 1
        /\ \A i \in 1 .. Len(body) : text[i] = body[i]
        /\ text[Len(body) + 1] = ret
    BY <1>3, <2>3
  <2>5. \A i \in 1 .. Len(body) : 1 + i - 1 = i /\ i \in DOMAIN text
    BY <2>4
  <2> QED
    BY <1>6, <1>7, <2>4, <2>5 DEF Stands
<1>9. PICK u : u = Started(fuel)
  OBVIOUS
<1>10. Going(u) /\ OutIn(u) = << >>
  BY <1>9 DEF Going, Started, StoreIn, OutIn, FuelIn
<1>11. Successive(programs, u, s)
  BY <1>9 DEF InTurn, Successive
<1>12. IrFollows(text, 1, end, Outmost, Outmost, u, s)
  BY <1>1, <1>6, <1>7, <1>8, <1>10, <1>11 DEF FileRuns
<1>13. PICK none : none = << >>
  OBVIOUS
<1>14. Matches(Outmost, u, none)
  BY <1>10, OutmostParts
<1>15. PICK c : Gets(text, 1, none, OutIn(u), end, c, OutIn(s))
  BY <1>12, <1>14 DEF IrFollows
<1>16. PICK i : IrReaches(text, IrState(1, none, OutIn(u), 0), IrState(end, c, OutIn(s), i))
  BY <1>15 DEF Gets
<1>17. PICK m : m = IrState(end, c, OutIn(s), i)
  OBVIOUS
<1>18. IrStart = IrState(1, none, OutIn(u), 0)
  BY <1>10, <1>13 DEF IrStart
<1>19. m.pc = end /\ m.out = OutIn(s)
  BY <1>17 DEF IrState
<1>20. IrReturns(text, m)
  BY <1>2, <1>8, <1>19 DEF IrReturns, Line3
<1> QED
  BY <1>16, <1>17, <1>18, <1>19, <1>20 DEF Completes

\* Optimizer and LLVM emitter together: where the programs of a file end, the LLVM
\* text of the optimized file returns, and has printed what they print, one after the
\* other (README.md:168: "fully integrated and runnable").
THEOREM LlvmOutput ==
    ASSUME DeclResets = TRUE,
           NEW T, NEW S, NEW RankT, NEW RankS, NEW Inside, Language(T, S, RankT, RankS, Inside),
           \A e \in T : IrOf(e), \A q \in Seq(S) : IrOfBlock(q), \A ps \in Seq(Seq(S)) : IrOfPrograms(ps),
           NEW D, Lexical(D, S, Inside),
           NEW C, WellScoped(C, Inside), NEW W, NEW V, WalkFits(W, V, Inside),
           NEW sources \in Seq(Seq(S)), \A i \in DOMAIN sources : << sources[i], Enter(<< >>) >> \in D \cap C \cap W,
           NEW programs, programs = Optimized(sources),
           NEW fuel \in Nat, NEW runs, InTurn(sources, runs, fuel), FuelIn(runs[Len(sources)]) # 0,
           NEW text, text = IrEnded(IrPrograms(IrBegun, programs))
    PROVE  Completes(text, OutIn(runs[Len(sources)]))
<1>1. /\ programs \in Seq(Seq(S)) /\ \A i \in DOMAIN programs : << programs[i], Enter(<< >>) >> \in D
      /\ EndsAs(programs, fuel, runs[Len(sources)])
  BY OptimizedFile
<1>2. PICK opt : /\ InTurn(programs, opt, fuel)
                 /\ OutIn(opt[Len(programs)]) = OutIn(runs[Len(sources)]) /\ FuelIn(opt[Len(programs)]) # 0
  BY <1>1 DEF EndsAs
<1>3. Completes(text, OutIn(opt[Len(programs)]))
  BY <1>1, <1>2, LlvmRuns
<1> QED
  BY <1>2, <1>3
=============================================================================
